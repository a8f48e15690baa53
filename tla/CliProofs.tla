------------------------------ MODULE CliProofs ------------------------------
(***************************************************************************)
(* Proofs about ConfigStore, for any number of processes that start at the *)
(* same time and may be killed at any point, and about Cli, the program    *)
(* whose processes take its steps.                                         *)
(*                                                                         *)
(* The store: a configuration that is complete stays complete, and a       *)
(* process only runs with a complete one.  As long as no two starts        *)
(* overlap, a start that no system call fails is given up only after an    *)
(* interrupted write; if, besides, no listing misses the configuration,    *)
(* all processes run with one endpoint, and a torn file bars every start.  *)
(*                                                                         *)
(* The program: its steps are steps of the store or leave it alone, so     *)
(* that all of this holds for every command; every command gives the       *)
(* terminal back; and it panics or loses the prompt's history only for the *)
(* causes named.                                                           *)
(***************************************************************************)
EXTENDS Cli, FiniteSetTheorems, TLAPS

Writers == {p \in Processes : pc[p] \in {"creating", "writing"}}

\* Nobody else writes the file that a process is about to write.
OwnFile ==
    \A p, q \in Writers : p # q => endpoint[p] # endpoint[q]

\* The file of a process, by where the process stands.
FileOfProcess ==
    \A p \in Processes :
        /\ pc[p] = "creating" => file[endpoint[p]] = "none"
        /\ pc[p] = "writing" => file[endpoint[p]] = "partial"
        /\ pc[p] = "reading" => file[endpoint[p]] # "none"
        /\ pc[p] = "running" => file[endpoint[p]] = "whole"

\* Only endpoints that were drawn have files.
FilesDrawn == Files \subseteq drawn

\* A process that has run has left its configuration.
IdentityWhole == \A e \in identity : file[e] = "whole"

IInv == TypeOK /\ OwnFile /\ FileOfProcess /\ FilesDrawn /\ IdentityWhole

------------------------------------------------------------------------------
(* The strengthened invariant is inductive. *)
LEMMA Inductive == Spec => []IInv
<1> USE ConfigAssumption DEF ConfigAssumption
<1>1. Init => IInv
  BY DEF Init, IInv, TypeOK, States, OwnFile, Writers, FileOfProcess,
         FilesDrawn, Files, IdentityWhole
<1>2. IInv /\ [Next]_vars => IInv'
  <2> SUFFICES ASSUME IInv, [Next]_vars PROVE IInv'
    OBVIOUS
  <2> USE DEF IInv, TypeOK, States, OwnFile, Writers, FileOfProcess,
              FilesDrawn, Files, IdentityWhole, Goto, Use
  <2>1. ASSUME NEW p \in Processes, Start(p) PROVE IInv'
    BY <2>1 DEF Start
  <2>2. ASSUME NEW p \in Processes, List(p) PROVE IInv'
    <3>0. UNCHANGED <<file, identity, torn, overlap>>
      BY <2>2 DEF List
    <3>1. CASE Draw(p) /\ blind' = (blind \/ Files # {})
      <4>1. PICK e \in Endpoints \ drawn :
                Use(p, e) /\ Goto(p, "creating") /\ drawn' = drawn \cup {e}
        BY <3>1 DEF Draw
      <4> QED
        BY <3>0, <3>1, <4>1
    <3>2. CASE /\ \E e \in Files : Use(p, e)
               /\ Goto(p, "reading")
               /\ UNCHANGED <<drawn, blind>>
      <4>1. PICK e \in Files : Use(p, e)
        BY <3>2
      <4> QED
        BY <3>0, <3>2, <4>1
    <3> QED
      BY <2>2, <3>1, <3>2 DEF List
  <2>3. ASSUME NEW p \in Processes, Truncate(p) PROVE IInv'
    BY <2>3 DEF Truncate
  <2>4. ASSUME NEW p \in Processes, WriteAll(p) PROVE IInv'
    BY <2>4 DEF WriteAll
  <2>5. ASSUME NEW p \in Processes, WriteErr(p) PROVE IInv'
    BY <2>5 DEF WriteErr
  <2>6. ASSUME NEW p \in Processes, Read(p) PROVE IInv'
    BY <2>6 DEF Read
  <2>9. ASSUME NEW p \in Processes, ListErr(p) \/ ReadErr(p) PROVE IInv'
    BY <2>9 DEF ListErr, ReadErr
  <2>7. ASSUME NEW p \in Processes, Kill(p) PROVE IInv'
    BY <2>7 DEF Kill
  <2>8. CASE UNCHANGED vars
    BY <2>8 DEF vars
  <2> QED
    BY <2>1, <2>2, <2>3, <2>4, <2>5, <2>6, <2>7, <2>8, <2>9
       DEF Next, Configure
<1> QED
  BY <1>1, <1>2, PTL DEF Spec

(* A process runs only with a configuration that is completely on disk,    *)
(* however many start at the same time and wherever they are killed.       *)
THEOREM WholeConfig == Spec => []RunsOnWholeConfig
<1>1. IInv => RunsOnWholeConfig
  BY DEF IInv, FileOfProcess, RunsOnWholeConfig
<1> QED
  BY <1>1, Inductive, PTL

(* No step of any process damages a configuration that is complete.        *)
THEOREM ConfigurationIsKept == Spec => WholeStaysWhole
<1> DEFINE Kept == \A e \in Endpoints : file[e] = "whole" => file'[e] = "whole"
<1>1. IInv /\ [Next]_vars => [Kept]_vars
  <2> SUFFICES ASSUME IInv, Next PROVE Kept
    OBVIOUS
  <2> PICK p \in Processes :
          Start(p) \/ Configure(p) \/ Kill(p)
    BY DEF Next
  <2>1. CASE Truncate(p)
    BY <2>1 DEF Truncate, IInv, TypeOK, FileOfProcess
  <2>2. CASE WriteAll(p)
    BY <2>2 DEF WriteAll, IInv, TypeOK
  <2>3. CASE \/ Start(p) \/ List(p) \/ Read(p) \/ Kill(p)
             \/ ListErr(p) \/ WriteErr(p) \/ ReadErr(p)
    BY <2>3 DEF Start, List, Read, Kill, ListErr, WriteErr, ReadErr
  <2> QED
    BY <2>1, <2>2, <2>3 DEF Configure
<1> QED
  BY <1>1, Inductive, PTL DEF Spec, WholeStaysWhole

------------------------------------------------------------------------------
\* The start of a process is over before the next one begins.
OneStarts ==
    \A p, q \in Processes :
        pc[p] \in Starting /\ pc[q] \in Starting => p = q

\* There is at most one configuration, and none when one is created.
OneFile ==
    /\ \A e, f \in Files : e = f
    /\ \A p \in Processes : pc[p] = "creating" => Files = {}

\* Without an interrupted write, a partial file is still being written.
PartialIsWritten ==
    ~torn => /\ \A p \in Processes : pc[p] # "failed"
             /\ \A e \in Endpoints :
                   file[e] = "partial" =>
                       \E p \in Processes : pc[p] = "writing" /\ endpoint[p] = e

Alone ==
    ~overlap => OneStarts /\ PartialIsWritten /\ (~blind => OneFile)

(* As long as no two starts overlap, a partial file has a writer; and if   *)
(* no listing misses it, there is one configuration at most.               *)
LEMMA AloneInductive == Spec => []Alone
<1> USE ConfigAssumption DEF ConfigAssumption
<1>1. Init => Alone
  BY DEF Init, Alone, OneStarts, OneFile, PartialIsWritten, Files, Starting
<1>2. IInv /\ Alone /\ [Next]_vars => Alone'
  <2> SUFFICES ASSUME IInv, Alone, [Next]_vars, ~overlap'
               PROVE  OneStarts' /\ PartialIsWritten' /\ (~blind' => OneFile')
    BY DEF Alone
  <2>a. TypeOK /\ FileOfProcess
    BY DEF IInv
  <2>b. /\ ~overlap
        /\ ~blind' => ~blind
    BY DEF Next, Configure, vars, Start, List, Truncate, WriteAll, Read, Kill,
           ListErr, WriteErr, ReadErr, IInv, TypeOK
  <2>c. OneStarts /\ PartialIsWritten /\ (~blind => OneFile)
    BY <2>b DEF Alone
  <2> DEFINE Goal == OneStarts' /\ PartialIsWritten' /\ (~blind' => OneFile')
  <2> USE DEF TypeOK, States, FileOfProcess, OneStarts, OneFile,
              PartialIsWritten, Files, Starting, Goto, Use
  <2>1. ASSUME NEW p \in Processes, Start(p) PROVE Goal
    <3>1. /\ \A q \in Processes : pc[q] \notin Starting
          /\ pc'[p] = "listing"
          /\ \A q \in Processes : q # p => pc'[q] = pc[q]
          /\ UNCHANGED <<file, endpoint, torn, blind>>
      BY <2>a, <2>b, <2>1 DEF Start
    <3> QED
      BY <2>c, <3>1
  <2>2. ASSUME NEW p \in Processes, List(p) PROVE Goal
    <3>1. /\ pc[p] = "listing"
          /\ pc'[p] \in {"creating", "reading"}
          /\ \A q \in Processes :
                q # p => pc'[q] = pc[q] /\ endpoint'[q] = endpoint[q]
          /\ UNCHANGED <<file, torn>>
          /\ ~blind' /\ pc'[p] = "creating" => Files = {}
      BY <2>a, <2>2 DEF List, Draw
    <3>2. OneStarts' /\ PartialIsWritten'
      BY <2>c, <3>1
    <3>3. ~blind' => OneFile'
      BY <2>b, <2>c, <3>1
    <3> QED
      BY <3>2, <3>3
  <2>3. ASSUME NEW p \in Processes, Truncate(p) PROVE Goal
    BY <2>a, <2>c, <2>3 DEF Truncate
  <2>4. ASSUME NEW p \in Processes, WriteAll(p) PROVE Goal
    BY <2>a, <2>c, <2>4 DEF WriteAll
  <2>5. ASSUME NEW p \in Processes, Read(p) PROVE Goal
    BY <2>a, <2>c, <2>5 DEF Read
  <2>6. ASSUME NEW p \in Processes,
               ListErr(p) \/ WriteErr(p) \/ ReadErr(p) \/ Kill(p)
        PROVE  Goal
    <3>1. /\ pc'[p] \in {"off", "error"}
          /\ \A q \in Processes :
                q # p => pc'[q] = pc[q] /\ endpoint'[q] = endpoint[q]
          /\ UNCHANGED <<file, blind>>
          /\ ~torn' => ~torn /\ pc[p] # "writing"
      BY <2>a, <2>6 DEF ListErr, WriteErr, ReadErr, Kill
    <3>2. OneStarts' /\ (~blind' => OneFile')
      BY <2>c, <3>1
    <3>3. PartialIsWritten'
      BY <2>c, <3>1
    <3> QED
      BY <3>2, <3>3
  <2>7. CASE UNCHANGED vars
    BY <2>c, <2>7 DEF vars
  <2> QED
    BY <2>1, <2>2, <2>3, <2>4, <2>5, <2>6, <2>7 DEF Next, Configure
<1> QED
  BY <1>1, <1>2, Inductive, PTL DEF Spec

(* All processes run with the same endpoint as long as no two start at the *)
(* same time and no listing misses the configuration, however often they   *)
(* are killed and started again.                                           *)
THEOREM SameEndpoint == Spec => []OneIdentity
<1>1. IInv /\ Alone => OneIdentity
  <2> SUFFICES ASSUME ~overlap, ~blind, IInv, Alone
               PROVE  Cardinality(identity) <= 1
    BY DEF OneIdentity
  <2>1. \A e, f \in identity : e = f
    BY DEF Alone, OneFile, IInv, IdentityWhole, TypeOK, Files
  <2>2. CASE identity = {}
    BY <2>2, FS_EmptySet
  <2>3. CASE identity # {}
    <3>1. PICK e \in identity : identity = {e}
      BY <2>1, <2>3
    <3>2. Cardinality({e}) = 1
      BY FS_Singleton
    <3> QED
      BY <3>1, <3>2
  <2> QED
    BY <2>2, <2>3
<1> QED
  BY <1>1, Inductive, AloneInductive, PTL

(* As long as no two processes start at the same time, a configuration     *)
(* that does not parse is one whose writing was interrupted, also after a  *)
(* listing has missed another one.                                         *)
THEOREM OnlyTornWriteFails == Spec => []FailureNeedsTornWrite
<1>1. Alone => FailureNeedsTornWrite
  BY DEF Alone, PartialIsWritten, FailureNeedsTornWrite
<1> QED
  BY <1>1, AloneInductive, PTL

(* A torn configuration is final: without overlapping or blind starts, no  *)
(* process has run, and none will, as long as it is there.                 *)
THEOREM TornIsFinal == Spec => []TornBarsEveryStart
<1>1. IInv /\ Alone => TornBarsEveryStart
  <2> SUFFICES ASSUME IInv, Alone, ~overlap, ~blind,
                      NEW e \in Endpoints, file[e] = "partial",
                      NEW f \in identity
               PROVE  FALSE
    BY DEF TornBarsEveryStart
  <2> QED
    BY DEF Alone, OneFile, IInv, IdentityWhole, TypeOK, Files
<1> QED
  BY <1>1, Inductive, AloneInductive, PTL

------------------------------------------------------------------------------
\* A step of a process is a step of the store, or leaves it alone.
LEMMA StepIsStoreStep ==
    ASSUME [CliNext]_cliVars
    PROVE  [Next]_vars
<1>1. CASE UNCHANGED cliVars
  BY <1>1 DEF cliVars
<1>2. ASSUME NEW p \in Processes,
             RunPrint(p) \/ RunLsp(p) \/ LoggerErr(p)
      PROVE  UNCHANGED vars
  BY <1>2 DEF RunPrint, RunLsp, LoggerErr, store
<1>3. ASSUME NEW p \in Processes, RunWithConfig(p)
      PROVE  Start(p) \/ UNCHANGED vars
  BY <1>3 DEF RunWithConfig
<1>4. ASSUME NEW p \in Processes, CreateDirectory(p)
      PROVE  UNCHANGED vars
  BY <1>4 DEF CreateDirectory
<1>5. ASSUME NEW p \in Processes, GetConfig(p)
      PROVE  Next
  BY <1>5 DEF GetConfig, Configure, Next
<1>6. ASSUME NEW p \in Processes, RunRuntime(p) \/ ConfigErr(p)
      PROVE  UNCHANGED vars
  BY <1>6 DEF RunRuntime, ConfigErr, store
<1>7. ASSUME NEW p \in Processes,
             ReadScript(p) \/ Finish(p) \/ OpenPrompt(p) \/ TypeLine(p)
                 \/ SaveHistory(p) \/ PromptPanics(p) \/ TaskPanics(p)
      PROVE  UNCHANGED vars
  BY <1>7 DEF ReadScript, Finish, OpenPrompt, TypeLine, SaveHistory,
              PromptPanics, TaskPanics, store
<1>8. ASSUME NEW p \in Processes, Workbench(p) \/ TerminalErr(p)
      PROVE  UNCHANGED vars
  BY <1>8 DEF Workbench, InitScreen, DrawFrame, HandleEvents, PollErr, Resume,
              TerminalErr, store
<1>9. ASSUME NEW p \in Processes, NEW e \in {"q", "other"}, Press(p, e)
      PROVE  UNCHANGED vars
  BY <1>9 DEF Press, store
<1>10. ASSUME NEW p \in Processes, End(p)
       PROVE  Kill(p) \/ UNCHANGED vars
  BY <1>10 DEF End
<1>11. ASSUME NEW p \in Processes, Start(p) \/ Kill(p)
       PROVE  Next
  BY <1>11 DEF Next
<1>12. CASE CliNext
  <2>1. PICK p \in Processes : Step(p)
    BY <1>12, Zenon DEF CliNext
  <2> QED
    BY <2>1, <1>2, <1>3, <1>4, <1>5, <1>6, <1>7, <1>8, <1>9, <1>10, <1>11
       DEF Step
<1> QED
  BY <1>1, <1>12

(* The program starts with a store that nobody has used, and every step of *)
(* every command is a step of the store or leaves it alone: what holds of  *)
(* the store holds for the program.                                        *)
LEMMA CliUsesStore == CliSpec => Spec
<1>1. CliInit => Init
  BY DEF CliInit
<1> QED
  BY <1>1, StepIsStoreStep, PTL DEF CliSpec, Spec

(* A process runs only with a configuration that is completely on disk,    *)
(* whatever commands run beside it.                                        *)
THEOREM CliWholeConfig == CliSpec => []RunsOnWholeConfig
BY CliUsesStore, WholeConfig, PTL

(* As long as no two commands start at the same time, one that takes its   *)
(* configuration from ~/.datex meets an error of the operating system, or  *)
(* parses what it has found, unless writing it was interrupted; and if no  *)
(* listing misses the configuration, all of them run with one endpoint.    *)
THEOREM CliSameEndpoint == CliSpec => [](OneIdentity /\ FailureNeedsTornWrite)
BY CliUsesStore, SameEndpoint, OnlyTornWriteFails, PTL

------------------------------------------------------------------------------
\* Only the loop of the workbench has the screen.
ScreenInLoop ==
    \A p \in Processes : screen[p] = "raw" => stage[p] \in Loop

\* The types of the variables of Cli itself.
ProcessTypes ==
    /\ home \in {"none", "empty", "set"}
    /\ dir \in BOOLEAN
    /\ command \in [Processes -> Commands]
    /\ custom \in [Processes -> BOOLEAN]
    /\ stage \in [Processes -> Stages]
    /\ screen \in [Processes -> {"normal", "raw"}]
    /\ events \in [Processes -> Seq({"q", "other"})]
    /\ exit \in [Processes -> BOOLEAN]
    /\ fault \in [Processes -> {"none", "system", "input"}]
    /\ lost \in [Processes -> BOOLEAN]

\* Both are inductive.
LEMMA CliInductive == CliSpec => [](ProcessTypes /\ ScreenInLoop)
<1> DEFINE Inv == ProcessTypes /\ ScreenInLoop
<1> USE DEF Stages, Loop, Commands
<1>1. CliInit => Inv
  <2> SUFFICES ASSUME CliInit PROVE Inv
    OBVIOUS
  <2>1. <<>> \in Seq({"q", "other"})
    OBVIOUS
  <2>2. events \in [Processes -> Seq({"q", "other"})]
    BY <2>1 DEF CliInit
  <2>3. ScreenInLoop
    BY DEF CliInit, ScreenInLoop
  <2> QED
    BY <2>2, <2>3 DEF CliInit, ProcessTypes
<1>2. Inv /\ [CliNext]_cliVars => Inv'
  <2> SUFFICES ASSUME Inv, [CliNext]_cliVars PROVE Inv'
    OBVIOUS
  <2> USE DEF ProcessTypes, ScreenInLoop, To, Fails, FailsFor, Blame,
              LoseHistory, store, session, process
  <2>1. ASSUME NEW p \in Processes, RunPrint(p) PROVE Inv'
    BY <2>1 DEF RunPrint, Parsed
  <2>2. ASSUME NEW p \in Processes, RunLsp(p) PROVE Inv'
    BY <2>2 DEF RunLsp, Parsed
  <2>3. ASSUME NEW p \in Processes, RunWithConfig(p) PROVE Inv'
    BY <2>3 DEF RunWithConfig, Parsed
  <2>4. ASSUME NEW p \in Processes, CreateDirectory(p) \/ GetConfig(p)
        PROVE  Inv'
    BY <2>4 DEF CreateDirectory, GetConfig
  <2>5. ASSUME NEW p \in Processes, RunRuntime(p) PROVE Inv'
    BY <2>5 DEF RunRuntime
  <2>6. ASSUME NEW p \in Processes, ConfigErr(p) PROVE Inv'
    <3>1. /\ stage' = [stage EXCEPT ![p] = "panicked"]
          /\ \E f \in {"none", "system", "input"} :
                fault' = [fault EXCEPT ![p] = f]
          /\ stage[p] = "config"
          /\ UNCHANGED <<home, dir, command, custom, screen, events, exit, lost>>
      <4>1. CASE UNCHANGED fault
        <5>1. fault' = [fault EXCEPT ![p] = fault[p]]
          BY <4>1
        <5> QED
          BY <2>6, <4>1, <5>1 DEF ConfigErr
      <4>2. CASE \E f \in {"input", "system"} : FailsFor(p, f)
        BY <2>6, <4>2 DEF ConfigErr
      <4> QED
        BY <2>6, <4>1, <4>2 DEF ConfigErr
    <3> QED
      BY <3>1
  <2>7. ASSUME NEW p \in Processes, ReadScript(p) PROVE Inv'
    BY <2>7 DEF ReadScript
  <2>8. ASSUME NEW p \in Processes, Finish(p) PROVE Inv'
    BY <2>8 DEF Finish
  <2>9. ASSUME NEW p \in Processes, OpenPrompt(p) PROVE Inv'
    BY <2>9 DEF OpenPrompt
  <2>10. ASSUME NEW p \in Processes, TypeLine(p) PROVE Inv'
    BY <2>10 DEF TypeLine
  <2>11. ASSUME NEW p \in Processes,
                SaveHistory(p) \/ PromptPanics(p) \/ TaskPanics(p)
         PROVE  Inv'
    BY <2>11 DEF SaveHistory, PromptPanics, TaskPanics
  <2>12. ASSUME NEW p \in Processes, InitScreen(p) PROVE Inv'
    BY <2>12 DEF InitScreen
  <2>13. ASSUME NEW p \in Processes, DrawFrame(p) \/ PollErr(p) PROVE Inv'
    BY <2>13 DEF DrawFrame, PollErr
  <2>14. ASSUME NEW p \in Processes, HandleEvents(p) PROVE Inv'
    <3>1. CASE events[p] = <<>>
      BY <2>14, <3>1 DEF HandleEvents
    <3>2. CASE events[p] # <<>>
      <4>1. Tail(events[p]) \in Seq({"q", "other"})
        BY <3>2
      <4> QED
        BY <2>14, <3>2, <4>1 DEF HandleEvents
    <3> QED
      BY <3>1, <3>2
  <2>15. ASSUME NEW p \in Processes, Resume(p) PROVE Inv'
    BY <2>15 DEF Resume, NextTurn, Restore
  <2>16. ASSUME NEW p \in Processes, TerminalErr(p) PROVE Inv'
    BY <2>16 DEF TerminalErr, Restore
  <2>17. ASSUME NEW p \in Processes, NEW e \in {"q", "other"}, Press(p, e)
         PROVE  Inv'
    BY <2>17 DEF Press
  <2>18. ASSUME NEW p \in Processes, End(p) PROVE Inv'
    BY <2>18 DEF End
  <2>19. CASE UNCHANGED cliVars
    BY <2>19 DEF cliVars
  <2>20. ASSUME NEW p \in Processes, Workbench(p) PROVE Inv'
    BY <2>20, <2>12, <2>13, <2>14, <2>15 DEF Workbench
  <2>22. ASSUME NEW p \in Processes, LoggerErr(p) PROVE Inv'
    BY <2>22 DEF LoggerErr, Parsed
  <2>21. CASE CliNext
    <3>1. PICK p \in Processes : Step(p)
      BY <2>21, Zenon DEF CliNext
    <3> HIDE DEF Inv
    <3> QED
      BY <3>1, <2>1, <2>2, <2>3, <2>4, <2>5, <2>6, <2>7, <2>8, <2>9, <2>10,
         <2>11, <2>16, <2>17, <2>18, <2>20, <2>22 DEF Step
  <2> QED
    BY <2>19, <2>21
<1> QED
  BY <1>1, <1>2, PTL DEF CliSpec

(* However a command ends, with its result or with a panic, the terminal   *)
(* is in its normal state; and every variable has its type.                *)
THEOREM TerminalIsRestored == CliSpec => []TerminalRestored
<1>1. IInv /\ ProcessTypes /\ ScreenInLoop => TerminalRestored
  BY DEF IInv, ProcessTypes, ScreenInLoop, TerminalRestored, CliTypeOK, Loop
<1> QED
  BY <1>1, CliUsesStore, Inductive, CliInductive, PTL

------------------------------------------------------------------------------
\* A process that is at the store was sent there.
AtTheStore ==
    \A p \in Processes :
        /\ pc[p] # "off" => home = "set" /\ ~custom[p]
        /\ stage[p] = "off" => pc[p] = "off"

\* Whoever got its configuration from ~/.datex has seen the directory.
DirectorySeen ==
    \A p \in Processes :
        pc[p] \notin {"off", "listing", "error"} => dir

\* A prompt has a base directory, and either was given its configuration or
\* has seen the directory.
PromptHasDirectory ==
    \A p \in Processes :
        /\ stage[p] \in {"app", "prompt", "typed"} /\ command[p] = "repl" =>
              dir \/ custom[p] \/ home # "set"
        /\ stage[p] \in {"prompt", "typed"} =>
              home # "none" /\ command[p] = "repl"

\* The history is lost at the end.
LostAtEnd ==
    \A p \in Processes :
        lost[p] =>
            /\ stage[p] \in {"done", "panicked"}
            /\ fault[p] = "none" => custom[p] \/ home = "empty"

\* A process panics without a fault of its own over what the store told it,
\* or for the prompt.
PanicHasCause ==
    \A p \in Processes :
        stage[p] = "panicked" /\ fault[p] = "none" =>
            \/ pc[p] \in {"failed", "error"}
            \/ home = "none" /\ command[p] = "repl"

CauseInv ==
    /\ AtTheStore
    /\ DirectorySeen
    /\ PromptHasDirectory
    /\ LostAtEnd
    /\ PanicHasCause

(* A process in which nothing fails, and whose input parses, panics or     *)
(* loses the prompt's history only for the causes named.                   *)
THEOREM FailureCause == CliSpec => []FailureHasCause
<1> USE DEF Stages, Loop, Commands
<1>1. CliInit => CauseInv
  BY DEF CliInit, Init, CauseInv, AtTheStore, DirectorySeen, PromptHasDirectory,
         LostAtEnd, PanicHasCause
<1>2. TypeOK /\ ProcessTypes /\ CauseInv /\ [CliNext]_cliVars => CauseInv'
  <2> SUFFICES ASSUME TypeOK, ProcessTypes, CauseInv, [CliNext]_cliVars
               PROVE  CauseInv'
    OBVIOUS
  <2> USE DEF CauseInv, AtTheStore, DirectorySeen, PromptHasDirectory,
              LostAtEnd, PanicHasCause, To, Fails, FailsFor, Blame, LoseHistory,
              store, session, process, vars
  <2>a. /\ pc \in [Processes -> States]
        /\ home \in {"none", "empty", "set"}
        /\ command \in [Processes -> Commands]
        /\ custom \in [Processes -> BOOLEAN]
        /\ stage \in [Processes -> Stages]
        /\ fault \in [Processes -> {"none", "system", "input"}]
        /\ lost \in [Processes -> BOOLEAN]
    BY DEF TypeOK, ProcessTypes
  <2>1. ASSUME NEW p \in Processes, RunPrint(p) \/ RunLsp(p) PROVE CauseInv'
    BY <2>a, <2>1 DEF RunPrint, RunLsp, Parsed
  <2>2. ASSUME NEW p \in Processes, LoggerErr(p) PROVE CauseInv'
    BY <2>a, <2>2 DEF LoggerErr, Parsed
  <2>3. ASSUME NEW p \in Processes, RunWithConfig(p) PROVE CauseInv'
    BY <2>a, <2>3 DEF RunWithConfig, Parsed, Start, Goto
  <2>4. ASSUME NEW p \in Processes, CreateDirectory(p) PROVE CauseInv'
    BY <2>a, <2>4 DEF CreateDirectory
  <2>5. ASSUME NEW p \in Processes, GetConfig(p) PROVE CauseInv'
    <3>1. stage[p] = "config" /\ UNCHANGED <<home, dir, process>>
      BY <2>5 DEF GetConfig
    <3>2. /\ pc[p] # "off"
          /\ \A q \in Processes : q # p => pc'[q] = pc[q]
          /\ pc'[p] = "error" \/ dir
      BY <2>a, <2>5
         DEF GetConfig, Configure, List, Draw, Use, Truncate, WriteAll, Read,
             ListErr, WriteErr, ReadErr, Goto, States
    <3> QED
      BY <2>a, <3>1, <3>2
  <2>6. ASSUME NEW p \in Processes, RunRuntime(p) PROVE CauseInv'
    BY <2>a, <2>6 DEF RunRuntime, TemporaryEndpoint
  <2>7. ASSUME NEW p \in Processes, ConfigErr(p) PROVE CauseInv'
    BY <2>a, <2>7 DEF ConfigErr
  <2>8. ASSUME NEW p \in Processes, ReadScript(p) \/ Finish(p) PROVE CauseInv'
    BY <2>a, <2>8 DEF ReadScript, Finish
  <2>9. ASSUME NEW p \in Processes, OpenPrompt(p) PROVE CauseInv'
    BY <2>a, <2>9 DEF OpenPrompt
  <2>10. ASSUME NEW p \in Processes, TypeLine(p) PROVE CauseInv'
    BY <2>a, <2>10 DEF TypeLine
  <2>11. ASSUME NEW p \in Processes, SaveHistory(p) PROVE CauseInv'
    BY <2>a, <2>11 DEF SaveHistory
  <2>13. ASSUME NEW p \in Processes, PromptPanics(p) \/ TaskPanics(p)
         PROVE  CauseInv'
    BY <2>a, <2>13 DEF PromptPanics, TaskPanics
  <2>12. ASSUME NEW p \in Processes, Workbench(p) \/ TerminalErr(p)
         PROVE  CauseInv'
    <3>1. /\ stage[p] \in {"app"} \cup Loop
          /\ UNCHANGED <<store, command, custom, lost>>
      BY <2>12
         DEF Workbench, InitScreen, DrawFrame, HandleEvents, PollErr, Resume,
             TerminalErr
    <3>2. \/ Fails(p)
          \/ /\ \E s \in {"done"} \cup Loop : To(p, s)
             /\ UNCHANGED fault
      <4>1. CASE InitScreen(p)
        BY <4>1 DEF InitScreen
      <4>2. CASE DrawFrame(p) \/ PollErr(p)
        BY <4>2 DEF DrawFrame, PollErr
      <4>3. CASE HandleEvents(p)
        BY <4>3 DEF HandleEvents
      <4>4. CASE Resume(p)
        BY <4>4 DEF Resume, NextTurn
      <4>5. CASE TerminalErr(p)
        BY <4>5 DEF TerminalErr
      <4> QED
        BY <2>12, <4>1, <4>2, <4>3, <4>4, <4>5 DEF Workbench
    <3> QED
      BY <2>a, <3>1, <3>2
  <2>14. ASSUME NEW p \in Processes, NEW e \in {"q", "other"}, Press(p, e)
         PROVE  CauseInv'
    BY <2>a, <2>14 DEF Press
  <2>15. ASSUME NEW p \in Processes, End(p) PROVE CauseInv'
    BY <2>a, <2>15 DEF End, Kill, Goto
  <2>16. CASE UNCHANGED cliVars
    BY <2>16 DEF cliVars
  <2>17. CASE CliNext
    <3>1. PICK p \in Processes : Step(p)
      BY <2>17, Zenon DEF CliNext
    <3>2. CASE \E e \in {"q", "other"} : Press(p, e)
      BY <3>2, <2>14
    <3> QED
      BY <3>1, <3>2, <2>1, <2>2, <2>3, <2>4, <2>5, <2>6, <2>7, <2>8, <2>9,
         <2>10, <2>11, <2>12, <2>13, <2>15 DEF Step
  <2> QED
    BY <2>16, <2>17
<1>3. IInv => TypeOK
  BY DEF IInv
<1>4. TypeOK /\ CauseInv /\ FailureNeedsTornWrite => FailureHasCause
  BY DEF TypeOK, CauseInv, AtTheStore, LostAtEnd, PanicHasCause,
         FailureNeedsTornWrite, FailureHasCause
<1> QED
  BY <1>1, <1>2, <1>3, <1>4, CliUsesStore, Inductive, CliInductive,
     OnlyTornWriteFails, PTL DEF CliSpec
==============================================================================
