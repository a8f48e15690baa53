--------------------------------- MODULE Cli ---------------------------------
(***************************************************************************)
(* Processes of the command line program, from the parsed arguments to the *)
(* end (datex-cli/src/lib.rs, utils/config.rs: run_runtime_with_config,    *)
(* repl.rs, workbench/).                                                   *)
(*                                                                         *)
(* A command that needs a runtime gets its configuration first: from the   *)
(* file given with --config, from ~/.datex (ConfigStore, whose actions are *)
(* steps of this module), or a temporary endpoint if there is no home      *)
(* directory or its path is empty.  Then the command runs: a script, the   *)
(* prompt (its traffic with the runtime is in ReplSession), or the         *)
(* workbench, a loop on the terminal that shares its thread with the tasks *)
(* of the runtime.  Errors are unwrapped: they end the process with a      *)
(* panic.                                                                  *)
(***************************************************************************)
EXTENDS ConfigStore, Sequences

CONSTANT
    MaxEvents  \* bound: events of a terminal that are not read yet

ASSUME CliAssumption == MaxEvents \in Nat \ {0}

VARIABLES
    home,     \* home_dir(): "none", an "empty" path, or a directory, "set"
    dir,      \* .datex exists in it; in the working directory, if it is empty
    command,  \* the command of each process
    custom,   \* it was given --config
    stage,    \* where it stands
    screen,   \* its terminal: "normal" or "raw" (alternate screen)
    events,   \* terminal events that it has not read
    exit,     \* the workbench's exit flag
    fault,    \* history: "system", a call of the operating system or of a
              \* library has failed or panicked in it, after get_config or in
              \* place of it; "input", --config or RUST_LOG do not parse
    lost      \* history: the prompt's history could not be written

process == <<command, custom, stage, screen, events, exit, fault, lost>>
cliVars == <<vars, home, dir, process>>

Commands == {"version", "runNothing", "lsp", "run", "repl", "workbench"}

\* The loop of the workbench: draw, handle_events, yield_now.
Loop == {"draw", "events", "others"}

Stages == {"off", "config", "app", "execute", "prompt", "typed", "done",
           "panicked"} \cup Loop

To(p, s) == stage' = [stage EXCEPT ![p] = s]

Blame(p, f) == fault' = [fault EXCEPT ![p] = f]

\* The process panics because a call has failed, or an input is malformed.
FailsFor(p, f) == To(p, "panicked") /\ Blame(p, f)
Fails(p) == FailsFor(p, "system")

\* What a step of p that only moves on leaves alone.
store == <<vars, home, dir>>
session == <<screen, events, exit, lost>>

CliInit ==
    /\ Init
    /\ home \in {"none", "empty", "set"}
    /\ dir \in BOOLEAN
    /\ command = [p \in Processes |-> "version"]
    /\ custom = [p \in Processes |-> FALSE]
    /\ stage = [p \in Processes |-> "off"]
    /\ screen = [p \in Processes |-> "normal"]
    /\ events = [p \in Processes |-> <<>>]
    /\ exit = [p \in Processes |-> FALSE]
    /\ fault = [p \in Processes |-> "none"]
    /\ lost = [p \in Processes |-> FALSE]

------------------------------------------------------------------------------
(* Plausible bugs.  Each variant replaces the definition it is named after *)
(* to show that the properties below depend on it; no behaviour of the     *)
(* code uses them.                                                         *)

\* The directory is left to the one who writes the file.
GetConfigNoDirectory(p) ==
    /\ stage[p] = "config"
    /\ Configure(p)
    /\ UNCHANGED <<home, dir, process>>

\* start_workbench returns the error of the loop with `?`.
RestoreAfterOk(p, ok) ==
    screen' = IF ok THEN [screen EXCEPT ![p] = "normal"] ELSE screen

\* An event is read with every draw and thrown away.
HandleEventsDropped(p) ==
    /\ stage[p] = "events"
    /\ To(p, "others")
    /\ events' = [events EXCEPT ![p] = <<>>]
    /\ UNCHANGED <<store, command, custom, screen, exit, fault, lost>>

------------------------------------------------------------------------------
(* run: the command is parsed and dispatched *)

Parsed(p, c, k) ==
    /\ stage[p] = "off"
    /\ command' = [command EXCEPT ![p] = c]
    /\ custom' = [custom EXCEPT ![p] = k]
    /\ UNCHANGED session

\* The version, or "No file provided to run."
RunPrint(p) ==
    /\ \E c \in {"version", "runNothing"} : Parsed(p, c, FALSE)
    /\ To(p, "done")
    /\ UNCHANGED <<store, fault>>

\* The language server gets a runtime of its own, without a configuration.
RunLsp(p) ==
    /\ Parsed(p, "lsp", FALSE)
    /\ To(p, "app")
    /\ UNCHANGED <<store, fault>>

\* repl is also the command of a call without arguments.
RunWithConfig(p) ==
    /\ \E c \in {"run", "repl", "workbench"}, k \in BOOLEAN :
          /\ k => c # "workbench"
          /\ Parsed(p, c, k)
          /\ IF home = "set" /\ ~k THEN Start(p) ELSE UNCHANGED vars
    /\ To(p, "config")
    /\ UNCHANGED <<home, dir, fault>>

\* repl starts the logger first: RUST_LOG does not parse, or no log is opened.
LoggerErr(p) ==
    /\ \E k \in BOOLEAN : Parsed(p, "repl", k)
    /\ \E f \in {"input", "system"} : FailsFor(p, f)
    /\ UNCHANGED store

------------------------------------------------------------------------------
(* run_runtime_with_config *)

\* get_dx_files creates ~/.datex.
CreateDirectory(p) ==
    /\ stage[p] = "config" /\ pc[p] = "listing" /\ ~dir
    /\ dir' = TRUE
    /\ UNCHANGED <<vars, home, process>>

\* get_config looks for the configuration there, and creates it; or there is
\* no directory, and it cannot be created.
GetConfig(p) ==
    /\ stage[p] = "config"
    /\ (dir /\ Configure(p)) \/ ListErr(p)
    /\ UNCHANGED <<home, dir, process>>

\* "Unable to get home directory, using temporary endpoint.", also for an
\* empty path.
TemporaryEndpoint(p) == home # "set" /\ ~custom[p]

\* There is a configuration: the runtime is created, the native interface
\* factories are registered, and the runtime runs the command.
RunRuntime(p) ==
    /\ stage[p] = "config"
    /\ pc[p] = "running" \/ custom[p] \/ TemporaryEndpoint(p)
    /\ To(p, "app")
    /\ UNCHANGED <<store, command, custom, session, fault>>

\* ConfigError, unwrapped: of ~/.datex, or because the file given with
\* --config cannot be read or does not parse.
ConfigErr(p) ==
    /\ stage[p] = "config"
    /\ \/ pc[p] \in {"failed", "error"} /\ To(p, "panicked") /\ UNCHANGED fault
       \/ custom[p] /\ \E f \in {"input", "system"} : FailsFor(p, f)
    /\ UNCHANGED <<store, command, custom, session>>

------------------------------------------------------------------------------
(* execute_file, and the language server *)

\* expect("Could not read file"), when the runtime runs already.
ReadScript(p) ==
    /\ command[p] = "run" /\ stage[p] = "app"
    /\ \/ Fails(p)
       \/ To(p, "execute") /\ UNCHANGED fault
    /\ UNCHANGED <<store, command, custom, session>>

\* The script's result or error is printed; the editor closes the server.
Finish(p) ==
    /\ \/ stage[p] = "execute"
       \/ command[p] = "lsp" /\ stage[p] = "app"
    /\ To(p, "done")
    /\ UNCHANGED <<store, command, custom, session, fault>>

------------------------------------------------------------------------------
(* repl *)

\* get_datex_base_dir().unwrap(), for which an empty path will do, and the
\* editor of repl_loop.
OpenPrompt(p) ==
    /\ command[p] = "repl" /\ stage[p] = "app"
    /\ \/ home # "none" /\ To(p, "prompt") /\ UNCHANGED fault
       \/ home = "none" /\ To(p, "panicked") /\ UNCHANGED fault
       \/ home # "none" /\ Fails(p)
    /\ UNCHANGED <<store, command, custom, session>>

TypeLine(p) ==
    /\ stage[p] = "prompt"
    /\ To(p, "typed")
    /\ UNCHANGED <<store, command, custom, session, fault>>

LoseHistory(p, unsaved) ==
    lost' = [lost EXCEPT ![p] = unsaved /\ stage[p] = "typed"]

\* The thread saves the history, if there is one.  Nobody creates .datex
\* here: without it the write fails.  The thread's panic is not the task's,
\* which returns Ok.
SaveHistory(p) ==
    /\ stage[p] \in {"prompt", "typed"}
    /\ To(p, "done")
    /\ LoseHistory(p, ~dir)
    /\ UNCHANGED <<store, command, custom, screen, events, exit, fault>>

\* The thread panics before that: in clear_screen or the highlighter, or in
\* save_history because the file cannot be written.
PromptPanics(p) ==
    /\ stage[p] \in {"prompt", "typed"}
    /\ To(p, "done") /\ Blame(p, "system")
    /\ LoseHistory(p, TRUE)
    /\ UNCHANGED <<store, command, custom, screen, events, exit>>

\* The task panics in the runtime, and the process ends with it.
TaskPanics(p) ==
    /\ stage[p] \in {"prompt", "typed", "execute"}
    /\ Fails(p)
    /\ LoseHistory(p, TRUE)
    /\ UNCHANGED <<store, command, custom, screen, events, exit>>

------------------------------------------------------------------------------
(* start_workbench *)

\* ratatui::init, which restores the screen itself when it fails.
InitScreen(p) ==
    /\ command[p] = "workbench" /\ stage[p] = "app"
    /\ \/ Fails(p) /\ UNCHANGED screen
       \/ /\ To(p, "draw") /\ UNCHANGED fault
          /\ screen' = [screen EXCEPT ![p] = "raw"]
    /\ UNCHANGED <<store, command, custom, events, exit, lost>>

\* ratatui::restore, whatever the loop has returned
Restore(p, ok) == screen' = [screen EXCEPT ![p] = "normal"]

DrawFrame(p) ==
    /\ stage[p] = "draw"
    /\ To(p, "events")
    /\ UNCHANGED <<store, command, custom, session, fault>>

\* draw or event::read returns an error, which is unwrapped after restore.
TerminalErr(p) ==
    /\ \/ stage[p] = "draw"
       \/ stage[p] = "events" /\ events[p] # <<>>
    /\ Fails(p)
    /\ Restore(p, FALSE)
    /\ UNCHANGED <<store, command, custom, events, exit, lost>>

\* poll waits for 10 ms: one event is handled, or there is none.
HandleEvents(p) ==
    /\ stage[p] = "events"
    /\ To(p, "others")
    /\ IF events[p] = <<>>
       THEN UNCHANGED <<events, exit>>
       ELSE /\ events' = [events EXCEPT ![p] = Tail(@)]
            /\ exit' = [exit EXCEPT ![p] = @ \/ Head(events[p]) = "q"]
    /\ UNCHANGED <<store, command, custom, screen, fault, lost>>

\* `if let Ok(true)`: a poll that fails is taken for no event.
PollErr(p) ==
    /\ stage[p] = "events"
    /\ To(p, "others")
    /\ UNCHANGED <<store, command, custom, session, fault>>

\* while !self.exit
NextTurn(p) == IF exit[p] THEN "done" ELSE "draw"

\* yield_now: the other tasks had their turn.
Resume(p) ==
    /\ stage[p] = "others"
    /\ To(p, NextTurn(p))
    /\ IF NextTurn(p) = "done" THEN Restore(p, TRUE) ELSE UNCHANGED screen
    /\ UNCHANGED <<store, command, custom, events, exit, fault, lost>>

------------------------------------------------------------------------------
(* The surroundings *)

\* The user presses q, or there is another event: key, release, mouse, size.
Press(p, e) ==
    /\ stage[p] \in Loop
    /\ Len(events[p]) < MaxEvents
    /\ events' = [events EXCEPT ![p] = Append(@, e)]
    /\ UNCHANGED <<store, command, custom, stage, screen, exit, fault, lost>>

\* The process has come to its end, or is killed: nothing is restored then.
End(p) ==
    /\ stage[p] # "off"
    /\ IF pc[p] = "off" THEN UNCHANGED vars ELSE Kill(p)
    /\ To(p, "off")
    /\ command' = [command EXCEPT ![p] = "version"]
    /\ custom' = [custom EXCEPT ![p] = FALSE]
    /\ screen' = [screen EXCEPT ![p] = "normal"]
    /\ events' = [events EXCEPT ![p] = <<>>]
    /\ exit' = [exit EXCEPT ![p] = FALSE]
    /\ Blame(p, "none")
    /\ lost' = [lost EXCEPT ![p] = FALSE]
    /\ UNCHANGED <<home, dir>>

Workbench(p) ==
    \/ InitScreen(p) \/ DrawFrame(p) \/ Resume(p)
    \/ HandleEvents(p) \/ PollErr(p)

Step(p) ==
    \/ RunPrint(p) \/ RunLsp(p) \/ RunWithConfig(p) \/ LoggerErr(p)
    \/ CreateDirectory(p) \/ GetConfig(p) \/ RunRuntime(p) \/ ConfigErr(p)
    \/ ReadScript(p) \/ Finish(p)
    \/ OpenPrompt(p) \/ TypeLine(p) \/ SaveHistory(p)
    \/ PromptPanics(p) \/ TaskPanics(p)
    \/ Workbench(p) \/ TerminalErr(p)
    \/ \E e \in {"q", "other"} : Press(p, e)
    \/ End(p)

CliNext == \E p \in Processes : Step(p)

\* The runtime polls the workbench as one of its tasks.  What its poll finds,
\* an event, none or an error, is left open.
CliSpec ==
    /\ CliInit
    /\ [][CliNext]_cliVars
    /\ \A p \in Processes : WF_cliVars(Workbench(p))

------------------------------------------------------------------------------
CliTypeOK ==
    /\ TypeOK
    /\ home \in {"none", "empty", "set"}
    /\ dir \in BOOLEAN
    /\ command \in [Processes -> Commands]
    /\ custom \in [Processes -> BOOLEAN]
    /\ stage \in [Processes -> Stages]
    /\ screen \in [Processes -> {"normal", "raw"}]
    /\ events \in [Processes -> Seq({"q", "other"})]
    /\ exit \in [Processes -> BOOLEAN]
    /\ fault \in [Processes -> {"none", "system", "input"}]
    /\ lost \in [Processes -> BOOLEAN]

(* A command gives the user's terminal back in its normal state, also when *)
(* drawing or reading an event fails and the error is unwrapped.           *)
TerminalRestored ==
    /\ CliTypeOK
    /\ \A p \in Processes :
          stage[p] \in {"done", "panicked"} => screen[p] = "normal"

(* A process in which no call fails, and whose --config and RUST_LOG        *)
(* parse, panics only over a configuration in ~/.datex whose writing was   *)
(* interrupted or is under way in another process, or for the prompt       *)
(* without a home directory, which the configuration would have tolerated. *)
(* And the prompt loses its history only with --config or an empty home    *)
(* path, because who reads the configuration from ~/.datex has created it. *)
FailureHasCause ==
    \A p \in Processes :
        fault[p] = "none" =>
            /\ stage[p] = "panicked" /\ pc[p] # "error" =>
                  \/ home = "set" /\ ~custom[p] /\ (torn \/ overlap)
                  \/ home = "none" /\ command[p] = "repl"
            /\ lost[p] => custom[p] \/ home = "empty"

\* The poll of a workbench does not fail for ever.
PollRecovers(p) ==
    []<>(stage[p] = "events") => []<><<HandleEvents(p)>>_cliVars

(* 'q' ends the workbench, also behind other events, and without waiting   *)
(* for another event, unless poll fails from then on: those errors are     *)
(* swallowed, and the loop turns for ever with the terminal in raw mode.   *)
QuitEnds ==
    \A p \in Processes :
        PollRecovers(p) =>
            ((\E i \in 1 .. Len(events[p]) : events[p][i] = "q")
                ~> stage[p] \notin Loop)
==============================================================================
