-------------------------- MODULE ReplSessionProofs --------------------------
(***************************************************************************)
(* Proofs about ReplSession for channels of any capacity and sessions of   *)
(* any length: no send meets a closed channel, the history is written      *)
(* before repl() returns, and the two channels implement the calls that    *)
(* ReplRpc promises.                                                       *)
(***************************************************************************)
EXTENDS ReplSession, TLAPS

\* At the prompt nothing is under way: every command has been answered.
AtPrompt ==
    /\ task = "recv"
    /\ cmds = <<>> /\ responses = <<>>
    /\ executed = asked /\ shown = asked

\* The command the thread waits for is in one place: in the first channel,
\* in the task, in the second channel as its response, or lost with the task.
Underway ==
    \/ task = "recv" /\ cmds = <<asked>> /\ responses = <<>>
       /\ executed + 1 = asked
    \/ task \in {"executing", "answering"} /\ current = asked
       /\ cmds = <<>> /\ responses = <<>> /\ executed + 1 = asked
    \/ task = "recv" /\ cmds = <<>> /\ responses = <<asked>>
       /\ executed = asked
    \/ task = "panicked" /\ cmds = <<>> /\ responses = <<>>

\* Once the prompt is left nothing is under way either.
Left ==
    /\ task \in {"recv", "done", "panicked"}
    /\ cmds = <<>>

IInv ==
    /\ TypeOK
    /\ thread = "prompt" => AtPrompt
    /\ thread = "waiting" => Underway /\ shown + 1 = asked
    /\ thread \notin {"prompt", "waiting"} => Left
    /\ task = "done" => ThreadGone
    /\ thread = "exited" => saved

------------------------------------------------------------------------------
(* The strengthened invariant is inductive. *)
LEMMA Inductive == Spec => []IInv
<1> USE ReplAssumption DEF ReplAssumption
<1>1. Init => IInv
  <2>1. <<>> \in Seq(Nat) /\ Len(<<>>) = 0
    OBVIOUS
  <2> SUFFICES ASSUME Init PROVE IInv
    OBVIOUS
  <2>2. /\ cmds \in Seq(Nat) /\ Len(cmds) <= Capacity
        /\ responses \in Seq(Nat) /\ Len(responses) <= Capacity
    BY <2>1 DEF Init
  <2>3. executed \in 0 .. asked /\ shown \in 0 .. executed
    BY DEF Init
  <2>4. TypeOK
    BY <2>2, <2>3 DEF Init, TypeOK, ThreadStates, TaskStates
  <2> QED
    BY <2>4 DEF Init, IInv, AtPrompt
<1>2. IInv /\ [Next]_vars => IInv'
  <2> SUFFICES ASSUME IInv, [Next]_vars PROVE IInv'
    OBVIOUS
  <2> USE DEF IInv, TypeOK, ThreadStates, TaskStates, AtPrompt, Underway, Left,
              ThreadGone, TaskGone
  <2>1. CASE Enter
    <3>1. /\ thread' = "waiting"
          /\ asked' = asked + 1
          /\ cmds' = <<asked'>>
          /\ UNCHANGED <<task, responses, current, executed, shown, saved>>
      BY <2>1 DEF Enter
    <3>2. asked' \in Nat /\ cmds' \in Seq(Nat) /\ Len(cmds') = 1
      BY <3>1
    <3>3. AtPrompt
      BY <2>1 DEF Enter
    <3>4. Underway' /\ shown' + 1 = asked'
      BY <3>1, <3>2, <3>3
    <3>5. TypeOK'
      BY <3>1, <3>2
    <3> QED
      BY <3>1, <3>3, <3>4, <3>5
  <2>2. CASE EndOfInput \/ PromptPanics
    BY <2>2 DEF EndOfInput, PromptPanics
  <2>3. CASE ShowResponse
    <3>1. /\ task = "recv" /\ cmds = <<>> /\ responses = <<asked>>
          /\ executed = asked
      BY <2>3 DEF ShowResponse
    <3>2. shown' = asked /\ responses' = <<>> /\ thread' = "prompt"
      BY <2>3, <3>1 DEF ShowResponse
    <3> QED
      BY <2>3, <3>1, <3>2 DEF ShowResponse
  <2>4. CASE ResponsesClosed
    BY <2>4 DEF ResponsesClosed
  <2>5. CASE SaveHistory
    BY <2>5 DEF SaveHistory
  <2>6. CASE RecvCommand
    <3>1. thread = "waiting" /\ cmds = <<asked>> /\ responses = <<>>
      BY <2>6 DEF RecvCommand
    <3>2. /\ current' = asked /\ cmds' = <<>>
          /\ task' \in {"executing", "answering"}
      BY <2>6, <3>1 DEF RecvCommand
    <3> QED
      BY <2>6, <3>1, <3>2 DEF RecvCommand
  <2>7. CASE Respond
    <3>1. /\ thread = "waiting" /\ current = asked
          /\ cmds = <<>> /\ responses = <<>>
          /\ executed + 1 = asked
      BY <2>7 DEF Respond
    <3>2. responses' = <<asked>> /\ task' = "recv" /\ executed' = asked
      BY <2>7, <3>1 DEF Respond
    <3>3. responses' \in Seq(Nat) /\ Len(responses') = 1
      BY <3>2
    <3> QED
      BY <2>7, <3>1, <3>2, <3>3 DEF Respond
  <2>8. CASE Return \/ ExecutePanics
    BY <2>8 DEF Return, ExecutePanics
  <2>9. CASE RecvNone
    BY <2>9 DEF RecvNone
  <2>10. CASE UNCHANGED vars
    BY <2>10 DEF vars
  <2> QED
    BY <2>1, <2>2, <2>3, <2>4, <2>5, <2>6, <2>7, <2>8, <2>9, <2>10
    DEF Next, Prompt, Waiting, Task, Runtime
<1> QED
  BY <1>1, <1>2, PTL DEF Spec

(* No send meets a closed channel, whatever panics and however long the    *)
(* session: the unwraps on the two senders hold.                           *)
THEOREM SendsFindTheirPeer == Spec => []PeerListens
<1>1. IInv => PeerListens
  BY DEF IInv, PeerListens, AtPrompt, Underway, Left, TypeOK, ThreadStates
<1> QED
  BY <1>1, Inductive, PTL

(* repl() does not return while the thread still has to write its history. *)
THEOREM HistoryIsSaved == Spec => []HistorySavedFirst
<1>1. IInv => HistorySavedFirst
  BY DEF IInv, HistorySavedFirst, ThreadGone
<1> QED
  BY <1>1, Inductive, PTL

------------------------------------------------------------------------------
(* The session implements the calls that ReplRpc promises: a command is    *)
(* entered when the last one is answered, executed once, and the response  *)
(* that is shown is its own.                                               *)
THEOREM SessionImplementsRpc == Spec => ImplementsRpc
<1>1. Init => Rpc!RpcInit
  BY DEF Init, Rpc!RpcInit
<1>2. IInv /\ [Next]_vars => [Rpc!RpcNext]_(Rpc!rpcVars)
  <2> SUFFICES ASSUME IInv, [Next]_vars
               PROVE  Rpc!RpcNext \/ UNCHANGED Rpc!rpcVars
    OBVIOUS
  <2> USE DEF IInv, TypeOK, Rpc!rpcVars
  <2>1. CASE Enter
    BY <2>1 DEF Enter, AtPrompt, Rpc!RpcNext, Rpc!Ask
  <2>2. CASE Respond
    BY <2>2 DEF Respond, AtPrompt, Underway, Left, Rpc!RpcNext, Rpc!Execute
  <2>3. CASE ShowResponse
    <3>1. responses = <<asked>> /\ executed = asked /\ shown < asked
      BY <2>3 DEF ShowResponse, Underway
    <3>2. shown' = asked /\ UNCHANGED <<asked, executed>>
      BY <2>3, <3>1 DEF ShowResponse
    <3> QED
      BY <3>1, <3>2 DEF Rpc!RpcNext, Rpc!Show
  <2>4. CASE EndOfInput \/ PromptPanics \/ ResponsesClosed \/ SaveHistory
             \/ RecvCommand \/ Return \/ ExecutePanics \/ RecvNone
    BY <2>4 DEF EndOfInput, PromptPanics, ResponsesClosed, SaveHistory,
                RecvCommand, Return, ExecutePanics, RecvNone
  <2>5. CASE UNCHANGED vars
    BY <2>5 DEF vars
  <2> QED
    BY <2>1, <2>2, <2>3, <2>4, <2>5
    DEF Next, Prompt, Waiting, Task, Runtime
<1> QED
  BY <1>1, <1>2, Inductive, PTL DEF Spec, ImplementsRpc, Rpc!RpcSpec
==============================================================================
