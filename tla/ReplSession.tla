----------------------------- MODULE ReplSession -----------------------------
(***************************************************************************)
(* A REPL session (datex-cli/src/repl.rs): the prompt runs on a thread of  *)
(* its own and talks over two bounded channels to the task that owns the   *)
(* runtime.  The thread sends a command and blocks for the response; the   *)
(* task executes commands until the channel is closed, which happens when  *)
(* the thread is gone.  Every send is unwrapped.                           *)
(*                                                                         *)
(* Of the four kinds of command, com and mem are answered at once; trace   *)
(* and execute await the runtime, which need not come back: the code sets  *)
(* no time limit, and a script may run or wait for ever.  Each arm sends   *)
(* exactly one response.  A command and its response carry the number of   *)
(* the command.  "clear" and a malformed trace go back to the prompt and   *)
(* change nothing.                                                         *)
(***************************************************************************)
EXTENDS Integers, Sequences

CONSTANTS
    Capacity,    \* of both channels, 100 in the code
    MaxCommands  \* bound: commands entered in a session

ASSUME ReplAssumption == Capacity \in Nat \ {0} /\ MaxCommands \in Nat

VARIABLES
    thread,     \* the prompt thread
    task,       \* the loop of repl() over the commands
    cmds,       \* cmd_sender / cmd_receiver
    responses,  \* response_sender / response_receiver
    current,    \* the command being executed or answered
    asked,      \* commands entered
    executed,   \* commands executed
    shown,      \* number of the command whose response was shown last
    saved       \* the history file is written

vars == <<thread, task, cmds, responses, current, asked, executed, shown, saved>>

ThreadStates == {"prompt", "waiting", "saving", "exited", "panicked"}
TaskStates == {"recv", "executing", "answering", "done", "panicked"}

\* The thread owns cmd_sender and response_receiver, the task the other ends.
ThreadGone == thread \in {"exited", "panicked"}
TaskGone == task \in {"done", "panicked"}

Init ==
    /\ thread = "prompt"
    /\ task = "recv"
    /\ cmds = <<>>
    /\ responses = <<>>
    /\ current = 0
    /\ asked = 0
    /\ executed = 0
    /\ shown = 0
    /\ saved = FALSE

------------------------------------------------------------------------------
(* Plausible bugs.  Each variant replaces the definition it is named after *)
(* to show that the properties below depend on it; no behaviour of the     *)
(* code uses them.                                                         *)

\* The thread goes back to the prompt without waiting for the response.
EnterWithoutWaiting ==
    /\ thread = "prompt"
    /\ asked < MaxCommands
    /\ Len(cmds) < Capacity
    /\ asked' = asked + 1
    /\ cmds' = Append(cmds, asked')
    /\ UNCHANGED <<thread, task, responses, current, executed, shown, saved>>

\* A command without a result gets no response.
RespondSometimes ==
    /\ task = "answering"
    /\ Len(responses) < Capacity
    /\ executed' = executed + 1
    /\ task' = "recv"
    /\ responses' \in {responses, Append(responses, current)}
    /\ UNCHANGED <<thread, cmds, current, asked, shown, saved>>

\* The thread drops its sender when the prompt ends.
RecvNoneEarly ==
    /\ task = "recv"
    /\ cmds = <<>>
    /\ thread \in {"saving", "exited", "panicked"}
    /\ task' = "done"
    /\ UNCHANGED <<thread, cmds, responses, current, asked, executed, shown, saved>>

------------------------------------------------------------------------------
(* The prompt thread: repl_loop *)

\* A line is read and sent.  A send to a closed channel panics.
Enter ==
    /\ thread = "prompt"
    /\ asked < MaxCommands
    /\ Len(cmds) < Capacity
    /\ asked' = asked + 1
    /\ thread' = IF TaskGone THEN "panicked" ELSE "waiting"
    /\ cmds' = IF TaskGone THEN cmds ELSE Append(cmds, asked')
    /\ UNCHANGED <<task, responses, current, executed, shown, saved>>

\* readline returns Err: end of input, interrupt or I/O error.
EndOfInput ==
    /\ thread = "prompt"
    /\ thread' = "saving"
    /\ UNCHANGED <<task, cmds, responses, current, asked, executed, shown, saved>>

\* The highlighter or clear_screen fails under its unwrap().
PromptPanics ==
    /\ thread = "prompt"
    /\ thread' = "panicked"
    /\ UNCHANGED <<task, cmds, responses, current, asked, executed, shown, saved>>

\* blocking_recv returns a response, which is printed.
ShowResponse ==
    /\ thread = "waiting"
    /\ responses # <<>>
    /\ shown' = Head(responses)
    /\ responses' = Tail(responses)
    /\ thread' = "prompt"
    /\ UNCHANGED <<task, cmds, current, asked, executed, saved>>

\* blocking_recv returns None.
ResponsesClosed ==
    /\ thread = "waiting"
    /\ responses = <<>>
    /\ TaskGone
    /\ thread' = "saving"
    /\ UNCHANGED <<task, cmds, responses, current, asked, executed, shown, saved>>

\* save_history(..).unwrap(), the last thing the thread does.
SaveHistory ==
    /\ thread = "saving"
    /\ \/ thread' = "exited" /\ saved' = TRUE
       \/ thread' = "panicked" /\ UNCHANGED saved
    /\ UNCHANGED <<task, cmds, responses, current, asked, executed, shown>>

------------------------------------------------------------------------------
(* The task that owns the runtime: the loop of repl() *)

RecvCommand ==
    /\ task = "recv"
    /\ cmds # <<>>
    /\ current' = Head(cmds)
    /\ cmds' = Tail(cmds)
    /\ task' \in {"executing", "answering"}
    /\ UNCHANGED <<thread, responses, asked, executed, shown, saved>>

\* execute(..).await or record_trace(..).await returns.
Return ==
    /\ task = "executing"
    /\ task' = "answering"
    /\ UNCHANGED <<thread, cmds, responses, current, asked, executed, shown, saved>>

\* The command is answered.  A send to a closed channel panics.
Respond ==
    /\ task = "answering"
    /\ Len(responses) < Capacity
    /\ executed' = executed + 1
    /\ task' = IF ThreadGone THEN "panicked" ELSE "recv"
    /\ responses' = IF ThreadGone THEN responses
                                  ELSE Append(responses, current)
    /\ UNCHANGED <<thread, cmds, current, asked, shown, saved>>

\* The runtime panics while it executes a command, or under its answer.
ExecutePanics ==
    /\ task \in {"executing", "answering"}
    /\ task' = "panicked"
    /\ UNCHANGED <<thread, cmds, responses, current, asked, executed, shown, saved>>

\* recv returns None: the channel is empty and its sender is dropped.
RecvNone ==
    /\ task = "recv"
    /\ cmds = <<>>
    /\ ThreadGone
    /\ task' = "done"
    /\ UNCHANGED <<thread, cmds, responses, current, asked, executed, shown, saved>>

Prompt == Enter \/ EndOfInput \/ PromptPanics
Waiting == ShowResponse \/ ResponsesClosed
Runtime == Return \/ ExecutePanics
Task == RecvCommand \/ Respond \/ RecvNone

Next == Prompt \/ Waiting \/ SaveHistory \/ Task \/ Runtime

Spec == Init /\ [][Next]_vars

\* Both run to their next blocking call.  Nobody has to type anything, and
\* nothing obliges the runtime to finish what it executes.
FairSpec == Spec /\ WF_vars(Waiting) /\ WF_vars(SaveHistory) /\ WF_vars(Task)

------------------------------------------------------------------------------
TypeOK ==
    /\ thread \in ThreadStates
    /\ task \in TaskStates
    /\ cmds \in Seq(Nat) /\ Len(cmds) <= Capacity
    /\ responses \in Seq(Nat) /\ Len(responses) <= Capacity
    /\ current \in Nat
    /\ asked \in Nat
    /\ executed \in 0 .. asked
    /\ shown \in 0 .. executed
    /\ saved \in BOOLEAN

(* No send meets a closed channel, so the unwraps hold: while the prompt   *)
(* is open the task waits for a command, and while a command is executed   *)
(* the thread waits for its response.                                      *)
PeerListens ==
    /\ TypeOK
    /\ thread = "prompt" => task = "recv"
    /\ task \in {"executing", "answering"} => thread = "waiting"

(* repl() returns only after the thread has written the history, or has    *)
(* panicked: the process does not exit under the write.                    *)
HistorySavedFirst == task = "done" => saved \/ thread = "panicked"

(* Commands are executed one at a time, each once, and the response shown  *)
(* after a command is the response to that command.                        *)
Rpc == INSTANCE ReplRpc
ImplementsRpc == Rpc!RpcSpec

(* The prompt waits for ever only for a command that the runtime executes  *)
(* for ever.  With any other end of a command it shows the response or     *)
(* learns that there will be none, and once the prompt is left, repl()     *)
(* comes to its end.                                                       *)
WaitingHasCause ==
    /\ \/ <>[](task = "executing")
       \/ thread = "waiting" ~> thread # "waiting"
    /\ thread \in {"saving", "exited", "panicked"} ~> TaskGone
==============================================================================
