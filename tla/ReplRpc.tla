------------------------------- MODULE ReplRpc -------------------------------
(***************************************************************************)
(* What the REPL promises to its user: commands are executed one at a      *)
(* time, each is executed once, and the answer printed after a command is  *)
(* the answer to that command.  The two channels between the prompt and    *)
(* the runtime implement it (see ReplSession).                             *)
(***************************************************************************)
EXTENDS Integers

VARIABLES
    asked,     \* number of commands entered
    executed,  \* number of commands executed
    shown      \* number of answers shown

rpcVars == <<asked, executed, shown>>

RpcInit == asked = 0 /\ executed = 0 /\ shown = 0

\* A command is entered when the previous one has been answered.
Ask ==
    /\ asked = shown
    /\ asked' = asked + 1
    /\ UNCHANGED <<executed, shown>>

Execute ==
    /\ executed < asked
    /\ executed' = executed + 1
    /\ UNCHANGED <<asked, shown>>

\* The answer to the last command that was entered.
Show ==
    /\ shown < asked
    /\ executed = asked
    /\ shown' = asked
    /\ UNCHANGED <<asked, executed>>

RpcNext == Ask \/ Execute \/ Show

RpcSpec == RpcInit /\ [][RpcNext]_rpcVars
==============================================================================
