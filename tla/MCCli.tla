-------------------------------- MODULE MCCli --------------------------------
(* Two processes that run one command after the other, two endpoints to     *)
(* draw, and two events of a terminal on their way.                         *)
EXTENDS Cli

CONSTANTS q1, q2, e1, e2

MCProcesses == {q1, q2}
MCEndpoints == {e1, e2}
==============================================================================
