---------------------------- MODULE MCConfigStore ----------------------------
(* Processes that draw from three endpoints.                                *)
EXTENDS ConfigStore

CONSTANTS q1, q2, q3, e1, e2, e3

MCProcesses == {q1, q2, q3}
MCEndpoints == {e1, e2, e3}
==============================================================================
