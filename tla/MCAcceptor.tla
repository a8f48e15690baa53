------------------------------ MODULE MCAcceptor ------------------------------
(* Three connections, a backlog of two and two file descriptors: each of    *)
(* the limits is reached while somebody waits.                              *)
EXTENDS Acceptor

CONSTANTS c1, c2, c3

MCClients == {c1, c2, c3}
==============================================================================
