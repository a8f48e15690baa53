---------------------------- MODULE MCHttpExchange ----------------------------
(* Two blocks posted at the same time over one client interface.            *)
EXTENDS HttpExchange

CONSTANTS c1, c2

MCCalls == {c1, c2}
===============================================================================
