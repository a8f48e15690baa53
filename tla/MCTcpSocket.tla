----------------------------- MODULE MCTcpSocket -----------------------------
(* Three concurrent sends of 1, 2 and 3 bytes over a connection that holds  *)
(* two unread bytes and a read buffer of two.                               *)
EXTENDS TcpSocket

CONSTANTS b1, b2, b3

MCBlocks == {b1, b2, b3}
MCBlockLen == [b \in MCBlocks |-> CASE b = b1 -> 1 [] b = b2 -> 2 [] b = b3 -> 3]
==============================================================================
