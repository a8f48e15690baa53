----------------------------- MODULE MCWebSocket -----------------------------
(* Three concurrent sends over a connection that holds two frames.          *)
EXTENDS WebSocket

CONSTANTS b1, b2, b3

MCBlocks == {b1, b2, b3}
==============================================================================
