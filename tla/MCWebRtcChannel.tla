--------------------------- MODULE MCWebRtcChannel ---------------------------
(* Three blocks through a channel of one: one waits in the queue, one in    *)
(* on_message and one on the wire, where another may overtake it.           *)
EXTENDS WebRtcChannel

CONSTANTS b1, b2, b3

MCBlocks == {b1, b2, b3}
==============================================================================
