-------------------------- MODULE MCWebRtcHandshake --------------------------
(* Two endpoints that gather two candidates each, in every combination of   *)
(* roles.                                                                   *)
EXTENDS WebRtcHandshake

CONSTANTS p1, p2

MCPeers == {p1, p2}
==============================================================================
