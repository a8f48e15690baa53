----------------------------- MODULE MCSerialPort -----------------------------
(* Two threads that send while the iterator reads up to four bytes, at most *)
(* two at a time.                                                           *)
EXTENDS SerialPort

CONSTANTS b1, b2

MCBlocks == {b1, b2}
===============================================================================
