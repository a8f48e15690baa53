------------------------------ MODULE BlockPipe ------------------------------
(***************************************************************************)
(* What one direction of a DATEX socket promises to the ComHub: the blocks *)
(* handed to the send callback come out of the peer's iterator whole, each *)
(* at most once and in the order in which the sender accepted them.        *)
(* The transports implement it (see TcpSocket).                            *)
(***************************************************************************)
EXTENDS Integers, Sequences

CONSTANT Blocks      \* the blocks handed to the send callback

VARIABLES accepted,  \* blocks the sending side has taken on, in order
          arrived    \* blocks the receiving side has received completely

pipeVars == <<accepted, arrived>>

PipeInit == accepted = <<>> /\ arrived = <<>>

\* The sender takes on a block it has not taken on before.
Accept(b) ==
    /\ \A i \in 1 .. Len(accepted) : accepted[i] # b
    /\ accepted' = Append(accepted, b)
    /\ UNCHANGED arrived

\* One or more blocks become complete at the receiver, without a gap.
Arrive(n) ==
    /\ n \in Len(arrived) + 1 .. Len(accepted)
    /\ arrived' = SubSeq(accepted, 1, n)
    /\ UNCHANGED accepted

PipeNext ==
    \/ \E b \in Blocks : Accept(b)
    \/ \E n \in 1 .. Len(accepted) : Arrive(n)

PipeSpec == PipeInit /\ [][PipeNext]_pipeVars
==============================================================================
