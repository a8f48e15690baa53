--------------------------- MODULE SerialPortProofs ---------------------------
(***************************************************************************)
(* Proofs about SerialPort for any number of sending threads, any buffer   *)
(* size and any amount of input: bytes that were read are not lost, and    *)
(* the iterator gives up only for one of three reasons.                    *)
(***************************************************************************)
EXTENDS SerialPort, TLAPS

\* The lock is owned by the one thread that uses the port.
OneUser ==
    /\ reader = "reading" <=> holder = Reader
    /\ \A b \in Blocks : send[b] = "writing" <=> holder = b

\* Some thread has had the lock in order to send.
SomeoneSent == \E b \in Blocks : send[b] \in {"writing", "sent", "failed"}

\* What the result of a read closure says of the port and its users.
ResultHasCause ==
    /\ reader = "joined" => result # "none"
    /\ reader = "failed" => result \in {"nothing", "panic"}
    /\ reader \in {"joined", "failed"} /\ result = "nothing" =>
          port = "gone" \/ silent
    /\ reader \in {"joined", "failed"} /\ result = "panic" => SomeoneSent

IInv == TypeOK /\ OneUser /\ ResultHasCause /\ NothingReadIsLost

-------------------------------------------------------------------------------
(* The strengthened invariant is inductive. *)
LEMMA Inductive == Spec => []IInv
<1> USE SerialAssumption DEF SerialAssumption
<1>1. Init => IInv
  <2> SUFFICES ASSUME Init PROVE IInv
    OBVIOUS
  <2>1. TypeOK
    <3>1. taken \in 0 .. arrived /\ yielded \in 0 .. taken
      BY DEF Init
    <3> QED
      BY <3>1 DEF Init, TypeOK, ReaderStates, SendStates
  <2>2. OneUser /\ NothingReadIsLost
    BY DEF Init, OneUser, NothingReadIsLost
  <2>3. ResultHasCause
    BY DEF Init, ResultHasCause
  <2> QED
    BY <2>1, <2>2, <2>3 DEF IInv
<1>2. IInv /\ [Next]_vars => IInv'
  <2> SUFFICES ASSUME IInv, [Next]_vars PROVE IInv'
    OBVIOUS
  <2> USE DEF IInv, TypeOK, ReaderStates, SendStates, OneUser, SomeoneSent,
              ResultHasCause, NothingReadIsLost, Join
  <2>1. CASE Spawn
    BY <2>1 DEF Spawn
  <2>2. CASE TryLock
    BY <2>2 DEF TryLock
  <2>3. ASSUME NEW n \in 1 .. BufferSize, ReadData(n) PROVE IInv'
    BY <2>3 DEF ReadData
  <2>4. CASE ReadNothing
    BY <2>4 DEF ReadNothing
  <2>5. CASE Resume
    BY <2>5 DEF Resume
  <2>6. ASSUME NEW b \in Blocks, Call(b) PROVE IInv'
    BY <2>6 DEF Call
  <2>7. ASSUME NEW b \in Blocks, Lock(b) PROVE IInv'
    BY <2>7 DEF Lock
  <2>8. ASSUME NEW b \in Blocks, Write(b) PROVE IInv'
    BY <2>8 DEF Write
  <2>9. CASE ByteArrives \/ Unplug
    BY <2>9 DEF ByteArrives, Unplug
  <2>10. CASE UNCHANGED vars
    BY <2>10 DEF vars
  <2> QED
    BY <2>1, <2>2, <2>3, <2>4, <2>5, <2>6, <2>7, <2>8, <2>9, <2>10
    DEF Next, Iterator, Sender
<1> QED
  BY <1>1, <1>2, PTL DEF Spec

(* Whatever the threads that send do to the iterator, every byte it has    *)
(* taken from the port is yielded.                                         *)
THEOREM NoByteLost == Spec => []NothingReadIsLost
BY Inductive, PTL DEF IInv

(* The iterator fails only if the port is gone, the line was silent for    *)
(* the timeout, or some thread has used the port to send a block.          *)
THEOREM FailureCause == Spec => []FailureHasCause
<1>1. IInv => FailureHasCause
  BY DEF IInv, ResultHasCause, SomeoneSent, FailureHasCause
<1> QED
  BY <1>1, Inductive, PTL
===============================================================================
