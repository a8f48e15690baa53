------------------------------ MODULE TcpSocket ------------------------------
(***************************************************************************)
(* One direction of a TCP connection between two DATEX endpoints           *)
(* (tcp/tcp_server.rs, tcp/tcp_client.rs; both ends run the same code).    *)
(*                                                                         *)
(* Sending end: a send callback that any number of tasks may call at the   *)
(* same time.  Each call clones an Arc of the write half, awaits its async *)
(* mutex and runs write_all, which hands the block to the kernel in as     *)
(* many partial writes as the socket buffer demands.                       *)
(* Receiving end: a generator that reads up to BufferSize bytes per turn   *)
(* and yields them.                                                        *)
(*                                                                         *)
(* A byte is <<b, i>>: the i-th byte of block b.  Byte-by-byte writes      *)
(* subsume every way write_all may be cut into partial writes.             *)
(***************************************************************************)
EXTENDS Integers, Sequences, FiniteSets

CONSTANTS
    Blocks,      \* the calls of the send callback, one block each
    BlockLen,    \* length of block.to_bytes()
    BufferSize,  \* length of the read buffer, 1024 in the code
    Window,      \* bytes the kernel buffers hold between the two ends
    NoBlock      \* the mutex has no owner

ASSUME TcpAssumption ==
    /\ BlockLen \in [Blocks -> Nat \ {0}]
    /\ BufferSize \in Nat \ {0}
    /\ Window \in Nat \ {0}
    /\ NoBlock \notin Blocks

VARIABLES
    send,      \* progress of each call: its await point or its result
    holder,    \* owner of the futures Mutex around the write half
    put,       \* bytes of each block handed to the kernel
    stream,    \* every byte handed to the kernel, in order
    item,      \* <<first, last>>: stream positions of the last yielded item
    reader,    \* the generator: "reading", "ended" (return), "failed" (Err)
    callback,  \* the send callback: "held" by the ComHub, "dropped" by it, or
               \* "killed" with the process of the sending end
    link       \* the connection: "up" or "down" (reset, aborted)

vars == <<send, holder, put, stream, item, reader, callback, link>>

SendStates == {"idle", "locking", "writing", "sent", "failed"}

got == item[2]                      \* bytes yielded so far
Unread == Len(stream) - got         \* bytes in the kernel buffers

InFlight(b) == send[b] \in {"locking", "writing"}

\* The call stands at this await point, in a process that runs.
At(b, state) == send[b] = state /\ callback # "killed"

Init ==
    /\ send = [b \in Blocks |-> "idle"]
    /\ holder = NoBlock
    /\ put = [b \in Blocks |-> 0]
    /\ stream = <<>>
    /\ item = <<1, 0>>
    /\ reader = "reading"
    /\ callback = "held"
    /\ link = "up"

------------------------------------------------------------------------------
(* Plausible bugs.  Each variant replaces the definition it is named after *)
(* to show that the properties below depend on it; no behaviour of the     *)
(* code uses them.                                                         *)

\* The write half is shared without the mutex.
LockWithoutMutex(b) ==
    /\ At(b, "locking")
    /\ holder' = b
    /\ send' = [send EXCEPT ![b] = "writing"]
    /\ UNCHANGED <<put, stream, item, reader, callback, link>>

\* The error path forgets the guard.
WriteErrKeepsGuard(b) ==
    /\ At(b, "writing")
    /\ put[b] < BlockLen[b]
    /\ link = "down"
    /\ send' = [send EXCEPT ![b] = "failed"]
    /\ UNCHANGED <<holder, put, stream, item, reader, callback, link>>

\* A call borrows the write half from the callback and has no clone of it.
WriteHalfNotCloned == callback # "held"

\* A read of zero bytes is retried.
ReadEofContinues ==
    /\ reader = "reading"
    /\ link = "up"
    /\ WriteHalfNotCloned
    /\ Unread = 0
    /\ UNCHANGED vars

------------------------------------------------------------------------------
(* The send callback *)

\* The ComHub calls the callback, which clones the Arc.
Call(b) ==
    /\ callback = "held"
    /\ send[b] = "idle"
    /\ send' = [send EXCEPT ![b] = "locking"]
    /\ UNCHANGED <<holder, put, stream, item, reader, callback, link>>

\* write.lock().await
Lock(b) ==
    /\ At(b, "locking")
    /\ holder = NoBlock
    /\ holder' = b
    /\ send' = [send EXCEPT ![b] = "writing"]
    /\ UNCHANGED <<put, stream, item, reader, callback, link>>

\* write_all hands one more byte to the kernel.
WriteByte(b) ==
    /\ At(b, "writing")
    /\ put[b] < BlockLen[b]
    /\ link = "up"
    /\ Unread < Window
    /\ put' = [put EXCEPT ![b] = @ + 1]
    /\ stream' = Append(stream, <<b, put[b] + 1>>)
    /\ UNCHANGED <<send, holder, item, reader, callback, link>>

\* write_all returns Ok and the guard is released.
WriteOk(b) ==
    /\ At(b, "writing")
    /\ put[b] = BlockLen[b]
    /\ send' = [send EXCEPT ![b] = "sent"]
    /\ holder' = NoBlock
    /\ UNCHANGED <<put, stream, item, reader, callback, link>>

\* write_all returns Err: SendFailure(block), and the guard is released.
WriteErr(b) ==
    /\ At(b, "writing")
    /\ put[b] < BlockLen[b]
    /\ link = "down"
    /\ send' = [send EXCEPT ![b] = "failed"]
    /\ holder' = NoBlock
    /\ UNCHANGED <<put, stream, item, reader, callback, link>>

------------------------------------------------------------------------------
(* The socket iterator of the receiving end *)

\* FIN is sent when the write half is dropped, which is when every clone of
\* the Arc is gone, or by the operating system for a process that is killed.
WriteHalfDropped ==
    \/ callback = "dropped" /\ \A b \in Blocks : ~InFlight(b)
    \/ callback = "killed"

\* Ok(n): yield the n bytes.
ReadChunk ==
    /\ reader = "reading"
    /\ \E n \in 1 .. BufferSize :
          /\ n <= Unread
          /\ item' = <<got + 1, got + n>>
    /\ UNCHANGED <<send, holder, put, stream, reader, callback, link>>

\* Ok(0): the peer closed its write half; return.
ReadEof ==
    /\ reader = "reading"
    /\ link = "up"
    /\ WriteHalfDropped
    /\ Unread = 0
    /\ reader' = "ended"
    /\ UNCHANGED <<send, holder, put, stream, item, callback, link>>

\* Err(e): yield Err(()) and return; unread bytes are lost.
ReadErr ==
    /\ reader = "reading"
    /\ link = "down"
    /\ reader' = "failed"
    /\ UNCHANGED <<send, holder, put, stream, item, callback, link>>

------------------------------------------------------------------------------
(* The surroundings *)

\* The ComHub removes the socket and drops its callback.
DropCallback ==
    /\ callback = "held"
    /\ callback' = "dropped"
    /\ UNCHANGED <<send, holder, put, stream, item, reader, link>>

\* The process of the sending end is killed.
Kill ==
    /\ callback # "killed"
    /\ callback' = "killed"
    /\ UNCHANGED <<send, holder, put, stream, item, reader, link>>

\* The connection is reset or times out.
LinkDown ==
    /\ link = "up"
    /\ link' = "down"
    /\ UNCHANGED <<send, holder, put, stream, item, reader, callback>>

Sender(b) == Lock(b) \/ WriteByte(b) \/ WriteOk(b) \/ WriteErr(b)
Reader == ReadChunk \/ ReadEof \/ ReadErr

Next ==
    \/ \E b \in Blocks : Call(b) \/ Sender(b)
    \/ Reader
    \/ DropCallback
    \/ Kill
    \/ LinkDown

Spec == Init /\ [][Next]_vars

\* The executor polls every woken task and the ComHub keeps polling the
\* iterator.  Nobody is obliged to call, to drop the callback, to kill the
\* process or to reset the connection.
FairSpec ==
    /\ Spec
    /\ \A b \in Blocks : WF_vars(Sender(b))
    /\ WF_vars(Reader)

------------------------------------------------------------------------------
TypeOK ==
    /\ send \in [Blocks -> SendStates]
    /\ holder \in Blocks \cup {NoBlock}
    /\ put \in [Blocks -> Nat]
    /\ stream \in Seq(Blocks \X Nat)
    /\ item \in Nat \X Nat
    /\ got <= Len(stream)
    /\ reader \in {"reading", "ended", "failed"}
    /\ callback \in {"held", "dropped", "killed"}
    /\ link \in {"up", "down"}

\* Position p of the stream continues what position p - 1 began: the next
\* byte of the same block, or the first byte of a block after a whole one.
Follows(p) ==
    IF p = 1 THEN stream[p][2] = 1
    ELSE \/ /\ stream[p][1] = stream[p - 1][1]
            /\ stream[p][2] = stream[p - 1][2] + 1
         \/ /\ stream[p][2] = 1
            /\ stream[p - 1][2] = BlockLen[stream[p - 1][1]]

(* Blocks sent concurrently never mix on the connection: whatever the      *)
(* partial writes, the byte stream is one block after the other.  This is  *)
(* what holding the guard over the whole of write_all is for.              *)
BlocksContiguous == \A p \in 1 .. Len(stream) : Follows(p)

(* A clean end of the iterator (Ok(0), return) means that nothing was cut  *)
(* off, unless the peer's process was killed: every call has its result,   *)
(* no block is partial, every byte was yielded.  A call in flight keeps a  *)
(* clone of the Arc, so dropping the callback cannot close the write half  *)
(* under it.                                                               *)
CleanEndIsComplete ==
    reader = "ended" /\ callback # "killed" =>
        /\ got = Len(stream)
        /\ \A b \in Blocks :
              \/ send[b] = "idle" /\ put[b] = 0
              \/ send[b] = "sent" /\ put[b] = BlockLen[b]

------------------------------------------------------------------------------
(* The socket as a pipe of whole blocks *)

\* The k-th of a set of positions in ascending order.
Nth(positions, k) ==
    CHOOSE p \in positions : Cardinality({q \in positions : q <= p}) = k

\* The blocks of the bytes at these positions, in order.
BlocksAt(bytes, positions) ==
    [k \in 1 .. Cardinality(positions) |-> bytes[Nth(positions, k)][1]]

FirstBytes == {p \in 1 .. Len(stream) : stream[p][2] = 1}
LastBytes(n) == {p \in 1 .. n : stream[p][2] = BlockLen[stream[p][1]]}

Pipe == INSTANCE BlockPipe WITH
            accepted <- BlocksAt(stream, FirstBytes),
            arrived <- BlocksAt(stream, LastBytes(got))

(* The connection delivers whole blocks, at most once each, in the order   *)
(* in which their writes began, with no gap.                               *)
ImplementsPipe == Pipe!PipeSpec

(* Every call of the send callback gets its result, as long as the process *)
(* lives, and the lock is not lost when a write fails: later callers are   *)
(* served or fail as well.                                                 *)
EverySendResolves ==
    \A b \in Blocks :
        send[b] = "locking" ~>
            send[b] \in {"sent", "failed"} \/ callback = "killed"

(* Once the ComHub has dropped the callback, or the process is gone, the   *)
(* peer's iterator ends.                                                   *)
DropEndsPeerIterator == callback # "held" ~> reader # "reading"
==============================================================================
