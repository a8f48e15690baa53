------------------------------ MODULE SerialPort ------------------------------
(***************************************************************************)
(* The serial socket (com_interfaces/serial/serial_client.rs): one port    *)
(* behind a std Mutex, used by two kinds of threads.                       *)
(*                                                                         *)
(* The iterator hands a closure to the blocking pool for every read; the   *)
(* closure takes the lock with try_lock().unwrap() and keeps it while it   *)
(* waits for input, for at most TIMEOUT.  The send callback is             *)
(* synchronous: it waits for the lock and writes on the calling thread.    *)
(* Several threads of the runtime may run it at once.                      *)
(***************************************************************************)
EXTENDS Integers

CONSTANTS
    Blocks,      \* the calls of the send callback, one block each
    BufferSize,  \* BUFFER_SIZE
    MaxBytes,    \* bound: bytes that arrive at the port in a behaviour
    Reader,      \* the read closure as owner of the lock
    Nobody       \* the lock is free

ASSUME SerialAssumption ==
    /\ BufferSize \in Nat \ {0}
    /\ MaxBytes \in Nat
    /\ Reader # Nobody
    /\ Reader \notin Blocks
    /\ Nobody \notin Blocks

VARIABLES
    reader,   \* the iterator and the read closure it waits for
    result,   \* what the join handle of the last closure delivers
    holder,   \* owner of the Mutex around the port
    send,     \* progress of each call of the send callback
    arrived,  \* bytes that have arrived at the port
    taken,    \* bytes read from it
    yielded,  \* bytes yielded by the iterator
    port,     \* "up" or "gone" (unplugged)
    silent    \* history: a read timed out without a byte

vars == <<reader, result, holder, send, arrived, taken, yielded, port, silent>>

ReaderStates == {"idle", "queued", "reading", "joined", "failed"}
SendStates == {"idle", "locking", "writing", "sent", "failed"}

Init ==
    /\ reader = "idle"
    /\ result = "none"
    /\ holder = Nobody
    /\ send = [b \in Blocks |-> "idle"]
    /\ arrived = 0
    /\ taken = 0
    /\ yielded = 0
    /\ port = "up"
    /\ silent = FALSE

\* The read closure returns (or panics): its join handle has a result.
Join(r) == reader' = "joined" /\ result' = r

------------------------------------------------------------------------------
(* Plausible bugs.  Each variant replaces the definition it is named after *)
(* to show that the properties below depend on it; no behaviour of the     *)
(* code uses them.                                                         *)

\* Only a full buffer counts as data.
ReadDataFullOnly(n) ==
    /\ reader = "reading"
    /\ n <= arrived - taken
    /\ taken' = taken + n
    /\ holder' = Nobody
    /\ Join(IF n = BufferSize THEN "data" ELSE "nothing")
    /\ UNCHANGED <<send, arrived, yielded, port, silent>>

\* The guard outlives the closure when there was data.
ReadDataKeepsGuard(n) ==
    /\ reader = "reading"
    /\ n <= arrived - taken
    /\ taken' = taken + n
    /\ Join("data")
    /\ UNCHANGED <<holder, send, arrived, yielded, port, silent>>

\* The guard outlives the closure when there was none.
ReadNothingKeepsGuard ==
    /\ reader = "reading"
    /\ arrived = taken \/ port = "gone"
    /\ silent' = (silent \/ port = "up")
    /\ Join("nothing")
    /\ UNCHANGED <<holder, send, arrived, taken, yielded, port>>

------------------------------------------------------------------------------
(* The socket iterator *)

\* spawn_blocking: the closure waits for a thread of the pool.
Spawn ==
    /\ reader = "idle"
    /\ reader' = "queued"
    /\ result' = "none"
    /\ UNCHANGED <<holder, send, arrived, taken, yielded, port, silent>>

\* try_lock().unwrap(): a lock in use makes the closure panic, before it owns
\* a guard, so that the Mutex is not poisoned.
TryLock ==
    /\ reader = "queued"
    /\ IF holder = Nobody
       THEN holder' = Reader /\ reader' = "reading" /\ UNCHANGED result
       ELSE Join("panic") /\ UNCHANGED holder
    /\ UNCHANGED <<send, arrived, taken, yielded, port, silent>>

\* read returns Ok(n), n > 0.
ReadData(n) ==
    /\ reader = "reading"
    /\ n <= arrived - taken
    /\ taken' = taken + n
    /\ holder' = Nobody
    /\ Join("data")
    /\ UNCHANGED <<send, arrived, yielded, port, silent>>

\* read returns Err: the port is gone, or no byte came for TIMEOUT.
ReadNothing ==
    /\ reader = "reading"
    /\ arrived = taken \/ port = "gone"
    /\ silent' = (silent \/ port = "up")
    /\ holder' = Nobody
    /\ Join("nothing")
    /\ UNCHANGED <<send, arrived, taken, yielded, port>>

\* The iterator gets the result: yield the bytes, or yield Err and return.
Resume ==
    /\ reader = "joined"
    /\ IF result = "data"
       THEN reader' = "idle" /\ yielded' = taken
       ELSE reader' = "failed" /\ UNCHANGED yielded
    /\ UNCHANGED <<result, holder, send, arrived, taken, port, silent>>

------------------------------------------------------------------------------
(* The send callback *)

\* The ComHub calls it; it may do so after the iterator has failed.
Call(b) ==
    /\ send[b] = "idle"
    /\ send' = [send EXCEPT ![b] = "locking"]
    /\ UNCHANGED <<reader, result, holder, arrived, taken, yielded, port, silent>>

\* port.lock().unwrap()
Lock(b) ==
    /\ send[b] = "locking"
    /\ holder = Nobody
    /\ holder' = b
    /\ send' = [send EXCEPT ![b] = "writing"]
    /\ UNCHANGED <<reader, result, arrived, taken, yielded, port, silent>>

\* write_all returns; it fails when the port is gone and may time out.
Write(b) ==
    /\ send[b] = "writing"
    /\ holder' = Nobody
    /\ \E r \in {"failed"} \cup (IF port = "up" THEN {"sent"} ELSE {}) :
          send' = [send EXCEPT ![b] = r]
    /\ UNCHANGED <<reader, result, arrived, taken, yielded, port, silent>>

------------------------------------------------------------------------------
(* The line *)

ByteArrives ==
    /\ port = "up"
    /\ arrived < MaxBytes
    /\ arrived' = arrived + 1
    /\ UNCHANGED <<reader, result, holder, send, taken, yielded, port, silent>>

Unplug ==
    /\ port = "up"
    /\ port' = "gone"
    /\ UNCHANGED <<reader, result, holder, send, arrived, taken, yielded, silent>>

Iterator ==
    \/ Spawn \/ TryLock \/ ReadNothing \/ Resume
    \/ \E n \in 1 .. BufferSize : ReadData(n)

Sender(b) == Lock(b) \/ Write(b)

Next ==
    \/ Iterator
    \/ \E b \in Blocks : Call(b) \/ Sender(b)
    \/ ByteArrives
    \/ Unplug

Spec == Init /\ [][Next]_vars

\* The ComHub polls the iterator, the pool runs the closures, a thread that
\* can take a free lock does so in the end.
FairSpec ==
    /\ Spec
    /\ WF_vars(Iterator)
    /\ \A b \in Blocks : WF_vars(Sender(b))

------------------------------------------------------------------------------
TypeOK ==
    /\ reader \in ReaderStates
    /\ result \in {"none", "data", "nothing", "panic"}
    /\ holder \in Blocks \cup {Reader, Nobody}
    /\ send \in [Blocks -> SendStates]
    /\ arrived \in Nat
    /\ taken \in 0 .. arrived
    /\ yielded \in 0 .. taken
    /\ port \in {"up", "gone"}
    /\ silent \in BOOLEAN

(* Bytes read from the port are never lost: whenever a closure has taken   *)
(* some, the iterator yields them before it reads again or gives up, also  *)
(* when writers fight for the port meanwhile.                              *)
NothingReadIsLost ==
    yielded # taken => reader = "joined" /\ result = "data"

(* The iterator gives up only if the port is gone, the line was silent for *)
(* TIMEOUT, or a block is or was being sent.                               *)
FailureHasCause ==
    reader = "failed" =>
        \/ port = "gone"
        \/ silent
        \/ \E b \in Blocks : send[b] \in {"writing", "sent", "failed"}

(* The end of the iterator, by an error, a timeout or a panic, leaves the  *)
(* lock usable: blocks sent afterwards get their result.                   *)
WritersSurviveReader ==
    \A b \in Blocks :
        reader = "failed" /\ send[b] = "locking" ~> send[b] \in {"sent", "failed"}

(* What the code asserts with try_lock().unwrap(): whenever the iterator   *)
(* reads, nobody else uses the port.                                       *)
ReadLockIsFree == result # "panic"
===============================================================================
