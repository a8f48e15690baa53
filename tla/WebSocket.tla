------------------------------ MODULE WebSocket ------------------------------
(***************************************************************************)
(* One direction of a WebSocket connection (websocket/websocket_client.rs, *)
(* websocket/websocket_server.rs; both ends run the same code).            *)
(*                                                                         *)
(* Sending end: calls of the send callback share the sink behind an async  *)
(* mutex; send() of a binary message puts one frame on the connection or   *)
(* fails.  Receiving end: an iterator that yields the payload of each      *)
(* binary message and gives up on everything else.  A peer that is not     *)
(* this code may also send other frames: control frames, text, and a       *)
(* close frame at the end.                                                 *)
(***************************************************************************)
EXTENDS Integers, Sequences

CONSTANTS
    Blocks,     \* the calls of the send callback, one block each
    NoBlock,    \* the mutex has no owner
    Ping,       \* a frame that is neither binary nor close: ping, pong, text
    Close,      \* the close frame of a clean shutdown
    Window      \* frames the connection holds

ASSUME WebSocketAssumption ==
    /\ NoBlock \notin Blocks
    /\ Ping \notin Blocks /\ Close \notin Blocks /\ Ping # Close
    /\ Window \in Nat \ {0}

VARIABLES
    send,    \* progress of each call: its await point or its result
    holder,  \* owner of the futures Mutex around the sink
    frames,  \* every frame put on the connection, in order
    got,     \* how many of them the receiving end has taken
    items,   \* the payloads yielded by the iterator, in order
    reader,  \* the iterator: "reading" or "failed" (Err)
    link,    \* the connection: "up" or "down"
    accepted \* history: the blocks among the frames, in order

vars == <<send, holder, frames, got, items, reader, link, accepted>>

SendStates == {"idle", "locking", "sending", "sent", "failed"}

Init ==
    /\ send = [b \in Blocks |-> "idle"]
    /\ holder = NoBlock
    /\ frames = <<>>
    /\ got = 0
    /\ items = <<>>
    /\ reader = "reading"
    /\ link = "up"
    /\ accepted = <<>>

\* The close frame is the last one.
Closed == frames # <<>> /\ frames[Len(frames)] = Close

\* The connection takes another frame.
Writable == link = "up" /\ ~Closed /\ Len(frames) - got < Window

Put(frame) == frames' = Append(frames, frame)

------------------------------------------------------------------------------
(* Plausible bugs.  Each variant replaces the definition it is named after *)
(* to show that the properties below depend on it; no behaviour of the     *)
(* code uses them.                                                         *)

\* feed() in place of send(): the frame stays in the sink.
SendFrameUnflushed(b) ==
    /\ send[b] = "sending"
    /\ Writable
    /\ send' = [send EXCEPT ![b] = "sent"]
    /\ holder' = NoBlock
    /\ UNCHANGED <<frames, got, items, reader, link, accepted>>

\* The payload of every kind of message is yielded.
ReadFrameAnyKind ==
    /\ reader = "reading"
    /\ got < Len(frames)
    /\ got' = got + 1
    /\ items' = Append(items, frames[got + 1])
    /\ UNCHANGED <<send, holder, frames, reader, link, accepted>>

\* One message is taken for the last.
ReadFrameOnce ==
    /\ reader = "reading"
    /\ got < Len(frames)
    /\ got' = got + 1
    /\ items' = Append(items, frames[got + 1])
    /\ reader' = "failed"
    /\ UNCHANGED <<send, holder, frames, link, accepted>>

------------------------------------------------------------------------------
(* The send callback *)

\* The ComHub calls the callback, which clones the Arc of the sink.
Call(b) ==
    /\ send[b] = "idle"
    /\ send' = [send EXCEPT ![b] = "locking"]
    /\ UNCHANGED <<holder, frames, got, items, reader, link, accepted>>

\* write.lock().await
Lock(b) ==
    /\ send[b] = "locking"
    /\ holder = NoBlock
    /\ holder' = b
    /\ send' = [send EXCEPT ![b] = "sending"]
    /\ UNCHANGED <<frames, got, items, reader, link, accepted>>

\* send() of the binary message returns Ok: its frame has been written.
SendFrame(b) ==
    /\ send[b] = "sending"
    /\ Writable
    /\ Put(b)
    /\ accepted' = Append(accepted, b)
    /\ send' = [send EXCEPT ![b] = "sent"]
    /\ holder' = NoBlock
    /\ UNCHANGED <<got, items, reader, link>>

\* send() returns Err: SendFailure(block).
SendErr(b) ==
    /\ send[b] = "sending"
    /\ link = "down" \/ Closed
    /\ send' = [send EXCEPT ![b] = "failed"]
    /\ holder' = NoBlock
    /\ UNCHANGED <<frames, got, items, reader, link, accepted>>

------------------------------------------------------------------------------
(* The socket iterator *)

\* Some(Ok(message)): a binary message is yielded, any other one ends the
\* iterator with Err.  (After a close frame the stream would return None.)
ReadFrame ==
    /\ reader = "reading"
    /\ got < Len(frames)
    /\ got' = got + 1
    /\ IF frames[got + 1] \in Blocks
       THEN items' = Append(items, frames[got + 1]) /\ UNCHANGED reader
       ELSE reader' = "failed" /\ UNCHANGED items
    /\ UNCHANGED <<send, holder, frames, link, accepted>>

\* Some(Err(e)): frames in transit are lost.
ReadErr ==
    /\ reader = "reading"
    /\ link = "down"
    /\ reader' = "failed"
    /\ UNCHANGED <<send, holder, frames, got, items, link, accepted>>

------------------------------------------------------------------------------
(* The surroundings *)

\* The other program at the sending end sends a frame of its own.
ForeignFrame(frame) ==
    /\ Writable
    /\ Put(frame)
    /\ UNCHANGED <<send, holder, got, items, reader, link, accepted>>

\* The connection is reset, or the peer is gone without a close frame.
LinkDown ==
    /\ link = "up"
    /\ link' = "down"
    /\ UNCHANGED <<send, holder, frames, got, items, reader, accepted>>

Sender(b) == Lock(b) \/ SendFrame(b) \/ SendErr(b)
Reader == ReadFrame \/ ReadErr

Next ==
    \/ \E b \in Blocks : Call(b) \/ Sender(b)
    \/ Reader
    \/ \E frame \in {Ping, Close} : ForeignFrame(frame)
    \/ LinkDown

Spec == Init /\ [][Next]_vars

\* The executor polls every woken task and the ComHub keeps polling the
\* iterator.
FairSpec ==
    /\ Spec
    /\ \A b \in Blocks : WF_vars(Sender(b))
    /\ WF_vars(Reader)

------------------------------------------------------------------------------
TypeOK ==
    /\ send \in [Blocks -> SendStates]
    /\ holder \in Blocks \cup {NoBlock}
    /\ frames \in Seq(Blocks \cup {Ping, Close})
    /\ got \in 0 .. Len(frames)
    /\ items \in Seq(Blocks) /\ Len(items) <= got
    /\ reader \in {"reading", "failed"}
    /\ link \in {"up", "down"}
    /\ accepted \in Seq(Blocks)

(* The connection delivers whole blocks, at most once each, in the order   *)
(* in which they were sent, with no gap; frames of another kind do not     *)
(* show up as blocks.                                                      *)
Pipe == INSTANCE BlockPipe WITH arrived <- items
ImplementsPipe == Pipe!PipeSpec

(* The iterator gives up only with the connection or on a frame that this  *)
(* code never sends: nothing that another endpoint of this code sends, and *)
(* no failing send, makes it give up.                                      *)
FailureHasCause ==
    /\ TypeOK
    /\ reader = "failed" =>
          link = "down" \/ (got > 0 /\ frames[got] \notin Blocks)

(* Every call of the send callback gets its result, also after others have *)
(* failed, unless the peer has stopped reading from a connection that is   *)
(* still up; and a block reported as sent comes out of the peer's          *)
(* iterator, unless the iterator has failed.                               *)
SentIsDelivered ==
    \A b \in Blocks :
        send[b] = "locking" ~>
            \/ send[b] = "failed"
            \/ send[b] = "sent" /\ \E i \in 1 .. Len(items) : items[i] = b
            \/ reader = "failed" /\ (link = "up" \/ send[b] = "sent")
==============================================================================
