---------------------------- MODULE WebRtcChannel ----------------------------
(***************************************************************************)
(* One direction of an open WebRTC data channel (webrtc/mod.rs,            *)
(* webrtc/channels.rs), from the moment at which the sending endpoint can  *)
(* use it.                                                                 *)
(*                                                                         *)
(* The receiving endpoint passes blocks on through a bounded channel:      *)
(* on_message puts each into it, the iterator yields what it takes out.    *)
(* The offerer installs on_message before it sends its offer; the answerer *)
(* does so in create_answerer_channel, after the channel was announced, at *)
(* which time the library reads from it already.                           *)
(*                                                                         *)
(* The offerer's setup.ordered decides whether the channel keeps the order *)
(* of the blocks; it is reliable in any case (make_data_channel_init).     *)
(*                                                                         *)
(* The webrtc library is external: its read loop awaits on_message before  *)
(* it takes the next message, and drops messages as long as there is no    *)
(* on_message.                                                             *)
(***************************************************************************)
EXTENDS Integers, Sequences, FiniteSets
LOCAL INSTANCE SequencesExt

CONSTANTS
    Blocks,    \* the calls of the send callback, one block each
    Capacity   \* of the channel of incoming blocks, 1024 in the code

ASSUME ChannelAssumption == Capacity \in Nat \ {0}

VARIABLES
    ordered,     \* setup.ordered of the offerer
    role,        \* setup.role of the receiving endpoint
    stage,       \* it is "waiting" for its channel, has "installed" its
                 \* callbacks, its interface is "ready", or has "failed"
    link,        \* the data channel: "open" or "closed"
    send,        \* the calls of the send callback at the other endpoint
    sent,        \* blocks data_channel.send has taken, in order
    wire,        \* the same blocks in the order in which they can be read
    got,         \* how many of them the read loop has taken off
    missed,      \* how many of these found no on_message
    delivering,  \* blocks inside on_message, at incoming_tx.send(..).await
    queue,       \* incoming_tx / incoming_rx
    items,       \* blocks yielded by the iterator
    iterator,    \* "open", "ended", "dropped" by the ComHub
    callback,    \* the receiving endpoint's own send callback: "held" or
                 \* "dropped"; it owns the data channel
    early        \* history: blocks sent before on_message was installed

vars == <<ordered, role, stage, link, send, sent, wire, got, missed, delivering,
          queue, items, iterator, callback, early>>
setup == <<ordered, role>>
sending == <<send, sent, wire, early>>
reading == <<got, missed, delivering, queue>>
owned == <<items, iterator, callback>>

Installed == stage \in {"installed", "ready"}
IsItem(b) == \E i \in 1 .. Len(items) : items[i] = b
Unread(b) == \E i \in got + 1 .. Len(wire) : wire[i] = b

------------------------------------------------------------------------------
(* Plausible bugs.  Each variant replaces the definition it is named after *)
(* to show that the properties below depend on it; no behaviour of the     *)
(* code uses them.                                                         *)

\* The offerer, too, installs its callbacks when the channel is there.
FirstStageLate(r) == "waiting"

\* on_message spawns a task for the block, so that the next one may pass it.
OnMessageSpawned ==
    /\ Installed
    /\ got < Len(wire)
    /\ got' = got + 1
    /\ delivering' = delivering \cup {wire[got']}
    /\ UNCHANGED <<setup, stage, link, sending, missed, queue, owned>>

\* try_send in place of send().await: a full channel loses the block.
EnqueueTry(b) ==
    /\ b \in delivering
    /\ iterator = "open"
    /\ delivering' = delivering \ {b}
    /\ queue' = IF Len(queue) < Capacity THEN Append(queue, b) ELSE queue
    /\ UNCHANGED <<setup, stage, link, sending, got, missed, owned>>

\* The iterator ends with the data channel.
SendersGoneClosed == link = "closed"

------------------------------------------------------------------------------
(* create_webrtc_interface at the receiving endpoint *)

\* create_offerer_channel has installed the callbacks before there is a link.
FirstStage(r) == IF r = "offerer" THEN "installed" ELSE "waiting"

Init ==
    /\ ordered \in BOOLEAN
    /\ role \in {"offerer", "answerer"}
    /\ stage = FirstStage(role)
    /\ link = "open"
    /\ send = [b \in Blocks |-> "idle"]
    /\ sent = <<>>
    /\ wire = <<>>
    /\ got = 0
    /\ missed = 0
    /\ delivering = {}
    /\ queue = <<>>
    /\ items = <<>>
    /\ iterator = "open"
    /\ callback = "held"
    /\ early = 0

\* dc_rx delivers the channel: install_data_channel_callbacks.
Install ==
    /\ stage = "waiting"
    /\ stage' = "installed"
    /\ UNCHANGED <<setup, link, sending, reading, owned>>

\* open_rx: the configuration with iterator and send callback is returned.
Ready ==
    /\ stage = "installed"
    /\ stage' = "ready"
    /\ UNCHANGED <<setup, link, sending, reading, owned>>

\* A `?` returns an error: the receiver goes with the locals.
CreateErr ==
    /\ stage \in {"waiting", "installed"}
    /\ stage' = "failed"
    /\ iterator' = "dropped"
    /\ callback' = "dropped"
    /\ UNCHANGED <<setup, link, sending, reading, items>>

------------------------------------------------------------------------------
(* The send callback of the other endpoint *)

\* Where a new block may come on the wire: behind all others, or, if the
\* channel is not ordered, also before blocks that are not read yet.
Places == IF ordered THEN {Len(wire) + 1} ELSE got + 1 .. Len(wire) + 1

\* data_channel.send: the whole block is one message,
Send(b) ==
    /\ send[b] = "idle"
    /\ link = "open"
    /\ send' = [send EXCEPT ![b] = "sent"]
    /\ sent' = Append(sent, b)
    /\ \E i \in Places : wire' = InsertAt(wire, i, b)
    /\ early' = early + (IF Installed THEN 0 ELSE 1)
    /\ UNCHANGED <<setup, stage, link, reading, owned>>

\* or SendFailure: the channel is closed, or does not take this message, for
\* example because it is too large.
SendErr(b) ==
    /\ send[b] = "idle"
    /\ send' = [send EXCEPT ![b] = "failed"]
    /\ UNCHANGED <<setup, stage, link, sent, wire, early, reading, owned>>

------------------------------------------------------------------------------
(* on_message *)

\* The read loop takes a message and calls on_message, which is there until
\* its sender is dropped.
OnMessage ==
    /\ Installed /\ iterator # "ended"
    /\ delivering = {}
    /\ got < Len(wire)
    /\ got' = got + 1
    /\ delivering' = {wire[got']}
    /\ UNCHANGED <<setup, stage, link, sending, missed, queue, owned>>

\* There is no on_message yet: the library drops the message.
Miss ==
    /\ stage = "waiting"
    /\ got < Len(wire)
    /\ got' = got + 1
    /\ missed' = missed + 1
    /\ UNCHANGED <<setup, stage, link, sending, delivering, queue, owned>>

\* incoming_tx.send(bytes).await waits for room in the channel.
Enqueue(b) ==
    /\ b \in delivering
    /\ iterator = "open"
    /\ Len(queue) < Capacity
    /\ delivering' = delivering \ {b}
    /\ queue' = Append(queue, b)
    /\ UNCHANGED <<setup, stage, link, sending, got, missed, owned>>

\* "WebRTC DATEX receiver dropped"
EnqueueErr(b) ==
    /\ b \in delivering
    /\ iterator # "open"
    /\ delivering' = delivering \ {b}
    /\ UNCHANGED <<setup, stage, link, sending, got, missed, queue, owned>>

------------------------------------------------------------------------------
(* The iterator *)

Yield ==
    /\ stage = "ready"
    /\ iterator = "open"
    /\ queue # <<>>
    /\ items' = Append(items, Head(queue))
    /\ queue' = Tail(queue)
    /\ UNCHANGED <<setup, stage, link, sending, got, missed, delivering,
                   iterator, callback>>

\* Every sender of the channel is dropped.  on_message has one, and belongs
\* to the data channel, which the send callback owns.
SendersGone == link = "closed" /\ callback = "dropped" /\ delivering = {}

\* next() returns None: "WebRTC DataChannel closed", the iterator returns.
End ==
    /\ stage = "ready"
    /\ iterator = "open"
    /\ queue = <<>>
    /\ SendersGone
    /\ iterator' = "ended"
    /\ UNCHANGED <<setup, stage, link, sending, reading, items, callback>>

------------------------------------------------------------------------------
(* The surroundings *)

\* Either end closes the channel, or the connection is lost.
Close ==
    /\ link = "open"
    /\ link' = "closed"
    /\ UNCHANGED <<setup, stage, sending, reading, owned>>

DropIterator ==
    /\ stage = "ready"
    /\ iterator = "open"
    /\ iterator' = "dropped"
    /\ queue' = <<>>
    /\ UNCHANGED <<setup, stage, link, sending, got, missed, delivering, items,
                   callback>>

DropCallback ==
    /\ stage = "ready"
    /\ callback = "held"
    /\ callback' = "dropped"
    /\ UNCHANGED <<setup, stage, link, sending, reading, items, iterator>>

Create == Install \/ (link = "open" /\ Ready)
ReadLoop == OnMessage \/ Miss \/ \E b \in Blocks : Enqueue(b) \/ EnqueueErr(b)

Next ==
    \/ Install \/ Ready \/ CreateErr
    \/ \E b \in Blocks : Send(b) \/ SendErr(b)
    \/ ReadLoop
    \/ Yield \/ End
    \/ Close \/ DropIterator \/ DropCallback

Spec == Init /\ [][Next]_vars

\* The task of create_interface and the library's read loop run, and the
\* ComHub polls the iterator.  A channel that closes early may never report
\* that it is open, and nothing obliges the library to let go of a closed
\* one: Ready is not fair then, and End is not at all.
FairSpec == Spec /\ WF_vars(Create) /\ WF_vars(ReadLoop) /\ WF_vars(Yield)

------------------------------------------------------------------------------
\* on_message has at most one block in hand: memory is bounded by the channel.
TypeOK ==
    /\ ordered \in BOOLEAN
    /\ role \in {"offerer", "answerer"}
    /\ stage \in {"waiting", "installed", "ready", "failed"}
    /\ link \in {"open", "closed"}
    /\ send \in [Blocks -> {"idle", "sent", "failed"}]
    /\ sent \in Seq(Blocks)
    /\ wire \in Seq(Blocks)
    /\ got \in 0 .. Len(wire)
    /\ missed \in 0 .. got
    /\ delivering \subseteq Blocks /\ Cardinality(delivering) <= 1
    /\ queue \in Seq(Blocks) /\ Len(queue) <= Capacity
    /\ items \in Seq(Blocks)
    /\ iterator \in {"open", "ended", "dropped"}
    /\ callback \in {"held", "dropped"}
    /\ early \in Nat

\* The order in which the blocks are to come out: that of sending, if this is
\* configured, and otherwise any in which they can be read.
Promised == IF ordered THEN sent ELSE wire

Pipe == INSTANCE BlockPipe WITH
            accepted <- SubSeq(Promised, missed + 1, got),
            arrived <- items

(* From the first block that on_message gets, the blocks come out of the   *)
(* iterator whole and once, however slowly it is polled: on_message is     *)
(* awaited, so that none is shed, and none overtakes another that was read *)
(* before it.  With setup.ordered this is the order of sending; without    *)
(* it, nothing restores that order.                                        *)
ImplementsPipe == Pipe!PipeSpec

(* Blocks that never reach the iterator although the channel works are the *)
(* first ones, at an answerer, sent before it had installed on_message: an *)
(* endpoint that sends as soon as its own handshake is over may lose them, *)
(* one that waits for its peer does not.  An offerer misses nothing.       *)
MissNeedsEarlySend ==
    /\ TypeOK
    /\ missed <= early
    /\ role = "offerer" => missed = 0

(* As long as the ComHub holds the send callback, the iterator does not    *)
(* end, although the channel is closed: the send callback keeps on_message *)
(* and its sender alive.  When it does end, every block that on_message    *)
(* got was yielded.                                                        *)
EndNeedsCallbackDropped ==
    iterator = "ended" =>
        /\ link = "closed"
        /\ callback = "dropped"
        /\ items = SubSeq(wire, missed + 1, got)

(* Every block that was sent after on_message was installed is yielded,    *)
(* unless the channel closes, there will be no interface, or the ComHub    *)
(* drops the iterator: in that case it is taken and thrown away, so that   *)
(* the read loop goes on, also when the channel was full at that moment.   *)
SentIsDelivered ==
    \A b \in Blocks :
        Installed /\ Unread(b)
            ~> \/ IsItem(b)
               \/ link = "closed" \/ stage = "failed"
               \/ iterator # "open" /\ ~Unread(b) /\ b \notin delivering
==============================================================================
