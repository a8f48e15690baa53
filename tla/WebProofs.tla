------------------------------ MODULE WebProofs ------------------------------
(***************************************************************************)
(* Proofs about the two transports that a web server carries.              *)
(*                                                                         *)
(* WebSocket, for any number of concurrent sends, any window and any       *)
(* foreign frames: the iterator gives up only with a cause, and what it    *)
(* yields is what was sent, whole, once and in order.                      *)
(*                                                                         *)
(* HttpExchange, for any number of calls: what counts as sent was          *)
(* answered, and the iterator ends only when nothing is outstanding.       *)
(***************************************************************************)
EXTENDS WebSocket, HttpExchange, SequenceTheorems, TLAPS

\* A block is accepted by the call that reports it as sent.
AcceptedWasSent ==
    \A i \in 1 .. Len(accepted) : send[accepted[i]] = "sent"

\* As long as it reads, the iterator has yielded every frame it has taken.
NothingSkipped ==
    reader = "reading" =>
        /\ Len(items) = got
        /\ \A i \in 1 .. got : items[i] = frames[i]

\* Up to the first foreign frame, the frames are the accepted blocks.
BlocksFirst ==
    /\ Len(accepted) <= Len(frames)
    /\ \A n \in 0 .. Len(frames) :
          (\A i \in 1 .. n : frames[i] \in Blocks) =>
              /\ n <= Len(accepted)
              /\ \A i \in 1 .. n : accepted[i] = frames[i]

IInv == FailureHasCause /\ AcceptedWasSent /\ NothingSkipped /\ BlocksFirst

-------------------------------------------------------------------------------
(* A frame is put on the connection: the frames before it stay. *)
LEMMA FramePut ==
    ASSUME IInv, NEW frame \in Blocks \cup {Ping, Close}, Put(frame),
           UNCHANGED <<got, items, reader, link>>
    PROVE  /\ frames' \in Seq(Blocks \cup {Ping, Close})
           /\ got \in 0 .. Len(frames')
           /\ Len(frames') = Len(frames) + 1
           /\ frames'[Len(frames) + 1] = frame
           /\ \A i \in 1 .. Len(frames) : frames'[i] = frames[i]
           /\ reader = "failed" =>
                 link = "down" \/ (got > 0 /\ frames'[got] \notin Blocks)
           /\ NothingSkipped'
<1>1. /\ frames \in Seq(Blocks \cup {Ping, Close}) /\ Len(frames) \in Nat
      /\ got \in 0 .. Len(frames)
  BY DEF IInv, FailureHasCause, TypeOK
<1>2. /\ frames' \in Seq(Blocks \cup {Ping, Close})
      /\ Len(frames') = Len(frames) + 1
      /\ frames'[Len(frames) + 1] = frame
      /\ \A i \in 1 .. Len(frames) : frames'[i] = frames[i]
  BY <1>1, AppendProperties DEF Put
<1>3. got > 0 => frames'[got] = frames[got]
  BY <1>1, <1>2
<1>4. NothingSkipped'
  <2>1. \A i \in 1 .. got : frames'[i] = frames[i]
    BY <1>1, <1>2
  <2> QED
    BY <2>1 DEF IInv, NothingSkipped
<1> QED
  BY <1>1, <1>2, <1>3, <1>4 DEF IInv, FailureHasCause

(* A block is accepted: its frame is the next one. *)
LEMMA SendFrameKeepsInv ==
    ASSUME IInv, NEW b \in Blocks, SendFrame(b)
    PROVE  IInv'
<1>1. TypeOK /\ FailureHasCause
  BY DEF IInv, FailureHasCause
<1>2. /\ frames' \in Seq(Blocks \cup {Ping, Close})
      /\ got \in 0 .. Len(frames')
      /\ Len(frames') = Len(frames) + 1
      /\ frames'[Len(frames) + 1] = b
      /\ \A i \in 1 .. Len(frames) : frames'[i] = frames[i]
      /\ reader = "failed" =>
            link = "down" \/ (got > 0 /\ frames'[got] \notin Blocks)
      /\ NothingSkipped'
  BY FramePut DEF SendFrame
<1>3. /\ accepted \in Seq(Blocks) /\ Len(accepted) \in Nat
      /\ accepted' \in Seq(Blocks)
      /\ Len(accepted') = Len(accepted) + 1
      /\ accepted'[Len(accepted) + 1] = b
      /\ \A i \in 1 .. Len(accepted) :
            accepted'[i] = accepted[i] /\ accepted[i] \in Blocks
  BY <1>1, AppendProperties, ElementOfSeq, LenProperties DEF SendFrame, TypeOK
<1>4. TypeOK'
  BY <1>1, <1>2, <1>3 DEF SendFrame, TypeOK, SendStates
<1>5. FailureHasCause'
  BY <1>1, <1>2, <1>4 DEF SendFrame, FailureHasCause
<1>6. AcceptedWasSent'
  <2> SUFFICES ASSUME NEW i \in 1 .. Len(accepted) + 1
               PROVE  send'[accepted'[i]] = "sent"
    BY <1>3 DEF AcceptedWasSent
  <2>1. CASE i = Len(accepted) + 1
    BY <1>1, <1>3, <2>1 DEF SendFrame, TypeOK
  <2>2. CASE i # Len(accepted) + 1
    <3>1. i \in 1 .. Len(accepted)
      BY <1>3, <2>2
    <3>2. send[accepted[i]] = "sent" /\ accepted'[i] = accepted[i]
      BY <1>3, <3>1 DEF IInv, AcceptedWasSent
    <3> QED
      BY <1>1, <1>3, <3>1, <3>2 DEF SendFrame, TypeOK
  <2> QED
    BY <2>1, <2>2
<1>7. BlocksFirst'
  <2> DEFINE f == Len(frames)
             a == Len(accepted)
  <2>1. f \in Nat /\ a \in Nat /\ a <= f
    BY <1>1, <1>3 DEF IInv, BlocksFirst, TypeOK
  <2>2. \A n \in 0 .. f :
           (\A i \in 1 .. n : frames[i] \in Blocks) =>
               n <= a /\ \A i \in 1 .. n : accepted[i] = frames[i]
    BY DEF IInv, BlocksFirst
  <2>3. Len(frames') = f + 1 /\ Len(accepted') = a + 1
    BY <1>2, <1>3
  <2>4. ASSUME NEW n \in 0 .. f + 1, \A i \in 1 .. n : frames'[i] \in Blocks
        PROVE  n <= a + 1 /\ \A i \in 1 .. n : accepted'[i] = frames'[i]
    <3>1. CASE n \in 0 .. f
      <4>1. \A i \in 1 .. n : frames'[i] = frames[i] /\ frames[i] \in Blocks
        BY <1>2, <2>1, <2>4, <3>1
      <4>2. n <= a /\ \A i \in 1 .. n : accepted[i] = frames[i]
        BY <2>2, <3>1, <4>1
      <4>3. \A i \in 1 .. n : accepted'[i] = accepted[i]
        BY <1>3, <2>1, <3>1, <4>2
      <4> QED
        BY <2>1, <3>1, <4>1, <4>2, <4>3
    <3>2. CASE n = f + 1
      <4>1. \A i \in 1 .. f : frames'[i] = frames[i] /\ frames[i] \in Blocks
        BY <1>2, <2>1, <2>4, <3>2
      <4>2. f <= a /\ \A i \in 1 .. f : accepted[i] = frames[i]
        BY <2>1, <2>2, <4>1
      <4>3. a = f
        BY <2>1, <4>2
      <4>4. \A i \in 1 .. f : accepted'[i] = frames'[i]
        BY <1>3, <4>1, <4>2, <4>3
      <4>5. accepted'[f + 1] = frames'[f + 1]
        BY <1>2, <1>3, <4>3
      <4>6. \A i \in 1 .. f + 1 : i \in 1 .. f \/ i = f + 1
        BY <2>1
      <4> HIDE DEF f, a
      <4> QED
        BY <2>1, <3>2, <4>3, <4>4, <4>5, <4>6
    <3> QED
      BY <2>1, <3>1, <3>2
  <2> HIDE DEF f, a
  <2> QED
    BY <2>1, <2>3, <2>4 DEF BlocksFirst
<1> QED
  BY <1>2, <1>5, <1>6, <1>7 DEF IInv

(* A foreign frame is put after the accepted blocks. *)
LEMMA ForeignFrameKeepsInv ==
    ASSUME IInv, NEW frame \in {Ping, Close}, ForeignFrame(frame)
    PROVE  IInv'
<1>1. TypeOK /\ FailureHasCause
  BY DEF IInv, FailureHasCause
<1>2. /\ frames' \in Seq(Blocks \cup {Ping, Close})
      /\ got \in 0 .. Len(frames')
      /\ Len(frames') = Len(frames) + 1
      /\ frames'[Len(frames) + 1] = frame
      /\ \A i \in 1 .. Len(frames) : frames'[i] = frames[i]
      /\ reader = "failed" =>
            link = "down" \/ (got > 0 /\ frames'[got] \notin Blocks)
      /\ NothingSkipped'
  BY FramePut DEF ForeignFrame
<1>3. FailureHasCause'
  BY <1>1, <1>2 DEF ForeignFrame, FailureHasCause, TypeOK
<1>4. AcceptedWasSent'
  BY DEF ForeignFrame, IInv, AcceptedWasSent
<1>5. BlocksFirst'
  <2>1. Len(frames) \in Nat /\ Len(accepted) \in Nat /\ accepted' = accepted
    BY <1>1 DEF TypeOK, ForeignFrame
  <2>2. frame \notin Blocks
    BY WebSocketAssumption DEF WebSocketAssumption
  <2>3. ASSUME NEW n \in 0 .. Len(frames) + 1,
               \A i \in 1 .. n : frames'[i] \in Blocks
        PROVE  n <= Len(accepted) /\ \A i \in 1 .. n : accepted[i] = frames'[i]
    <3>1. n # Len(frames) + 1
      BY <1>2, <2>1, <2>2, <2>3
    <3>2. n \in 0 .. Len(frames)
      BY <2>1, <3>1
    <3>3. \A i \in 1 .. n : frames'[i] = frames[i]
      BY <1>2, <2>1, <3>2
    <3> QED
      BY <2>3, <3>2, <3>3 DEF IInv, BlocksFirst
  <2>4. Len(accepted) <= Len(frames) + 1
    BY <2>1 DEF IInv, BlocksFirst
  <2> QED
    BY <1>2, <2>1, <2>3, <2>4 DEF BlocksFirst
<1> QED
  BY <1>2, <1>3, <1>4, <1>5 DEF IInv

(* A frame is taken: a block is yielded, another one ends the iterator. *)
LEMMA ReadFrameKeepsInv == ASSUME IInv, ReadFrame PROVE IInv'
<1>1. TypeOK /\ FailureHasCause /\ NothingSkipped
  BY DEF IInv, FailureHasCause
<1>2. /\ frames \in Seq(Blocks \cup {Ping, Close}) /\ Len(frames) \in Nat
      /\ items \in Seq(Blocks) /\ Len(items) = got
      /\ got \in Nat /\ got < Len(frames)
      /\ \A i \in 1 .. got : items[i] = frames[i]
  BY <1>1 DEF ReadFrame, TypeOK, NothingSkipped
<1>3. got' = got + 1 /\ got' \in 0 .. Len(frames)
  BY <1>2 DEF ReadFrame
<1>4. UNCHANGED <<send, holder, frames, link, accepted>>
  BY DEF ReadFrame
<1>5. AcceptedWasSent' /\ BlocksFirst'
  BY <1>4 DEF IInv, AcceptedWasSent, BlocksFirst
<1>6. CASE frames[got + 1] \in Blocks
  <2>1. items' = Append(items, frames[got + 1]) /\ reader' = reader
    BY <1>6 DEF ReadFrame
  <2>2. /\ items' \in Seq(Blocks) /\ Len(items') = got + 1
        /\ items'[got + 1] = frames[got + 1]
        /\ \A i \in 1 .. got : items'[i] = items[i]
    BY <1>2, <1>6, <2>1, AppendProperties
  <2>3. \A i \in 1 .. got + 1 : i \in 1 .. got \/ i = got + 1
    BY <1>2
  <2>4. NothingSkipped'
    BY <1>2, <1>3, <1>4, <2>2, <2>3 DEF NothingSkipped
  <2>5. FailureHasCause'
    BY <1>1, <1>2, <1>3, <1>4, <2>1, <2>2 DEF FailureHasCause, TypeOK, ReadFrame
  <2> QED
    BY <1>5, <2>4, <2>5 DEF IInv
<1>7. CASE frames[got + 1] \notin Blocks
  <2>1. items' = items /\ reader' = "failed"
    BY <1>7 DEF ReadFrame
  <2>2. FailureHasCause'
    BY <1>1, <1>2, <1>3, <1>4, <1>7, <2>1 DEF FailureHasCause, TypeOK
  <2> QED
    BY <1>5, <2>1, <2>2 DEF IInv, NothingSkipped
<1> QED
  BY <1>6, <1>7

(* The strengthened invariant is inductive. *)
LEMMA Inductive == Spec => []IInv
<1>1. Init => IInv
  <2> SUFFICES ASSUME Init PROVE IInv
    OBVIOUS
  <2>1. <<>> \in Seq(Blocks) /\ <<>> \in Seq(Blocks \cup {Ping, Close})
    OBVIOUS
  <2> QED
    BY <2>1 DEF Init, IInv, FailureHasCause, TypeOK, SendStates, AcceptedWasSent,
                NothingSkipped, BlocksFirst
<1>2. IInv /\ [Next]_vars => IInv'
  <2> SUFFICES ASSUME IInv, [Next]_vars PROVE IInv'
    OBVIOUS
  <2>0. TypeOK
    BY DEF IInv, FailureHasCause
  <2>1. ASSUME NEW b \in Blocks, Call(b) \/ Lock(b) \/ SendErr(b)
        PROVE  IInv'
    <3>1. /\ UNCHANGED <<frames, got, items, reader, link, accepted>>
          /\ send[b] # "sent"
          /\ send' \in [Blocks -> SendStates] /\ holder' \in Blocks \cup {NoBlock}
          /\ \A c \in Blocks : c # b => send'[c] = send[c]
      BY <2>0, <2>1 DEF Call, Lock, SendErr, TypeOK, SendStates
    <3>2. FailureHasCause'
      BY <3>1 DEF IInv, FailureHasCause, TypeOK
    <3>3. NothingSkipped' /\ BlocksFirst'
      BY <3>1 DEF IInv, NothingSkipped, BlocksFirst
    <3>4. AcceptedWasSent'
      <4>1. \A i \in 1 .. Len(accepted) : accepted[i] \in Blocks
        BY <2>0 DEF TypeOK
      <4> QED
        BY <3>1, <4>1 DEF IInv, AcceptedWasSent
    <3> QED
      BY <3>2, <3>3, <3>4 DEF IInv
  <2>2. ASSUME NEW b \in Blocks, SendFrame(b) PROVE IInv'
    BY <2>2, SendFrameKeepsInv
  <2>3. CASE ReadFrame
    BY <2>3, ReadFrameKeepsInv
  <2>4. CASE ReadErr
    BY <2>4 DEF ReadErr, IInv, FailureHasCause, TypeOK, AcceptedWasSent,
                NothingSkipped, BlocksFirst
  <2>5. ASSUME NEW frame \in {Ping, Close}, ForeignFrame(frame) PROVE IInv'
    BY <2>5, ForeignFrameKeepsInv
  <2>6. CASE LinkDown
    BY <2>6 DEF LinkDown, IInv, FailureHasCause, TypeOK, AcceptedWasSent,
                NothingSkipped, BlocksFirst
  <2>7. CASE UNCHANGED vars
    BY <2>7 DEF vars, IInv, FailureHasCause, TypeOK, AcceptedWasSent,
                NothingSkipped, BlocksFirst
  <2> QED
    BY <2>1, <2>2, <2>3, <2>4, <2>5, <2>6, <2>7 DEF Next, Sender, Reader
<1> QED
  BY <1>1, <1>2, PTL DEF Spec

(* The iterator gives up only with the connection, or on a frame that no   *)
(* endpoint of this code sends; and every variable has its type.           *)
THEOREM GivesUpWithCause == Spec => []FailureHasCause
BY Inductive, PTL DEF IInv

-------------------------------------------------------------------------------
(* A yielded block is the next accepted one that had not arrived. *)
LEMMA ReadFrameArrives ==
    ASSUME IInv, ReadFrame
    PROVE  \/ \E n \in 1 .. Len(accepted) : Pipe!Arrive(n)
           \/ UNCHANGED <<accepted, items>>
<1>1. /\ frames \in Seq(Blocks \cup {Ping, Close}) /\ Len(frames) \in Nat
      /\ accepted \in Seq(Blocks) /\ Len(accepted) \in Nat
      /\ items \in Seq(Blocks) /\ Len(items) = got
      /\ got \in Nat /\ got < Len(frames)
      /\ \A i \in 1 .. got : items[i] = frames[i] /\ items[i] \in Blocks
  BY DEF ReadFrame, IInv, FailureHasCause, TypeOK, NothingSkipped
<1>2. accepted' = accepted
  BY DEF ReadFrame
<1>3. CASE frames[got + 1] \notin Blocks
  BY <1>2, <1>3 DEF ReadFrame
<1>4. CASE frames[got + 1] \in Blocks
  <2>1. items' = Append(items, frames[got + 1])
    BY <1>4 DEF ReadFrame
  <2>2. /\ items' \in Seq(Blocks) /\ Len(items') = got + 1
        /\ items'[got + 1] = frames[got + 1]
        /\ \A i \in 1 .. got : items'[i] = items[i]
    BY <1>1, <1>4, <2>1, AppendProperties
  <2>3. \A i \in 1 .. got + 1 : i \in 1 .. got \/ i = got + 1
    BY <1>1
  <2>4. \A i \in 1 .. got + 1 : frames[i] = items'[i] /\ frames[i] \in Blocks
    BY <1>1, <1>4, <2>2, <2>3
  <2>5. got + 1 \in 0 .. Len(frames)
    BY <1>1
  <2>6. got + 1 <= Len(accepted) /\ \A i \in 1 .. got + 1 : accepted[i] = items'[i]
    BY <2>4, <2>5 DEF IInv, BlocksFirst
  <2> DEFINE arriving == SubSeq(accepted, 1, got + 1)
  <2>7. \A i \in 1 .. got + 1 : accepted[i] \in Blocks
    BY <2>4, <2>6
  <2>8. /\ arriving \in Seq(Blocks)
        /\ Len(arriving) = IF 1 <= got + 1 THEN got + 1 - 1 + 1 ELSE 0
        /\ \A i \in 1 .. got + 1 - 1 + 1 : arriving[i] = accepted[1 + i - 1]
    BY <1>1, <2>7, SubSeqProperties
  <2>9. Len(arriving) = got + 1 /\ \A i \in 1 .. got + 1 : arriving[i] = accepted[i]
    <3> HIDE DEF arriving
    <3> QED
      BY <1>1, <2>8
  <2>10. arriving = items'
    BY <2>2, <2>6, <2>8, <2>9, SeqEqual
  <2>11. /\ got + 1 \in 1 .. Len(accepted)
         /\ got + 1 \in Len(items) + 1 .. Len(accepted)
    BY <1>1, <2>6
  <2> QED
    BY <1>2, <2>10, <2>11 DEF Pipe!Arrive
<1> QED
  BY <1>3, <1>4

(* A WebSocket connection is a pipe of whole blocks: each arrives at most  *)
(* once, in the order in which they were sent and without a gap, whatever  *)
(* frames another program puts between them.                               *)
THEOREM WebSocketImplementsPipe == Spec => ImplementsPipe
<1>1. Init => Pipe!PipeInit
  BY DEF Init, Pipe!PipeInit
<1>2. IInv /\ [Next]_vars => [Pipe!PipeNext]_(Pipe!pipeVars)
  <2> SUFFICES ASSUME IInv, [Next]_vars
               PROVE  Pipe!PipeNext \/ UNCHANGED <<accepted, items>>
    BY DEF Pipe!pipeVars
  <2>1. ASSUME NEW b \in Blocks, SendFrame(b) PROVE Pipe!PipeNext
    <3>1. Pipe!Accept(b)
      BY <2>1 DEF SendFrame, Pipe!Accept, IInv, AcceptedWasSent
    <3> QED
      BY <3>1 DEF Pipe!PipeNext
  <2>2. CASE ReadFrame
    BY <2>2, ReadFrameArrives DEF Pipe!PipeNext
  <2>3. ASSUME NEW b \in Blocks, Call(b) \/ Lock(b) \/ SendErr(b)
        PROVE  UNCHANGED <<accepted, items>>
    BY <2>3 DEF Call, Lock, SendErr
  <2>4. CASE ReadErr \/ LinkDown \/ UNCHANGED vars
    BY <2>4 DEF ReadErr, LinkDown, vars
  <2>5. ASSUME NEW frame \in {Ping, Close}, ForeignFrame(frame)
        PROVE  UNCHANGED <<accepted, items>>
    BY <2>5 DEF ForeignFrame
  <2> HIDE DEF IInv
  <2> QED
    BY <2>1, <2>2, <2>3, <2>4, <2>5 DEF Next, Sender, Reader
<1> QED
  BY <1>1, <1>2, Inductive, PTL DEF Spec, ImplementsPipe, Pipe!PipeSpec

-------------------------------------------------------------------------------
(* HttpExchange *)

\* A call has put a response into the channel only if it is over.
RepliesAreOver ==
    \A i \in 1 .. Len(replies) : call[replies[i]] \in {"sent", "failed"}

\* The status reports success only for a request that was answered.
SuccessIsAnswered ==
    \A c \in Calls : status[c] = "success" => request[c] = "answered"

\* After its end nobody can call any more.
NoSenderAfterEnd == iterator = "ended" => callback = "dropped"

HttpInv ==
    /\ SentMeansAnswered
    /\ EndIsComplete
    /\ RepliesAreOver
    /\ SuccessIsAnswered
    /\ NoSenderAfterEnd

(* A response goes into the channel once, or its call panics. *)
LEMMA BodyOkKeepsInv ==
    ASSUME HttpInv, NEW c \in Calls, BodyOk(c)
    PROVE  HttpInv'
<1>1. HttpTypeOK
  BY DEF HttpInv, SentMeansAnswered
<1>2. /\ call \in [Calls -> CallStates] /\ call[c] = "reading"
      /\ replies \in Seq(Calls) /\ Len(replies) \in Nat
      /\ \A i \in 1 .. Len(replies) : replies[i] \in Calls /\ replies[i] # c
      /\ UNCHANGED <<status, request, received, yielded, iterator, callback>>
  <2>1. call[c] = "reading" /\ replies \in Seq(Calls) /\ Len(replies) \in Nat
        /\ call \in [Calls -> CallStates]
    BY <1>1 DEF HttpTypeOK, BodyOk
  <2>2. \A i \in 1 .. Len(replies) : replies[i] \in Calls
    BY <2>1, ElementOfSeq
  <2>3. \A i \in 1 .. Len(replies) : replies[i] # c
    BY <2>1 DEF HttpInv, RepliesAreOver
  <2> QED
    BY <2>1, <2>2, <2>3 DEF BodyOk
<1>3. iterator # "ended"
  BY <1>2 DEF HttpInv, EndIsComplete, InFlight
<1>4. CASE iterator # "polled"
  <2>1. call' = [call EXCEPT ![c] = "panicked"] /\ replies' = replies
    BY <1>4 DEF BodyOk, Resolve
  <2>2. iterator = "dropped"
    BY <1>1, <1>3, <1>4 DEF HttpTypeOK
  <2>3. HttpTypeOK'
    BY <1>1, <1>2, <2>1 DEF HttpTypeOK, CallStates
  <2>4. SentMeansAnswered'
    BY <1>2, <2>1, <2>3 DEF HttpInv, SentMeansAnswered
  <2>5. EndIsComplete'
    BY <1>2, <2>1, <2>2 DEF HttpInv, EndIsComplete
  <2>6. RepliesAreOver'
    BY <1>2, <2>1 DEF HttpInv, RepliesAreOver
  <2> QED
    BY <1>2, <2>4, <2>5, <2>6 DEF HttpInv, SuccessIsAnswered, NoSenderAfterEnd
<1>5. CASE iterator = "polled"
  <2> DEFINE n == Len(replies)
  <2>1. /\ call' = [call EXCEPT ![c] = Outcome(c)]
        /\ replies' = Append(replies, c)
    BY <1>5 DEF BodyOk, Resolve
  <2>2. /\ replies' \in Seq(Calls) /\ Len(replies') = n + 1
        /\ replies'[n + 1] = c
        /\ \A i \in 1 .. n : replies'[i] = replies[i]
    BY <1>2, <2>1, AppendProperties
  <2>3. /\ call'[c] \in {"sent", "failed"}
        /\ call'[c] = "sent" => request[c] = "answered"
        /\ \A d \in Calls : d # c => call'[d] = call[d]
    BY <1>2, <2>1 DEF Outcome, HttpInv, SuccessIsAnswered
  <2>4. \A i \in 1 .. n + 1 : i \in 1 .. n \/ i = n + 1
    BY <1>2
  <2>5. n \in Nat /\ \A i \in 1 .. n : i \in 1 .. n + 1
    BY <1>2
  <2>6. HttpTypeOK'
    <3>1. call' \in [Calls -> CallStates]
      BY <1>2, <2>1 DEF Outcome, CallStates
    <3>2. yielded' \in 0 .. Len(replies')
      BY <1>1, <1>2, <2>2 DEF HttpTypeOK
    <3> QED
      BY <1>1, <1>2, <2>2, <3>1, <3>2 DEF HttpTypeOK
  <2> HIDE DEF n
  <2>7. ASSUME NEW d \in Calls, call'[d] = "sent"
        PROVE  request'[d] = "answered" /\ \E i \in 1 .. n + 1 : replies'[i] = d
    <3>1. CASE d = c
      <4>1. n + 1 \in 1 .. n + 1
        BY <2>5
      <4> QED
        BY <1>2, <2>2, <2>3, <2>7, <3>1, <4>1
    <3>2. CASE d # c
      <4>1. PICK i \in 1 .. n : replies[i] = d
        BY <2>3, <2>7, <3>2 DEF HttpInv, SentMeansAnswered, n
      <4>2. request[d] = "answered"
        BY <2>3, <2>7, <3>2 DEF HttpInv, SentMeansAnswered
      <4> QED
        BY <1>2, <2>2, <2>5, <4>1, <4>2
    <3> QED
      BY <3>1, <3>2
  <2>8. ASSUME NEW i \in 1 .. n + 1, NEW j \in 1 .. n + 1,
               replies'[i] = replies'[j]
        PROVE  i = j
    <3>1. \A k \in 1 .. n : replies'[k] # c
      BY <1>2, <2>2 DEF n
    <3>2. \A k, l \in 1 .. n : replies[k] = replies[l] => k = l
      BY DEF HttpInv, SentMeansAnswered, n
    <3> QED
      BY <2>2, <2>4, <2>8, <3>1, <3>2
  <2>9. SentMeansAnswered'
    BY <2>2, <2>6, <2>7, <2>8 DEF SentMeansAnswered
  <2>10. EndIsComplete'
    BY <1>2, <1>5, <2>3 DEF HttpInv, EndIsComplete
  <2>11. RepliesAreOver'
    <3>1. \A i \in 1 .. n : call'[replies'[i]] \in {"sent", "failed"}
      BY <1>2, <2>2, <2>3 DEF HttpInv, RepliesAreOver, n
    <3> QED
      BY <2>2, <2>3, <2>4, <3>1 DEF RepliesAreOver
  <2> QED
    BY <1>2, <1>5, <2>9, <2>10, <2>11
    DEF HttpInv, SuccessIsAnswered, NoSenderAfterEnd
<1> QED
  BY <1>4, <1>5

(* The strengthened invariant is inductive. *)
LEMMA HttpInductive == HttpSpec => []HttpInv
<1>1. HttpInit => HttpInv
  <2> SUFFICES ASSUME HttpInit PROVE HttpInv
    OBVIOUS
  <2>1. <<>> \in Seq(Calls)
    OBVIOUS
  <2> QED
    BY <2>1 DEF HttpInit, HttpInv, SentMeansAnswered, HttpTypeOK,
                CallStates, RequestStates, EndIsComplete,
                RepliesAreOver, SuccessIsAnswered, NoSenderAfterEnd
<1>2. HttpInv /\ [HttpNext]_(httpVars) => HttpInv'
  <2> SUFFICES ASSUME HttpInv, [HttpNext]_(httpVars) PROVE HttpInv'
    OBVIOUS
  <2>0. HttpTypeOK
    BY DEF HttpInv, SentMeansAnswered
  <2>a. \A i \in 1 .. Len(replies) : replies[i] \in Calls
    BY <2>0 DEF HttpTypeOK
  <2> USE DEF HttpInv, SentMeansAnswered, HttpTypeOK, EndIsComplete,
              RepliesAreOver, SuccessIsAnswered, NoSenderAfterEnd, CallStates,
              RequestStates, InFlight, Resolve
  <2>1. ASSUME NEW c \in Calls, Post(c) PROVE HttpInv'
    BY <2>a, <2>1 DEF Post
  <2>2. ASSUME NEW c \in Calls, PostErr(c) PROVE HttpInv'
    BY <2>a, <2>2 DEF PostErr
  <2>3. ASSUME NEW c \in Calls, ResponseHead(c) PROVE HttpInv'
    BY <2>a, <2>3 DEF ResponseHead
  <2>4. ASSUME NEW c \in Calls, BodyErr(c) PROVE HttpInv'
    BY <2>a, <2>4 DEF BodyErr
  <2>5. ASSUME NEW c \in Calls, BodyOk(c) PROVE HttpInv'
    BY <2>5, BodyOkKeepsInv
  <2>6. ASSUME NEW c \in Calls, Arrive(c) PROVE HttpInv'
    BY <2>6 DEF Arrive
  <2>7. ASSUME NEW c \in Calls, OpenSocket(c) PROVE HttpInv'
    BY <2>7 DEF OpenSocket
  <2>8. ASSUME NEW c \in Calls, ReceiveBody(c) PROVE HttpInv'
    BY <2>8 DEF ReceiveBody
  <2>9. ASSUME NEW c \in Calls, Respond(c) PROVE HttpInv'
    BY <2>9 DEF Respond
  <2>10. ASSUME NEW c \in Calls, DropSocket(c) PROVE HttpInv'
    BY <2>10 DEF DropSocket
  <2>11. CASE Yield
    BY <2>11 DEF Yield
  <2>12. CASE IteratorEnds
    BY <2>12 DEF IteratorEnds, SendersDropped
  <2>13. CASE DropIterator \/ DropCallback
    BY <2>13 DEF DropIterator, DropCallback
  <2>14. CASE UNCHANGED httpVars
    BY <2>14 DEF httpVars
  <2> HIDE DEF HttpInv
  <2> QED
    BY <2>1, <2>2, <2>3, <2>4, <2>5, <2>6, <2>7, <2>8, <2>9, <2>10, <2>11,
       <2>12, <2>13, <2>14 DEF HttpNext, Client, Server
<1> QED
  BY <1>1, <1>2, PTL DEF HttpSpec

(* A send that reports success was answered by the peer, and its response  *)
(* is in the channel exactly once, for any number of calls.                *)
THEOREM SentWasAnswered == HttpSpec => []SentMeansAnswered
BY HttpInductive, PTL DEF HttpInv

(* The client's iterator ends only with nothing outstanding, and a call    *)
(* panics only if the ComHub has dropped the iterator.                     *)
THEOREM EndLeavesNothing == HttpSpec => []EndIsComplete
BY HttpInductive, PTL DEF HttpInv
==============================================================================
