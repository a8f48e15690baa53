------------------------- MODULE WebRtcChannelProofs -------------------------
(***************************************************************************)
(* Proofs about WebRtcChannel for any number of blocks and any capacity of *)
(* the channel, in both roles, ordered or not: what can be missed, when    *)
(* the iterator ends, and that the direction is a pipe of whole blocks, in *)
(* the order of sending if the channel is ordered.                         *)
(***************************************************************************)
EXTENDS WebRtcChannel, SequenceTheorems, FiniteSetTheorems, TLAPS
LOCAL INSTANCE SequencesExt

\* on_message is awaited: it has one block in hand or none.
OneInHand == delivering = {} \/ \E b \in Blocks : delivering = {b}

\* Each call puts its block on the wire once, and an ordered channel keeps
\* the order of sending.
SentOnce ==
    /\ \A i \in 1 .. Len(wire) : send[wire[i]] = "sent"
    /\ \A i, j \in 1 .. Len(wire) : wire[i] = wire[j] => i = j
    /\ ordered => wire = sent

\* Until on_message is there, every block that is sent is early and every
\* block that is read is missed.  An offerer is never without.
MissedFirst ==
    /\ stage = "waiting" => early = Len(wire) /\ got = missed
    /\ missed <= early
    /\ role = "offerer" => stage # "waiting" /\ missed = 0

\* What was yielded is where the missed blocks end.
YieldedInOrder ==
    /\ missed + Len(items) <= got
    /\ \A i \in 1 .. Len(items) : items[i] = wire[missed + i]

\* As long as the iterator is open, yielded blocks, queue and the block in
\* hand together are what on_message got.
AllAccounted ==
    iterator = "open" =>
        /\ missed + Len(items) + Len(queue)
              + (IF delivering = {} THEN 0 ELSE 1) = got
        /\ \A i \in 1 .. Len(queue) : queue[i] = wire[missed + Len(items) + i]
        /\ \A b \in delivering : b = wire[got]

AtEnd ==
    iterator = "ended" =>
        /\ stage = "ready" /\ link = "closed" /\ callback = "dropped"
        /\ missed + Len(items) = got

IInv ==
    /\ TypeOK
    /\ OneInHand
    /\ SentOnce
    /\ MissedFirst
    /\ YieldedInOrder
    /\ AllAccounted
    /\ AtEnd

Accepted == SubSeq(wire, missed + 1, got)

------------------------------------------------------------------------------
(* A block that comes on the wire has its place there, and moves the ones  *)
(* behind it.                                                              *)
LEMMA InsertProperties ==
    ASSUME NEW w \in Seq(Blocks), NEW b \in Blocks, NEW k \in 1 .. Len(w) + 1
    PROVE  /\ InsertAt(w, k, b) \in Seq(Blocks)
           /\ Len(InsertAt(w, k, b)) = Len(w) + 1
           /\ InsertAt(w, k, b)[k] = b
           /\ \A i \in 1 .. k - 1 : InsertAt(w, k, b)[i] = w[i]
           /\ \A i \in k .. Len(w) : InsertAt(w, k, b)[i + 1] = w[i]
<1> DEFINE l == SubSeq(w, 1, k - 1)
           m == <<b>>
           r == SubSeq(w, k, Len(w))
           lm == l \o m
           t == lm \o r
<1>1. l \in Seq(Blocks) /\ Len(l) = k - 1 /\ \A i \in 1 .. k - 1 : l[i] = w[i]
  OBVIOUS
<1>2. m \in Seq(Blocks) /\ Len(m) = 1 /\ m[1] = b
  OBVIOUS
<1>3. /\ r \in Seq(Blocks) /\ Len(r) = Len(w) - k + 1
      /\ \A i \in 1 .. Len(w) - k + 1 : r[i] = w[k + i - 1]
  OBVIOUS
<1> HIDE DEF l, m, r
<1>4. /\ lm \in Seq(Blocks) /\ Len(lm) = k /\ lm[k] = b
      /\ \A i \in 1 .. k - 1 : lm[i] = w[i]
  <2>1. /\ lm \in Seq(Blocks) /\ Len(lm) = Len(l) + Len(m)
        /\ \A i \in 1 .. Len(l) : lm[i] = l[i]
        /\ \A i \in 1 .. Len(m) : lm[Len(l) + i] = m[i]
    <3>1. l \in Seq(Blocks) /\ m \in Seq(Blocks)
      BY <1>1, <1>2
    <3> QED
      BY <3>1, ConcatProperties
  <2> HIDE DEF lm
  <2>2. 1 \in 1 .. Len(m) /\ Len(l) + 1 = k /\ Len(l) + Len(m) = k
    BY <1>1, <1>2
  <2>3. lm[k] = b
    BY <1>2, <2>1, <2>2
  <2> QED
    BY <1>1, <2>1, <2>2, <2>3
<1> HIDE DEF lm
<1>5. /\ t \in Seq(Blocks) /\ Len(t) = Len(w) + 1
      /\ \A i \in 1 .. k : t[i] = lm[i]
      /\ \A i \in 1 .. Len(r) : t[k + i] = r[i]
  BY <1>3, <1>4, ConcatProperties
<1> HIDE DEF t
<1>6. t[k] = b /\ \A i \in 1 .. k - 1 : t[i] = w[i]
  BY <1>4, <1>5
<1>7. \A i \in k .. Len(w) : t[i + 1] = w[i]
  <2> TAKE i \in k .. Len(w)
  <2>1. i - k + 1 \in 1 .. Len(r) /\ k + (i - k + 1) = i + 1
    BY <1>3
  <2>2. t[i + 1] = r[i - k + 1]
    BY <1>5, <2>1
  <2>3. r[i - k + 1] = w[i]
    BY <1>3, <2>1
  <2> QED
    BY <2>2, <2>3
<1>8. t = InsertAt(w, k, b)
  BY DEF InsertAt, t, lm, l, m, r
<1> QED
  BY <1>5, <1>6, <1>7, <1>8

(* So the wire has one block more after a send. *)
LEMMA WireAfterSend ==
    ASSUME wire \in Seq(Blocks), NEW b \in Blocks, NEW k \in 1 .. Len(wire) + 1,
           wire' = InsertAt(wire, k, b)
    PROVE  /\ wire' \in Seq(Blocks)
           /\ Len(wire') = Len(wire) + 1
           /\ wire'[k] = b
           /\ \A i \in 1 .. k - 1 : wire'[i] = wire[i]
           /\ \A i \in k .. Len(wire) : wire'[i + 1] = wire[i]
<1> DEFINE v == InsertAt(wire, k, b)
<1>1. /\ v \in Seq(Blocks) /\ Len(v) = Len(wire) + 1 /\ v[k] = b
      /\ \A i \in 1 .. k - 1 : v[i] = wire[i]
      /\ \A i \in k .. Len(wire) : v[i + 1] = wire[i]
  BY InsertProperties
<1>2. wire' = v
  OBVIOUS
<1> HIDE DEF v
<1> QED
  BY <1>1, <1>2, Zenon

(* Behind all others is the end. *)
LEMMA InsertAtEnd ==
    ASSUME NEW w \in Seq(Blocks), NEW b \in Blocks
    PROVE  InsertAt(w, Len(w) + 1, b) = Append(w, b)
<1> DEFINE s == InsertAt(w, Len(w) + 1, b)
           t == Append(w, b)
<1>1. /\ s \in Seq(Blocks) /\ Len(s) = Len(w) + 1
      /\ s[Len(w) + 1] = b /\ \A i \in 1 .. Len(w) : s[i] = w[i]
  BY InsertProperties
<1>2. /\ t \in Seq(Blocks) /\ Len(t) = Len(w) + 1
      /\ t[Len(w) + 1] = b /\ \A i \in 1 .. Len(w) : t[i] = w[i]
  BY AppendProperties
<1> HIDE DEF s, t
<1>3. \A i \in 1 .. Len(s) : s[i] = t[i]
  BY <1>1, <1>2
<1>4. s = t
  BY <1>1, <1>2, <1>3, SeqEqual
<1> QED
  BY <1>4 DEF s, t

(* A set with one element or none is small. *)
LEMMA InHandIsSmall ==
    ASSUME NEW S, S = {} \/ \E b \in Blocks : S = {b}
    PROVE  Cardinality(S) <= 1
<1>1. CASE S = {}
  <2>1. Cardinality(S) = 0
    BY <1>1, FS_EmptySet
  <2> QED
    BY <2>1
<1>2. CASE \E b \in Blocks : S = {b}
  <2>1. Cardinality(S) = 1
    BY <1>2, FS_Singleton
  <2> QED
    BY <2>1
<1> QED
  BY <1>1, <1>2

(* The strengthened invariant is inductive. *)
LEMMA Inductive == Spec => []IInv
<1> USE ChannelAssumption DEF ChannelAssumption
<1>1. Init => IInv
  <2> SUFFICES ASSUME Init PROVE IInv
    OBVIOUS
  <2>1. <<>> \in Seq(Blocks) /\ Len(<<>>) = 0
    OBVIOUS
  <2>2. /\ wire \in Seq(Blocks) /\ sent \in Seq(Blocks) /\ wire = sent
        /\ queue \in Seq(Blocks) /\ items \in Seq(Blocks)
        /\ Len(wire) = 0 /\ Len(queue) = 0 /\ Len(items) = 0
    BY <2>1 DEF Init
  <2>3. OneInHand
    BY DEF Init, OneInHand
  <2>4. TypeOK
    BY <2>2, <2>3, InHandIsSmall DEF Init, TypeOK, FirstStage, OneInHand
  <2>5. SentOnce /\ MissedFirst /\ YieldedInOrder
    BY <2>2 DEF Init, SentOnce, MissedFirst, YieldedInOrder, FirstStage
  <2>6. AllAccounted /\ AtEnd
    BY <2>2 DEF Init, AllAccounted, AtEnd
  <2> QED
    BY <2>3, <2>4, <2>5, <2>6 DEF IInv
<1>2. IInv /\ [Next]_vars => IInv'
  <2> SUFFICES ASSUME IInv, [Next]_vars PROVE IInv'
    OBVIOUS
  <2> USE DEF IInv, TypeOK, setup, sending, reading, owned, Installed
  <2>0. TypeOK' /\ OneInHand' /\ SentOnce' /\ MissedFirst' /\ YieldedInOrder'
           /\ AllAccounted' /\ AtEnd' => IInv'
    OBVIOUS
  <2>1. CASE Install \/ Ready \/ Close \/ DropCallback
    <3>1. UNCHANGED <<setup, sending, reading, items, iterator>>
      BY <2>1 DEF Install, Ready, Close, DropCallback
    <3>2. /\ stage' \in {"waiting", "installed", "ready", "failed"}
          /\ link' \in {"open", "closed"} /\ callback' \in {"held", "dropped"}
          /\ stage' = "waiting" => stage = "waiting"
          /\ stage = "ready" => stage' = "ready"
          /\ link = "closed" => link' = "closed"
          /\ callback = "dropped" => callback' = "dropped"
      BY <2>1 DEF Install, Ready, Close, DropCallback
    <3>3. TypeOK'
      BY <3>1, <3>2
    <3>4. OneInHand' /\ SentOnce' /\ YieldedInOrder' /\ AllAccounted'
      BY <3>1 DEF OneInHand, SentOnce, YieldedInOrder, AllAccounted
    <3>5. MissedFirst' /\ AtEnd'
      BY <3>1, <3>2 DEF MissedFirst, AtEnd
    <3> QED
      BY <3>3, <3>4, <3>5, <2>0
  <2>2. CASE CreateErr
    <3>1. TypeOK'
      BY <2>2 DEF CreateErr
    <3>2. OneInHand' /\ SentOnce' /\ YieldedInOrder'
      BY <2>2 DEF CreateErr, OneInHand, SentOnce, YieldedInOrder
    <3>3. MissedFirst' /\ AllAccounted' /\ AtEnd'
      BY <2>2 DEF CreateErr, MissedFirst, AllAccounted, AtEnd
    <3> QED
      BY <3>1, <3>2, <3>3, <2>0
  <2>3. ASSUME NEW b \in Blocks, Send(b) PROVE IInv'
    <3>a. PICK k \in Places : wire' = InsertAt(wire, k, b)
      BY <2>3 DEF Send
    <3>b. /\ k \in 1 .. Len(wire) + 1 /\ got < k
          /\ ordered => k = Len(wire) + 1
      BY DEF Places
    <3>1. /\ send' = [send EXCEPT ![b] = "sent"]
          /\ sent' = Append(sent, b)
          /\ early' = early + (IF Installed THEN 0 ELSE 1)
          /\ send[b] = "idle"
          /\ UNCHANGED <<setup, stage, link, reading, owned>>
      BY <2>3 DEF Send
    <3>2. /\ wire' \in Seq(Blocks)
          /\ Len(wire') = Len(wire) + 1
          /\ wire'[k] = b
          /\ \A i \in 1 .. k - 1 : wire'[i] = wire[i]
          /\ \A i \in k .. Len(wire) : wire'[i + 1] = wire[i]
      <4>1. wire \in Seq(Blocks)
        OBVIOUS
      <4>2. k \in 1 .. Len(wire) + 1
        BY <3>b
      <4> HIDE DEF IInv, TypeOK
      <4> QED
        BY <3>a, <4>1, <4>2, WireAfterSend
    <3>3. \A i \in 1 .. Len(wire) : wire[i] # b /\ wire[i] \in Blocks
      BY <3>1 DEF SentOnce
    <3>4. TypeOK'
      BY <3>1, <3>2, AppendProperties
    <3>5. OneInHand' /\ AtEnd'
      BY <3>1 DEF OneInHand, AtEnd
    <3>6. SentOnce'
      <4> DEFINE n == Len(wire)
                 Old(i) == IF i < k THEN i ELSE i - 1
      <4>1. /\ n \in Nat /\ k \in 1 .. n + 1
            /\ \A i \in 1 .. n + 1 : i = k \/ Old(i) \in 1 .. n
            /\ \A i, j \in 1 .. n + 1 :
                  i # k /\ j # k /\ Old(i) = Old(j) => i = j
        BY <3>b
      <4>2. \A i \in 1 .. n : send'[wire[i]] = "sent"
        BY <3>1, <3>3 DEF SentOnce
      <4>3. send'[b] = "sent"
        BY <3>1
      <4>4. \A i, j \in 1 .. n : wire[i] = wire[j] => i = j
        BY DEF SentOnce
      <4>5. /\ wire'[k] = b
            /\ \A i \in 1 .. n + 1 :
                  i # k => wire'[i] = wire[Old(i)] /\ wire'[i] # b
        <5>1. ASSUME NEW i \in 1 .. n + 1, i # k
              PROVE  wire'[i] = wire[Old(i)]
          <6>1. CASE i < k
            BY <3>b, <3>2, <6>1
          <6>2. CASE i > k
            <7>1. i - 1 \in k .. Len(wire) /\ (i - 1) + 1 = i
              BY <3>b, <6>2
            <7> QED
              BY <3>b, <3>2, <6>2, <7>1
          <6> QED
            BY <3>b, <5>1, <6>1, <6>2
        <5> QED
          BY <3>2, <3>3, <4>1, <5>1
      <4>8. ordered' => wire' = sent'
        BY <3>a, <3>b, <3>1, InsertAtEnd DEF SentOnce
      <4> HIDE DEF n, Old, IInv, TypeOK
      <4>6. \A i \in 1 .. n + 1 : send'[wire'[i]] = "sent"
        BY <4>1, <4>2, <4>3, <4>5
      <4>7. \A i, j \in 1 .. n + 1 : wire'[i] = wire'[j] => i = j
        BY <4>1, <4>4, <4>5
      <4> QED
        BY <4>6, <4>7, <4>8, <3>2 DEF SentOnce, n
    <3>7. MissedFirst'
      <4>1. /\ missed \in Nat /\ early \in Nat /\ missed <= early
            /\ stage = "waiting" => early = Len(wire) /\ got = missed
            /\ role = "offerer" => stage # "waiting" /\ missed = 0
        BY DEF MissedFirst
      <4>2. /\ stage = "waiting" => early' = early + 1
            /\ early' = early \/ early' = early + 1
        BY <3>1
      <4>3. UNCHANGED <<setup, stage, got, missed>>
        BY <3>1
      <4>4. Len(wire') = Len(wire) + 1
        BY <3>2
      <4> HIDE DEF IInv, TypeOK, Installed, reading, owned, sending
      <4>5. stage' = "waiting" => early' = Len(wire') /\ got' = missed'
        BY <4>1, <4>2, <4>3, <4>4
      <4>6. missed' <= early'
        BY <4>1, <4>2, <4>3
      <4>7. role' = "offerer" => stage' # "waiting" /\ missed' = 0
        BY <4>1, <4>3
      <4> QED
        BY <4>5, <4>6, <4>7 DEF MissedFirst
    <3>8. \A i \in 1 .. got : wire'[i] = wire[i]
      BY <3>b, <3>2
    <3>9. YieldedInOrder'
      <4>1. \A i \in 1 .. Len(items) : missed + i \in 1 .. got
        BY DEF YieldedInOrder
      <4> QED
        BY <3>1, <3>8, <4>1 DEF YieldedInOrder
    <3>10. AllAccounted'
      <4> SUFFICES ASSUME iterator = "open" PROVE AllAccounted'
        BY <3>1 DEF AllAccounted
      <4>1. \A i \in 1 .. Len(queue) : missed + Len(items) + i \in 1 .. got
        BY DEF AllAccounted
      <4>2. delivering # {} => got \in 1 .. got
        BY DEF AllAccounted
      <4> QED
        BY <3>1, <3>8, <4>1, <4>2 DEF AllAccounted
    <3> QED
      BY <3>4, <3>5, <3>6, <3>7, <3>9, <3>10, <2>0
  <2>3a. ASSUME NEW b \in Blocks, SendErr(b) PROVE IInv'
    <3>1. /\ send' = [send EXCEPT ![b] = "failed"]
          /\ send[b] = "idle"
          /\ UNCHANGED <<setup, stage, link, sent, wire, early, reading, owned>>
      BY <2>3a DEF SendErr
    <3>2. TypeOK' /\ OneInHand' /\ MissedFirst' /\ AtEnd'
      BY <3>1 DEF OneInHand, MissedFirst, AtEnd
    <3>3. SentOnce'
      BY <3>1 DEF SentOnce
    <3>4. YieldedInOrder' /\ AllAccounted'
      BY <3>1 DEF YieldedInOrder, AllAccounted
    <3> QED
      BY <3>2, <3>3, <3>4, <2>0
  <2>4. CASE OnMessage
    <3>1. /\ Installed /\ iterator # "ended" /\ delivering = {}
          /\ got < Len(wire)
          /\ got' = got + 1 /\ delivering' = {wire[got + 1]}
          /\ UNCHANGED <<setup, stage, link, sending, missed, queue, owned>>
      BY <2>4 DEF OnMessage
    <3>2. wire[got + 1] \in Blocks
      BY <3>1
    <3>3. OneInHand'
      BY <3>1, <3>2 DEF OneInHand
    <3>4. Cardinality(delivering') <= 1
      BY <3>3, InHandIsSmall DEF OneInHand
    <3>5. TypeOK'
      BY <3>1, <3>2, <3>4
    <3>6. SentOnce' /\ MissedFirst' /\ AtEnd'
      BY <3>1 DEF SentOnce, MissedFirst, AtEnd
    <3>7. YieldedInOrder'
      BY <3>1 DEF YieldedInOrder
    <3>8. AllAccounted'
      <4> SUFFICES ASSUME iterator = "open" PROVE AllAccounted'
        BY <3>1 DEF AllAccounted
      <4>1. missed + Len(items) + Len(queue) = got
        BY <3>1 DEF AllAccounted
      <4>2. delivering' # {} /\ \A b \in delivering' : b = wire'[got']
        BY <3>1
      <4>3. missed + Len(items) + Len(queue) + 1 = got'
        BY <3>1, <4>1
      <4> QED
        BY <3>1, <4>2, <4>3 DEF AllAccounted
    <3> QED
      BY <3>3, <3>5, <3>6, <3>7, <3>8, <2>0
  <2>5. CASE Miss
    <3>1. /\ stage = "waiting" /\ got < Len(wire)
          /\ got' = got + 1 /\ missed' = missed + 1
          /\ UNCHANGED <<setup, stage, link, sending, delivering, queue, owned>>
      BY <2>5 DEF Miss
    <3>2. TypeOK' /\ OneInHand' /\ SentOnce' /\ AtEnd'
      BY <3>1 DEF OneInHand, SentOnce, AtEnd
    <3>3. MissedFirst'
      BY <3>1 DEF MissedFirst
    <3>4. got = missed /\ Len(items) = 0
      BY <3>1 DEF MissedFirst, YieldedInOrder
    <3>5. YieldedInOrder'
      BY <3>1, <3>4 DEF YieldedInOrder
    <3>6. iterator = "open" => Len(queue) = 0 /\ delivering = {}
      BY <3>4 DEF AllAccounted
    <3>7. AllAccounted'
      BY <3>1, <3>4, <3>6 DEF AllAccounted
    <3> QED
      BY <3>2, <3>3, <3>5, <3>7, <2>0
  <2>6. ASSUME NEW b \in Blocks, Enqueue(b) PROVE IInv'
    <3>1. /\ b \in delivering /\ iterator = "open" /\ Len(queue) < Capacity
          /\ delivering' = delivering \ {b}
          /\ queue' = Append(queue, b)
          /\ UNCHANGED <<setup, stage, link, sending, got, missed, owned>>
      BY <2>6 DEF Enqueue
    <3>2. delivering' = {} /\ b = wire[got]
      BY <3>1 DEF OneInHand, AllAccounted
    <3>3. /\ queue' \in Seq(Blocks)
          /\ Len(queue') = Len(queue) + 1
          /\ queue'[Len(queue) + 1] = b
          /\ \A i \in 1 .. Len(queue) : queue'[i] = queue[i]
      BY <3>1, AppendProperties
    <3>4. OneInHand'
      BY <3>2 DEF OneInHand
    <3>5. Cardinality(delivering') <= 1
      BY <3>4, InHandIsSmall DEF OneInHand
    <3>6. TypeOK'
      BY <3>1, <3>3, <3>5
    <3>7. SentOnce' /\ MissedFirst' /\ AtEnd' /\ YieldedInOrder'
      BY <3>1 DEF SentOnce, MissedFirst, AtEnd, YieldedInOrder
    <3>8. AllAccounted'
      <4>1. missed + Len(items) + Len(queue) + 1 = got
        BY <3>1 DEF AllAccounted
      <4>2. ASSUME NEW i \in 1 .. Len(queue) + 1
            PROVE  queue'[i] = wire[missed + Len(items) + i]
        <5>1. CASE i \in 1 .. Len(queue)
          BY <3>1, <3>3, <5>1 DEF AllAccounted
        <5>2. CASE i = Len(queue) + 1
          BY <3>2, <3>3, <4>1, <5>2
        <5> QED
          BY <5>1, <5>2
      <4> QED
        <5>1. missed + Len(items) + (Len(queue) + 1) + 0 = got
          BY <4>1
        <5> HIDE DEF IInv, TypeOK
        <5> QED
          BY <3>1, <3>2, <3>3, <4>2, <5>1 DEF AllAccounted
    <3> QED
      BY <3>4, <3>6, <3>7, <3>8, <2>0
  <2>7. ASSUME NEW b \in Blocks, EnqueueErr(b) PROVE IInv'
    <3>1. /\ b \in delivering /\ iterator # "open"
          /\ delivering' = delivering \ {b}
          /\ UNCHANGED <<setup, stage, link, sending, got, missed, queue, owned>>
      BY <2>7 DEF EnqueueErr
    <3>2. OneInHand'
      BY <3>1 DEF OneInHand
    <3>3. Cardinality(delivering') <= 1
      BY <3>2, InHandIsSmall DEF OneInHand
    <3>4. TypeOK'
      BY <3>1, <3>3
    <3>5. SentOnce' /\ MissedFirst' /\ YieldedInOrder' /\ AllAccounted' /\ AtEnd'
      BY <3>1 DEF SentOnce, MissedFirst, YieldedInOrder, AllAccounted, AtEnd
    <3> QED
      BY <3>2, <3>4, <3>5, <2>0
  <2>8. CASE Yield
    <3>1. /\ stage = "ready" /\ iterator = "open" /\ queue # <<>>
          /\ items' = Append(items, Head(queue))
          /\ queue' = Tail(queue)
          /\ UNCHANGED <<setup, stage, link, sending, got, missed, delivering,
                         iterator, callback>>
      BY <2>8 DEF Yield
    <3>2. /\ Head(queue) = queue[1] /\ Head(queue) \in Blocks
          /\ queue' \in Seq(Blocks)
          /\ Len(queue') = Len(queue) - 1 /\ Len(queue) >= 1
          /\ \A i \in 1 .. Len(queue) - 1 : queue'[i] = queue[i + 1]
      BY <3>1, HeadTailProperties
    <3>3. /\ items' \in Seq(Blocks)
          /\ Len(items') = Len(items) + 1
          /\ items'[Len(items) + 1] = queue[1]
          /\ \A i \in 1 .. Len(items) : items'[i] = items[i]
      BY <3>1, <3>2, AppendProperties
    <3>4. TypeOK'
      BY <3>1, <3>2, <3>3
    <3>5. OneInHand' /\ SentOnce' /\ MissedFirst' /\ AtEnd'
      BY <3>1 DEF OneInHand, SentOnce, MissedFirst, AtEnd
    <3>6. queue[1] = wire[missed + Len(items) + 1]
      BY <3>1, <3>2 DEF AllAccounted
    <3>7. missed + Len(items) + 1 <= got
      BY <3>1, <3>2 DEF AllAccounted
    <3>8. YieldedInOrder'
      <4>1. ASSUME NEW i \in 1 .. Len(items) + 1
            PROVE  items'[i] = wire[missed + i]
        <5>1. CASE i \in 1 .. Len(items)
          BY <3>3, <5>1 DEF YieldedInOrder
        <5>2. CASE i = Len(items) + 1
          BY <3>3, <3>6, <5>2
        <5> QED
          BY <5>1, <5>2
      <4> QED
        BY <3>1, <3>3, <3>7, <4>1 DEF YieldedInOrder
    <3>9. AllAccounted'
      <4>1. missed + Len(items') + Len(queue')
                + (IF delivering = {} THEN 0 ELSE 1) = got
        <5> DEFINE d == IF delivering = {} THEN 0 ELSE 1
        <5>1. d \in Nat /\ missed + Len(items) + Len(queue) + d = got
          BY <3>1 DEF AllAccounted
        <5>2. missed \in Nat /\ Len(items) \in Nat /\ Len(queue) \in Nat
          OBVIOUS
        <5> HIDE DEF d, IInv, TypeOK
        <5>3. missed + Len(items') + Len(queue') + d = got
          BY <3>2, <3>3, <5>1, <5>2
        <5> QED
          BY <5>3 DEF d
      <4>2. \A i \in 1 .. Len(queue') : queue'[i] = wire[missed + Len(items') + i]
        <5> TAKE i \in 1 .. Len(queue')
        <5>1. i + 1 \in 1 .. Len(queue) /\ queue'[i] = queue[i + 1]
          BY <3>2
        <5>2. queue[i + 1] = wire[missed + Len(items) + (i + 1)]
          BY <3>1, <5>1 DEF AllAccounted
        <5>3. missed + Len(items) + (i + 1) = missed + Len(items') + i
          BY <3>3
        <5> QED
          BY <5>1, <5>2, <5>3
      <4>3. \A b \in delivering : b = wire[got]
        BY <3>1 DEF AllAccounted
      <4> QED
        BY <3>1, <4>1, <4>2, <4>3 DEF AllAccounted
    <3> QED
      BY <3>4, <3>5, <3>8, <3>9, <2>0
  <2>9. CASE End
    <3>1. /\ stage = "ready" /\ iterator = "open" /\ queue = <<>>
          /\ link = "closed" /\ callback = "dropped" /\ delivering = {}
          /\ iterator' = "ended"
          /\ UNCHANGED <<setup, stage, link, sending, reading, items, callback>>
      BY <2>9 DEF End, SendersGone
    <3>2. TypeOK' /\ OneInHand' /\ SentOnce' /\ MissedFirst'
      BY <3>1 DEF OneInHand, SentOnce, MissedFirst
    <3>3. missed + Len(items) = got
      BY <3>1 DEF AllAccounted
    <3>4. YieldedInOrder' /\ AllAccounted' /\ AtEnd'
      BY <3>1, <3>3 DEF YieldedInOrder, AllAccounted, AtEnd
    <3> QED
      BY <3>2, <3>4, <2>0
  <2>10. CASE DropIterator
    <3>1. /\ iterator' = "dropped" /\ queue' = <<>>
          /\ UNCHANGED <<setup, stage, link, sending, got, missed, delivering,
                         items, callback>>
      BY <2>10 DEF DropIterator
    <3>2. <<>> \in Seq(Blocks) /\ Len(<<>>) = 0
      OBVIOUS
    <3>3. TypeOK' /\ OneInHand' /\ SentOnce' /\ MissedFirst'
      BY <3>1, <3>2 DEF OneInHand, SentOnce, MissedFirst
    <3>4. YieldedInOrder' /\ AllAccounted' /\ AtEnd'
      BY <3>1 DEF YieldedInOrder, AllAccounted, AtEnd
    <3> QED
      BY <3>3, <3>4, <2>0
  <2>11. CASE UNCHANGED vars
    <3>1. TypeOK' /\ OneInHand' /\ SentOnce' /\ MissedFirst' /\ AtEnd'
      BY <2>11 DEF vars, OneInHand, SentOnce, MissedFirst, AtEnd
    <3>2. YieldedInOrder' /\ AllAccounted'
      BY <2>11 DEF vars, YieldedInOrder, AllAccounted
    <3> QED
      BY <3>1, <3>2, <2>0
  <2> HIDE DEF IInv
  <2> QED
    BY <2>1, <2>2, <2>3, <2>3a, <2>4, <2>5, <2>6, <2>7, <2>8, <2>9, <2>10,
       <2>11 DEF Next, ReadLoop
<1> QED
  BY <1>1, <1>2, PTL DEF Spec

(* What does not reach the iterator of a working channel is the first      *)
(* blocks, and no more of them than were sent before the answerer had its  *)
(* on_message; an offerer misses nothing.                                  *)
THEOREM OnlyEarlyIsMissed == Spec => []MissNeedsEarlySend
<1>1. IInv => MissNeedsEarlySend
  BY DEF IInv, MissedFirst, MissNeedsEarlySend
<1> QED
  BY <1>1, Inductive, PTL

------------------------------------------------------------------------------
(* The blocks of a window of the wire, as a sequence. *)
LEMMA WindowProperties ==
    ASSUME NEW w \in Seq(Blocks), NEW m \in Nat, NEW g \in Nat,
           m <= g, g <= Len(w)
    PROVE  /\ SubSeq(w, m + 1, g) \in Seq(Blocks)
           /\ Len(SubSeq(w, m + 1, g)) = g - m
           /\ \A i \in 1 .. g - m : SubSeq(w, m + 1, g)[i] = w[m + i]
<1> DEFINE t == SubSeq(w, m + 1, g)
<1>1. /\ m + 1 \in Int /\ g \in Int
      /\ \A i \in m + 1 .. g : w[i] \in Blocks
  OBVIOUS
<1>2. /\ t \in Seq(Blocks)
      /\ Len(t) = IF m + 1 <= g THEN g - (m + 1) + 1 ELSE 0
      /\ \A i \in 1 .. g - (m + 1) + 1 : t[i] = w[(m + 1) + i - 1]
  BY <1>1, SubSeqProperties
<1> HIDE DEF t
<1>3. Len(t) = g - m /\ \A i \in 1 .. g - m : t[i] = w[m + i]
  BY <1>2
<1> QED
  BY <1>2, <1>3 DEF t

(* A sequence that agrees with a window of the wire, as far as it goes, is *)
(* a beginning of it.                                                      *)
LEMMA PrefixOfWindow ==
    ASSUME NEW w \in Seq(Blocks), NEW m \in Nat, NEW g \in Nat,
           m <= g, g <= Len(w),
           NEW s \in Seq(Blocks), m + Len(s) <= g,
           \A i \in 1 .. Len(s) : s[i] = w[m + i]
    PROVE  s = SubSeq(SubSeq(w, m + 1, g), 1, Len(s))
<1> DEFINE a == SubSeq(w, m + 1, g)
           n == Len(s)
           t == SubSeq(a, 1, n)
<1>1. a \in Seq(Blocks) /\ Len(a) = g - m /\ \A i \in 1 .. g - m : a[i] = w[m + i]
  BY WindowProperties
<1> HIDE DEF a
<1>2. n \in Nat /\ n <= Len(a) /\ \A i \in 1 .. n : s[i] = a[i] /\ a[i] \in Blocks
  BY <1>1
<1>3. /\ t \in Seq(Blocks)
      /\ Len(t) = IF 1 <= n THEN n - 1 + 1 ELSE 0
      /\ \A i \in 1 .. n - 1 + 1 : t[i] = a[1 + i - 1]
  BY <1>2, SubSeqProperties
<1>4. Len(t) = n /\ \A i \in 1 .. n : t[i] = s[i]
  <2> HIDE DEF n, t
  <2> QED
    BY <1>2, <1>3
<1>5. s = t
  BY <1>3, <1>4, SeqEqual
<1> QED
  BY <1>5 DEF a

(* Wires that agree up to its end have the same window. *)
LEMMA WindowOfAgreeing ==
    ASSUME NEW w \in Seq(Blocks), NEW v \in Seq(Blocks),
           NEW m \in Nat, NEW g \in Nat, m <= g, g <= Len(w), g <= Len(v),
           \A i \in 1 .. g : v[i] = w[i]
    PROVE  SubSeq(v, m + 1, g) = SubSeq(w, m + 1, g)
<1> DEFINE s == SubSeq(v, m + 1, g)
           t == SubSeq(w, m + 1, g)
<1>1. t \in Seq(Blocks) /\ Len(t) = g - m /\ \A i \in 1 .. g - m : t[i] = w[m + i]
  BY WindowProperties
<1>2. s \in Seq(Blocks) /\ Len(s) = g - m /\ \A i \in 1 .. g - m : s[i] = v[m + i]
  BY WindowProperties
<1> HIDE DEF s, t
<1>3. \A i \in 1 .. g - m : s[i] = t[i]
  <2> TAKE i \in 1 .. g - m
  <2>1. m + i \in 1 .. g
    OBVIOUS
  <2> QED
    BY <1>1, <1>2, <2>1
<1>4. s = t
  BY <1>1, <1>2, <1>3, SeqEqual
<1> QED
  BY <1>4 DEF s, t

(* The window grows by the block that is read. *)
LEMMA WindowGrows ==
    ASSUME NEW w \in Seq(Blocks), NEW m \in Nat, NEW g \in Nat,
           m <= g, g < Len(w)
    PROVE  SubSeq(w, m + 1, g + 1) = Append(SubSeq(w, m + 1, g), w[g + 1])
<1> DEFINE a == SubSeq(w, m + 1, g)
           n == g - m
           e == w[g + 1]
           s == SubSeq(w, m + 1, g + 1)
           t == Append(a, e)
<1>1. n \in Nat /\ g = m + n /\ e \in Blocks
  OBVIOUS
<1>2. a \in Seq(Blocks) /\ Len(a) = n /\ \A i \in 1 .. n : a[i] = w[m + i]
  BY WindowProperties
<1>3. /\ s \in Seq(Blocks) /\ Len(s) = (g + 1) - m
      /\ \A i \in 1 .. (g + 1) - m : s[i] = w[m + i]
  BY WindowProperties
<1>4. e = w[g + 1]
  OBVIOUS
<1> HIDE DEF a, e, s
<1>5. /\ t \in Seq(Blocks)
      /\ Len(t) = Len(a) + 1
      /\ \A i \in 1 .. Len(a) : t[i] = a[i]
      /\ t[Len(a) + 1] = e
  BY <1>1, <1>2, AppendProperties
<1>6. Len(t) = n + 1 /\ t[n + 1] = e /\ \A i \in 1 .. n : t[i] = a[i]
  BY <1>2, <1>5
<1>7. (g + 1) - m = n + 1
  OBVIOUS
<1> HIDE DEF t, n
<1>8. Len(s) = Len(t)
  BY <1>3, <1>6, <1>7
<1>9. \A i \in 1 .. Len(s) : s[i] = t[i]
  <2> TAKE i \in 1 .. Len(s)
  <2>1. i \in 1 .. n \/ i = n + 1
    BY <1>1, <1>3, <1>7
  <2>2. s[i] = w[m + i]
    BY <1>3
  <2>3. i = n + 1 => m + i = g + 1
    BY <1>1
  <2> QED
    BY <1>4, <1>2, <1>6, <2>1, <2>2, <2>3
<1>10. s = t
  BY <1>3, <1>5, <1>8, <1>9, SeqEqual
<1> QED
  BY <1>10 DEF s, t, a, e

(* The iterator ends only when the ComHub has let go of the send callback  *)
(* and the channel is closed, and then everything on_message got was       *)
(* yielded.                                                                *)
THEOREM EndHasCause == Spec => []EndNeedsCallbackDropped
<1>1. IInv => EndNeedsCallbackDropped
  <2> SUFFICES ASSUME IInv, iterator = "ended"
               PROVE  /\ link = "closed" /\ callback = "dropped"
                      /\ items = Accepted
    BY DEF EndNeedsCallbackDropped, Accepted
  <2>1. link = "closed" /\ callback = "dropped" /\ missed + Len(items) = got
    BY DEF IInv, AtEnd
  <2>2. Accepted \in Seq(Blocks) /\ Len(Accepted) = got - missed
    BY WindowProperties DEF IInv, TypeOK, Accepted
  <2>3. Len(items) = Len(Accepted)
    BY <2>1, <2>2 DEF IInv, TypeOK
  <2>4. SubSeq(Accepted, 1, Len(Accepted)) = Accepted
    BY <2>2, SubSeqFull
  <2>5. items = SubSeq(Accepted, 1, Len(items))
    <3>1. /\ wire \in Seq(Blocks) /\ items \in Seq(Blocks)
          /\ missed \in Nat /\ got \in Nat /\ missed <= got /\ got <= Len(wire)
          /\ missed + Len(items) <= got
          /\ \A i \in 1 .. Len(items) : items[i] = wire[missed + i]
      BY DEF IInv, TypeOK, YieldedInOrder
    <3> QED
      BY <3>1, PrefixOfWindow DEF Accepted
  <2> QED
    BY <2>1, <2>3, <2>4, <2>5
<1> QED
  BY <1>1, Inductive, PTL

------------------------------------------------------------------------------
(* What on_message got is in the promised order: the wire of an ordered    *)
(* channel is that of sending.                                             *)
LEMMA PromisedIsWire ==
    ASSUME IInv
    PROVE  Promised = wire
BY DEF IInv, SentOnce, Promised

LEMMA PromisedNextIsWire ==
    ASSUME IInv'
    PROVE  Promised' = wire'
BY DEF IInv, SentOnce, Promised

(* A block that on_message gets is one that the pipe accepts. *)
LEMMA OnMessageAccepts ==
    ASSUME IInv, IInv', OnMessage
    PROVE  \E b \in Blocks : Pipe!Accept(b)
<1>0. Promised = wire /\ Promised' = wire'
  BY PromisedIsWire, PromisedNextIsWire
<1>1. /\ got < Len(wire) /\ got' = got + 1
      /\ UNCHANGED <<wire, missed, items>>
  BY DEF OnMessage, sending, owned
<1>2. /\ wire \in Seq(Blocks) /\ missed \in Nat /\ got \in Nat
      /\ missed <= got /\ got <= Len(wire)
      /\ got + 1 \in 1 .. Len(wire) /\ wire[got + 1] \in Blocks
  BY <1>1 DEF IInv, TypeOK
<1>3. /\ Accepted \in Seq(Blocks) /\ Len(Accepted) = got - missed
      /\ \A i \in 1 .. got - missed : Accepted[i] = wire[missed + i]
  BY <1>2, WindowProperties DEF Accepted
<1>4. \A i \in 1 .. Len(Accepted) : Accepted[i] # wire[got + 1]
  <2> TAKE i \in 1 .. Len(Accepted)
  <2>1. missed + i \in 1 .. Len(wire) /\ missed + i # got + 1
    BY <1>2, <1>3
  <2>2. Accepted[i] = wire[missed + i]
    BY <1>3
  <2> QED
    BY <1>2, <2>1, <2>2 DEF IInv, SentOnce
<1>5. Accepted' = Append(Accepted, wire[got + 1])
  BY <1>1, <1>2, WindowGrows DEF Accepted
<1> QED
  BY <1>0, <1>1, <1>2, <1>4, <1>5 DEF Pipe!Accept, Accepted

(* A block that the iterator yields is one that arrives. *)
LEMMA YieldArrives ==
    ASSUME IInv, IInv', Yield
    PROVE  \E n \in 1 .. Len(Accepted) : Pipe!Arrive(n)
<1>0. Promised = wire /\ Promised' = wire'
  BY PromisedIsWire, PromisedNextIsWire
<1>1. /\ items' = Append(items, Head(queue)) /\ queue # <<>>
      /\ UNCHANGED <<wire, got, missed>>
  BY DEF Yield, sending
<1>2. Len(items') = Len(items) + 1 /\ Len(items) \in Nat
  BY <1>1 DEF IInv, TypeOK
<1>3. Accepted' = Accepted
  BY <1>1 DEF Accepted
<1>4. items' = SubSeq(Accepted, 1, Len(items'))
  BY <1>1, PrefixOfWindow DEF IInv, TypeOK, YieldedInOrder, Accepted
<1>5. Len(Accepted) = got - missed
  BY WindowProperties DEF IInv, TypeOK, Accepted
<1>6. Len(items') <= Len(Accepted) /\ Len(Accepted) \in Nat
  BY <1>1, <1>5 DEF IInv, TypeOK, YieldedInOrder
<1>7. /\ Len(items') \in Len(items) + 1 .. Len(Accepted)
      /\ Len(items') \in 1 .. Len(Accepted)
  BY <1>2, <1>6
<1> QED
  BY <1>0, <1>3, <1>4, <1>7 DEF Pipe!Arrive, Accepted

(* A step that leaves the blocks alone that on_message got.  The first one *)
(* to be missed finds none.                                                *)
LEMMA OthersKeepAccepted ==
    ASSUME IInv,
           \/ Install \/ Ready \/ CreateErr \/ Close \/ DropCallback
           \/ End \/ DropIterator \/ Miss
           \/ \E b \in Blocks : Send(b) \/ SendErr(b)
           \/ \E b \in Blocks : Enqueue(b) \/ EnqueueErr(b)
    PROVE  UNCHANGED <<Accepted, items>>
<1>1. CASE \/ Install \/ Ready \/ CreateErr \/ Close \/ DropCallback
           \/ End \/ DropIterator
  BY <1>1 DEF Install, Ready, CreateErr, Close, DropCallback, End,
              DropIterator, sending, reading, owned, Accepted
<1>2. CASE Miss
  <2>1. /\ got = missed /\ got' = got + 1 /\ missed' = missed + 1
        /\ UNCHANGED <<wire, items>>
    BY <1>2 DEF Miss, IInv, MissedFirst, sending, owned
  <2>2. got \in Nat
    BY DEF IInv, TypeOK
  <2>3. Accepted = <<>> /\ Accepted' = <<>>
    BY <2>1, <2>2, SubSeqEmpty DEF Accepted
  <2> QED
    BY <2>1, <2>3
<1>3. ASSUME NEW b \in Blocks, Send(b)
      PROVE  UNCHANGED <<Accepted, items>>
  <2>1. UNCHANGED <<got, missed, items>>
    BY <1>3 DEF Send, reading, owned
  <2>2. PICK k \in Places : wire' = InsertAt(wire, k, b)
    BY <1>3 DEF Send
  <2>3. /\ wire \in Seq(Blocks) /\ missed \in Nat /\ got \in Nat
        /\ missed <= got /\ got <= Len(wire)
    BY DEF IInv, TypeOK
  <2>4. k \in 1 .. Len(wire) + 1 /\ got < k
    BY <2>3 DEF Places
  <2>5. /\ wire' \in Seq(Blocks) /\ Len(wire') = Len(wire) + 1
        /\ \A i \in 1 .. k - 1 : wire'[i] = wire[i]
    BY <2>2, <2>3, <2>4, WireAfterSend
  <2>6. got <= Len(wire') /\ \A i \in 1 .. got : wire'[i] = wire[i]
    BY <2>3, <2>4, <2>5
  <2>7. SubSeq(wire', missed + 1, got) = Accepted
    BY <2>3, <2>5, <2>6, WindowOfAgreeing DEF Accepted
  <2> QED
    BY <2>1, <2>7 DEF Accepted
<1>4. ASSUME NEW b \in Blocks, SendErr(b) \/ Enqueue(b) \/ EnqueueErr(b)
      PROVE  UNCHANGED <<Accepted, items>>
  BY <1>4 DEF SendErr, Enqueue, EnqueueErr, sending, reading, owned, Accepted
<1> QED
  BY <1>1, <1>2, <1>3, <1>4

(* From the first block that on_message gets, the direction is a pipe: the *)
(* blocks come out of the iterator whole and once, in the order of sending *)
(* if the channel is ordered and otherwise in that in which they can be    *)
(* read, for any capacity of the channel and however slowly the iterator   *)
(* is polled.                                                              *)
THEOREM ChannelImplementsPipe == Spec => ImplementsPipe
<1>1. Init => Pipe!PipeInit
  <2> SUFFICES ASSUME Init PROVE Pipe!PipeInit
    OBVIOUS
  <2>1. SubSeq(Promised, missed + 1, got) = <<>>
    BY SubSeqEmpty DEF Init
  <2> QED
    BY <2>1 DEF Init, Pipe!PipeInit
<1>2. IInv /\ IInv' /\ [Next]_vars => [Pipe!PipeNext]_(Pipe!pipeVars)
  <2> SUFFICES ASSUME IInv, IInv', [Next]_vars
               PROVE  Pipe!PipeNext \/ UNCHANGED <<Accepted, items>>
    BY PromisedIsWire, PromisedNextIsWire DEF Pipe!pipeVars, Accepted
  <2>1. CASE OnMessage
    BY <2>1, OnMessageAccepts DEF Pipe!PipeNext
  <2>2. CASE Yield
    BY <2>2, YieldArrives, PromisedIsWire DEF Pipe!PipeNext, Accepted
  <2>3. CASE \/ Install \/ Ready \/ CreateErr \/ Close \/ DropCallback
             \/ End \/ DropIterator \/ Miss
             \/ \E b \in Blocks : Send(b) \/ SendErr(b)
             \/ \E b \in Blocks : Enqueue(b) \/ EnqueueErr(b)
    BY <2>3, OthersKeepAccepted
  <2>4. CASE UNCHANGED vars
    BY <2>4 DEF vars, Accepted
  <2> HIDE DEF IInv
  <2> QED
    BY <2>1, <2>2, <2>3, <2>4 DEF Next, ReadLoop
<1> QED
  BY <1>1, <1>2, Inductive, PTL DEF Spec, ImplementsPipe, Pipe!PipeSpec
==============================================================================
