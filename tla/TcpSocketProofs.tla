--------------------------- MODULE TcpSocketProofs ---------------------------
(***************************************************************************)
(* Proofs about TcpSocket for any number of concurrent sends of any length *)
(* and any buffer sizes: the state has its type, blocks never mix on the   *)
(* connection, a clean end of the iterator cuts nothing off, and the       *)
(* connection implements the pipe of whole blocks.                         *)
(***************************************************************************)
EXTENDS TcpSocket, FiniteSetTheorems, SequenceTheorems, WellFoundedInduction,
        TLAPS

\* The guard of the mutex is owned by the one call that is writing.
OneWriter == \A b \in Blocks : send[b] = "writing" <=> holder = b

\* How much of a block is on the connection, by the state of its call.
Progress ==
    \A b \in Blocks :
        /\ put[b] <= BlockLen[b]
        /\ send[b] \in {"idle", "locking"} => put[b] = 0
        /\ send[b] = "sent" => put[b] = BlockLen[b]
        /\ send[b] = "failed" => link = "down"

last == stream[Len(stream)]

\* The stream ends where the block of its last byte stands, and only that
\* block can be incomplete.
StreamEnd ==
    /\ stream # <<>> => last[2] = put[last[1]] /\ last[2] > 0
    /\ \A b \in Blocks :
          put[b] > 0 =>
              /\ stream # <<>>
              /\ put[b] < BlockLen[b] => last[1] = b

\* After a clean end nobody can write any more.
NothingAfterEnd ==
    reader = "ended" =>
        /\ callback # "held"
        /\ got = Len(stream)
        /\ callback = "dropped" =>
               \A b \in Blocks : send[b] \in {"idle", "sent"}

IInv ==
    /\ TypeOK
    /\ OneWriter
    /\ Progress
    /\ StreamEnd
    /\ BlocksContiguous
    /\ NothingAfterEnd

------------------------------------------------------------------------------
(* The state of a socket direction always has its type: in particular the  *)
(* iterator never yields bytes that were not written (got <= Len(stream)). *)
THEOREM TypeCorrect == Spec => []TypeOK
<1> USE TcpAssumption DEF TcpAssumption
<1>1. Init => TypeOK
  BY DEF Init, TypeOK, SendStates, got
<1>2. TypeOK /\ [Next]_vars => TypeOK'
  <2> SUFFICES ASSUME TypeOK, [Next]_vars PROVE TypeOK'
    OBVIOUS
  <2> USE DEF TypeOK, SendStates, got, At
  <2>1. ASSUME NEW b \in Blocks, Call(b) \/ Lock(b) \/ WriteOk(b) \/ WriteErr(b)
        PROVE  TypeOK'
    BY <2>1 DEF Call, Lock, WriteOk, WriteErr
  <2>2. ASSUME NEW b \in Blocks, WriteByte(b)
        PROVE  TypeOK'
    <3>1. put[b] \in Nat /\ <<b, put[b] + 1>> \in Blocks \X Nat
      OBVIOUS
    <3>2. put' \in [Blocks -> Nat]
      BY <2>2, <3>1 DEF WriteByte
    <3>3. stream' \in Seq(Blocks \X Nat) /\ Len(stream') = Len(stream) + 1
      BY <2>2, <3>1 DEF WriteByte
    <3>4. got' <= Len(stream')
      BY <2>2, <3>3 DEF WriteByte
    <3> QED
      BY <2>2, <3>2, <3>3, <3>4 DEF WriteByte
  <2>3. CASE ReadChunk
    <3>1. PICK n \in 1 .. BufferSize :
              n <= Unread /\ item' = <<got + 1, got + n>>
      BY <2>3 DEF ReadChunk
    <3>2. got \in Nat /\ Len(stream) \in Nat /\ n \in Nat
      OBVIOUS
    <3>3. n <= Len(stream) - got /\ stream' = stream
      BY <2>3, <3>1 DEF ReadChunk, Unread
    <3>4. item'[1] = got + 1 /\ item'[2] = got + n
      BY <3>1
    <3>5. item' \in Nat \X Nat
      BY <3>1, <3>2
    <3>6. got' <= Len(stream')
      BY <3>2, <3>3, <3>4
    <3> QED
      BY <2>3, <3>5, <3>6 DEF ReadChunk
  <2>4. CASE ReadEof \/ ReadErr \/ DropCallback \/ Kill \/ LinkDown
    BY <2>4 DEF ReadEof, ReadErr, DropCallback, Kill, LinkDown
  <2>5. CASE UNCHANGED vars
    BY <2>5 DEF vars
  <2> QED
    BY <2>1, <2>2, <2>3, <2>4, <2>5 DEF Next, Sender, Reader
<1> QED
  BY <1>1, <1>2, PTL DEF Spec

(* The strengthened invariant is inductive. *)
LEMMA Inductive == Spec => []IInv
<1> USE TcpAssumption DEF TcpAssumption
<1>1. Init => IInv
  BY DEF Init, IInv, TypeOK, SendStates, got, OneWriter, Progress, StreamEnd,
         BlocksContiguous, NothingAfterEnd
<1>2. TypeOK' /\ IInv /\ [Next]_vars => IInv'
  <2> SUFFICES ASSUME TypeOK', IInv, [Next]_vars PROVE IInv'
    OBVIOUS
  <2> USE DEF IInv, TypeOK, SendStates, At
  <2>1. ASSUME NEW b \in Blocks, Call(b) PROVE IInv'
    <3>1. OneWriter' /\ Progress'
      BY <2>1 DEF Call, OneWriter, Progress
    <3>2. StreamEnd' /\ BlocksContiguous'
      BY <2>1 DEF Call, StreamEnd, last, BlocksContiguous, Follows
    <3>3. NothingAfterEnd'
      BY <2>1 DEF Call, NothingAfterEnd
    <3> QED
      BY <3>1, <3>2, <3>3
  <2>2. ASSUME NEW b \in Blocks, Lock(b) PROVE IInv'
    <3>1. OneWriter' /\ Progress'
      BY <2>2 DEF Lock, OneWriter, Progress
    <3>2. StreamEnd' /\ BlocksContiguous'
      BY <2>2 DEF Lock, StreamEnd, last, BlocksContiguous, Follows
    <3>3. NothingAfterEnd'
      BY <2>2 DEF Lock, NothingAfterEnd
    <3> QED
      BY <3>1, <3>2, <3>3
  <2>3. ASSUME NEW b \in Blocks, WriteByte(b) PROVE IInv'
    <3> DEFINE byte == <<b, put[b] + 1>>
    <3>1. /\ stream' = Append(stream, byte)
          /\ Len(stream') = Len(stream) + 1
          /\ stream'[Len(stream')] = byte
          /\ \A p \in 1 .. Len(stream) : stream'[p] = stream[p]
      BY <2>3 DEF WriteByte
    <3>2. OneWriter' /\ Progress'
      BY <2>3 DEF WriteByte, OneWriter, Progress
    <3>3. \A c \in Blocks : c # b => put[c] = 0 \/ put[c] = BlockLen[c]
      BY <2>3 DEF WriteByte, OneWriter, Progress
    <3>4. StreamEnd'
      <4>1. last' = byte /\ put'[b] = put[b] + 1
        BY <2>3, <3>1 DEF WriteByte, last
      <4>2. stream' # <<>> /\ last'[2] = put'[last'[1]] /\ last'[2] > 0
        <5>1. byte[1] = b /\ byte[2] = put[b] + 1 /\ put[b] \in Nat
          OBVIOUS
        <5>2. stream' # <<>>
          <6>1. Len(stream') # 0
            BY <3>1
          <6> HIDE DEF byte, IInv, TypeOK
          <6> QED
            BY <6>1
        <5> HIDE DEF byte, IInv, TypeOK
        <5> QED
          BY <4>1, <5>1, <5>2
      <4>3. ASSUME NEW c \in Blocks, put'[c] > 0, put'[c] < BlockLen[c]
            PROVE  last'[1] = c
        <5>1. c # b => put'[c] = put[c]
          BY <2>3 DEF WriteByte
        <5>2. put[c] = 0 \/ put[c] = BlockLen[c] => c = b
          BY <4>3, <5>1
        <5>3. c = b
          BY <3>3, <5>2
        <5> QED
          BY <4>1, <5>3
      <4> QED
        BY <4>2, <4>3 DEF StreamEnd
    <3>5. IF stream = <<>>
          THEN put[b] = 0
          ELSE \/ last[1] = b /\ last[2] = put[b]
               \/ put[b] = 0 /\ last[2] = BlockLen[last[1]]
      <4>1. CASE stream = <<>>
        BY <4>1 DEF StreamEnd
      <4>2. CASE stream # <<>> /\ put[b] = 0
        <5>1. Len(stream) \in 1 .. Len(stream)
          BY <4>2
        <5>2. last \in Blocks \X Nat
          BY <5>1 DEF last
        <5>3. last[1] \in Blocks /\ last[2] = put[last[1]] /\ last[2] > 0
          BY <4>2, <5>2 DEF StreamEnd
        <5> HIDE DEF IInv, TypeOK
        <5>4. last[1] # b
          BY <4>2, <5>3
        <5>5. put[last[1]] = 0 \/ put[last[1]] = BlockLen[last[1]]
          BY <3>3, <5>3, <5>4
        <5> QED
          BY <4>2, <5>3, <5>5
      <4>3. CASE put[b] > 0
        BY <2>3, <4>3 DEF WriteByte, StreamEnd
      <4> QED
        BY <4>1, <4>2, <4>3
    <3>6. BlocksContiguous'
      <4> DEFINE n == Len(stream)
      <4>1. n \in Nat /\ Len(stream') = n + 1
        BY <3>1
      <4>2. stream'[n + 1] = byte /\ \A p \in 1 .. n : stream'[p] = stream[p]
        BY <3>1
      <4>3. n # 0 => stream # <<>> /\ stream'[n] = last
        <5>1. n # 0 => n \in 1 .. n
          BY <4>1
        <5> QED
          BY <4>2, <5>1 DEF last
      <4>4. n = 0 => stream = <<>>
        OBVIOUS
      <4> SUFFICES ASSUME NEW p \in 1 .. n + 1 PROVE Follows(p)'
        BY <4>1 DEF BlocksContiguous
      <4>5. CASE p \in 1 .. n
        <5>1. stream'[p] = stream[p]
          BY <4>2, <4>5
        <5>2. p # 1 => stream'[p - 1] = stream[p - 1]
          <6>1. p # 1 => p - 1 \in 1 .. n
            BY <4>1, <4>5
          <6> HIDE DEF n
          <6> QED
            BY <4>2, <6>1
        <5>3. Follows(p)
          BY <4>5 DEF BlocksContiguous
        <5> QED
          BY <5>1, <5>2, <5>3 DEF Follows
      <4>6. CASE p = n + 1 /\ n = 0
        <5>1. stream'[p] = byte /\ p = 1 /\ byte[2] = 1
          BY <3>5, <4>2, <4>4, <4>6
        <5> QED
          BY <5>1 DEF Follows
      <4>7. CASE p = n + 1 /\ n # 0
        <5>1. stream'[p] = byte /\ p # 1 /\ p - 1 = n /\ stream'[p - 1] = last
          <6>1. p # 1 /\ p - 1 = n
            BY <4>1, <4>7
          <6> HIDE DEF n, byte
          <6> QED
            BY <4>2, <4>3, <4>7, <6>1
        <5>2. \/ last[1] = b /\ last[2] = put[b]
              \/ put[b] = 0 /\ last[2] = BlockLen[last[1]]
          BY <3>5, <4>3, <4>7
        <5> HIDE DEF IInv, TypeOK
        <5> QED
          BY <5>1, <5>2 DEF Follows
      <4> QED
        BY <4>1, <4>5, <4>6, <4>7
    <3>7. NothingAfterEnd'
      BY <2>3 DEF WriteByte, NothingAfterEnd
    <3> QED
      BY <3>2, <3>4, <3>6, <3>7
  <2>4. ASSUME NEW b \in Blocks, WriteOk(b) PROVE IInv'
    <3>1. OneWriter' /\ Progress'
      BY <2>4 DEF WriteOk, OneWriter, Progress
    <3>2. StreamEnd' /\ BlocksContiguous'
      BY <2>4 DEF WriteOk, StreamEnd, last, BlocksContiguous, Follows
    <3>3. NothingAfterEnd'
      BY <2>4 DEF WriteOk, NothingAfterEnd
    <3> QED
      BY <3>1, <3>2, <3>3
  <2>5. ASSUME NEW b \in Blocks, WriteErr(b) PROVE IInv'
    <3>1. OneWriter' /\ Progress'
      BY <2>5 DEF WriteErr, OneWriter, Progress
    <3>2. StreamEnd' /\ BlocksContiguous'
      BY <2>5 DEF WriteErr, StreamEnd, last, BlocksContiguous, Follows
    <3>3. NothingAfterEnd'
      BY <2>5 DEF WriteErr, NothingAfterEnd
    <3> QED
      BY <3>1, <3>2, <3>3
  <2>6. CASE ReadChunk \/ ReadErr
    <3>1. OneWriter' /\ Progress'
      BY <2>6 DEF ReadChunk, ReadErr, OneWriter, Progress
    <3>2. StreamEnd' /\ BlocksContiguous'
      BY <2>6 DEF ReadChunk, ReadErr, StreamEnd, last, BlocksContiguous, Follows
    <3>3. NothingAfterEnd'
      BY <2>6 DEF ReadChunk, ReadErr, NothingAfterEnd
    <3> QED
      BY <3>1, <3>2, <3>3
  <2>7. CASE ReadEof
    <3>1. OneWriter' /\ Progress'
      BY <2>7 DEF ReadEof, OneWriter, Progress
    <3>2. StreamEnd' /\ BlocksContiguous'
      BY <2>7 DEF ReadEof, StreamEnd, last, BlocksContiguous, Follows
    <3>3. callback = "dropped" => \A b \in Blocks : send[b] \in {"idle", "sent"}
      BY <2>7 DEF ReadEof, WriteHalfDropped, InFlight, Progress
    <3>4. got \in Nat /\ Len(stream) \in Nat /\ got = Len(stream)
      BY <2>7 DEF ReadEof, Unread, got
    <3>5. NothingAfterEnd'
      BY <2>7, <3>3, <3>4 DEF ReadEof, NothingAfterEnd, WriteHalfDropped,
                              InFlight, got
    <3> QED
      BY <3>1, <3>2, <3>5
  <2>8. CASE DropCallback \/ Kill \/ LinkDown
    <3>1. OneWriter' /\ Progress'
      BY <2>8 DEF DropCallback, Kill, LinkDown, OneWriter, Progress
    <3>2. StreamEnd' /\ BlocksContiguous'
      BY <2>8 DEF DropCallback, Kill, LinkDown, StreamEnd, last, BlocksContiguous,
                  Follows
    <3>3. NothingAfterEnd'
      BY <2>8 DEF DropCallback, Kill, LinkDown, NothingAfterEnd, got
    <3> QED
      BY <3>1, <3>2, <3>3
  <2>9. CASE UNCHANGED vars
    BY <2>9 DEF vars, OneWriter, Progress, StreamEnd, last, BlocksContiguous,
                Follows, NothingAfterEnd, got
  <2> QED
    BY <2>1, <2>2, <2>3, <2>4, <2>5, <2>6, <2>7, <2>8, <2>9
    DEF Next, Sender, Reader
<1> QED
  BY <1>1, <1>2, TypeCorrect, PTL DEF Spec

(* Blocks sent at the same time never mix on the connection, for any       *)
(* number of calls, block lengths and buffer sizes.                        *)
THEOREM BlocksNeverMix == Spec => []BlocksContiguous
BY Inductive, PTL DEF IInv

(* If the iterator ends without an error, and the peer's process was not   *)
(* killed, then every block whose sending began has arrived completely and *)
(* its sender was told so.                                                 *)
THEOREM CleanEnd == Spec => []CleanEndIsComplete
<1>1. IInv => CleanEndIsComplete
  <2> SUFFICES ASSUME IInv, reader = "ended", callback # "killed"
               PROVE  /\ got = Len(stream)
                      /\ \A b \in Blocks :
                            \/ send[b] = "idle" /\ put[b] = 0
                            \/ send[b] = "sent" /\ put[b] = BlockLen[b]
    BY DEF CleanEndIsComplete
  <2>1. callback = "dropped"
    BY DEF IInv, TypeOK, NothingAfterEnd
  <2>2. got = Len(stream) /\ \A b \in Blocks : send[b] \in {"idle", "sent"}
    BY <2>1 DEF IInv, NothingAfterEnd
  <2> QED
    BY <2>2 DEF IInv, Progress
<1> QED
  BY <1>1, Inductive, PTL

------------------------------------------------------------------------------
(* Positions in ascending order *)

Less == {pair \in Nat \X Nat : pair[1] < pair[2]}

(* Induction on the natural numbers, for a set: the least number outside   *)
(* of it would be the successor of one inside.                             *)
LEMMA InductionOnNat ==
    ASSUME NEW S, 0 \in S, \A n \in Nat : n \in S => n + 1 \in S
    PROVE  Nat \subseteq S
<1>1. IsWellFoundedOn(Less, Nat)
  BY NatLessThanWellFounded, Zenon DEF OpToRel, Less
<1>2. SUFFICES ASSUME Nat \ S # {} PROVE FALSE
  OBVIOUS
<1>3. PICK n \in Nat \ S : \A m \in Nat \ S : <<m, n>> \notin Less
  BY <1>1, <1>2, WFMin
<1>4. n \in Nat /\ n # 0 /\ n \notin S
  BY <1>3
<1>5. n - 1 \in Nat /\ n - 1 < n /\ n - 1 + 1 = n
  BY <1>4
<1>6. <<n - 1, n>> \in Less
  BY <1>4, <1>5 DEF Less
<1> QED
  BY <1>3, <1>4, <1>5, <1>6

\* How many of the positions there are up to p.
Rank(positions, p) == Cardinality({q \in positions : q <= p})

(* Sets of positions are finite, and so are their parts. *)
LEMMA Positions ==
    ASSUME NEW n \in Nat, NEW P \in SUBSET (1 .. n)
    PROVE  /\ IsFiniteSet(P) /\ Cardinality(P) \in Nat
           /\ \A Q \in SUBSET P :
                 /\ IsFiniteSet(Q) /\ Cardinality(Q) \in Nat
                 /\ Cardinality(Q) <= Cardinality(P)
                 /\ Cardinality(Q) = Cardinality(P) => Q = P
<1>1. IsFiniteSet(1 .. n)
  BY FS_Interval
<1>2. IsFiniteSet(P) /\ Cardinality(P) \in Nat
  BY <1>1, FS_Subset, FS_CardinalityType
<1> QED
  BY <1>2, FS_Subset, FS_CardinalityType

(* A position above all others is the last one, and does not move them. *)
LEMMA RankOfLast ==
    ASSUME NEW n \in Nat, NEW P \in SUBSET (1 .. n)
    PROVE  /\ IsFiniteSet(P \cup {n + 1})
           /\ Cardinality(P \cup {n + 1}) = Cardinality(P) + 1
           /\ Rank(P \cup {n + 1}, n + 1) = Cardinality(P) + 1
           /\ \A p \in P : /\ Rank(P \cup {n + 1}, p) = Rank(P, p)
                           /\ Rank(P, p) \in Nat /\ Rank(P, p) <= Cardinality(P)
<1>0. \A q \in P : q \in Nat /\ q <= n /\ q < n + 1 /\ q <= n + 1
  <2>1. ASSUME NEW q \in P PROVE q \in Nat /\ q <= n /\ q < n + 1 /\ q <= n + 1
    <3>1. q \in 1 .. n
      OBVIOUS
    <3>2. q \in Nat /\ q <= n
      BY <3>1
    <3> QED
      BY <3>2
  <2> QED
    BY <2>1
<1>1. IsFiniteSet(P) /\ Cardinality(P) \in Nat /\ n + 1 \notin P
  <2>1. IsFiniteSet(P) /\ Cardinality(P) \in Nat
    BY Positions, Zenon
  <2>2. n + 1 \notin P
    BY <1>0
  <2> QED
    BY <2>1, <2>2
<1>2. /\ IsFiniteSet(P \cup {n + 1})
      /\ Cardinality(P \cup {n + 1}) = Cardinality(P) + 1
  BY <1>1, FS_AddElement
<1>3. {q \in P \cup {n + 1} : q <= n + 1} = P \cup {n + 1}
  <2>1. \A q \in P \cup {n + 1} : q <= n + 1
    BY <1>0
  <2> QED
    BY <2>1, Zenon
<1>4. ASSUME NEW p \in P
      PROVE  /\ Rank(P \cup {n + 1}, p) = Rank(P, p)
             /\ Rank(P, p) \in Nat /\ Rank(P, p) <= Cardinality(P)
  <2>1. ~(n + 1 <= p)
    BY <1>0
  <2>2. {q \in P \cup {n + 1} : q <= p} = {q \in P : q <= p}
    BY <2>1, Zenon
  <2>3. {q \in P : q <= p} \in SUBSET P
    OBVIOUS
  <2>4. /\ Cardinality({q \in P : q <= p}) \in Nat
        /\ Cardinality({q \in P : q <= p}) <= Cardinality(P)
    BY <2>3, Positions, Zenon
  <2> QED
    BY <2>2, <2>4 DEF Rank
<1> QED
  BY <1>2, <1>3, <1>4 DEF Rank

(* There is a k-th position for each k up to the number of positions. *)
LEMMA NthExists ==
    ASSUME NEW n \in Nat, NEW P \in SUBSET (1 .. n), NEW k \in 1 .. Cardinality(P)
    PROVE  \E p \in P : Rank(P, p) = k
<1> DEFINE Full(Q) == \A j \in 1 .. Cardinality(Q) : \E p \in Q : Rank(Q, p) = j
           S == {m \in Nat : \A Q \in SUBSET (1 .. m) : Full(Q)}
<1>1. 0 \in S
  <2>1. \A Q \in SUBSET (1 .. 0) : Q = {}
    OBVIOUS
  <2>2. Full({})
    BY FS_EmptySet
  <2> HIDE DEF Full
  <2> QED
    BY <2>1, <2>2
<1>2. ASSUME NEW m \in Nat, m \in S PROVE m + 1 \in S
  <2>1. SUFFICES ASSUME NEW Q \in SUBSET (1 .. m + 1) PROVE Full(Q)
    BY DEF S
  <2>2. CASE m + 1 \notin Q
    <3>1. Q \in SUBSET (1 .. m)
      BY <2>2
    <3> QED
      BY <1>2, <3>1
  <2>3. CASE m + 1 \in Q
    <3> DEFINE R == Q \ {m + 1}
    <3>1. R \in SUBSET (1 .. m) /\ Q = R \cup {m + 1}
      BY <2>3
    <3>2. Full(R)
      BY <1>2, <3>1
    <3> HIDE DEF R
    <3>3. /\ Cardinality(Q) = Cardinality(R) + 1
          /\ Rank(Q, m + 1) = Cardinality(R) + 1
          /\ \A p \in R : Rank(Q, p) = Rank(R, p)
      <4>1. /\ Cardinality(R \cup {m + 1}) = Cardinality(R) + 1
            /\ Rank(R \cup {m + 1}, m + 1) = Cardinality(R) + 1
            /\ \A p \in R : Rank(R \cup {m + 1}, p) = Rank(R, p)
        <5> HIDE DEF S, Full
        <5> QED
          BY <3>1, RankOfLast
      <4> QED
        BY <3>1, <4>1
    <3>4. Cardinality(R) \in Nat
      BY <3>1, Positions
    <3>5. ASSUME NEW j \in 1 .. Cardinality(Q) PROVE \E p \in Q : Rank(Q, p) = j
      <4>1. CASE j = Cardinality(R) + 1
        BY <3>1, <3>3, <4>1
      <4>2. CASE j # Cardinality(R) + 1
        <5>1. j \in 1 .. Cardinality(R)
          BY <3>3, <3>4, <4>2
        <5> QED
          BY <3>1, <3>2, <3>3, <5>1
      <4> QED
        BY <4>1, <4>2
    <3> QED
      BY <3>5
  <2> QED
    BY <2>2, <2>3
<1> HIDE DEF S
<1>3. n \in S
  BY <1>1, <1>2, InductionOnNat
<1> QED
  BY <1>3 DEF S

(* There is no other k-th position. *)
LEMMA NthIsUnique ==
    ASSUME NEW n \in Nat, NEW P \in SUBSET (1 .. n), NEW p \in P
    PROVE  Nth(P, Rank(P, p)) = p
<1>1. ASSUME NEW q \in P, NEW r \in P, q < r PROVE Rank(P, q) # Rank(P, r)
  <2> DEFINE Q == {t \in P : t <= q}
             R == {t \in P : t <= r}
  <2>1. \A t \in P : t \in Nat
    OBVIOUS
  <2>2. \A t \in P : t <= q => t <= r
    BY <1>1, <2>1
  <2>3. r \in R /\ r \notin Q
    BY <1>1, <2>1
  <2>4. Q \in SUBSET R /\ R \in SUBSET (1 .. n) /\ Q # R
    BY <2>2, <2>3, Zenon
  <2> HIDE DEF Q, R
  <2>5. Cardinality(Q) # Cardinality(R)
    BY <2>4, Positions, Zenon
  <2> QED
    BY <2>5 DEF Rank, Q, R
<1>2. \A q \in P : Rank(P, q) = Rank(P, p) => q = p
  <2>1. \A q \in P : q \in Nat
    OBVIOUS
  <2> QED
    BY <1>1, <2>1
<1> QED
  BY <1>2 DEF Nth, Rank

(* The k-th position is one of the positions. *)
LEMMA NthIsPosition ==
    ASSUME NEW n \in Nat, NEW P \in SUBSET (1 .. n), NEW k \in 1 .. Cardinality(P)
    PROVE  Nth(P, k) \in P /\ Rank(P, Nth(P, k)) = k
<1>1. PICK p \in P : Rank(P, p) = k
  BY NthExists
<1> QED
  BY <1>1, NthIsUnique

(* A position above all others comes last in ascending order. *)
LEMMA NthOfMore ==
    ASSUME NEW n \in Nat, NEW P \in SUBSET (1 .. n)
    PROVE  /\ \A k \in 1 .. Cardinality(P) : Nth(P \cup {n + 1}, k) = Nth(P, k)
           /\ Nth(P \cup {n + 1}, Cardinality(P) + 1) = n + 1
<1> DEFINE m == n + 1
           Q == P \cup {m}
<1>1. /\ Rank(Q, m) = Cardinality(P) + 1
      /\ \A p \in P : Rank(Q, p) = Rank(P, p)
  BY RankOfLast
<1>2. m \in Nat /\ m \in Q /\ P \subseteq Q
  OBVIOUS
<1>3. Q \in SUBSET (1 .. m)
  <2>1. \A p \in P : p \in 1 .. n
    OBVIOUS
  <2>2. m \in 1 .. m /\ \A p \in 1 .. n : p \in 1 .. m
    OBVIOUS
  <2> HIDE DEF m
  <2> QED
    BY <2>1, <2>2, Zenon
<1> HIDE DEF m, Q
<1>4. \A p \in Q : Nth(Q, Rank(Q, p)) = p
  BY <1>2, <1>3, NthIsUnique, Zenon
<1>5. ASSUME NEW k \in 1 .. Cardinality(P) PROVE Nth(Q, k) = Nth(P, k)
  <2>1. Nth(P, k) \in P /\ Rank(P, Nth(P, k)) = k
    BY NthIsPosition, Zenon
  <2>2. Nth(P, k) \in Q /\ Rank(Q, Nth(P, k)) = k
    BY <1>1, <1>2, <2>1
  <2> QED
    BY <1>4, <2>2
<1>6. Nth(Q, Cardinality(P) + 1) = m
  BY <1>1, <1>2, <1>4
<1> QED
  BY <1>5, <1>6 DEF m, Q

------------------------------------------------------------------------------
(* The blocks at some positions *)

Bytes == Blocks \X Nat

(* There is one block for each position. *)
LEMMA BlocksAtType ==
    ASSUME NEW s \in Seq(Bytes), NEW P \in SUBSET (1 .. Len(s))
    PROVE  /\ BlocksAt(s, P) \in Seq(Blocks)
           /\ Len(BlocksAt(s, P)) = Cardinality(P)
           /\ Cardinality(P) \in Nat
<1>1. Len(s) \in Nat /\ Cardinality(P) \in Nat
  <2>1. Len(s) \in Nat
    BY LenProperties
  <2> QED
    BY <2>1, Positions, Zenon
<1>2. \A k \in 1 .. Cardinality(P) : s[Nth(P, k)][1] \in Blocks
  <2> SUFFICES ASSUME NEW k \in 1 .. Cardinality(P)
               PROVE  s[Nth(P, k)][1] \in Blocks
    OBVIOUS
  <2>1. Nth(P, k) \in P
    BY <1>1, NthIsPosition
  <2>2. Nth(P, k) \in 1 .. Len(s)
    BY <2>1
  <2>3. s[Nth(P, k)] \in Bytes
    BY <2>2, ElementOfSeq
  <2> QED
    BY <2>3 DEF Bytes
<1>3. BlocksAt(s, P) \in [1 .. Cardinality(P) -> Blocks]
  BY <1>2 DEF BlocksAt
<1>4. BlocksAt(s, P) \in Seq(Blocks)
  BY <1>1, <1>3, SeqDef
<1> QED
  BY <1>1, <1>3, <1>4, LenProperties DEF BlocksAt

(* The next byte does not change the blocks at the positions before it. *)
LEMMA BlocksKept ==
    ASSUME NEW s \in Seq(Bytes), NEW P \in SUBSET (1 .. Len(s)), NEW byte \in Bytes
    PROVE  BlocksAt(Append(s, byte), P) = BlocksAt(s, P)
<1>1. \A i \in 1 .. Len(s) : Append(s, byte)[i] = s[i]
  BY AppendProperties
<1>2. ASSUME NEW k \in 1 .. Cardinality(P)
      PROVE  Append(s, byte)[Nth(P, k)] = s[Nth(P, k)]
  <2>1. Len(s) \in Nat
    BY LenProperties
  <2>2. Nth(P, k) \in P
    BY <2>1, NthIsPosition
  <2> QED
    BY <1>1, <2>2
<1> QED
  BY <1>2 DEF BlocksAt

(* Its block is the last one, if its position is taken as well. *)
LEMMA BlocksAdded ==
    ASSUME NEW s \in Seq(Bytes), NEW P \in SUBSET (1 .. Len(s)), NEW byte \in Bytes
    PROVE  /\ Cardinality(P \cup {Len(s) + 1}) = Cardinality(P) + 1
           /\ BlocksAt(Append(s, byte), P \cup {Len(s) + 1})
                 = Append(BlocksAt(s, P), byte[1])
<1> DEFINE t == Append(s, byte)
           n == Len(s)
           c == Cardinality(P)
           Q == P \cup {n + 1}
<1>1. /\ n \in Nat /\ c \in Nat /\ byte[1] \in Blocks
      /\ t \in Seq(Bytes) /\ Len(t) = n + 1 /\ t[n + 1] = byte
  <2>1. n \in Nat
    BY LenProperties
  <2>2. c \in Nat
    BY <2>1, Positions, Zenon
  <2>3. t \in Seq(Bytes) /\ Len(t) = n + 1 /\ t[n + 1] = byte
    BY AppendProperties
  <2>4. byte[1] \in Blocks
    BY DEF Bytes
  <2> QED
    BY <2>1, <2>2, <2>3, <2>4
<1>2. Cardinality(Q) = c + 1 /\ Q \in SUBSET (1 .. n + 1)
  <2>1. Cardinality(Q) = c + 1
    BY <1>1, RankOfLast, Zenon
  <2>2. \A p \in P : p \in 1 .. n
    OBVIOUS
  <2>3. n + 1 \in 1 .. n + 1 /\ \A p \in 1 .. n : p \in 1 .. n + 1
    BY <1>1
  <2> QED
    BY <2>1, <2>2, <2>3, Zenon
<1>3. /\ \A k \in 1 .. c : Nth(Q, k) = Nth(P, k)
      /\ Nth(Q, c + 1) = n + 1
  BY <1>1, NthOfMore, Zenon
<1>4. BlocksAt(t, P) = BlocksAt(s, P)
  BY BlocksKept, Zenon
<1>5. /\ BlocksAt(s, P) \in Seq(Blocks) /\ Len(BlocksAt(s, P)) = c
      /\ BlocksAt(t, Q) \in Seq(Blocks) /\ Len(BlocksAt(t, Q)) = c + 1
  <2>1. BlocksAt(s, P) \in Seq(Blocks) /\ Len(BlocksAt(s, P)) = c
    BY BlocksAtType, Zenon
  <2>2. Q \in SUBSET (1 .. Len(t))
    BY <1>1, <1>2
  <2> HIDE DEF t, Q
  <2>3. BlocksAt(t, Q) \in Seq(Blocks) /\ Len(BlocksAt(t, Q)) = Cardinality(Q)
    BY <1>1, <2>2, BlocksAtType, Zenon
  <2> QED
    BY <1>2, <2>1, <2>3
<1> DEFINE a == Append(BlocksAt(s, P), byte[1])
<1>6. /\ a \in Seq(Blocks) /\ Len(a) = c + 1 /\ a[c + 1] = byte[1]
      /\ \A k \in 1 .. c : a[k] = BlocksAt(s, P)[k]
  BY <1>1, <1>5, AppendProperties
<1> HIDE DEF a, t, Q, c, n
<1>7. \A k \in 1 .. c : BlocksAt(t, Q)[k] = BlocksAt(t, P)[k]
  BY <1>1, <1>2, <1>3 DEF BlocksAt, c
<1>8. BlocksAt(t, Q)[c + 1] = byte[1]
  BY <1>1, <1>2, <1>3 DEF BlocksAt
<1>9. \A k \in 1 .. c + 1 : k \in 1 .. c \/ k = c + 1
  BY <1>1
<1>10. \A k \in 1 .. c + 1 : BlocksAt(t, Q)[k] = a[k]
  BY <1>4, <1>6, <1>7, <1>8, <1>9
<1>11. BlocksAt(t, Q) = a
  BY <1>5, <1>6, <1>10, SeqEqual
<1> QED
  BY <1>2, <1>11 DEF a, t, Q, c, n

(* Of the blocks at some positions, those at the positions up to g come    *)
(* first.                                                                  *)
LEMMA BlocksUpTo ==
    ASSUME NEW s \in Seq(Bytes), NEW P \in SUBSET (1 .. Len(s)), NEW g \in Nat
    PROVE  LET Q == {p \in P : p <= g}
           IN  /\ Cardinality(Q) \in Nat /\ Cardinality(Q) <= Cardinality(P)
               /\ BlocksAt(s, Q) = SubSeq(BlocksAt(s, P), 1, Cardinality(Q))
<1> DEFINE Q == {p \in P : p <= g}
           n == Len(s)
<1>1. n \in Nat
  BY LenProperties
<1>2. Q \in SUBSET P /\ Q \in SUBSET (1 .. n)
  OBVIOUS
<1>3. \A p \in P : p \in Nat
  <2>1. \A p \in 1 .. n : p \in Nat
    OBVIOUS
  <2> QED
    BY <2>1
<1>4. /\ Cardinality(Q) \in Nat /\ Cardinality(P) \in Nat
      /\ Cardinality(Q) <= Cardinality(P)
  <2> HIDE DEF Q, n
  <2> QED
    BY <1>1, <1>2, Positions, Zenon DEF n
<1>5. ASSUME NEW k \in 1 .. Cardinality(Q) PROVE Nth(Q, k) = Nth(P, k)
  <2>1. Nth(Q, k) \in Q /\ Rank(Q, Nth(Q, k)) = k
    <3> HIDE DEF Q, n
    <3> QED
      BY <1>1, <1>2, NthIsPosition, Zenon
  <2> DEFINE p == Nth(Q, k)
  <2> HIDE DEF p
  <2>2. p \in P /\ p <= g /\ p \in Nat
    BY <1>3, <2>1 DEF p
  <2>3. \A q \in P : q <= p => q <= g
    BY <1>3, <2>2
  <2>4. {q \in Q : q <= p} = {q \in P : q <= p}
    BY <2>3, Zenon
  <2>5. Rank(P, p) = k
    BY <2>1, <2>4 DEF Rank, p
  <2>6. Nth(P, Rank(P, p)) = p
    BY <1>1, <2>2, NthIsUnique, Zenon DEF n
  <2> QED
    BY <2>5, <2>6 DEF p
<1> HIDE DEF Q
<1>6. /\ BlocksAt(s, P) \in Seq(Blocks) /\ Len(BlocksAt(s, P)) = Cardinality(P)
      /\ BlocksAt(s, Q) \in Seq(Blocks) /\ Len(BlocksAt(s, Q)) = Cardinality(Q)
  BY <1>2, BlocksAtType, Zenon DEF n
<1> DEFINE w == BlocksAt(s, P)
           v == BlocksAt(s, Q)
           c == Cardinality(Q)
<1>7. \A k \in 1 .. c : v[k] = w[k]
  <2>1. \A k \in 1 .. c : k \in 1 .. Cardinality(P)
    BY <1>4
  <2> QED
    BY <1>5, <2>1 DEF BlocksAt
<1> HIDE DEF w, v, c
<1>8. /\ SubSeq(w, 1, c) \in Seq(Blocks) /\ Len(SubSeq(w, 1, c)) = c
      /\ \A k \in 1 .. c : SubSeq(w, 1, c)[k] = w[k]
  BY <1>4, <1>6 DEF w, c
<1>9. v = SubSeq(w, 1, c)
  BY <1>6, <1>7, <1>8, SeqEqual DEF v, c
<1> QED
  BY <1>4, <1>9 DEF Q, w, v, c

------------------------------------------------------------------------------
(* The socket implements the pipe *)

begun == BlocksAt(stream, FirstBytes)
whole == BlocksAt(stream, LastBytes(Len(stream)))

\* The bytes of a block on the stream are among those that were put there.
StreamWasPut ==
    \A p \in 1 .. Len(stream) :
        1 <= stream[p][2] /\ stream[p][2] <= put[stream[p][1]]

\* The blocks that have begun are the whole ones, and the one of the last
\* byte if it goes on.
OnlyLastGoesOn ==
    begun = IF stream # <<>> /\ last[2] # BlockLen[last[1]]
            THEN Append(whole, last[1])
            ELSE whole

PInv == StreamWasPut /\ OnlyLastGoesOn

(* What the next byte of block b does to the blocks that have begun and to *)
(* those that are whole.                                                   *)
LEMMA NextByte ==
    ASSUME IInv, NEW b \in Blocks, WriteByte(b)
    PROVE  /\ begun' = IF put[b] = 0 THEN Append(begun, b) ELSE begun
           /\ whole' = IF put[b] + 1 = BlockLen[b]
                       THEN Append(whole, b)
                       ELSE whole
<1> DEFINE byte == <<b, put[b] + 1>>
           n == Len(stream)
           L == LastBytes(n)
<1>1. /\ stream \in Seq(Bytes) /\ put[b] \in Nat
      /\ stream' = Append(stream, byte)
  BY DEF IInv, TypeOK, Bytes, WriteByte
<1>2. byte \in Bytes /\ byte[1] = b /\ byte[2] = put[b] + 1
  BY <1>1 DEF Bytes
<1> HIDE DEF byte
<1>3. n \in Nat
  BY <1>1, LenProperties
<1>4. /\ Len(stream') = n + 1 /\ stream'[n + 1] = byte
      /\ \A p \in 1 .. n : stream'[p] = stream[p]
  BY <1>1, <1>2, AppendProperties
<1> HIDE DEF n
<1>5. \A p : p \in 1 .. n + 1 <=> p \in 1 .. n \/ p = n + 1
  BY <1>3
<1>6. FirstBytes \in SUBSET (1 .. n) /\ L \in SUBSET (1 .. n)
  BY DEF FirstBytes, LastBytes, n
<1>7. ASSUME NEW P \in SUBSET (1 .. n)
      PROVE  /\ BlocksAt(stream', P) = BlocksAt(stream, P)
             /\ BlocksAt(stream', P \cup {n + 1})
                   = Append(BlocksAt(stream, P), b)
  <2>1. BlocksAt(Append(stream, byte), P) = BlocksAt(stream, P)
    BY <1>1, <1>2, BlocksKept, Zenon DEF n
  <2>2. BlocksAt(Append(stream, byte), P \cup {n + 1})
          = Append(BlocksAt(stream, P), byte[1])
    BY <1>1, <1>2, BlocksAdded, Zenon DEF n
  <2> QED
    BY <1>1, <1>2, <2>1, <2>2
<1>8. FirstBytes' = IF put[b] = 0 THEN FirstBytes \cup {n + 1} ELSE FirstBytes
  <2>1. byte[2] = 1 <=> put[b] = 0
    BY <1>1, <1>2
  <2>2. \A p : p \in FirstBytes'
                 <=> p \in FirstBytes \/ (p = n + 1 /\ byte[2] = 1)
    <3>1. FirstBytes = {p \in 1 .. n : stream[p][2] = 1}
      BY DEF FirstBytes, n
    <3>2. FirstBytes' = {p \in 1 .. n + 1 : stream'[p][2] = 1}
      BY <1>4 DEF FirstBytes
    <3> QED
      BY <1>4, <1>5, <3>1, <3>2, Zenon
  <2>3. CASE put[b] = 0
    BY <2>1, <2>2, <2>3
  <2>4. CASE put[b] # 0
    BY <2>1, <2>2, <2>4
  <2> QED
    BY <2>3, <2>4
<1>9. LastBytes(Len(stream))'
        = IF put[b] + 1 = BlockLen[b] THEN L \cup {n + 1} ELSE L
  <2>1. \A p : p \in LastBytes(Len(stream))'
                 <=> p \in L \/ (p = n + 1 /\ byte[2] = BlockLen[byte[1]])
    <3>1. L = {p \in 1 .. n : stream[p][2] = BlockLen[stream[p][1]]}
      BY DEF LastBytes
    <3>2. LastBytes(Len(stream))'
            = {p \in 1 .. n + 1 : stream'[p][2] = BlockLen[stream'[p][1]]}
      BY <1>4 DEF LastBytes
    <3> HIDE DEF L
    <3> QED
      BY <1>4, <1>5, <3>1, <3>2, Zenon
  <2> HIDE DEF L
  <2>2. CASE put[b] + 1 = BlockLen[b]
    BY <1>2, <2>1, <2>2
  <2>3. CASE put[b] + 1 # BlockLen[b]
    BY <1>2, <2>1, <2>3
  <2> QED
    BY <2>2, <2>3
<1>10. begun' = IF put[b] = 0 THEN Append(begun, b) ELSE begun
  <2>1. begun = BlocksAt(stream, FirstBytes)
    BY DEF begun
  <2>2. begun' = BlocksAt(stream', FirstBytes')
    BY DEF begun
  <2> QED
    BY <1>6, <1>7, <1>8, <2>1, <2>2, Zenon
<1>11. whole' = IF put[b] + 1 = BlockLen[b] THEN Append(whole, b) ELSE whole
  <2>1. whole = BlocksAt(stream, L)
    BY DEF whole, n
  <2>2. whole' = BlocksAt(stream', LastBytes(Len(stream))')
    BY DEF whole
  <2> HIDE DEF L
  <2> QED
    BY <1>6, <1>7, <1>9, <2>1, <2>2, Zenon
<1> QED
  BY <1>10, <1>11

(* The invariant of the refinement. *)
LEMMA PipeInductive == Spec => []PInv
<1> USE TcpAssumption DEF TcpAssumption
<1>1. Init => PInv
  <2> SUFFICES ASSUME Init PROVE PInv
    OBVIOUS
  <2>1. stream = <<>> /\ Len(stream) = 0
    BY DEF Init
  <2>2. FirstBytes = {} /\ LastBytes(Len(stream)) = {}
    BY <2>1 DEF FirstBytes, LastBytes
  <2>3. begun = whole
    BY <2>2 DEF begun, whole
  <2>4. StreamWasPut
    BY <2>1 DEF StreamWasPut
  <2> QED
    BY <2>1, <2>3, <2>4 DEF PInv, OnlyLastGoesOn
<1>2. IInv /\ IInv' /\ PInv /\ [Next]_vars => PInv'
  <2> SUFFICES ASSUME IInv, IInv', PInv, [Next]_vars PROVE PInv'
    OBVIOUS
  <2>1. ASSUME NEW b \in Blocks, WriteByte(b) PROVE PInv'
    <3> DEFINE byte == <<b, put[b] + 1>>
               n == Len(stream)
    <3>1. /\ put[b] \in Nat /\ put \in [Blocks -> Nat]
          /\ BlockLen[b] \in Nat /\ put[b] < BlockLen[b]
          /\ stream \in Seq(Bytes)
          /\ put' = [put EXCEPT ![b] = @ + 1]
          /\ stream' = Append(stream, byte)
      BY <2>1 DEF IInv, TypeOK, Bytes, WriteByte
    <3>2. byte \in Bytes /\ byte[1] = b /\ byte[2] = put[b] + 1
      BY <3>1 DEF Bytes
    <3> HIDE DEF byte
    <3>3. n \in Nat /\ (n = 0 <=> stream = <<>>)
      BY <3>1, LenProperties
    <3>4. /\ Len(stream') = n + 1 /\ stream'[n + 1] = byte
          /\ \A p \in 1 .. n : stream'[p] = stream[p] /\ stream[p] \in Bytes
      BY <3>1, <3>2, AppendProperties, ElementOfSeq
    <3> HIDE DEF n
    <3>5. last' = byte /\ stream' # <<>>
      BY <3>3, <3>4 DEF last
    <3>6. StreamWasPut'
      <4> SUFFICES ASSUME NEW p \in 1 .. n + 1
                   PROVE  /\ 1 <= stream'[p][2]
                          /\ stream'[p][2] <= put'[stream'[p][1]]
        BY <3>4 DEF StreamWasPut
      <4>1. CASE p \in 1 .. n
        <5>1. stream[p][2] \in Nat /\ stream[p][1] \in Blocks
          BY <3>4, <4>1 DEF Bytes
        <5>2. 1 <= stream[p][2] /\ stream[p][2] <= put[stream[p][1]]
          BY <4>1 DEF PInv, StreamWasPut, n
        <5>3. put[stream[p][1]] <= put'[stream[p][1]]
          BY <3>1, <5>1
        <5> QED
          BY <3>1, <3>4, <4>1, <5>1, <5>2, <5>3
      <4>2. CASE p = n + 1
        BY <3>1, <3>2, <3>4, <4>2
      <4> QED
        BY <3>3, <4>1, <4>2
    <3>7. /\ begun' = IF put[b] = 0 THEN Append(begun, b) ELSE begun
          /\ whole' = IF put[b] + 1 = BlockLen[b]
                      THEN Append(whole, b) ELSE whole
      BY <2>1, NextByte
    <3>8. OnlyLastGoesOn
      BY DEF PInv
    <3>9. CASE put[b] = 0
      <4>1. n # 0 => last[2] = BlockLen[last[1]]
        <5> SUFFICES ASSUME n # 0 PROVE last[2] = BlockLen[last[1]]
          OBVIOUS
        <5>1. n \in 1 .. n /\ n + 1 \in 1 .. n + 1 /\ n + 1 # 1
          BY <3>3
        <5>2. stream'[n] = last /\ last[2] \in Nat /\ last[2] > 0
          BY <3>3, <3>4, <5>1 DEF last, n, Bytes, IInv, StreamEnd
        <5>3. \A p \in 1 .. Len(stream') : Follows(p)'
          BY DEF IInv, BlocksContiguous
        <5>4. n + 1 - 1 = n
          BY <3>3
        <5>5. \/ byte[1] = last[1] /\ byte[2] = last[2] + 1
              \/ byte[2] = 1 /\ last[2] = BlockLen[last[1]]
          <6>1. n + 1 \in 1 .. Len(stream')
            BY <3>4, <5>1
          <6>2. PICK p \in 1 .. Len(stream') : p = n + 1
            BY <6>1
          <6>3. Follows(p)'
            BY <5>3
          <6>4. stream'[p] = byte /\ stream'[p - 1] = last /\ p # 1
            BY <3>4, <5>1, <5>2, <5>4, <6>2
          <6> QED
            BY <6>3, <6>4 DEF Follows
        <5> QED
          BY <3>2, <3>9, <5>2, <5>5
      <4>2. begun = whole
        BY <3>3, <3>8, <4>1 DEF OnlyLastGoesOn
      <4>3. begun' = IF byte[2] # BlockLen[byte[1]]
                     THEN Append(whole', byte[1]) ELSE whole'
        BY <3>2, <3>7, <3>9, <4>2
      <4> QED
        BY <3>5, <3>6, <4>3 DEF PInv, OnlyLastGoesOn
    <3>10. CASE put[b] # 0
      <4>1. stream # <<>> /\ last[1] = b /\ last[2] = put[b]
        BY <3>1, <3>10 DEF IInv, StreamEnd
      <4>2. begun = Append(whole, b)
        BY <3>1, <3>8, <4>1 DEF OnlyLastGoesOn
      <4>3. begun' = IF byte[2] # BlockLen[byte[1]]
                     THEN Append(whole', byte[1]) ELSE whole'
        BY <3>2, <3>7, <3>10, <4>2
      <4> QED
        BY <3>5, <3>6, <4>3 DEF PInv, OnlyLastGoesOn
    <3> QED
      BY <3>9, <3>10
  <2>2. CASE stream' = stream /\ put' = put
    BY <2>2 DEF PInv, StreamWasPut, OnlyLastGoesOn, last, begun, whole,
                FirstBytes, LastBytes
  <2>3. (\E b \in Blocks : WriteByte(b)) \/ (stream' = stream /\ put' = put)
    BY Zenon DEF Next, Sender, Reader, Call, Lock, WriteOk, WriteErr, ReadChunk,
                 ReadEof, ReadErr, DropCallback, Kill, LinkDown, vars
  <2> QED
    BY <2>1, <2>2, <2>3
<1> QED
  BY <1>1, <1>2, Inductive, PTL DEF Spec

(* The bytes yielded so far hold a prefix of the blocks that have begun. *)
LEMMA ArrivedIsPrefix ==
    ASSUME IInv, PInv, NEW g \in 0 .. Len(stream)
    PROVE  LET c == Cardinality(LastBytes(g))
           IN  /\ c \in Nat /\ c <= Len(begun)
               /\ BlocksAt(stream, LastBytes(g)) = SubSeq(begun, 1, c)
               /\ Len(BlocksAt(stream, LastBytes(g))) = c
<1> DEFINE n == Len(stream)
           L == LastBytes(n)
           c == Cardinality(LastBytes(g))
           v == BlocksAt(stream, LastBytes(g))
<1>1. stream \in Seq(Bytes) /\ n \in Nat /\ g \in Nat /\ g <= n
  <2>1. stream \in Seq(Bytes)
    BY DEF IInv, TypeOK, Bytes
  <2> QED
    BY <2>1, LenProperties
<1> HIDE DEF n
<1>2. L \in SUBSET (1 .. n) /\ LastBytes(g) = {p \in L : p <= g}
  <2>1. \A p : p \in 1 .. g <=> p \in 1 .. n /\ p <= g
    BY <1>1
  <2> QED
    BY <2>1, Zenon DEF LastBytes
<1>3. LastBytes(g) \in SUBSET (1 .. n)
  BY <1>2
<1>4. whole = BlocksAt(stream, L)
  BY DEF whole, n
<1> HIDE DEF L
<1>5. /\ Cardinality({p \in L : p <= g}) \in Nat
      /\ Cardinality({p \in L : p <= g}) <= Cardinality(L)
      /\ BlocksAt(stream, {p \in L : p <= g})
            = SubSeq(BlocksAt(stream, L), 1, Cardinality({p \in L : p <= g}))
  BY <1>1, <1>2, BlocksUpTo, Zenon DEF n
<1>6. c \in Nat /\ c <= Cardinality(L) /\ v = SubSeq(whole, 1, c)
  BY <1>2, <1>4, <1>5
<1>7. whole \in Seq(Blocks) /\ Len(whole) = Cardinality(L)
  BY <1>1, <1>2, <1>4, BlocksAtType, Zenon DEF n
<1>8. Len(v) = c
  BY <1>1, <1>3, BlocksAtType, Zenon DEF n
<1> HIDE DEF c, v
<1>9. CASE begun = whole
  BY <1>6, <1>7, <1>8, <1>9 DEF c, v
<1>10. CASE begun = Append(whole, last[1]) /\ stream # <<>>
  <2>1. last[1] \in Blocks
    <3>1. Len(stream) \in 1 .. Len(stream)
      BY <1>1, <1>10 DEF n
    <3> QED
      BY <1>1, <3>1, ElementOfSeq DEF last, Bytes
  <2>2. /\ begun \in Seq(Blocks) /\ Len(begun) = Len(whole) + 1
        /\ \A i \in 1 .. Len(whole) : begun[i] = whole[i]
    BY <1>7, <1>10, <2>1, AppendProperties
  <2>3. c <= Len(whole) /\ c <= Len(begun) /\ Len(whole) \in Nat
    BY <1>6, <1>7, <2>2
  <2>4. /\ SubSeq(begun, 1, c) \in Seq(Blocks) /\ Len(SubSeq(begun, 1, c)) = c
        /\ \A i \in 1 .. c : SubSeq(begun, 1, c)[i] = begun[i]
    BY <1>6, <2>2, <2>3
  <2>5. /\ SubSeq(whole, 1, c) \in Seq(Blocks) /\ Len(SubSeq(whole, 1, c)) = c
        /\ \A i \in 1 .. c : SubSeq(whole, 1, c)[i] = whole[i]
    BY <1>6, <1>7, <2>3
  <2>6. \A i \in 1 .. c : i \in 1 .. Len(whole)
    BY <1>6, <2>3
  <2>7. SubSeq(begun, 1, c) = SubSeq(whole, 1, c)
    BY <2>2, <2>4, <2>5, <2>6, SeqEqual
  <2> QED
    BY <1>6, <1>8, <2>3, <2>7 DEF c, v
<1> QED
  BY <1>9, <1>10 DEF PInv, OnlyLastGoesOn

(* A connection delivers whole blocks, each at most once, in the order in  *)
(* which their writes began and without a gap: it implements the pipe.     *)
THEOREM TcpImplementsPipe == Spec => ImplementsPipe
<1> USE TcpAssumption DEF TcpAssumption
<1>1. Init => Pipe!PipeInit
  <2> SUFFICES ASSUME Init PROVE Pipe!PipeInit
    OBVIOUS
  <2>1. stream = <<>> /\ Len(stream) = 0 /\ got = 0
    BY DEF Init, got
  <2>2. FirstBytes = {} /\ LastBytes(got) = {}
    BY <2>1 DEF FirstBytes, LastBytes
  <2>3. BlocksAt(stream, {}) = <<>>
    <3>1. {} \in SUBSET (1 .. Len(stream)) /\ Cardinality({}) = 0
      BY FS_EmptySet
    <3>2. stream \in Seq(Bytes)
      BY <2>1
    <3>3. /\ BlocksAt(stream, {}) \in Seq(Blocks)
          /\ Len(BlocksAt(stream, {})) = 0
      BY <3>1, <3>2, BlocksAtType
    <3> QED
      BY <3>3, EmptySeq
  <2> QED
    BY <2>2, <2>3 DEF Pipe!PipeInit
<1>2. IInv /\ IInv' /\ PInv /\ PInv' /\ [Next]_vars
        => [Pipe!PipeNext]_Pipe!pipeVars
  <2> SUFFICES ASSUME IInv, IInv', PInv, PInv', [Next]_vars
               PROVE  [Pipe!PipeNext]_Pipe!pipeVars
    OBVIOUS
  <2> DEFINE arrived == BlocksAt(stream, LastBytes(got))
             n == Len(stream)
  <2>0. /\ stream \in Seq(Bytes) /\ n \in Nat /\ got \in 0 .. n
        /\ put \in [Blocks -> Nat]
    <3>1. /\ stream \in Seq(Bytes) /\ got \in Nat /\ got <= n
          /\ put \in [Blocks -> Nat]
      BY DEF IInv, TypeOK, Bytes, got
    <3> QED
      BY <3>1, LenProperties
  <2>1. ASSUME NEW b \in Blocks, WriteByte(b)
        PROVE  [Pipe!PipeNext]_Pipe!pipeVars
    <3>1. stream' = Append(stream, <<b, put[b] + 1>>) /\ got' = got
      BY <2>1 DEF WriteByte, got
    <3>2. arrived' = arrived
      <4>1. <<b, put[b] + 1>> \in Bytes
        BY <2>0 DEF Bytes
      <4>2. LastBytes(got) \in SUBSET (1 .. n)
        BY <2>0 DEF LastBytes
      <4>3. LastBytes(got)' = LastBytes(got)
        <5>1. \A p \in 1 .. got : stream'[p] = stream[p]
          BY <2>0, <3>1, <4>1, AppendProperties
        <5> QED
          BY <3>1, <5>1 DEF LastBytes
      <4> QED
        BY <2>0, <3>1, <4>1, <4>2, <4>3, BlocksKept
    <3>3. begun' = IF put[b] = 0 THEN Append(begun, b) ELSE begun
      BY <2>1, NextByte
    <3>4. CASE put[b] # 0
      BY <3>2, <3>3, <3>4 DEF Pipe!pipeVars, begun
    <3>5. CASE put[b] = 0
      <4>1. ASSUME NEW i \in 1 .. Len(begun) PROVE begun[i] # b
        <5>1. FirstBytes \in SUBSET (1 .. n)
          BY DEF FirstBytes
        <5>2. Len(begun) = Cardinality(FirstBytes)
          BY <2>0, <5>1, BlocksAtType DEF begun
        <5>3. Nth(FirstBytes, i) \in FirstBytes
          BY <2>0, <5>1, <5>2, NthIsPosition
        <5>4. Nth(FirstBytes, i) \in 1 .. n
          BY <5>3 DEF FirstBytes
        <5>5. begun[i] = stream[Nth(FirstBytes, i)][1]
          BY <5>2 DEF begun, BlocksAt
        <5>6. /\ 1 <= stream[Nth(FirstBytes, i)][2]
              /\ stream[Nth(FirstBytes, i)][2]
                    <= put[stream[Nth(FirstBytes, i)][1]]
          BY <5>4 DEF PInv, StreamWasPut
        <5>7. stream[Nth(FirstBytes, i)][2] \in Nat
          <6>1. stream[Nth(FirstBytes, i)] \in Bytes
            BY <2>0, <5>4, ElementOfSeq
          <6> QED
            BY <6>1 DEF Bytes
        <5> HIDE DEF n
        <5> QED
          BY <3>5, <5>5, <5>6, <5>7
      <4>2. Pipe!Accept(b)
        BY <3>2, <3>3, <3>5, <4>1 DEF Pipe!Accept, begun
      <4> QED
        BY <4>2 DEF Pipe!PipeNext
    <3> QED
      BY <3>4, <3>5
  <2>2. CASE ReadChunk
    <3>1. stream' = stream /\ got' \in Nat /\ got <= got' /\ got' <= n
      <4>1. PICK k \in 1 .. BufferSize :
                k <= Unread /\ item' = <<got + 1, got + k>>
        BY <2>2 DEF ReadChunk
      <4>2. k \in Nat /\ k <= n - got
        BY <4>1 DEF Unread
      <4>3. got' = got + k
        BY <4>1 DEF got
      <4>4. stream' = stream
        BY <2>2 DEF ReadChunk
      <4> HIDE DEF n
      <4> QED
        BY <2>0, <4>2, <4>3, <4>4
    <3> DEFINE c == Cardinality(LastBytes(got))
               d == Cardinality(LastBytes(got'))
               w == BlocksAt(stream, LastBytes(got'))
    <3>2. begun' = begun /\ arrived' = w
      BY <3>1 DEF begun, FirstBytes, LastBytes
    <3>3. got' \in 0 .. n
      BY <2>0, <3>1
    <3>4. c \in Nat /\ c <= Len(begun) /\ Len(arrived) = c
      BY <2>0, ArrivedIsPrefix
    <3>5. /\ d \in Nat /\ d <= Len(begun) /\ Len(w) = d
          /\ w = SubSeq(begun, 1, d)
      BY <3>3, ArrivedIsPrefix
    <3>6. c <= d /\ (c = d => LastBytes(got) = LastBytes(got'))
      <4>1. LastBytes(got') \in SUBSET (1 .. n)
        BY <2>0, <3>3 DEF LastBytes
      <4>2. LastBytes(got) \in SUBSET LastBytes(got')
        BY <2>0, <3>1 DEF LastBytes
      <4> QED
        BY <2>0, <4>1, <4>2, Positions
    <3>7. Len(begun) \in Nat
      <4>1. FirstBytes \in SUBSET (1 .. Len(stream))
        BY DEF FirstBytes
      <4> QED
        BY <2>0, <4>1, BlocksAtType DEF begun
    <3> HIDE DEF c, d, w
    <3>8. CASE c = d
      BY <3>2, <3>6, <3>8 DEF Pipe!pipeVars, begun, w
    <3>9. CASE c # d
      <4>1. d \in c + 1 .. Len(begun) /\ d \in 1 .. Len(begun)
        BY <3>4, <3>5, <3>6, <3>7, <3>9
      <4>2. Pipe!Arrive(d)
        BY <3>2, <3>4, <3>5, <4>1 DEF Pipe!Arrive, begun
      <4> QED
        BY <4>1, <4>2 DEF Pipe!PipeNext, begun
    <3> QED
      BY <3>8, <3>9
  <2>3. CASE stream' = stream /\ got' = got
    BY <2>3 DEF Pipe!pipeVars, FirstBytes, LastBytes
  <2>4. \/ \E b \in Blocks : WriteByte(b)
        \/ ReadChunk
        \/ stream' = stream /\ got' = got
    BY Zenon DEF Next, Sender, Reader, Call, Lock, WriteOk, WriteErr, ReadEof,
                 ReadErr, DropCallback, Kill, LinkDown, vars, got
  <2> QED
    BY <2>1, <2>2, <2>3, <2>4
<1> QED
  BY <1>1, <1>2, Inductive, PipeInductive, PTL
  DEF Spec, ImplementsPipe, Pipe!PipeSpec
==============================================================================
