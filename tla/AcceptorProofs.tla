--------------------------- MODULE AcceptorProofs ---------------------------
(***************************************************************************)
(* Proofs about Acceptor for any number of clients, any backlog and any    *)
(* limit of file descriptors: none is leaked, and the sockets come out in  *)
(* the order of the connections.                                           *)
(***************************************************************************)
EXTENDS Acceptor, SequenceTheorems, FiniteSetTheorems, TLAPS

Arrived(c) == \E k \in 1 .. Len(arrivals) : arrivals[k] = c

\* c connected before d.
Before(c, d) ==
    \E k, l \in 1 .. Len(arrivals) :
        k < l /\ arrivals[k] = c /\ arrivals[l] = d

\* A connection is made once.
ConnectsOnce ==
    /\ \A i \in 1 .. Len(arrivals) : client[arrivals[i]] # "away"
    /\ \A i, j \in 1 .. Len(arrivals) : arrivals[i] = arrivals[j] => i = j

\* Everybody the loop has to do with has connected.
AllArrived ==
    /\ \A i \in 1 .. Len(sockets) : Arrived(sockets[i])
    /\ \A c \in upgrading : Arrived(c)
    /\ \A i \in 1 .. Len(backlog) : Arrived(backlog[i])

\* The sockets, the upgrade in progress and the backlog are one queue, in the
\* order of arrival.
QueueInOrder ==
    /\ \A i, j \in 1 .. Len(sockets) : i < j => Before(sockets[i], sockets[j])
    /\ \A c \in upgrading :
          \A i \in 1 .. Len(sockets) : Before(sockets[i], c)
    /\ \A c, d \in upgrading : c = d
    /\ \A i \in 1 .. Len(sockets) :
          \A j \in 1 .. Len(backlog) : Before(sockets[i], backlog[j])
    /\ \A c \in upgrading :
          \A i \in 1 .. Len(backlog) : Before(c, backlog[i])
    /\ \A i, j \in 1 .. Len(backlog) : i < j => Before(backlog[i], backlog[j])

IInv == FilesAccounted /\ ConnectsOnce /\ AllArrived /\ QueueInOrder

------------------------------------------------------------------------------
(* Nobody connects before itself. *)
LEMMA NotBeforeItself == ASSUME ConnectsOnce, NEW c PROVE ~Before(c, c)
BY DEF ConnectsOnce, Before

(* The order of the connections depends on their history alone. *)
LEMMA OrderStays ==
    ASSUME UNCHANGED arrivals
    PROVE  \A c, d : /\ Arrived(c)' <=> Arrived(c)
                     /\ Before(c, d)' <=> Before(c, d)
BY DEF Arrived, Before

(* A new connection comes after all that have arrived. *)
LEMMA OrderGrows ==
    ASSUME arrivals \in Seq(Clients), NEW e \in Clients,
           arrivals' = Append(arrivals, e)
    PROVE  /\ Arrived(e)'
           /\ \A c : Arrived(c) => Arrived(c)' /\ Before(c, e)'
           /\ \A c, d : Before(c, d) => Before(c, d)'
<1> DEFINE n == Len(arrivals)
<1>1. /\ n \in Nat /\ Len(arrivals') = n + 1
      /\ arrivals'[n + 1] = e
      /\ \A i \in 1 .. n : arrivals'[i] = arrivals[i]
  BY AppendProperties
<1> HIDE DEF n
<1>2. n + 1 \in 1 .. n + 1 /\ \A i \in 1 .. n : i \in 1 .. n + 1 /\ i < n + 1
  BY <1>1
<1>3. Arrived(e)'
  BY <1>1, <1>2 DEF Arrived
<1>4. ASSUME NEW c, Arrived(c) PROVE Arrived(c)' /\ Before(c, e)'
  <2>1. PICK k \in 1 .. n : arrivals[k] = c
    BY <1>4 DEF Arrived, n
  <2> QED
    BY <1>1, <1>2, <2>1 DEF Arrived, Before
<1>5. ASSUME NEW c, NEW d, Before(c, d) PROVE Before(c, d)'
  <2>1. PICK k, l \in 1 .. n : k < l /\ arrivals[k] = c /\ arrivals[l] = d
    BY <1>5 DEF Before, n
  <2> QED
    BY <1>1, <1>2, <2>1 DEF Before
<1> QED
  BY <1>3, <1>4, <1>5

(* One more file fits as long as the limit is not reached. *)
LEMMA FileFits ==
    ASSUME files \subseteq Clients, Cardinality(files) <= MaxFiles, ~Full,
           NEW c \in Clients
    PROVE  Cardinality(files \cup {c}) <= MaxFiles
<1> USE AcceptorAssumption DEF AcceptorAssumption
<1>1. IsFiniteSet(files) /\ Cardinality(files) \in Nat
  BY FS_Subset, FS_CardinalityType
<1>2. Cardinality(files) < MaxFiles
  BY <1>1 DEF Full
<1>3. \/ Cardinality(files \cup {c}) = Cardinality(files)
      \/ Cardinality(files \cup {c}) = Cardinality(files) + 1
  BY <1>1, FS_AddElement
<1> QED
  BY <1>1, <1>2, <1>3

(* A file that is closed leaves no more than there were. *)
LEMMA FileCloses ==
    ASSUME files \subseteq Clients, Cardinality(files) <= MaxFiles, NEW c
    PROVE  Cardinality(files \ {c}) <= MaxFiles
<1> USE AcceptorAssumption DEF AcceptorAssumption
<1>1. IsFiniteSet(files) /\ Cardinality(files) \in Nat
  BY FS_Subset, FS_CardinalityType
<1>2. /\ IsFiniteSet(files \ {c})
      /\ Cardinality(files \ {c}) <= Cardinality(files)
      /\ Cardinality(files \ {c}) \in Nat
  BY <1>1, FS_Subset, FS_CardinalityType
<1> QED
  BY <1>1, <1>2

(* The sockets after one was yielded. *)
LEMMA SocketAppended ==
    ASSUME sockets \in Seq(Clients), NEW c \in Clients,
           sockets' = Append(sockets, c)
    PROVE  /\ sockets' \in Seq(Clients)
           /\ Len(sockets) \in Nat /\ Len(sockets') = Len(sockets) + 1
           /\ \A i \in 1 .. Len(sockets') :
                 \/ i \in 1 .. Len(sockets) /\ sockets'[i] = sockets[i]
                 \/ i = Len(sockets) + 1 /\ sockets'[i] = c
           /\ Yielded' = Yielded \cup {c}
<1> DEFINE n == Len(sockets)
<1>1. /\ sockets' \in Seq(Clients) /\ n \in Nat /\ Len(sockets') = n + 1
      /\ sockets'[n + 1] = c
      /\ \A i \in 1 .. n : sockets'[i] = sockets[i]
  BY AppendProperties
<1>2. /\ Yielded = {sockets[i] : i \in 1 .. n}
      /\ Yielded' = {sockets'[i] : i \in 1 .. Len(sockets')}
  BY DEF Yielded
<1> HIDE DEF n
<1>3. 1 .. n + 1 = (1 .. n) \cup {n + 1}
  BY <1>1
<1>4. \A i \in 1 .. Len(sockets') :
         \/ i \in 1 .. n /\ sockets'[i] = sockets[i]
         \/ i = n + 1 /\ sockets'[i] = c
  BY <1>1, <1>3
<1>5. Yielded' = Yielded \cup {c}
  BY <1>1, <1>2, <1>3
<1> QED
  BY <1>1, <1>4, <1>5 DEF n

(* The backlog after one connection was taken from it. *)
LEMMA BacklogTaken ==
    ASSUME backlog \in Seq(Clients), backlog # <<>>, backlog' = Tail(backlog)
    PROVE  /\ backlog' \in Seq(Clients)
           /\ Head(backlog) = backlog[1] /\ Head(backlog) \in Clients
           /\ 1 \in 1 .. Len(backlog)
           /\ Len(backlog') \in Nat /\ Len(backlog') = Len(backlog) - 1
           /\ \A i \in 1 .. Len(backlog') :
                 i + 1 \in 1 .. Len(backlog) /\ backlog'[i] = backlog[i + 1]
<1>1. /\ Head(backlog) \in Clients /\ Head(backlog) = backlog[1]
      /\ Tail(backlog) \in Seq(Clients)
      /\ Len(Tail(backlog)) = Len(backlog) - 1
      /\ \A i \in 1 .. Len(Tail(backlog)) : Tail(backlog)[i] = backlog[i + 1]
  BY HeadTailProperties
<1>2. Len(backlog) \in Nat /\ Len(backlog) >= 1
  BY EmptySeq
<1> QED
  BY <1>1, <1>2

------------------------------------------------------------------------------
(* A connection that is accepted is yielded, or upgraded when nobody else  *)
(* is; all that were queued in front of it are sockets already.            *)
LEMMA AcceptKeepsInv == ASSUME IInv, Accept PROVE IInv'
<1> USE AcceptorAssumption DEF AcceptorAssumption
<1> DEFINE c == Head(backlog)
<1>1. /\ upgrading = {} /\ backlog # <<>> /\ ~Full
      /\ backlog' = Tail(backlog) /\ files' = files \cup {c}
      /\ UNCHANGED <<kind, server, client, arrivals>>
  BY DEF Accept, AtAccept
<1>2. \/ sockets' = Append(sockets, c) /\ held' = held \cup {c} /\ upgrading' = {}
      \/ upgrading' = {c} /\ UNCHANGED <<sockets, held>>
  BY <1>1 DEF Accept
<1>3. /\ backlog' \in Seq(Clients)
      /\ c = backlog[1] /\ c \in Clients /\ 1 \in 1 .. Len(backlog)
      /\ Len(backlog') \in Nat /\ Len(backlog') = Len(backlog) - 1
      /\ \A i \in 1 .. Len(backlog') :
            i + 1 \in 1 .. Len(backlog) /\ backlog'[i] = backlog[i + 1]
  BY <1>1, BacklogTaken DEF IInv, FilesAccounted, TypeOK
<1>4. Cardinality(files') <= MaxFiles
  BY <1>1, <1>3, FileFits DEF IInv, FilesAccounted, TypeOK
<1>5. \A d, e : (Arrived(d)' <=> Arrived(d)) /\ (Before(d, e)' <=> Before(d, e))
  BY <1>1, OrderStays
<1>6. ConnectsOnce'
  BY <1>1 DEF IInv, ConnectsOnce
<1>7. /\ Arrived(c)
      /\ \A i \in 1 .. Len(sockets) : Before(sockets[i], c)
      /\ \A i \in 1 .. Len(backlog') : Before(c, backlog'[i])
  <2>1. \A i \in 1 .. Len(backlog') : 1 < i + 1
    BY <1>3
  <2> QED
    BY <1>3, <2>1 DEF IInv, AllArrived, QueueInOrder
<1>8. c \notin held
  BY <1>7, NotBeforeItself DEF IInv, FilesAccounted, TypeOK, Yielded
<1>9. /\ \A i \in 1 .. Len(backlog') : Arrived(backlog'[i])
      /\ \A i, j \in 1 .. Len(backlog') : i < j => Before(backlog'[i], backlog'[j])
      /\ \A i \in 1 .. Len(sockets) :
            \A j \in 1 .. Len(backlog') : Before(sockets[i], backlog'[j])
  <2>1. \A i, j \in 1 .. Len(backlog') : i < j => i + 1 < j + 1
    BY <1>3
  <2> QED
    BY <1>3, <2>1 DEF IInv, AllArrived, QueueInOrder
<1>10. CASE /\ sockets' = Append(sockets, c)
            /\ held' = held \cup {c} /\ upgrading' = {}
  <2>1. /\ sockets' \in Seq(Clients)
        /\ Len(sockets) \in Nat /\ Len(sockets') = Len(sockets) + 1
        /\ \A i \in 1 .. Len(sockets') :
              \/ i \in 1 .. Len(sockets) /\ sockets'[i] = sockets[i]
              \/ i = Len(sockets) + 1 /\ sockets'[i] = c
        /\ Yielded' = Yielded \cup {c}
    BY <1>3, <1>10, SocketAppended DEF IInv, FilesAccounted, TypeOK
  <2> HIDE DEF c
  <2>2. FilesAccounted'
    BY <1>1, <1>3, <1>4, <1>10, <2>1 DEF IInv, FilesAccounted, TypeOK
  <2>3. AllArrived'
    BY <1>5, <1>7, <1>9, <1>10, <2>1 DEF IInv, AllArrived
  <2>4. \A i, j \in 1 .. Len(sockets') : i < j => Before(sockets'[i], sockets'[j])
    <3> TAKE i, j \in 1 .. Len(sockets')
    <3> HAVE i < j
    <3>1. i \in 1 .. Len(sockets) /\ sockets'[i] = sockets[i]
      BY <2>1
    <3>2. \/ j \in 1 .. Len(sockets) /\ sockets'[j] = sockets[j]
          \/ sockets'[j] = c
      BY <2>1
    <3> QED
      BY <1>7, <3>1, <3>2 DEF IInv, QueueInOrder
  <2>5. \A i \in 1 .. Len(sockets') :
           \A j \in 1 .. Len(backlog') : Before(sockets'[i], backlog'[j])
    BY <1>7, <1>9, <2>1
  <2>6. QueueInOrder'
    BY <1>5, <1>9, <1>10, <2>4, <2>5 DEF QueueInOrder
  <2> QED
    BY <1>6, <2>2, <2>3, <2>6 DEF IInv
<1>11. CASE upgrading' = {c} /\ UNCHANGED <<sockets, held>>
  <2> HIDE DEF c
  <2>1. FilesAccounted'
    BY <1>1, <1>3, <1>4, <1>8, <1>11 DEF IInv, FilesAccounted, TypeOK, Yielded
  <2>2. AllArrived'
    BY <1>5, <1>7, <1>9, <1>11 DEF IInv, AllArrived
  <2>3. QueueInOrder'
    BY <1>5, <1>7, <1>9, <1>11 DEF IInv, QueueInOrder
  <2> QED
    BY <1>6, <2>1, <2>2, <2>3 DEF IInv
<1> QED
  BY <1>2, <1>10, <1>11

(* A failing accept takes a connection out of the queue, or nothing. *)
LEMMA AcceptErrKeepsInv == ASSUME IInv, AcceptErr PROVE IInv'
<1>1. /\ backlog # <<>> /\ (backlog' = backlog \/ backlog' = Tail(backlog))
      /\ UNCHANGED <<kind, server, client, upgrading, files, sockets, held,
                     arrivals>>
  BY DEF AcceptErr, AtAccept
<1>2. \A d, e : (Arrived(d)' <=> Arrived(d)) /\ (Before(d, e)' <=> Before(d, e))
  BY <1>1, OrderStays
<1>3. CASE backlog' = backlog
  <2>1. FilesAccounted' /\ ConnectsOnce'
    BY <1>1, <1>3 DEF IInv, FilesAccounted, TypeOK, Yielded, ConnectsOnce
  <2>2. AllArrived' /\ QueueInOrder'
    BY <1>1, <1>2, <1>3 DEF IInv, AllArrived, QueueInOrder
  <2> QED
    BY <2>1, <2>2 DEF IInv
<1>4. CASE backlog' = Tail(backlog)
  <2>1. /\ backlog' \in Seq(Clients)
        /\ Len(backlog') \in Nat /\ Len(backlog') = Len(backlog) - 1
        /\ \A i \in 1 .. Len(backlog') :
              i + 1 \in 1 .. Len(backlog) /\ backlog'[i] = backlog[i + 1]
    BY <1>1, <1>4, BacklogTaken DEF IInv, FilesAccounted, TypeOK
  <2>2. \A i, j \in 1 .. Len(backlog') : i < j => i + 1 < j + 1
    BY <2>1
  <2>3. FilesAccounted' /\ ConnectsOnce'
    <3>1. Len(backlog') <= Backlog
      BY <2>1, AcceptorAssumption
      DEF AcceptorAssumption, IInv, FilesAccounted, TypeOK
    <3> QED
      BY <1>1, <2>1, <3>1
      DEF IInv, FilesAccounted, TypeOK, Yielded, ConnectsOnce
  <2>4. AllArrived'
    BY <1>1, <1>2, <2>1 DEF IInv, AllArrived
  <2>5. QueueInOrder'
    BY <1>1, <1>2, <2>1, <2>2 DEF IInv, QueueInOrder
  <2> QED
    BY <2>3, <2>4, <2>5 DEF IInv
<1> QED
  BY <1>1, <1>3, <1>4

(* The one upgrade in progress ends with a socket or with a closed stream. *)
LEMMA UpgradeKeepsInv ==
    ASSUME IInv, NEW c \in Clients, Upgrade(c) \/ UpgradeErr(c)
    PROVE  IInv'
<1>1. /\ c \in upgrading /\ upgrading' = upgrading \ {c}
      /\ UNCHANGED <<kind, server, client, backlog, arrivals>>
  BY DEF Upgrade, UpgradeErr
<1>2. upgrading' = {} /\ upgrading = {c}
  BY <1>1 DEF IInv, QueueInOrder
<1>3. \A d, e : (Arrived(d)' <=> Arrived(d)) /\ (Before(d, e)' <=> Before(d, e))
  BY <1>1, OrderStays
<1>4. ConnectsOnce'
  BY <1>1 DEF IInv, ConnectsOnce
<1>5. CASE Upgrade(c)
  <2>1. sockets' = Append(sockets, c) /\ held' = held \cup {c} /\ files' = files
    BY <1>5 DEF Upgrade
  <2>2. /\ sockets' \in Seq(Clients)
        /\ Len(sockets) \in Nat /\ Len(sockets') = Len(sockets) + 1
        /\ \A i \in 1 .. Len(sockets') :
              \/ i \in 1 .. Len(sockets) /\ sockets'[i] = sockets[i]
              \/ i = Len(sockets) + 1 /\ sockets'[i] = c
        /\ Yielded' = Yielded \cup {c}
    BY <2>1, SocketAppended DEF IInv, FilesAccounted, TypeOK
  <2>3. FilesAccounted'
    BY <1>1, <1>2, <2>1, <2>2 DEF IInv, FilesAccounted, TypeOK
  <2>4. AllArrived'
    BY <1>1, <1>2, <1>3, <2>2 DEF IInv, AllArrived
  <2>5. \A i, j \in 1 .. Len(sockets') : i < j => Before(sockets'[i], sockets'[j])
    <3> TAKE i, j \in 1 .. Len(sockets')
    <3> HAVE i < j
    <3>1. i \in 1 .. Len(sockets) /\ sockets'[i] = sockets[i]
      BY <2>2
    <3>2. \/ j \in 1 .. Len(sockets) /\ sockets'[j] = sockets[j]
          \/ sockets'[j] = c
      BY <2>2
    <3> QED
      BY <1>1, <3>1, <3>2 DEF IInv, QueueInOrder
  <2>6. \A i \in 1 .. Len(sockets') :
           \A j \in 1 .. Len(backlog) : Before(sockets'[i], backlog[j])
    BY <1>1, <2>2 DEF IInv, QueueInOrder
  <2>7. \A i, j \in 1 .. Len(backlog) : i < j => Before(backlog[i], backlog[j])
    BY DEF IInv, QueueInOrder
  <2>8. QueueInOrder'
    BY <1>1, <1>2, <1>3, <2>5, <2>6, <2>7 DEF QueueInOrder
  <2> QED
    BY <1>4, <2>3, <2>4, <2>8 DEF IInv
<1>6. CASE UpgradeErr(c)
  <2>1. files' = files \ {c} /\ UNCHANGED <<sockets, held>>
    BY <1>6 DEF UpgradeErr
  <2>2. Cardinality(files') <= MaxFiles
    BY <2>1, FileCloses DEF IInv, FilesAccounted, TypeOK
  <2>3. FilesAccounted'
    BY <1>1, <1>2, <2>1, <2>2 DEF IInv, FilesAccounted, TypeOK, Yielded
  <2>4. AllArrived' /\ QueueInOrder'
    BY <1>1, <1>2, <1>3, <2>1 DEF IInv, AllArrived, QueueInOrder
  <2> QED
    BY <1>4, <2>3, <2>4 DEF IInv
<1> QED
  BY <1>5, <1>6

(* A new connection is the last in the queue. *)
LEMMA ConnectKeepsInv ==
    ASSUME IInv, NEW c \in Clients, Connect(c)
    PROVE  IInv'
<1>1. /\ client[c] = "away" /\ Len(backlog) < Backlog
      /\ client' = [client EXCEPT ![c] = "silent"]
      /\ backlog' = Append(backlog, c) /\ arrivals' = Append(arrivals, c)
      /\ UNCHANGED <<kind, server, upgrading, files, sockets, held>>
  BY DEF Connect, Ask
<1> DEFINE n == Len(backlog)
           m == Len(arrivals)
<1>2. /\ backlog' \in Seq(Clients) /\ n \in Nat /\ Len(backlog') = n + 1
      /\ backlog'[n + 1] = c
      /\ \A i \in 1 .. n : backlog'[i] = backlog[i]
  BY <1>1, AppendProperties DEF IInv, FilesAccounted, TypeOK
<1>3. /\ arrivals' \in Seq(Clients) /\ m \in Nat /\ Len(arrivals') = m + 1
      /\ arrivals'[m + 1] = c
      /\ \A i \in 1 .. m : arrivals'[i] = arrivals[i] /\ arrivals[i] \in Clients
  BY <1>1, AppendProperties DEF IInv, FilesAccounted, TypeOK
<1>4. /\ Arrived(c)'
      /\ \A d : Arrived(d) => Arrived(d)' /\ Before(d, c)'
      /\ \A d, e : Before(d, e) => Before(d, e)'
  BY <1>1, OrderGrows DEF IInv, FilesAccounted, TypeOK
<1>5. client \in [Clients -> ClientStates]
  BY DEF IInv, FilesAccounted, TypeOK
<1>6. FilesAccounted'
  <2>1. Len(backlog') <= Backlog
    BY <1>1, <1>2, AcceptorAssumption DEF AcceptorAssumption
  <2> QED
    BY <1>1, <1>2, <1>3, <2>1
    DEF IInv, FilesAccounted, TypeOK, Yielded, ClientStates
<1>7. ConnectsOnce'
  <2>1. /\ \A i \in 1 .. m : client[arrivals[i]] # "away"
        /\ \A i, j \in 1 .. m : arrivals[i] = arrivals[j] => i = j
    BY DEF IInv, ConnectsOnce
  <2>2. \A i \in 1 .. m : arrivals[i] # c
    BY <1>1, <2>1
  <2> HIDE DEF m
  <2>3. \A i \in 1 .. m + 1 : i \in 1 .. m \/ i = m + 1
    BY <1>3
  <2>4. \A i \in 1 .. m + 1 : client'[arrivals'[i]] # "away"
    BY <1>1, <1>3, <1>5, <2>1, <2>2, <2>3
  <2>5. \A i, j \in 1 .. m + 1 : arrivals'[i] = arrivals'[j] => i = j
    BY <1>3, <2>1, <2>2, <2>3
  <2> QED
    BY <1>3, <2>4, <2>5 DEF ConnectsOnce
<1> HIDE DEF n, m
<1>8. \A i \in 1 .. Len(backlog') :
         \/ i \in 1 .. n /\ backlog'[i] = backlog[i]
         \/ i = n + 1 /\ backlog'[i] = c
  BY <1>2
<1>9. AllArrived'
  BY <1>1, <1>4, <1>8 DEF IInv, AllArrived, n
<1>10. ASSUME NEW i \in 1 .. Len(backlog'), NEW j \in 1 .. Len(backlog'), i < j
       PROVE  Before(backlog[i], backlog[j])'
  <2>1. i \in 1 .. n /\ backlog'[i] = backlog[i]
    BY <1>2, <1>8, <1>10
  <2>2. CASE j \in 1 .. n /\ backlog'[j] = backlog[j]
    <3>1. Before(backlog[i], backlog[j])
      BY <1>10, <2>1, <2>2 DEF IInv, QueueInOrder, n
    <3> QED
      BY <1>4, <2>1, <2>2, <3>1
  <2>3. CASE backlog'[j] = c
    <3>1. Arrived(backlog[i])
      BY <2>1 DEF IInv, AllArrived, n
    <3> QED
      BY <1>4, <2>1, <2>3, <3>1
  <2> QED
    BY <1>8, <2>2, <2>3
<1>11. \A i \in 1 .. Len(sockets) :
          /\ \A j \in 1 .. Len(sockets) : i < j => Before(sockets[i], sockets[j])'
          /\ \A d \in upgrading : Before(sockets[i], d)'
          /\ \A j \in 1 .. Len(backlog') : Before(sockets[i], backlog[j])'
  BY <1>1, <1>4, <1>8 DEF IInv, AllArrived, QueueInOrder, n
<1>12. \A d \in upgrading :
          \A i \in 1 .. Len(backlog') : Before(d, backlog[i])'
  BY <1>1, <1>4, <1>8 DEF IInv, AllArrived, QueueInOrder, n
<1>13. \A d, e \in upgrading : d = e
  BY DEF IInv, QueueInOrder
<1>14. QueueInOrder'
  BY <1>1, <1>10, <1>11, <1>12, <1>13 DEF QueueInOrder
<1> QED
  BY <1>6, <1>7, <1>9, <1>14 DEF IInv

(* The ComHub closes the stream of a socket it drops. *)
LEMMA DropKeepsInv ==
    ASSUME IInv, NEW c \in Clients, Drop(c)
    PROVE  IInv'
<1>1. /\ c \in held /\ held' = held \ {c} /\ files' = files \ {c}
      /\ UNCHANGED <<kind, server, client, backlog, upgrading, sockets, arrivals>>
  BY DEF Drop
<1>2. Cardinality(files') <= MaxFiles
  BY <1>1, FileCloses DEF IInv, FilesAccounted, TypeOK
<1>3. FilesAccounted' /\ ConnectsOnce'
  BY <1>1, <1>2 DEF IInv, FilesAccounted, TypeOK, Yielded, ConnectsOnce
<1>4. \A d, e : (Arrived(d)' <=> Arrived(d)) /\ (Before(d, e)' <=> Before(d, e))
  BY <1>1, OrderStays
<1>5. AllArrived' /\ QueueInOrder'
  BY <1>1, <1>4 DEF IInv, AllArrived, QueueInOrder
<1> QED
  BY <1>3, <1>5 DEF IInv

(* The other steps move nobody in the queue. *)
LEMMA OthersKeepInv ==
    ASSUME IInv,
           \/ Bind \/ BindErr \/ UNCHANGED vars
           \/ \E c \in Clients : Speak(c) \/ Leave(c)
    PROVE  IInv'
<1>1. UNCHANGED <<kind, backlog, upgrading, files, sockets, held, arrivals>>
  BY DEF Bind, BindErr, vars, Speak, Leave
<1>2. server' \in {"creating", "failed", "listening"}
  BY DEF IInv, FilesAccounted, TypeOK, Bind, BindErr, vars, Speak, Leave
<1>3. /\ client' \in [Clients -> ClientStates]
      /\ \A c \in Clients : client[c] # "away" => client'[c] # "away"
  <2>1. client \in [Clients -> ClientStates]
    BY DEF IInv, FilesAccounted, TypeOK
  <2>2. CASE Bind \/ BindErr \/ UNCHANGED vars
    BY <2>1, <2>2 DEF Bind, BindErr, vars
  <2>3. ASSUME NEW c \in Clients, Speak(c) \/ Leave(c)
        PROVE  \E t \in ClientStates \ {"away"} : client' = [client EXCEPT ![c] = t]
    BY <2>3 DEF Speak, Leave, Ask, ClientStates
  <2> QED
    BY <2>1, <2>2, <2>3
<1>4. FilesAccounted'
  BY <1>1, <1>2, <1>3 DEF IInv, FilesAccounted, TypeOK, Yielded
<1>5. ConnectsOnce'
  BY <1>1, <1>3 DEF IInv, FilesAccounted, TypeOK, ConnectsOnce
<1>6. \A d, e : (Arrived(d)' <=> Arrived(d)) /\ (Before(d, e)' <=> Before(d, e))
  BY <1>1, OrderStays
<1>7. AllArrived' /\ QueueInOrder'
  BY <1>1, <1>6 DEF IInv, AllArrived, QueueInOrder
<1> QED
  BY <1>4, <1>5, <1>7 DEF IInv

(* The strengthened invariant is inductive. *)
LEMMA Inductive == Spec => []IInv
<1>1. Init => IInv
  <2> SUFFICES ASSUME Init PROVE IInv
    OBVIOUS
  <2>1. <<>> \in Seq(Clients) /\ Len(<<>>) = 0 /\ Cardinality({}) = 0
    BY FS_EmptySet
  <2>2. FilesAccounted
    BY <2>1, AcceptorAssumption
    DEF AcceptorAssumption, Init, FilesAccounted, TypeOK, Yielded, ClientStates
  <2>3. ConnectsOnce /\ AllArrived /\ QueueInOrder
    BY <2>1 DEF Init, ConnectsOnce, AllArrived, QueueInOrder
  <2> QED
    BY <2>2, <2>3 DEF IInv
<1>2. IInv /\ [Next]_vars => IInv'
  <2> SUFFICES ASSUME IInv, [Next]_vars PROVE IInv'
    OBVIOUS
  <2> QED
    BY AcceptKeepsInv, AcceptErrKeepsInv, UpgradeKeepsInv, ConnectKeepsInv,
       DropKeepsInv, OthersKeepInv, Zenon DEF Next, Loop
<1> QED
  BY <1>1, <1>2, PTL DEF Spec

(* No file descriptor is leaked, however many probes fail to upgrade: the  *)
(* open streams are those of the sockets and of the upgrade in progress.   *)
THEOREM NoFileIsLeaked == Spec => []FilesAccounted
BY Inductive, PTL DEF IInv

(* The sockets come out in the order of the connections, for any number of *)
(* clients, whatever each of them does.                                    *)
THEOREM FirstComeFirstServed == Spec => []SocketsInOrder
<1>1. IInv => SocketsInOrder
  BY DEF IInv, QueueInOrder, Before, SocketsInOrder
<1> QED
  BY <1>1, Inductive, PTL
==============================================================================
