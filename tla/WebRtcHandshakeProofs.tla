------------------------ MODULE WebRtcHandshakeProofs ------------------------
(***************************************************************************)
(* Proofs about WebRtcHandshake for any number of candidates, with and     *)
(* without faults, in every combination of roles: the type of the state,   *)
(* that select! never takes the open branch before the answer, that the    *)
(* answerer uses no candidate of the offerer, that success is never        *)
(* one-sided without a fault, and that without faults a handshake fails    *)
(* only when a candidate has overtaken a description.                      *)
(***************************************************************************)
EXTENDS WebRtcHandshake, SequenceTheorems, TLAPS

(* Each endpoint has a peer. *)
LEMMA OtherPeer == \A p \in Peers : Other(p) \in Peers /\ Other(p) # p
BY HandshakeAssumption DEF HandshakeAssumption, Other

-------------------------------------------------------------------------------
(* The start has the type of the state: each task is in its function. *)
LEMMA InitType == Init => TypeOK
<1> SUFFICES ASSUME Init PROVE TypeOK
  OBVIOUS
<1>1. role \in [Peers -> Roles]
  BY DEF Init
<1>2. \A p \in Peers :
         /\ Start(role[p]) \in OffererStates \cup AnswererStates
         /\ Start(role[p]) \in IF role[p] = "offerer" THEN OffererStates
                                                     ELSE AnswererStates
  BY DEF Start, OffererStates, AnswererStates
<1>3. /\ pc \in [Peers -> OffererStates \cup AnswererStates]
      /\ \A p \in Peers :
            pc[p] \in IF role[p] = "offerer" THEN OffererStates
                                             ELSE AnswererStates
  BY <1>2 DEF Init
<1>4. /\ inbox \in [Peers -> Seq(Signals)]
      /\ gather \in [Peers -> -1 .. Candidates]
      /\ known \in [Peers -> Nat]
  BY HandshakeAssumption DEF Init, HandshakeAssumption
<1>5. /\ local \in [Peers -> BOOLEAN]
      /\ remote \in [Peers -> BOOLEAN]
      /\ gotAnswer \in [Peers -> BOOLEAN]
      /\ overtaken \in [Peers -> BOOLEAN]
      /\ faulty \in BOOLEAN
  BY DEF Init
<1>6. /\ link \in {"none", "up"}
      /\ channel \in [Peers -> {"none", "connecting", "open"}]
      /\ negotiated \in BOOLEAN
      /\ reach \in SUBSET Peers
      /\ openRx \in [Peers -> {"pending", "ready", "taken"}]
  BY DEF Init
<1> QED
  BY <1>1, <1>3, <1>4, <1>5, <1>6 DEF TypeOK

(* The state of a handshake always has its type: in particular a task      *)
(* stays in the function that its role has chosen.                         *)
THEOREM TypeCorrect == Spec => []TypeOK
<1> USE HandshakeAssumption DEF HandshakeAssumption
<1>2. TypeOK /\ [Next]_vars => TypeOK'
  <2> SUFFICES ASSUME TypeOK, [Next]_vars PROVE TypeOK'
    OBVIOUS
  <2> USE DEF TypeOK, Roles, Signals, OffererStates, AnswererStates, Goto,
              given, library, history
  <2>1. ASSUME NEW p \in Peers, CreateOffer(p) PROVE TypeOK'
    BY <2>1 DEF CreateOffer
  <2>2. ASSUME NEW p \in Peers, SendOffer(p) PROVE TypeOK'
    BY <2>2, OtherPeer DEF SendOffer, SendSignal
  <2>3. ASSUME NEW p \in Peers, OpenBranch(p) PROVE TypeOK'
    BY <2>3 DEF OpenBranch
  <2>4. ASSUME NEW p \in Peers, RecvAnswer(p) PROVE TypeOK'
    BY <2>4 DEF RecvAnswer, Receive
  <2>5. ASSUME NEW p \in Peers, AnswerApplied(p) PROVE TypeOK'
    BY <2>5 DEF AnswerApplied, AfterSignal
  <2>6. ASSUME NEW p \in Peers, CandidateAdded(p) PROVE TypeOK'
    BY <2>6 DEF CandidateAdded, AfterSignal
  <2>7. ASSUME NEW p \in Peers, RecvOffer(p) PROVE TypeOK'
    BY <2>7 DEF RecvOffer, Receive
  <2>8. ASSUME NEW p \in Peers, SendAnswer(p) PROVE TypeOK'
    BY <2>8, OtherPeer DEF SendAnswer, SendSignal
  <2>9. ASSUME NEW p \in Peers, TakeChannel(p) \/ AwaitOpen(p) PROVE TypeOK'
    BY <2>9 DEF TakeChannel, AwaitOpen
  <2>10. ASSUME NEW p \in Peers, RecvCandidate(p) PROVE TypeOK'
    <3>1. inbox' \in [Peers -> Seq(Signals)]
      BY <2>10 DEF RecvCandidate, Receive
    <3>2. CASE remote[p]
      <4>1. known' \in [Peers -> Nat]
        BY <2>10, <3>2 DEF RecvCandidate
      <4>2. /\ pc' \in [Peers -> OffererStates \cup AnswererStates]
            /\ \A q \in Peers :
                  pc'[q] \in IF role[q] = "offerer" THEN OffererStates
                                                    ELSE AnswererStates
        BY <2>10, <3>2 DEF RecvCandidate, Receive
      <4> QED
        BY <2>10, <3>1, <4>1, <4>2 DEF RecvCandidate
    <3>3. CASE ~remote[p]
      BY <2>10, <3>1, <3>3 DEF RecvCandidate, Receive
    <3> QED
      BY <3>2, <3>3
  <2>11. ASSUME NEW p \in Peers, RecvEnd(p) PROVE TypeOK'
    BY <2>11 DEF RecvEnd, Receive, AfterSignal
  <2>12. ASSUME NEW p \in Peers, RecvWrongDescription(p) PROVE TypeOK'
    BY <2>12 DEF RecvWrongDescription, Receive
  <2>13. ASSUME NEW p \in Peers, SendCandidate(p) PROVE TypeOK'
    BY <2>13, OtherPeer DEF SendCandidate, SendSignal
  <2>14. ASSUME NEW p \in Peers, SendEnd(p) PROVE TypeOK'
    BY <2>14, OtherPeer DEF SendEnd, SendSignal
  <2>15. ASSUME NEW p \in Peers, LoseCandidate(p) PROVE TypeOK'
    BY <2>15 DEF LoseCandidate
  <2>16. ASSUME NEW p \in Peers, Library(p) PROVE TypeOK'
    BY <2>16 DEF Library, Announce, ChannelOpens, OpenCallback
  <2>17. ASSUME NEW p \in Peers, TaskFails(p) PROVE TypeOK'
    BY <2>17 DEF TaskFails
  <2>18. CASE Connect
    BY <2>18 DEF Connect
  <2>19. CASE UNCHANGED vars
    BY <2>19 DEF vars
  <2>20. ASSUME NEW p \in Peers, LoseSignal(p) PROVE TypeOK'
    BY <2>20 DEF LoseSignal
  <2> QED
    BY <2>1, <2>2, <2>3, <2>4, <2>5, <2>6, <2>7, <2>8, <2>9, <2>10, <2>11,
       <2>12, <2>13, <2>14, <2>15, <2>16, <2>17, <2>18, <2>19, <2>20
    DEF Next, Task, Offerer, Answerer, Either, IceCallback
<1> QED
  BY <1>2, InitType, PTL DEF Spec

-------------------------------------------------------------------------------
\* The library connects only endpoints that have each other's description,
\* and opens the channel only over a connection.
OpenNeedsLink ==
    /\ link = "up" => \A p \in Peers : remote[p]
    /\ \A p \in Peers :
          /\ channel[p] = "open" => link = "up"
          /\ openRx[p] # "pending" => channel[p] = "open"

\* The offerer has noted the answer by the time it waits again.
AnswerIsNoted ==
    \A p \in Peers :
        role[p] = "offerer" =>
            /\ pc[p] \in {"init", "offering"} => ~remote[p]
            /\ pc[p] \in {"select", "added"} /\ remote[p] => gotAnswer[p]

\* The answerer leaves its loop with the description.
NoCandidateYet ==
    \A p \in Peers :
        role[p] = "answerer" =>
            /\ known[p] = 0
            /\ pc[p] = "receive" => ~remote[p]

IInv ==
    TypeOK /\ OpenNeedsLink /\ AnswerIsNoted /\ NoCandidateYet /\ OpenNeedsAnswer

(* The strengthened invariant is inductive. *)
LEMMA Inductive == Spec => []IInv
<1>1. Init => IInv
  <2> SUFFICES ASSUME Init PROVE IInv
    OBVIOUS
  <2>1. TypeOK
    BY InitType
  <2> QED
    BY <2>1 DEF Init, Start, IInv, OpenNeedsLink, AnswerIsNoted,
                NoCandidateYet, OpenNeedsAnswer
<1>2. TypeOK' /\ IInv /\ [Next]_vars => IInv'
  <2> SUFFICES ASSUME TypeOK', IInv, [Next]_vars PROVE IInv'
    OBVIOUS
  <2> USE DEF IInv, TypeOK, OpenNeedsLink, AnswerIsNoted, NoCandidateYet,
              OpenNeedsAnswer, Goto, given, library, history
  <2>1. ASSUME NEW p \in Peers, CreateOffer(p) PROVE IInv'
    <3>1. role[p] = "offerer" /\ ~remote[p]
      BY <2>1 DEF CreateOffer, AnswererStates, Roles
    <3>2. channel[p] # "open" /\ openRx[p] = "pending"
      BY <3>1
    <3> QED
      BY <2>1, <3>1, <3>2 DEF CreateOffer
  <2>2. ASSUME NEW p \in Peers, SendOffer(p) PROVE IInv'
    BY <2>2 DEF SendOffer
  <2>3. ASSUME NEW p \in Peers, OpenBranch(p) PROVE IInv'
    BY <2>3 DEF OpenBranch
  <2>4. ASSUME NEW p \in Peers, RecvAnswer(p) PROVE IInv'
    BY <2>4 DEF RecvAnswer, Receive
  <2>5. ASSUME NEW p \in Peers, AnswerApplied(p) PROVE IInv'
    BY <2>5 DEF AnswerApplied, AfterSignal
  <2>6. ASSUME NEW p \in Peers, CandidateAdded(p) PROVE IInv'
    BY <2>6 DEF CandidateAdded, AfterSignal
  <2>7. ASSUME NEW p \in Peers, RecvOffer(p) PROVE IInv'
    BY <2>7 DEF RecvOffer, Receive, Roles
  <2>8. ASSUME NEW p \in Peers, SendAnswer(p) PROVE IInv'
    BY <2>8 DEF SendAnswer
  <2>9. ASSUME NEW p \in Peers, TakeChannel(p) \/ AwaitOpen(p) PROVE IInv'
    <3>1. role[p] # "offerer"
      BY <2>9 DEF TakeChannel, AwaitOpen, OffererStates
    <3>2. CASE TakeChannel(p)
      BY <3>1, <3>2 DEF TakeChannel
    <3>3. CASE AwaitOpen(p)
      BY <3>1, <3>3 DEF AwaitOpen
    <3> QED
      BY <2>9, <3>2, <3>3
  <2>10. ASSUME NEW p \in Peers, RecvCandidate(p) PROVE IInv'
    <3>1. /\ pc[p] \in {"select", "receive"}
          /\ pc' \in {[pc EXCEPT ![p] = "added"], [pc EXCEPT ![p] = "receive"],
                      [pc EXCEPT ![p] = "err"]}
          /\ pc'[p] = "receive" => pc[p] = "receive"
          /\ pc'[p] = "added" => pc[p] = "select"
          /\ UNCHANGED <<role, remote, gotAnswer, link, channel, openRx>>
      BY <2>10 DEF RecvCandidate, Receive
    <3>2. role[p] = "answerer" => known' = known
      BY <2>10 DEF RecvCandidate, Receive, AnswererStates
    <3>3. \A q \in Peers : q # p => pc'[q] = pc[q] /\ known'[q] = known[q]
      BY <2>10 DEF RecvCandidate
    <3>4. pc'[p] \notin {"init", "offering", "select"}
      BY <3>1
    <3>5. OpenNeedsLink' /\ OpenNeedsAnswer'
      BY <3>1
    <3>6. AnswerIsNoted'
      BY <3>1, <3>3, <3>4
    <3>7. NoCandidateYet'
      BY <3>1, <3>2, <3>3
    <3> QED
      BY <3>5, <3>6, <3>7
  <2>11. ASSUME NEW p \in Peers, RecvEnd(p) PROVE IInv'
    BY <2>11 DEF RecvEnd, Receive, AfterSignal
  <2>12. ASSUME NEW p \in Peers, RecvWrongDescription(p) PROVE IInv'
    BY <2>12 DEF RecvWrongDescription
  <2>13. ASSUME NEW p \in Peers,
                \/ SendCandidate(p) \/ SendEnd(p)
                \/ LoseCandidate(p) \/ LoseSignal(p)
         PROVE  IInv'
    <3>1. UNCHANGED <<role, pc, remote, known, gotAnswer, link, channel, openRx>>
      BY <2>13 DEF SendCandidate, SendEnd, LoseCandidate, LoseSignal
    <3> QED
      BY <3>1
  <2>14. ASSUME NEW p \in Peers, Library(p) PROVE IInv'
    <3>1. CASE Announce(p)
      BY <3>1 DEF Announce
    <3>2. CASE ChannelOpens(p)
      BY <3>2 DEF ChannelOpens
    <3>3. CASE OpenCallback(p)
      BY <3>3 DEF OpenCallback
    <3> QED
      BY <2>14, <3>1, <3>2, <3>3 DEF Library
  <2>15. ASSUME NEW p \in Peers, TaskFails(p) PROVE IInv'
    BY <2>15 DEF TaskFails
  <2>16. CASE Connect
    BY <2>16 DEF Connect
  <2>17. CASE UNCHANGED vars
    BY <2>17 DEF vars
  <2> QED
    BY <2>1, <2>2, <2>3, <2>4, <2>5, <2>6, <2>7, <2>8, <2>9, <2>10, <2>11,
       <2>12, <2>13, <2>14, <2>15, <2>16, <2>17
    DEF Next, Task, Offerer, Answerer, Either, IceCallback
<1> QED
  BY <1>1, <1>2, TypeCorrect, PTL DEF Spec

(* The offerer never takes the open branch of select! before it has noted  *)
(* the answer, so that it never polls open_rx a second time, for any       *)
(* number of candidates and whatever fails.                                *)
THEOREM OpenBranchNeedsAnswer == Spec => []OpenNeedsAnswer
BY Inductive, PTL DEF IInv

(* The answerer never adds a candidate of the offerer: each of them either *)
(* fails the handshake or is never received.                               *)
THEOREM TrickledCandidatesUnused == Spec => []AnswererAddsNoCandidate
<1>1. IInv => AnswererAddsNoCandidate
  BY DEF IInv, NoCandidateYet, AnswererAddsNoCandidate
<1> QED
  BY <1>1, Inductive, PTL

-------------------------------------------------------------------------------
(* The peer of the peer is the endpoint itself. *)
LEMMA TwoPeers ==
    \A p, q \in Peers : Other(Other(p)) = p /\ (q # p => q = Other(p))
<1>1. PICK a, b \in Peers : a # b /\ Peers = {a, b}
  BY HandshakeAssumption DEF HandshakeAssumption
<1> QED
  BY <1>1, OtherPeer

Has(p, signal) == \E i \in 1 .. Len(inbox[p]) : inbox[p][i] = signal

\* Descriptions come from an endpoint of the role that creates them, and an
\* answer is on its way only after the answerer has sent it.
SignalsFromPeer ==
    \A p \in Peers :
        /\ Has(p, "offer") => role[Other(p)] = "offerer"
        /\ Has(p, "answer") => /\ role[Other(p)] = "answerer"
                               /\ pc[Other(p)] \notin {"receive", "answering"}

\* The same of a description that was accepted: it takes opposite roles.
RemoteFromPeer ==
    \A p \in Peers :
        remote[p] =>
            /\ role[p] # role[Other(p)]
            /\ role[p] = "offerer" =>
                   pc[Other(p)] \notin {"receive", "answering"}

\* open_rx is taken once, by the step that reports success.
OpenTakenOnce ==
    \A p \in Peers :
        /\ openRx[p] = "taken" => pc[p] = "ok"
        /\ pc[p] = "ok" => channel[p] = "open"

LocalNeedsDescription ==
    \A p \in Peers : local[p] => pc[p] \notin {"init", "receive"}

\* Once the library has connected the endpoints, only a fault fails a task.
ErrorUnlinked == (\E p \in Peers : pc[p] = "err") => faulty \/ link = "none"

Undisturbed ==
    OppositeRoles /\ ~faulty /\ \A p \in Peers : ~overtaken[p]

\* Until an endpoint has accepted its peer's description, that is the first
\* signal on its way to it, and it is on its way once it was sent.
DescriptionsFirst ==
    Undisturbed =>
        \A p \in Peers :
            /\ pc[p] # "err"
            /\ ~remote[p] =>
                  /\ inbox[p] # <<>> => Head(inbox[p]) = Expected(p)
                  /\ local[Other(p)]
                        /\ pc[Other(p)] \notin {"offering", "answering"}
                            => inbox[p] # <<>>

\* No candidate has left before the description.
GatheringWaits ==
    Undisturbed =>
        \A p \in Peers :
            pc[p] \in {"init", "offering", "receive", "answering"} =>
                gather[p] = Candidates

SInv ==
    /\ SignalsFromPeer
    /\ RemoteFromPeer
    /\ OpenTakenOnce
    /\ LocalNeedsDescription
    /\ ErrorUnlinked
    /\ DescriptionsFirst
    /\ GatheringWaits

(* What is on its way to an endpoint after a signal was sent. *)
LEMMA SentSignal ==
    ASSUME TypeOK, NEW p \in Peers, NEW s \in Signals, SendSignal(p, s)
    PROVE  /\ \A q \in Peers : q # Other(p) => inbox'[q] = inbox[q]
           /\ \A q \in Peers, t \in Signals :
                 Has(q, t)' => Has(q, t) \/ (q = Other(p) /\ t = s)
           /\ inbox'[Other(p)] # <<>>
           /\ Head(inbox'[Other(p)]) =
                 IF inbox[Other(p)] = <<>> THEN s ELSE Head(inbox[Other(p)])
<1> DEFINE r == Other(p)
<1>1. r \in Peers
  BY OtherPeer
<1>2. inbox[r] \in Seq(Signals)
  BY <1>1 DEF TypeOK
<1>3. /\ inbox'[r] = Append(inbox[r], s)
      /\ \A q \in Peers : q # r => inbox'[q] = inbox[q]
  BY <1>1 DEF SendSignal, TypeOK
<1>4. /\ Len(inbox[r]) \in Nat
      /\ Len(inbox'[r]) = Len(inbox[r]) + 1
      /\ \A i \in 1 .. Len(inbox[r]) : inbox'[r][i] = inbox[r][i]
      /\ inbox'[r][Len(inbox[r]) + 1] = s
      /\ inbox'[r] # <<>>
  BY <1>2, <1>3, AppendProperties
<1>5. Head(inbox'[r]) = IF inbox[r] = <<>> THEN s ELSE Head(inbox[r])
  BY <1>2, <1>3, HeadTailAppend
<1> HIDE DEF r
<1>6. ASSUME NEW q \in Peers, NEW t \in Signals, Has(q, t)'
      PROVE  Has(q, t) \/ (q = r /\ t = s)
  <2>1. CASE q # r
    BY <1>3, <1>6, <2>1 DEF Has
  <2>2. CASE q = r
    <3>1. PICK i \in 1 .. Len(inbox[r]) + 1 : inbox'[r][i] = t
      BY <1>4, <1>6, <2>2 DEF Has
    <3>2. i \in 1 .. Len(inbox[r]) \/ i = Len(inbox[r]) + 1
      BY <1>4
    <3> QED
      BY <1>4, <2>2, <3>1, <3>2 DEF Has
  <2> QED
    BY <2>1, <2>2
<1> QED
  BY <1>3, <1>4, <1>5, <1>6 DEF r

(* What is on its way to an endpoint after its first signal is gone. *)
LEMMA TakenSignal ==
    ASSUME TypeOK, NEW p \in Peers, inbox[p] # <<>>,
           inbox' = [inbox EXCEPT ![p] = Tail(@)]
    PROVE  /\ Has(p, Head(inbox[p]))
           /\ \A q \in Peers : q # p => inbox'[q] = inbox[q]
           /\ \A q \in Peers, t \in Signals : Has(q, t)' => Has(q, t)
<1>1. /\ inbox[p] \in Seq(Signals) /\ inbox[p] # <<>>
      /\ inbox'[p] = Tail(inbox[p])
      /\ \A q \in Peers : q # p => inbox'[q] = inbox[q]
  BY DEF TypeOK
<1>2. /\ Len(inbox'[p]) = Len(inbox[p]) - 1
      /\ \A i \in 1 .. Len(inbox'[p]) : inbox'[p][i] = inbox[p][i + 1]
  <2> DEFINE s == inbox[p]
             u == inbox'[p]
  <2>1. s \in Seq(Signals) /\ s # <<>> /\ u = Tail(s)
    BY <1>1
  <2> HIDE DEF s, u
  <2>2. Len(u) = Len(s) - 1 /\ \A i \in 1 .. Len(u) : u[i] = s[i + 1]
    BY <2>1, HeadTailProperties
  <2> QED
    BY <2>2 DEF s, u
<1>3. Len(inbox[p]) \in Nat \ {0} /\ Head(inbox[p]) = inbox[p][1]
  BY <1>1, EmptySeq
<1>4. Has(p, Head(inbox[p]))
  <2>1. 1 \in 1 .. Len(inbox[p])
    BY <1>3
  <2> QED
    BY <1>3, <2>1 DEF Has
<1>5. ASSUME NEW q \in Peers, NEW t \in Signals, Has(q, t)'
      PROVE  Has(q, t)
  <2>1. CASE q # p
    BY <1>1, <1>5, <2>1 DEF Has
  <2>2. CASE q = p
    <3>1. PICK i \in 1 .. Len(inbox'[p]) : inbox'[p][i] = t
      BY <1>5, <2>2 DEF Has
    <3>2. i + 1 \in 1 .. Len(inbox[p]) /\ inbox[p][i + 1] = t
      BY <1>2, <1>3, <3>1
    <3> QED
      BY <2>2, <3>2 DEF Has
  <2> QED
    BY <2>1, <2>2
<1> QED
  BY <1>1, <1>4, <1>5

(* The same after it has received one. *)
LEMMA ReceivedSignal ==
    ASSUME TypeOK, NEW p \in Peers, NEW S, Receive(p, S)
    PROVE  /\ pc[p] \in {"select", "receive"}
           /\ inbox[p] # <<>> /\ Head(inbox[p]) \in S
           /\ Has(p, Head(inbox[p]))
           /\ \A q \in Peers : q # p => inbox'[q] = inbox[q]
           /\ \A q \in Peers, t \in Signals : Has(q, t)' => Has(q, t)
<1>1. /\ pc[p] \in {"select", "receive"}
      /\ inbox[p] # <<>> /\ Head(inbox[p]) \in S
      /\ inbox' = [inbox EXCEPT ![p] = Tail(@)]
  BY DEF Receive
<1> QED
  BY <1>1, TakenSignal

(* A step that neither sends nor receives, and moves no task to an error,  *)
(* to a success or to a state before its description.                      *)
LEMMA QuietStep ==
    ASSUME IInv, SInv, IInv', UNCHANGED <<role, inbox, remote, overtaken>>,
           faulty => faulty',
           link' = "none" => link = "none",
           \A p \in Peers : channel[p] = "open" => channel'[p] = "open",
           \A p \in Peers : pc'[p] = "ok" => channel'[p] = "open",
           \A p \in Peers : openRx'[p] = "taken" => pc'[p] = "ok",
           \A p \in Peers : pc'[p] = "err" => pc[p] = "err",
           link' # link => \A p \in Peers : pc[p] # "err",
           \A p \in Peers :
              pc'[p] \in {"receive", "init", "answering"} => pc[p] = pc'[p],
           \A p \in Peers : pc'[p] = "offering" => pc[p] \in {"init", "offering"},
           \A p \in Peers :
              pc[p] \in {"offering", "answering"} => pc'[p] = pc[p],
           \A p \in Peers :
              local'[p] => local[p] \/ pc'[p] \in {"offering", "answering"},
           \A p \in Peers :
              faulty' \/ gather'[p] = gather[p]
                      \/ pc'[p] \notin {"init", "offering", "receive", "answering"}
    PROVE  SInv'
<1>1. \A p \in Peers, t \in Signals : Has(p, t)' <=> Has(p, t)
  BY DEF Has
<1>2. SignalsFromPeer'
  BY <1>1, OtherPeer DEF SInv, SignalsFromPeer, Signals
<1>3. RemoteFromPeer'
  BY OtherPeer DEF SInv, RemoteFromPeer
<1>4. OpenTakenOnce'
  BY DEF SInv, OpenTakenOnce
<1>5. LocalNeedsDescription'
  BY DEF SInv, LocalNeedsDescription
<1>6. ErrorUnlinked'
  BY DEF SInv, ErrorUnlinked, IInv, TypeOK
<1>7. Undisturbed' => Undisturbed
  BY DEF Undisturbed, OppositeRoles
<1>8. DescriptionsFirst'
  BY <1>7, OtherPeer DEF SInv, DescriptionsFirst, Expected
<1>9. GatheringWaits'
  BY <1>7 DEF SInv, GatheringWaits, Undisturbed
<1> QED
  BY <1>2, <1>3, <1>4, <1>5, <1>6, <1>8, <1>9 DEF SInv

(* A signal of the task or of the ICE callback is sent. *)
LEMMA SendStep ==
    ASSUME IInv, SInv, IInv', NEW p \in Peers, NEW s \in Signals, SendSignal(p, s),
           UNCHANGED <<role, local, remote, link, channel, openRx, faulty>>,
           \A q \in Peers : q # p => /\ pc'[q] = pc[q]
                                     /\ overtaken'[q] = overtaken[q]
                                     /\ gather'[q] = gather[q],
           overtaken[p] => overtaken'[p],
           \/ /\ s = "offer" /\ role[p] = "offerer"
              /\ pc[p] = "offering" /\ pc'[p] = "select"
           \/ /\ s = "answer" /\ role[p] = "answerer"
              /\ pc[p] = "answering" /\ pc'[p] = "awaitChannel"
           \/ /\ s \notin {"offer", "answer"} /\ local[p] /\ pc'[p] = pc[p]
              /\ pc[p] \in {"offering", "answering"} =>
                    overtaken'[p] \/ gather[p] # Candidates
    PROVE  SInv'
<1>1. TypeOK /\ Other(p) \in Peers /\ Other(Other(p)) = p
  BY OtherPeer, TwoPeers DEF IInv
<1>2. /\ \A q \in Peers : q # Other(p) => inbox'[q] = inbox[q]
      /\ \A q \in Peers, t \in Signals :
            Has(q, t)' => Has(q, t) \/ (q = Other(p) /\ t = s)
      /\ inbox'[Other(p)] # <<>>
      /\ Head(inbox'[Other(p)]) =
            IF inbox[Other(p)] = <<>> THEN s ELSE Head(inbox[Other(p)])
  BY <1>1, SentSignal
<1>3. \A q \in Peers : q # p => q = Other(p)
  BY TwoPeers
<1>4. SignalsFromPeer'
  BY <1>1, <1>2, <1>3 DEF SInv, SignalsFromPeer, Signals
<1>5. RemoteFromPeer'
  BY <1>1, <1>3 DEF SInv, RemoteFromPeer
<1>6. OpenTakenOnce' /\ LocalNeedsDescription' /\ ErrorUnlinked'
  BY <1>3 DEF SInv, OpenTakenOnce, LocalNeedsDescription, ErrorUnlinked
<1>7. Undisturbed' => Undisturbed
  BY DEF Undisturbed, OppositeRoles
<1>8. DescriptionsFirst'
  <2> SUFFICES ASSUME Undisturbed', NEW q \in Peers
               PROVE  /\ pc'[q] # "err"
                      /\ ~remote'[q] =>
                            /\ inbox'[q] # <<>> => Head(inbox'[q]) = Expected(q)'
                            /\ local'[Other(q)]
                                  /\ pc'[Other(q)] \notin {"offering", "answering"}
                                      => inbox'[q] # <<>>
    BY DEF DescriptionsFirst
  <2>1. /\ pc[q] # "err"
        /\ ~remote[q] =>
              /\ inbox[q] # <<>> => Head(inbox[q]) = Expected(q)
              /\ local[Other(q)] /\ pc[Other(q)] \notin {"offering", "answering"}
                    => inbox[q] # <<>>
    BY <1>7 DEF SInv, DescriptionsFirst
  <2>2. pc'[q] # "err"
    BY <2>1
  <2>3. CASE q = p
    <3>1. inbox'[p] = inbox[p] /\ pc'[Other(p)] = pc[Other(p)]
      BY <1>1, <1>2, OtherPeer
    <3> QED
      BY <2>1, <2>2, <2>3, <3>1 DEF Expected
  <2>4. CASE q = Other(p)
    <3>1. s \in {"offer", "answer"} => s = Expected(q)
      BY <1>1, <1>7, <2>4
      DEF Undisturbed, OppositeRoles, Expected, IInv, TypeOK, Roles
    <3>2. s \notin {"offer", "answer"} =>
              local[p] /\ pc[p] \notin {"offering", "answering"}
      BY <1>7 DEF Undisturbed, SInv, GatheringWaits
    <3>3. ~remote[q] => Head(inbox'[q]) = Expected(q)
      BY <1>1, <1>2, <2>1, <2>4, <3>1, <3>2
    <3> QED
      BY <1>2, <2>2, <2>4, <3>3 DEF Expected
  <2> QED
    BY <1>3, <2>3, <2>4
<1>9. GatheringWaits'
  BY <1>3, <1>7 DEF SInv, GatheringWaits, Undisturbed, LocalNeedsDescription
<1> QED
  BY <1>4, <1>5, <1>6, <1>8, <1>9 DEF SInv

(* A signal is received: the expected description, or a signal after it,   *)
(* or one that makes the task fail.                                        *)
LEMMA ReceiveStep ==
    ASSUME IInv, SInv, IInv', NEW p \in Peers, NEW S, Receive(p, S),
           UNCHANGED <<role, gather, link, channel, openRx, overtaken, faulty>>,
           \A q \in Peers : q # p => /\ pc'[q] = pc[q] /\ local'[q] = local[q]
                                     /\ remote'[q] = remote[q],
           \/ /\ Head(inbox[p]) = Expected(p) /\ remote'[p]
              /\ \/ pc[p] = "select" /\ pc'[p] = "applying" /\ local' = local
                 \/ pc[p] = "receive" /\ pc'[p] = "answering"
           \/ /\ Head(inbox[p]) # Expected(p)
              /\ local' = local /\ remote' = remote
              /\ pc'[p] = "receive" => pc[p] = "receive"
              /\ pc'[p] \in {"receive", "select", "added", "ok", "err"}
              /\ pc'[p] = "ok" => channel[p] = "open" /\ gotAnswer[p]
              /\ pc'[p] = "err" =>
                    ~remote[p] \/ Head(inbox[p]) \in {"offer", "answer"}
    PROVE  SInv'
<1>1. TypeOK /\ Other(p) \in Peers /\ Other(p) # p /\ Other(Other(p)) = p
  BY OtherPeer, TwoPeers DEF IInv
<1>2. /\ pc[p] \in {"select", "receive"}
      /\ inbox[p] # <<>>
      /\ Has(p, Head(inbox[p]))
      /\ \A q \in Peers : q # p => inbox'[q] = inbox[q]
      /\ \A q \in Peers, t \in Signals : Has(q, t)' => Has(q, t)
  BY <1>1, ReceivedSignal
<1>3. \A q \in Peers : q # p => q = Other(p)
  BY TwoPeers
<1>4. SignalsFromPeer'
  BY <1>1, <1>2, <1>3 DEF SInv, SignalsFromPeer, Signals
<1>5. role[p] = "offerer" \/ role[p] = "answerer"
  BY <1>1 DEF TypeOK, Roles
<1>6. Head(inbox[p]) = Expected(p) =>
          /\ role[p] # role[Other(p)]
          /\ role[p] = "offerer" => pc[Other(p)] \notin {"receive", "answering"}
  BY <1>2, <1>5 DEF SInv, SignalsFromPeer, Expected
<1>7. RemoteFromPeer'
  BY <1>1, <1>3, <1>6 DEF SInv, RemoteFromPeer
<1>8. OpenTakenOnce'
  BY <1>2 DEF SInv, OpenTakenOnce
<1>9. LocalNeedsDescription'
  BY <1>2 DEF SInv, LocalNeedsDescription
<1>10. Head(inbox[p]) \in {"offer", "answer"} \ {Expected(p)} =>
          role[p] = role[Other(p)]
  BY <1>2, <1>5 DEF SInv, SignalsFromPeer, Expected
<1>11. pc'[p] = "err" => link = "none"
  <2> SUFFICES ASSUME pc'[p] = "err", link = "up" PROVE FALSE
    BY <1>1 DEF TypeOK
  <2>1. remote[p]
    BY DEF IInv, OpenNeedsLink
  <2> QED
    BY <1>10, <2>1 DEF SInv, RemoteFromPeer
<1>12. ErrorUnlinked'
  BY <1>11 DEF SInv, ErrorUnlinked
<1>13. Undisturbed' => Undisturbed
  BY DEF Undisturbed, OppositeRoles
<1>14. DescriptionsFirst'
  <2> SUFFICES ASSUME Undisturbed', NEW q \in Peers
               PROVE  /\ pc'[q] # "err"
                      /\ ~remote'[q] =>
                            /\ inbox'[q] # <<>> => Head(inbox'[q]) = Expected(q)'
                            /\ local'[Other(q)]
                                  /\ pc'[Other(q)] \notin {"offering", "answering"}
                                      => inbox'[q] # <<>>
    BY DEF DescriptionsFirst
  <2>1. /\ pc[q] # "err"
        /\ ~remote[q] =>
              /\ inbox[q] # <<>> => Head(inbox[q]) = Expected(q)
              /\ local[Other(q)] /\ pc[Other(q)] \notin {"offering", "answering"}
                    => inbox[q] # <<>>
    BY <1>13 DEF SInv, DescriptionsFirst
  <2>2. CASE q = p
    <3>1. remote'[p]
      BY <1>2, <2>1, <2>2
    <3>2. pc'[p] # "err"
      <4>1. role[p] # role[Other(p)]
        BY <1>13 DEF Undisturbed, OppositeRoles
      <4>2. Head(inbox[p]) # Expected(p) => remote[p]
        BY <3>1
      <4> QED
        BY <1>10, <4>1, <4>2
    <3> QED
      BY <2>2, <3>1, <3>2
  <2>3. CASE q = Other(p)
    <3>1. inbox'[q] = inbox[q] /\ pc'[q] = pc[q] /\ remote'[q] = remote[q]
      BY <1>1, <1>2, <2>3
    <3>2. local'[p] /\ pc'[p] \notin {"offering", "answering"} =>
             local[p] /\ pc[p] \notin {"offering", "answering"}
      BY <1>2
    <3> QED
      BY <1>1, <2>1, <2>3, <3>1, <3>2 DEF Expected
  <2> QED
    BY <1>3, <2>2, <2>3
<1>15. GatheringWaits'
  BY <1>2, <1>13 DEF SInv, GatheringWaits
<1> QED
  BY <1>4, <1>7, <1>8, <1>9, <1>12, <1>14, <1>15 DEF SInv

(* A task gives up, by a fault or because its peer has. *)
LEMMA FailStep ==
    ASSUME IInv, SInv, NEW p \in Peers,
           pc[p] \notin {"ok", "err"}, pc' = [pc EXCEPT ![p] = "err"],
           faulty' = TRUE \/ (pc[Other(p)] = "err" /\ UNCHANGED faulty),
           UNCHANGED <<role, inbox, local, gather, remote, link, channel, openRx,
                       overtaken>>
    PROVE  SInv'
<1>1. TypeOK /\ Other(p) \in Peers
  BY OtherPeer DEF IInv
<1>2. \A q \in Peers : pc'[q] = pc[q] \/ pc'[q] = "err"
  BY <1>1 DEF TypeOK
<1>3. \A q \in Peers, t \in Signals : Has(q, t)' <=> Has(q, t)
  BY DEF Has
<1>4. SignalsFromPeer'
  BY <1>2, <1>3, OtherPeer DEF SInv, SignalsFromPeer, Signals
<1>5. RemoteFromPeer'
  BY <1>2, OtherPeer DEF SInv, RemoteFromPeer
<1>6. OpenTakenOnce'
  BY <1>1 DEF SInv, OpenTakenOnce, TypeOK
<1>7. LocalNeedsDescription'
  BY <1>2 DEF SInv, LocalNeedsDescription
<1>8. faulty' \/ link = "none"
  BY <1>1 DEF SInv, ErrorUnlinked
<1>9. ErrorUnlinked'
  BY <1>8 DEF SInv, ErrorUnlinked
<1>10. ~Undisturbed'
  <2> SUFFICES ASSUME Undisturbed' PROVE FALSE
    OBVIOUS
  <2>1. Undisturbed /\ pc[Other(p)] = "err"
    BY DEF Undisturbed, OppositeRoles
  <2> QED
    BY <1>1, <2>1 DEF SInv, DescriptionsFirst
<1> QED
  BY <1>4, <1>5, <1>6, <1>7, <1>9, <1>10
  DEF SInv, DescriptionsFirst, GatheringWaits

(* A signal is lost, which is a fault. *)
LEMMA LossStep ==
    ASSUME IInv, SInv, NEW p \in Peers, LoseSignal(p)
    PROVE  SInv'
<1>1. /\ inbox[p] # <<>> /\ inbox' = [inbox EXCEPT ![p] = Tail(@)]
      /\ faulty'
      /\ UNCHANGED <<role, pc, local, gather, remote, link, channel, openRx>>
  BY DEF LoseSignal, library
<1>2. \A q \in Peers, t \in Signals : Has(q, t)' => Has(q, t)
  BY <1>1, TakenSignal DEF IInv
<1>3. SignalsFromPeer'
  BY <1>1, <1>2 DEF SInv, SignalsFromPeer, Signals
<1>4. /\ RemoteFromPeer' /\ OpenTakenOnce' /\ LocalNeedsDescription'
      /\ ErrorUnlinked'
  BY <1>1 DEF SInv, RemoteFromPeer, OpenTakenOnce, LocalNeedsDescription,
              ErrorUnlinked
<1>5. ~Undisturbed'
  BY <1>1 DEF Undisturbed
<1> QED
  BY <1>3, <1>4, <1>5 DEF SInv, DescriptionsFirst, GatheringWaits

(* What is on its way fits what the endpoints have done. *)
LEMMA SignalsInductive == Spec => []SInv
<1>1. Init => SInv
  <2> SUFFICES ASSUME Init PROVE SInv
    OBVIOUS
  <2>1. \A p \in Peers : inbox[p] = <<>> /\ \A t \in Signals : ~Has(p, t)
    <3>1. \A p \in Peers : inbox[p] = <<>> /\ Len(inbox[p]) = 0
      BY DEF Init
    <3>2. \A p \in Peers : \A i \in 1 .. Len(inbox[p]) : FALSE
      BY <3>1
    <3> QED
      BY <3>1, <3>2 DEF Has
  <2> QED
    BY <2>1, OtherPeer
    DEF Init, Start, SInv, SignalsFromPeer, RemoteFromPeer, OpenTakenOnce,
        LocalNeedsDescription, ErrorUnlinked, DescriptionsFirst,
        GatheringWaits, Signals
<1>2. IInv /\ IInv' /\ SInv /\ [Next]_vars => SInv'
  <2> SUFFICES ASSUME IInv, IInv', SInv, [Next]_vars PROVE SInv'
    OBVIOUS
  <2>0. TypeOK /\ TypeOK' /\ OpenNeedsLink /\ OpenNeedsLink' /\ AnswerIsNoted
        /\ NoCandidateYet /\ OpenTakenOnce /\ LocalNeedsDescription
    BY DEF IInv, SInv
  <2> USE DEF TypeOK, Goto, given, library, history
  <2>1. ASSUME NEW p \in Peers, CreateOffer(p) PROVE SInv'
    <3>1. role[p] = "offerer" /\ channel[p] # "open"
      BY <2>0, <2>1 DEF CreateOffer, AnswererStates, Roles, AnswerIsNoted,
                        OpenNeedsLink
    <3> QED
      BY <2>0, <2>1, <3>1, QuietStep DEF CreateOffer, OpenTakenOnce
  <2>2. ASSUME NEW p \in Peers, SendOffer(p) PROVE SInv'
    <3>1. role[p] = "offerer"
      BY <2>0, <2>2 DEF SendOffer, AnswererStates, Roles
    <3> QED
      BY <2>0, <2>2, <3>1, SendStep DEF SendOffer, Signals
  <2>3. ASSUME NEW p \in Peers, OpenBranch(p) PROVE SInv'
    <3>1. openRx[p] = "ready" /\ gotAnswer[p]
      <4>1. openRx[p] # "taken"
        BY <2>0, <2>3 DEF OpenBranch, OpenTakenOnce
      <4>2. role[p] = "offerer" /\ remote[p]
        BY <2>0, <2>3, <4>1 DEF OpenBranch, AnswererStates, Roles, OpenNeedsLink
      <4> QED
        BY <2>0, <2>3, <4>1, <4>2 DEF OpenBranch, AnswerIsNoted
    <3>2. pc' = [pc EXCEPT ![p] = "ok"]
      BY <2>3, <3>1 DEF OpenBranch
    <3> QED
      BY <2>0, <2>3, <3>1, <3>2, QuietStep DEF OpenBranch, OpenTakenOnce,
                                               OpenNeedsLink
  <2>4. ASSUME NEW p \in Peers, RecvAnswer(p) PROVE SInv'
    <3>1. Receive(p, {Expected(p)}) /\ pc[p] = "select"
      BY <2>0, <2>4 DEF RecvAnswer, Receive, OffererStates
    <3>2. Head(inbox[p]) = Expected(p)
      BY <3>1 DEF Receive
    <3> QED
      BY <2>0, <2>4, <3>1, <3>2, ReceiveStep DEF RecvAnswer
  <2>5. ASSUME NEW p \in Peers, AnswerApplied(p) \/ CandidateAdded(p) PROVE SInv'
    <3>1. pc[p] \in {"applying", "added"}
      BY <2>5 DEF AnswerApplied, CandidateAdded
    <3>2. /\ \/ pc' = [pc EXCEPT ![p] = "select"]
             \/ pc' = [pc EXCEPT ![p] = "ok"] /\ channel[p] = "open"
          /\ UNCHANGED <<role, inbox, local, gather, remote, link, channel,
                         openRx, overtaken, faulty>>
      BY <2>5 DEF AnswerApplied, CandidateAdded, AfterSignal
    <3> QED
      BY <2>0, <3>1, <3>2, QuietStep DEF OpenTakenOnce
  <2>6. ASSUME NEW p \in Peers, RecvOffer(p) PROVE SInv'
    <3>1. Receive(p, {Expected(p)}) /\ pc[p] = "receive"
      BY <2>0, <2>6 DEF RecvOffer, Receive, AnswererStates
    <3>2. Head(inbox[p]) = Expected(p)
      BY <3>1 DEF Receive
    <3> QED
      BY <2>0, <2>6, <3>1, <3>2, ReceiveStep DEF RecvOffer
  <2>7. ASSUME NEW p \in Peers, SendAnswer(p) PROVE SInv'
    <3>1. role[p] = "answerer"
      BY <2>0, <2>7 DEF SendAnswer, OffererStates, Roles
    <3> QED
      BY <2>0, <2>7, <3>1, SendStep DEF SendAnswer, Signals
  <2>8. ASSUME NEW p \in Peers, TakeChannel(p) PROVE SInv'
    BY <2>0, <2>8, QuietStep DEF TakeChannel, OpenTakenOnce
  <2>9. ASSUME NEW p \in Peers, AwaitOpen(p) PROVE SInv'
    BY <2>0, <2>9, QuietStep DEF AwaitOpen, OpenTakenOnce, OpenNeedsLink
  <2>10. ASSUME NEW p \in Peers, RecvCandidate(p) PROVE SInv'
    <3>1. Receive(p, {"candidate"}) /\ pc[p] \in {"select", "receive"}
      BY <2>10 DEF RecvCandidate, Receive
    <3>2. Head(inbox[p]) = "candidate" /\ Head(inbox[p]) # Expected(p)
      BY <3>1 DEF Receive, Expected
    <3>3. /\ \A q \in Peers : q # p => pc'[q] = pc[q]
          /\ \/ remote[p] /\ pc'[p] = "added" /\ pc[p] = "select"
             \/ remote[p] /\ pc'[p] = "receive" /\ pc[p] = "receive"
             \/ ~remote[p] /\ pc'[p] = "err"
          /\ UNCHANGED <<role, local, gather, remote, link, channel, openRx,
                         overtaken, faulty>>
      BY <2>0, <2>10, <3>1 DEF RecvCandidate
    <3> QED
      BY <3>1, <3>2, <3>3, ReceiveStep
  <2>11. ASSUME NEW p \in Peers, RecvEnd(p) PROVE SInv'
    <3>1. Receive(p, {"end"}) /\ pc[p] \in {"select", "receive"}
      BY <2>11 DEF RecvEnd, Receive
    <3>2. Head(inbox[p]) = "end" /\ Head(inbox[p]) # Expected(p)
      BY <3>1 DEF Receive, Expected
    <3>3. /\ \A q \in Peers : q # p => pc'[q] = pc[q]
          /\ \/ pc'[p] = "select"
             \/ pc'[p] = "receive" /\ pc[p] = "receive"
             \/ pc'[p] = "ok" /\ channel[p] = "open" /\ gotAnswer[p]
          /\ UNCHANGED <<role, local, gather, remote, link, channel, openRx,
                         overtaken, faulty>>
      BY <2>0, <2>11, <3>1 DEF RecvEnd, AfterSignal
    <3> QED
      BY <3>1, <3>2, <3>3, ReceiveStep
  <2>12. ASSUME NEW p \in Peers, RecvWrongDescription(p) PROVE SInv'
    <3>1. Receive(p, {"offer", "answer"} \ {Expected(p)})
      BY <2>12 DEF RecvWrongDescription
    <3>2. Head(inbox[p]) \in {"offer", "answer"} /\ Head(inbox[p]) # Expected(p)
      BY <3>1 DEF Receive
    <3>3. pc'[p] = "err" /\ \A q \in Peers : q # p => pc'[q] = pc[q]
      BY <2>0, <2>12 DEF RecvWrongDescription
    <3> QED
      BY <2>12, <3>1, <3>2, <3>3, ReceiveStep DEF RecvWrongDescription
  <2>13. ASSUME NEW p \in Peers, SendCandidate(p) PROVE SInv'
    <3>1. SendSignal(p, "candidate") /\ local[p] /\ "candidate" \in Signals
      BY <2>13 DEF SendCandidate, Signals
    <3>2. /\ UNCHANGED <<role, pc, local, remote, link, channel, openRx, faulty>>
          /\ \A q \in Peers : q # p => /\ overtaken'[q] = overtaken[q]
                                       /\ gather'[q] = gather[q]
          /\ overtaken[p] => overtaken'[p]
          /\ pc[p] \in {"offering", "answering"} => overtaken'[p]
      BY <2>0, <2>13 DEF SendCandidate
    <3> QED
      BY <3>1, <3>2, SendStep
  <2>14. ASSUME NEW p \in Peers, SendEnd(p) PROVE SInv'
    <3>1. SendSignal(p, "end") /\ local[p] /\ "end" \in Signals
      BY <2>14 DEF SendEnd, Signals
    <3>2. /\ UNCHANGED <<role, pc, local, remote, link, channel, openRx,
                         overtaken, faulty>>
          /\ \A q \in Peers : q # p => gather'[q] = gather[q]
          /\ gather[p] # Candidates
      BY <2>0, <2>14, HandshakeAssumption DEF SendEnd, HandshakeAssumption
    <3> QED
      BY <3>1, <3>2, SendStep
  <2>15. ASSUME NEW p \in Peers, LoseCandidate(p) PROVE SInv'
    BY <2>0, <2>15, QuietStep DEF LoseCandidate, OpenTakenOnce
  <2>16. ASSUME NEW p \in Peers, Library(p) PROVE SInv'
    <3>1. CASE Announce(p)
      BY <2>0, <3>1, QuietStep DEF Announce, OpenTakenOnce
    <3>2. CASE ChannelOpens(p)
      BY <2>0, <3>2, QuietStep DEF ChannelOpens, OpenTakenOnce
    <3>3. CASE OpenCallback(p)
      BY <2>0, <3>3, QuietStep DEF OpenCallback, OpenTakenOnce
    <3> QED
      BY <2>16, <3>1, <3>2, <3>3 DEF Library
  <2>17. ASSUME NEW p \in Peers, TaskFails(p) PROVE SInv'
    <3>1. /\ pc[p] \notin {"ok", "err"} /\ pc' = [pc EXCEPT ![p] = "err"]
          /\ faulty' = TRUE \/ (pc[Other(p)] = "err" /\ UNCHANGED faulty)
          /\ UNCHANGED <<role, inbox, local, gather, remote, link, channel,
                         openRx, overtaken>>
      BY <2>17 DEF TaskFails
    <3> QED
      BY <3>1, FailStep
  <2>18. CASE Connect
    BY <2>0, <2>18, QuietStep DEF Connect, OpenTakenOnce
  <2>19. CASE UNCHANGED vars
    BY <2>0, <2>19, QuietStep DEF vars, OpenTakenOnce
  <2>20. ASSUME NEW p \in Peers, LoseSignal(p) PROVE SInv'
    BY <2>20, LossStep
  <2> QED
    BY <2>1, <2>2, <2>3, <2>4, <2>5, <2>6, <2>7, <2>8, <2>9, <2>10, <2>11,
       <2>12, <2>13, <2>14, <2>15, <2>16, <2>17, <2>18, <2>19, <2>20
    DEF Next, Task, Offerer, Answerer, Either, IceCallback
<1> QED
  BY <1>1, <1>2, Inductive, PTL DEF Spec

(* An endpoint reports success only with an open channel over a connection *)
(* to a peer of the opposite role, which has both descriptions and has not *)
(* failed but by a fault, for any number of candidates.                    *)
THEOREM SuccessIsNotOneSided == Spec => []SuccessIsReal
<1>1. IInv /\ SInv => SuccessIsReal
  <2> SUFFICES ASSUME IInv, SInv, NEW p \in Peers, pc[p] = "ok"
               PROVE  /\ OppositeRoles /\ link = "up" /\ channel[p] = "open"
                      /\ \/ pc[Other(p)] \in {"select", "added", "ok"}
                               /\ gotAnswer[Other(p)]
                         \/ pc[Other(p)] \in
                                {"applying", "awaitChannel", "awaitOpen", "ok"}
                         \/ pc[Other(p)] = "err" /\ faulty
    BY DEF SuccessIsReal
  <2>1. channel[p] = "open" /\ link = "up" /\ \A q \in Peers : remote[q]
    BY DEF SInv, OpenTakenOnce, IInv, OpenNeedsLink
  <2>2. OppositeRoles
    BY <2>1 DEF OppositeRoles, SInv, RemoteFromPeer
  <2>3. pc[Other(p)] = "err" => faulty
    BY <2>1, OtherPeer DEF SInv, ErrorUnlinked
  <2>4. CASE role[Other(p)] = "offerer"
    <3>1. /\ pc[Other(p)] \in OffererStates \ {"init", "offering"}
          /\ pc[Other(p)] \in {"select", "added"} => gotAnswer[Other(p)]
      BY <2>1, <2>4, OtherPeer DEF IInv, TypeOK, AnswerIsNoted
    <3> QED
      BY <2>1, <2>2, <2>3, <3>1 DEF OffererStates
  <2>5. CASE role[Other(p)] # "offerer"
    <3>1. role[p] = "offerer"
      BY <2>2, <2>5, OtherPeer DEF OppositeRoles, IInv, TypeOK, Roles
    <3>2. pc[Other(p)] \in AnswererStates \ {"receive", "answering"}
      BY <2>1, <2>5, <3>1, OtherPeer DEF IInv, TypeOK, SInv, RemoteFromPeer
    <3> QED
      BY <2>1, <2>2, <2>3, <3>2 DEF AnswererStates
  <2> QED
    BY <2>4, <2>5
<1> QED
  BY <1>1, Inductive, SignalsInductive, PTL

(* Without faults, the handshake of an offerer and an answerer fails only  *)
(* if some candidate has overtaken a description, however many candidates  *)
(* are on their way.                                                       *)
THEOREM OnlyOvertakingFails == Spec => []FailureNeedsOvertaking
<1>1. SInv => FailureNeedsOvertaking
  BY DEF SInv, DescriptionsFirst, Undisturbed, FailureNeedsOvertaking
<1> QED
  BY <1>1, SignalsInductive, PTL
===============================================================================
