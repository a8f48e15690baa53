--------------------------- MODULE WebRtcHandshake ---------------------------
(***************************************************************************)
(* Two endpoints set up a WebRTC data channel                              *)
(* (com_interfaces/webrtc/mod.rs, webrtc/channels.rs).                     *)
(*                                                                         *)
(* Each endpoint runs one task, create_offerer_channel or                  *)
(* create_answerer_channel, and next to it the ICE callback, which sends   *)
(* every gathered candidate over the signaling the task sends its          *)
(* description over.  Signaling is a trait whose implementation the caller *)
(* provides: it delivers in order in each direction, as a channel does, or *)
(* loses signals, which counts as a fault.  The webrtc library (ICE, DTLS, *)
(* SCTP, the open callback) is external, too: its actions are modelled by  *)
(* what the code relies on.                                                *)
(***************************************************************************)
EXTENDS Integers, Sequences

CONSTANTS
    Peers,       \* the two endpoints
    Candidates   \* number of ICE candidates each endpoint gathers

ASSUME HandshakeAssumption ==
    /\ \E p, q \in Peers : p # q /\ Peers = {p, q}
    /\ Candidates \in Nat \ {0}

VARIABLES
    role,       \* setup.role of each endpoint
    pc,         \* where the task of each endpoint stands
    inbox,      \* signals on their way to each endpoint
    local,      \* set_local_description is done: candidates are gathered
    gather,     \* candidates still to be gathered, -1 after the last
    remote,     \* set_remote_description is done
    known,      \* remote candidates added to the peer connection
    gotAnswer,  \* got_answer of the offerer
    link,       \* the connection under the data channel: "none" or "up"
    channel,    \* the data channel: "none", "connecting", "open"
    negotiated, \* the offerer's setup.negotiated_data_channel_id is given: its
                \* channel is not announced to the peer
    reach,      \* the endpoints that get through to a candidate of the other,
                \* if they know one: a fact about the networks between them
    openRx,     \* open_rx: "pending", "ready", "taken"
    overtaken,  \* history: a candidate was sent ahead of the description
    faulty      \* history: a library or signaling call failed of its own accord

vars == <<role, pc, inbox, local, gather, remote, known, gotAnswer, link,
          channel, negotiated, reach, openRx, overtaken, faulty>>
given == <<negotiated, reach>>
library == <<link, channel, given>>
history == <<overtaken, faulty>>

Roles == {"offerer", "answerer"}
Signals == {"offer", "answer", "candidate", "end"}
OffererStates ==
    {"init", "offering", "select", "applying", "added", "ok", "err"}
AnswererStates ==
    {"receive", "answering", "awaitChannel", "awaitOpen", "ok", "err"}

Other(p) == CHOOSE q \in Peers : q # p
OppositeRoles == \A p \in Peers : role[p] # role[Other(p)]

Goto(p, state) == pc' = [pc EXCEPT ![p] = state]

\* signaling.send(signal) at p
SendSignal(p, signal) ==
    inbox' = [inbox EXCEPT ![Other(p)] = Append(@, signal)]

\* signaling.receive() at p returns one of signals.
Receive(p, signals) ==
    /\ pc[p] \in {"select", "receive"}
    /\ inbox[p] # <<>>
    /\ Head(inbox[p]) \in signals
    /\ inbox' = [inbox EXCEPT ![p] = Tail(@)]

------------------------------------------------------------------------------
(* Plausible bugs.  Each variant replaces the definition it is named after *)
(* to show that the properties below depend on it; no behaviour of the     *)
(* code uses them.                                                         *)

\* Both functions compare with RTCSdpTypeDX::Offer.
ExpectedOffer(p) == "offer"

\* The loop is left as soon as there is an answer.
AfterSignalAnswerOnly(p, answered) == IF answered THEN "ok" ELSE "select"

\* got_answer is not set.
AnswerAppliedNotNoted(p) ==
    /\ pc[p] = "applying"
    /\ Goto(p, IF channel[p] = "open" THEN "ok" ELSE "select")
    /\ UNCHANGED <<role, inbox, local, gather, remote, known, gotAnswer,
                   library, openRx, history>>

\* Candidates are received and not added.
RecvCandidateDropped(p) ==
    /\ Receive(p, {"candidate"})
    /\ remote[p]
    /\ UNCHANGED <<role, pc, local, gather, remote, known, gotAnswer, library,
                   openRx, history>>

\* The answerer stays in its loop after the answer.
SendAnswerKeepsReceiving(p) ==
    /\ pc[p] = "answering"
    /\ SendSignal(p, "answer")
    /\ Goto(p, "receive")
    /\ UNCHANGED <<role, local, gather, remote, known, gotAnswer, library,
                   openRx, history>>

------------------------------------------------------------------------------
(* The start *)

\* The first state of the function that the match on setup.role calls.
Start(r) == IF r = "offerer" THEN "init" ELSE "receive"

\* The description that the task accepts.
Expected(p) == IF role[p] = "offerer" THEN "answer" ELSE "offer"

\* The endpoints are configured independently: both may have the same role.
Init ==
    /\ role \in [Peers -> Roles]
    /\ pc = [p \in Peers |-> Start(role[p])]
    /\ inbox = [p \in Peers |-> <<>>]
    /\ local = [p \in Peers |-> FALSE]
    /\ gather = [p \in Peers |-> Candidates]
    /\ remote = [p \in Peers |-> FALSE]
    /\ known = [p \in Peers |-> 0]
    /\ gotAnswer = [p \in Peers |-> FALSE]
    /\ link = "none"
    /\ channel = [p \in Peers |-> "none"]
    /\ negotiated \in BOOLEAN
    /\ reach \in SUBSET Peers
    /\ openRx = [p \in Peers |-> "pending"]
    /\ overtaken = [p \in Peers |-> FALSE]
    /\ faulty = FALSE

\* The end of the receive branch: break if the channel is usable, else loop.
AfterSignal(p, answered) ==
    IF answered /\ channel[p] = "open" THEN "ok" ELSE "select"

------------------------------------------------------------------------------
(* create_offerer_channel *)

\* Create the data channel, install its callbacks, create the offer and set
\* it as the local description.
CreateOffer(p) ==
    /\ pc[p] = "init"
    /\ channel' = [channel EXCEPT ![p] = "connecting"]
    /\ local' = [local EXCEPT ![p] = TRUE]
    /\ Goto(p, "offering")
    /\ UNCHANGED <<role, inbox, gather, remote, known, gotAnswer, link,
                   given, openRx, history>>

SendOffer(p) ==
    /\ pc[p] = "offering"
    /\ SendSignal(p, "offer")
    /\ Goto(p, "select")
    /\ UNCHANGED <<role, local, gather, remote, known, gotAnswer, library,
                   openRx, history>>

\* The open_rx branch of select!.  A receiver that is polled again after it
\* has delivered answers with an error, which the code returns.
OpenBranch(p) ==
    /\ pc[p] = "select"
    /\ openRx[p] \in {"ready", "taken"}
    /\ openRx' = [openRx EXCEPT ![p] = "taken"]
    /\ Goto(p, CASE openRx[p] = "taken" -> "err"
                 [] openRx[p] = "ready" /\ gotAnswer[p] -> "ok"
                 [] OTHER -> "select")
    /\ UNCHANGED <<role, inbox, local, gather, remote, known, gotAnswer,
                   library, history>>

\* The receive branch, on the answer; the task awaits set_remote_description.
RecvAnswer(p) ==
    /\ role[p] = "offerer"
    /\ Receive(p, {Expected(p)})
    /\ remote' = [remote EXCEPT ![p] = TRUE]
    /\ Goto(p, "applying")
    /\ UNCHANGED <<role, local, gather, known, gotAnswer, library, openRx,
                   history>>

AnswerApplied(p) ==
    /\ pc[p] = "applying"
    /\ gotAnswer' = [gotAnswer EXCEPT ![p] = TRUE]
    /\ Goto(p, AfterSignal(p, TRUE))
    /\ UNCHANGED <<role, inbox, local, gather, remote, known, library, openRx,
                   history>>

\* The receive branch, on a candidate: add_ice_candidate fails as long as
\* there is no remote description.
RecvCandidate(p) ==
    /\ Receive(p, {"candidate"})
    /\ IF remote[p]
       THEN /\ known' = [known EXCEPT ![p] = @ + 1]
            /\ Goto(p, IF pc[p] = "select" THEN "added" ELSE "receive")
       ELSE /\ Goto(p, "err")
            /\ UNCHANGED known
    /\ UNCHANGED <<role, local, gather, remote, gotAnswer, library, openRx,
                   history>>

CandidateAdded(p) ==
    /\ pc[p] = "added"
    /\ Goto(p, AfterSignal(p, gotAnswer[p]))
    /\ UNCHANGED <<role, inbox, local, gather, remote, known, gotAnswer,
                   library, openRx, history>>

\* EndOfCandidates is ignored.
RecvEnd(p) ==
    /\ Receive(p, {"end"})
    /\ Goto(p, IF pc[p] = "select"
               THEN AfterSignal(p, gotAnswer[p])
               ELSE "receive")
    /\ UNCHANGED <<role, local, gather, remote, known, gotAnswer, library,
                   openRx, history>>

\* "expected WebRTC answer", "expected WebRTC offer"
RecvWrongDescription(p) ==
    /\ Receive(p, {"offer", "answer"} \ {Expected(p)})
    /\ Goto(p, "err")
    /\ UNCHANGED <<role, local, gather, remote, known, gotAnswer, library,
                   openRx, history>>

------------------------------------------------------------------------------
(* create_answerer_channel *)

\* Set the remote description, create the answer and set it as the local one.
RecvOffer(p) ==
    /\ role[p] = "answerer"
    /\ Receive(p, {Expected(p)})
    /\ remote' = [remote EXCEPT ![p] = TRUE]
    /\ local' = [local EXCEPT ![p] = TRUE]
    /\ Goto(p, "answering")
    /\ UNCHANGED <<role, gather, known, gotAnswer, library, openRx, history>>

\* Send the answer and leave the loop: nothing is received from here on.
SendAnswer(p) ==
    /\ pc[p] = "answering"
    /\ SendSignal(p, "answer")
    /\ Goto(p, "awaitChannel")
    /\ UNCHANGED <<role, local, gather, remote, known, gotAnswer, library,
                   openRx, history>>

\* dc_rx delivers the channel; install its callbacks.
TakeChannel(p) ==
    /\ pc[p] = "awaitChannel"
    /\ channel[p] # "none"
    /\ Goto(p, "awaitOpen")
    /\ UNCHANGED <<role, inbox, local, gather, remote, known, gotAnswer,
                   library, openRx, history>>

AwaitOpen(p) ==
    /\ pc[p] = "awaitOpen"
    /\ openRx[p] = "ready"
    /\ openRx' = [openRx EXCEPT ![p] = "taken"]
    /\ Goto(p, "ok")
    /\ UNCHANGED <<role, inbox, local, gather, remote, known, gotAnswer,
                   library, history>>

------------------------------------------------------------------------------
(* install_ice_callback: runs beside the task *)

SendCandidate(p) ==
    /\ local[p]
    /\ gather[p] > 0
    /\ gather' = [gather EXCEPT ![p] = @ - 1]
    /\ SendSignal(p, "candidate")
    /\ overtaken' = [overtaken EXCEPT ![p] =
                         @ \/ pc[p] \in {"offering", "answering"}]
    /\ UNCHANGED <<role, pc, local, remote, known, gotAnswer, library, openRx,
                   faulty>>

SendEnd(p) ==
    /\ local[p]
    /\ gather[p] = 0
    /\ gather' = [gather EXCEPT ![p] = -1]
    /\ SendSignal(p, "end")
    /\ UNCHANGED <<role, pc, local, remote, known, gotAnswer, library, openRx,
                   history>>

\* The conversion or the sending fails: the candidate is dropped.
LoseCandidate(p) ==
    /\ local[p]
    /\ gather[p] >= 0
    /\ gather' = [gather EXCEPT ![p] = @ - 1]
    /\ faulty' = TRUE
    /\ UNCHANGED <<role, pc, inbox, local, remote, known, gotAnswer, library,
                   openRx, overtaken>>

------------------------------------------------------------------------------
(* Signaling, the webrtc library and the surroundings *)

\* A signal does not get to p.
LoseSignal(p) ==
    /\ inbox[p] # <<>>
    /\ inbox' = [inbox EXCEPT ![p] = Tail(@)]
    /\ faulty' = TRUE
    /\ UNCHANGED <<role, pc, local, gather, remote, known, gotAnswer, library,
                   openRx, overtaken>>

\* ICE finds a path once both descriptions are set, if one side knows a
\* candidate of the other and gets through to it.  Otherwise nothing tells the
\* tasks: the code watches no connection state and sets no time limit.
Connect ==
    /\ link = "none"
    /\ \A p \in Peers : remote[p] /\ pc[p] # "err"
    /\ \E p \in reach : known[p] > 0
    /\ link' = "up"
    /\ UNCHANGED <<role, pc, inbox, local, gather, remote, known, gotAnswer,
                   channel, given, openRx, history>>

\* on_data_channel: the channel opened by the offerer is announced, unless
\* both sides are taken to have negotiated it.
Announce(p) ==
    /\ link = "up"
    /\ ~negotiated
    /\ channel[p] = "none"
    /\ channel[Other(p)] = "open"
    /\ channel' = [channel EXCEPT ![p] = "connecting"]
    /\ UNCHANGED <<role, pc, inbox, local, gather, remote, known, gotAnswer,
                   link, given, openRx, history>>

ChannelOpens(p) ==
    /\ link = "up"
    /\ channel[p] = "connecting"
    /\ channel' = [channel EXCEPT ![p] = "open"]
    /\ UNCHANGED <<role, pc, inbox, local, gather, remote, known, gotAnswer,
                   link, given, openRx, history>>

\* install_data_channel_callbacks has run for the channel of p.
Installed(p) ==
    pc[p] \in {"offering", "select", "applying", "added", "awaitOpen", "ok"}

\* on_open: also called when the channel was open before it was installed.
OpenCallback(p) ==
    /\ Installed(p)
    /\ channel[p] = "open"
    /\ openRx[p] = "pending"
    /\ openRx' = [openRx EXCEPT ![p] = "ready"]
    /\ UNCHANGED <<role, pc, inbox, local, gather, remote, known, gotAnswer,
                   library, history>>

\* A `?` returns the error of a library or signaling call.  Signaling with
\* an endpoint that has given up may fail even if nothing else does.
TaskFails(p) ==
    /\ pc[p] \notin {"ok", "err"}
    /\ \/ faulty' = TRUE
       \/ /\ pc[p] \in {"offering", "select", "receive", "answering"}
          /\ pc[Other(p)] = "err"
          /\ UNCHANGED faulty
    /\ Goto(p, "err")
    /\ UNCHANGED <<role, inbox, local, gather, remote, known, gotAnswer,
                   library, openRx, overtaken>>

------------------------------------------------------------------------------
Offerer(p) ==
    \/ CreateOffer(p) \/ SendOffer(p) \/ OpenBranch(p)
    \/ RecvAnswer(p) \/ AnswerApplied(p) \/ CandidateAdded(p)

Answerer(p) == RecvOffer(p) \/ SendAnswer(p) \/ TakeChannel(p) \/ AwaitOpen(p)

Either(p) == RecvCandidate(p) \/ RecvEnd(p) \/ RecvWrongDescription(p)

Task(p) == Offerer(p) \/ Answerer(p) \/ Either(p)

IceCallback(p) == SendCandidate(p) \/ SendEnd(p)

Library(p) == Announce(p) \/ ChannelOpens(p) \/ OpenCallback(p)

Next ==
    \/ \E p \in Peers :
          Task(p) \/ IceCallback(p) \/ LoseCandidate(p) \/ LoseSignal(p)
          \/ Library(p) \/ TaskFails(p)
    \/ Connect

Spec == Init /\ [][Next]_vars

\* The runtime polls both tasks and the callbacks, signals that are not lost
\* are delivered, and the library makes progress; nothing has to fail, and a
\* path is found only where there is one.
FairSpec ==
    /\ Spec
    /\ \A p \in Peers :
          WF_vars(Task(p)) /\ WF_vars(IceCallback(p)) /\ WF_vars(Library(p))
    /\ WF_vars(Connect)

------------------------------------------------------------------------------
TypeOK ==
    /\ role \in [Peers -> Roles]
    /\ pc \in [Peers -> OffererStates \cup AnswererStates]
    /\ \A p \in Peers :
          pc[p] \in IF role[p] = "offerer" THEN OffererStates
                                           ELSE AnswererStates
    /\ inbox \in [Peers -> Seq(Signals)]
    /\ local \in [Peers -> BOOLEAN]
    /\ gather \in [Peers -> -1 .. Candidates]
    /\ remote \in [Peers -> BOOLEAN]
    /\ known \in [Peers -> Nat]
    /\ gotAnswer \in [Peers -> BOOLEAN]
    /\ link \in {"none", "up"}
    /\ channel \in [Peers -> {"none", "connecting", "open"}]
    /\ negotiated \in BOOLEAN
    /\ reach \in SUBSET Peers
    /\ openRx \in [Peers -> {"pending", "ready", "taken"}]
    /\ overtaken \in [Peers -> BOOLEAN]
    /\ faulty \in BOOLEAN

(* The open branch of select! does not fire before the answer is noted.    *)
(* The code depends on it: it goes back to the loop in that case and polls *)
(* open_rx again, which would turn a usable channel into an error.         *)
OpenNeedsAnswer ==
    \A p \in Peers :
        role[p] = "offerer" /\ openRx[p] = "taken" => gotAnswer[p]

(* An endpoint that reports success has a channel that can carry blocks,   *)
(* and its peer has exchanged descriptions with it, so that the success is *)
(* not one-sided unless the peer fails later.                              *)
SuccessIsReal ==
    \A p \in Peers :
        pc[p] = "ok" =>
            /\ OppositeRoles
            /\ link = "up"
            /\ channel[p] = "open"
            /\ \/ pc[Other(p)] \in {"select", "added", "ok"} /\ gotAnswer[Other(p)]
               \/ pc[Other(p)] \in {"applying", "awaitChannel", "awaitOpen", "ok"}
               \/ pc[Other(p)] = "err" /\ faulty

(* Between an offerer and an answerer, and without faults, the one thing   *)
(* that makes the handshake fail is a candidate that the ICE callback has  *)
(* sent before the task has sent its description.                          *)
FailureNeedsOvertaking ==
    ~faulty /\ OppositeRoles /\ (\E p \in Peers : pc[p] = "err")
        => \E p \in Peers : overtaken[p]

(* The answerer stops receiving with the offer, and before it a candidate  *)
(* is an error: it never adds a candidate of the offerer.                  *)
AnswererAddsNoCandidate ==
    \A p \in Peers : role[p] = "answerer" => known[p] = 0

\* ICE has a path only if the offerer gets through to the answerer: the
\* answerer, which receives nothing after the offer, knows no candidate.
PathForOfferer == \E p \in reach : role[p] = "offerer"

(* If the offerer gets through to the answerer's candidates, the two       *)
(* endpoints get their channel, unless a call fails, a signal is lost or a *)
(* candidate overtakes a description.                                      *)
HandshakeCompletes ==
    OppositeRoles /\ ~negotiated /\ PathForOfferer =>
        <>(\/ \A p \in Peers : pc[p] = "ok"
           \/ \E p \in Peers : overtaken[p]
           \/ faulty)

(* Nothing here has a time limit.  An endpoint that waits for ever waits   *)
(* for a peer that has given up; or both are answerers and wait for an     *)
(* offer; or it is the answerer of a negotiated channel, which             *)
(* on_data_channel does not announce; or the offerer does not get through  *)
(* to the answerer, whether or not the answerer would get through to the   *)
(* offerer; or a signal was lost.                                          *)
HangHasCause ==
    \A p \in Peers :
        <>(\/ pc[p] \in {"ok", "err"}
           \/ pc[Other(p)] = "err"
           \/ \A q \in Peers : role[q] = "answerer"
           \/ negotiated /\ role[p] = "answerer"
           \/ OppositeRoles /\ ~PathForOfferer
           \/ faulty)

(* What test_constructs asserts of an offerer and an answerer whose        *)
(* signaling works: create_interface succeeds on both sides.               *)
BothCreateInterfacesSucceed ==
    OppositeRoles /\ ~faulty => \A p \in Peers : pc[p] # "err"
==============================================================================
