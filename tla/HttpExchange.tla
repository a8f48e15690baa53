----------------------------- MODULE HttpExchange -----------------------------
(***************************************************************************)
(* Blocks over HTTP (http/http_client.rs, http/http_server.rs).            *)
(*                                                                         *)
(* Client: each call of the send callback is a POST of its own; the body   *)
(* of the response goes into one unbounded channel, which the one socket   *)
(* of the interface yields from.  Server: each request becomes a socket of *)
(* its own, whose iterator yields the body once and whose send callback    *)
(* answers the request, once.                                              *)
(*                                                                         *)
(* A block is named by the call that posts it, a response by its request.  *)
(***************************************************************************)
EXTENDS Integers, Sequences

CONSTANT Calls     \* the calls of the client's send callback

VARIABLES
    call,      \* progress of each call: its await point or its result
    status,    \* response.status() of each call
    request,   \* each request at the server
    received,  \* the temporary socket has yielded the body
    replies,   \* response bodies sent into the channel, in order
    yielded,   \* how many of them the client's iterator has yielded
    iterator,  \* the client's iterator: "polled", "ended" or "dropped"
    callback   \* the client's send callback: "held" or "dropped"

httpVars ==
    <<call, status, request, received, replies, yielded, iterator, callback>>

CallStates == {"idle", "posting", "reading", "sent", "failed", "panicked"}
RequestStates == {"none", "queued", "socket", "answered", "refused", "dropped"}

InFlight(c) == call[c] \in {"posting", "reading"}

HttpInit ==
    /\ call = [c \in Calls |-> "idle"]
    /\ status = [c \in Calls |-> "none"]
    /\ request = [c \in Calls |-> "none"]
    /\ received = [c \in Calls |-> FALSE]
    /\ replies = <<>>
    /\ yielded = 0
    /\ iterator = "polled"
    /\ callback = "held"

Resolve(c, r) == call' = [call EXCEPT ![c] = r]

------------------------------------------------------------------------------
(* Plausible bugs.  Each variant replaces the definition it is named after *)
(* to show that the properties below depend on it; no behaviour of the     *)
(* code uses them.                                                         *)

\* Calls use the sender of the callback and have no clone of it.
SendersNotCloned == callback = "dropped"

\* The iterator captures a sender too.
SendersHeldByIterator == FALSE

\* Every status counts as success.
OutcomeIgnoresStatus(c) == "sent"

\* A response that does not report success is waited out.
ResponseHeadSuccessOnly(c) ==
    /\ call[c] = "posting"
    /\ request[c] = "answered"
    /\ status' = [status EXCEPT ![c] = "success"]
    /\ Resolve(c, "reading")
    /\ UNCHANGED <<request, received, replies, yielded, iterator, callback>>

------------------------------------------------------------------------------
(* The client: its send callback *)

\* The ComHub calls the callback, which posts the block.
Post(c) ==
    /\ callback = "held"
    /\ call[c] = "idle"
    /\ Resolve(c, "posting")
    /\ UNCHANGED <<status, request, received, replies, yielded, iterator, callback>>

\* send() fails: SendFailure, whether or not the server has the block.
PostErr(c) ==
    /\ call[c] = "posting"
    /\ Resolve(c, "failed")
    /\ UNCHANGED <<status, request, received, replies, yielded, iterator, callback>>

\* send() returns the head of the response.  For a request that nobody will
\* answer the server's library reports an error or closes the connection.
ResponseHead(c) ==
    /\ call[c] = "posting"
    /\ request[c] \in {"answered", "dropped"}
    /\ status' = [status EXCEPT ![c] =
                      IF request[c] = "answered" THEN "success" ELSE "error"]
    /\ Resolve(c, "reading")
    /\ UNCHANGED <<request, received, replies, yielded, iterator, callback>>

\* response.bytes() fails: SendFailure.
BodyErr(c) ==
    /\ call[c] = "reading"
    /\ Resolve(c, "failed")
    /\ UNCHANGED <<status, request, received, replies, yielded, iterator, callback>>

Outcome(c) == IF status[c] = "success" THEN "sent" ELSE "failed"

\* The body goes into the channel whatever the status; without a receiver,
\* which the iterator owns, start_send(..).unwrap() panics.
BodyOk(c) ==
    /\ call[c] = "reading"
    /\ IF iterator # "polled"
       THEN Resolve(c, "panicked") /\ UNCHANGED replies
       ELSE Resolve(c, Outcome(c)) /\ replies' = Append(replies, c)
    /\ UNCHANGED <<status, request, received, yielded, iterator, callback>>

------------------------------------------------------------------------------
(* The client: its iterator *)

Yield ==
    /\ iterator = "polled"
    /\ yielded < Len(replies)
    /\ yielded' = yielded + 1
    /\ UNCHANGED <<call, status, request, received, replies, iterator, callback>>

\* The callback and each call in flight hold a sender of the channel.
SendersDropped == callback = "dropped" /\ \A c \in Calls : ~InFlight(c)

\* next() returns None.
IteratorEnds ==
    /\ iterator = "polled"
    /\ yielded = Len(replies)
    /\ SendersDropped
    /\ iterator' = "ended"
    /\ UNCHANGED <<call, status, request, received, replies, yielded, callback>>

\* The ComHub drops one half of the socket.
DropIterator ==
    /\ iterator = "polled"
    /\ iterator' = "dropped"
    /\ UNCHANGED <<call, status, request, received, replies, yielded, callback>>

DropCallback ==
    /\ callback = "held"
    /\ callback' = "dropped"
    /\ UNCHANGED <<call, status, request, received, replies, yielded, iterator>>

------------------------------------------------------------------------------
(* The server *)

\* The request has reached the server.
Arrive(c) ==
    /\ call[c] = "posting"
    /\ request[c] = "none"
    /\ request' = [request EXCEPT ![c] = "queued"]
    /\ UNCHANGED <<call, status, received, replies, yielded, iterator, callback>>

\* server.next(): yield a socket for the request.
OpenSocket(c) ==
    /\ request[c] = "queued"
    /\ request' = [request EXCEPT ![c] = "socket"]
    /\ UNCHANGED <<call, status, received, replies, yielded, iterator, callback>>

\* The iterator of the socket yields the body, which it owns, and ends.
ReceiveBody(c) ==
    /\ request[c] \in {"socket", "answered", "refused", "dropped"}
    /\ ~received[c]
    /\ received' = [received EXCEPT ![c] = TRUE]
    /\ UNCHANGED <<call, status, request, replies, yielded, iterator, callback>>

\* The send callback of the socket, which can be called once: it fails if
\* the client has gone away.
Respond(c) ==
    /\ request[c] = "socket"
    /\ request' = [request EXCEPT ![c] = IF call[c] = "posting" THEN "answered"
                                                                ELSE "refused"]
    /\ UNCHANGED <<call, status, received, replies, yielded, iterator, callback>>

\* The callback is dropped uncalled, and the request with it.
DropSocket(c) ==
    /\ request[c] = "socket"
    /\ request' = [request EXCEPT ![c] = "dropped"]
    /\ UNCHANGED <<call, status, received, replies, yielded, iterator, callback>>

Client(c) == ResponseHead(c) \/ BodyErr(c) \/ BodyOk(c)
Server(c) ==
    Arrive(c) \/ OpenSocket(c) \/ ReceiveBody(c) \/ Respond(c) \/ DropSocket(c)

HttpNext ==
    \/ \E c \in Calls : Post(c) \/ PostErr(c) \/ Client(c) \/ Server(c)
    \/ Yield \/ IteratorEnds \/ DropIterator \/ DropCallback

HttpSpec == HttpInit /\ [][HttpNext]_httpVars

\* The client's tasks are polled once their response is there, and so is
\* its iterator.  A server does not have to answer.
HttpFairSpec ==
    /\ HttpSpec
    /\ \A c \in Calls : WF_httpVars(Client(c))
    /\ WF_httpVars(Yield) /\ WF_httpVars(IteratorEnds)

------------------------------------------------------------------------------
HttpTypeOK ==
    /\ call \in [Calls -> CallStates]
    /\ status \in [Calls -> {"none", "success", "error"}]
    /\ request \in [Calls -> RequestStates]
    /\ received \in [Calls -> BOOLEAN]
    /\ replies \in Seq(Calls)
    /\ yielded \in 0 .. Len(replies)
    /\ iterator \in {"polled", "ended", "dropped"}
    /\ callback \in {"held", "dropped"}

(* A send that reports success was answered by the peer, and its response  *)
(* is in the channel: neither an error of the transport nor a request      *)
(* dropped unanswered counts as sent.  No response is in the channel       *)
(* twice, however calls and failures interleave.                           *)
SentMeansAnswered ==
    /\ HttpTypeOK
    /\ \A c \in Calls :
          call[c] = "sent" =>
              /\ request[c] = "answered"
              /\ \E i \in 1 .. Len(replies) : replies[i] = c
    /\ \A i, j \in 1 .. Len(replies) : replies[i] = replies[j] => i = j

(* The iterator ends only when nothing is outstanding: every response has  *)
(* been yielded and no call is in flight that could bring another.  So a   *)
(* call panics for want of a receiver only if the ComHub has dropped the   *)
(* iterator.                                                               *)
EndIsComplete ==
    /\ iterator = "ended" =>
          yielded = Len(replies) /\ \A c \in Calls : ~InFlight(c)
    /\ \A c \in Calls : call[c] = "panicked" => iterator = "dropped"

(* Once the request is answered, or dropped unanswered, the send callback  *)
(* of the client comes to its end.                                         *)
AnswerResolvesCall ==
    \A c \in Calls :
        request[c] \in {"answered", "dropped"} ~> ~InFlight(c)

(* After the ComHub has dropped the callback and the calls in flight are   *)
(* over, the iterator yields the rest and ends.                            *)
IteratorComesToEnd ==
    callback = "dropped" /\ (\A c \in Calls : ~InFlight(c))
        ~> iterator # "polled"
===============================================================================
