------------------------------- MODULE Acceptor -------------------------------
(***************************************************************************)
(* The accept loop of a listening interface (tcp/tcp_server.rs,            *)
(* websocket/websocket_server.rs): a generator that yields a socket for    *)
(* each connection.                                                        *)
(*                                                                         *)
(* A TCP connection becomes a socket as soon as it is accepted.  A         *)
(* WebSocket connection is upgraded first, by accept_async inside the      *)
(* loop: until the client has sent its request, sent something else or     *)
(* gone away, nobody else is accepted.  Every error is answered with       *)
(* `continue`.                                                             *)
(*                                                                         *)
(* The kernel's backlog, the limit of file descriptors and the ComHub,     *)
(* which drops a socket some time after its iterator has ended, are        *)
(* external.  A client is one connection.  What is sent over a socket      *)
(* once it is yielded is in TcpSocket and WebSocket.                       *)
(***************************************************************************)
EXTENDS Integers, Sequences, FiniteSets

CONSTANTS
    Clients,   \* the connections
    Backlog,   \* connections the kernel queues before they are accepted
    MaxFiles   \* file descriptors left for accepted streams

ASSUME AcceptorAssumption ==
    /\ IsFiniteSet(Clients)
    /\ Backlog \in Nat \ {0}
    /\ MaxFiles \in Nat \ {0}

VARIABLES
    kind,       \* the interface: "tcp" or "ws"
    server,     \* "creating", "failed" (no interface), "listening"
    client,     \* what each client has done
    backlog,    \* connections the kernel holds for accept
    upgrading,  \* streams inside accept_async
    files,      \* accepted streams that hold a file descriptor
    sockets,    \* sockets yielded so far, in order
    held,       \* sockets the ComHub has not dropped
    arrivals    \* history: connections in the order in which they were made

vars == <<kind, server, client, backlog, upgrading, files, sockets, held,
          arrivals>>

\* "left" went away after its upgrade request, "gone" without one.
ClientStates == {"away", "silent", "requested", "nonsense", "left", "gone"}

Full == Cardinality(files) = MaxFiles
Yielded == {sockets[i] : i \in 1 .. Len(sockets)}
Ask(c, state) == client' = [client EXCEPT ![c] = state]

Init ==
    /\ kind \in {"tcp", "ws"}
    /\ server = "creating"
    /\ client = [c \in Clients |-> "away"]
    /\ backlog = <<>>
    /\ upgrading = {}
    /\ files = {}
    /\ sockets = <<>>
    /\ held = {}
    /\ arrivals = <<>>

------------------------------------------------------------------------------
(* Plausible bugs.  Each variant replaces the definition it is named after *)
(* to show that the properties below depend on it; no behaviour of the     *)
(* code uses them.                                                         *)

\* The upgrade runs in a task of its own.
AtAcceptSpawned == server = "listening" /\ backlog # <<>>

\* A failed upgrade leaves the stream open.
UpgradeErrKeepsFile(c) ==
    /\ c \in upgrading
    /\ client[c] \in {"nonsense", "left", "gone"}
    /\ upgrading' = upgrading \ {c}
    /\ UNCHANGED <<kind, server, client, backlog, files, sockets, held,
                   arrivals>>

\* A failed upgrade ends the loop.
UpgradeErrReturns(c) ==
    /\ c \in upgrading
    /\ client[c] \in {"nonsense", "left", "gone"}
    /\ upgrading' = upgrading \ {c}
    /\ files' = files \ {c}
    /\ server' = "failed"
    /\ UNCHANGED <<kind, client, backlog, sockets, held, arrivals>>

------------------------------------------------------------------------------
(* create_interface *)

\* The address parses and the listener is bound.
Bind ==
    /\ server = "creating"
    /\ server' = "listening"
    /\ UNCHANGED <<kind, client, backlog, upgrading, files, sockets, held,
                   arrivals>>

\* InvalidSetupData or a connection error: there is no interface.
BindErr ==
    /\ server = "creating"
    /\ server' = "failed"
    /\ UNCHANGED <<kind, client, backlog, upgrading, files, sockets, held,
                   arrivals>>

------------------------------------------------------------------------------
(* The loop: get_next_socket_connection, get_next_websocket_connection *)

\* The loop stands at listener.accept() and there is a connection.
AtAccept == server = "listening" /\ upgrading = {} /\ backlog # <<>>

\* accept returns a stream, also one whose client is gone by now.
Accept ==
    LET c == Head(backlog) IN
    /\ AtAccept
    /\ ~Full
    /\ backlog' = Tail(backlog)
    /\ files' = files \cup {c}
    /\ IF kind = "tcp"
       THEN /\ sockets' = Append(sockets, c)
            /\ held' = held \cup {c}
            /\ UNCHANGED upgrading
       ELSE /\ upgrading' = upgrading \cup {c}
            /\ UNCHANGED <<sockets, held>>
    /\ UNCHANGED <<kind, server, client, arrivals>>

\* accept fails: there is no file descriptor left, and the connection stays
\* in the backlog, or the connection was aborted.  continue.
AcceptErr ==
    /\ AtAccept
    /\ \/ Full /\ UNCHANGED backlog
       \/ client[Head(backlog)] \in {"left", "gone"} /\ backlog' = Tail(backlog)
    /\ UNCHANGED <<kind, server, client, upgrading, files, sockets, held,
                   arrivals>>

\* accept_async returns Ok: yield the socket.
Upgrade(c) ==
    /\ c \in upgrading
    /\ client[c] \in {"requested", "left"}
    /\ upgrading' = upgrading \ {c}
    /\ sockets' = Append(sockets, c)
    /\ held' = held \cup {c}
    /\ UNCHANGED <<kind, server, client, backlog, files, arrivals>>

\* accept_async returns Err and has dropped the stream.  continue.
UpgradeErr(c) ==
    /\ c \in upgrading
    /\ client[c] \in {"nonsense", "left", "gone"}
    /\ upgrading' = upgrading \ {c}
    /\ files' = files \ {c}
    /\ UNCHANGED <<kind, server, client, backlog, sockets, held, arrivals>>

------------------------------------------------------------------------------
(* The surroundings *)

Connect(c) ==
    /\ server = "listening"
    /\ client[c] = "away"
    /\ Len(backlog) < Backlog
    /\ Ask(c, "silent")
    /\ backlog' = Append(backlog, c)
    /\ arrivals' = Append(arrivals, c)
    /\ UNCHANGED <<kind, server, upgrading, files, sockets, held>>

\* The client sends a WebSocket upgrade request, or something else.
Speak(c) ==
    /\ client[c] = "silent"
    /\ Ask(c, "requested") \/ Ask(c, "nonsense")
    /\ UNCHANGED <<kind, server, backlog, upgrading, files, sockets, held,
                   arrivals>>

\* The client closes or aborts the connection, wherever it is.
Leave(c) ==
    /\ client[c] \in {"silent", "requested", "nonsense"}
    /\ Ask(c, IF client[c] = "requested" THEN "left" ELSE "gone")
    /\ UNCHANGED <<kind, server, backlog, upgrading, files, sockets, held,
                   arrivals>>

\* The ComHub drops both halves of a socket, and the stream is closed.
Drop(c) ==
    /\ c \in held
    /\ held' = held \ {c}
    /\ files' = files \ {c}
    /\ UNCHANGED <<kind, server, client, backlog, upgrading, sockets, arrivals>>

Loop == Accept \/ AcceptErr \/ \E c \in Clients : Upgrade(c) \/ UpgradeErr(c)

Next ==
    \/ Bind \/ BindErr
    \/ Loop
    \/ \E c \in Clients : Connect(c) \/ Speak(c) \/ Leave(c) \/ Drop(c)

Spec == Init /\ [][Next]_vars

\* The ComHub keeps polling the generator, and drops a socket whose iterator
\* has ended because its client went away.  Clients do what they like.
FairSpec ==
    /\ Spec
    /\ WF_vars(Loop)
    /\ \A c \in Clients : WF_vars(client[c] \in {"left", "gone"} /\ Drop(c))

------------------------------------------------------------------------------
\* The loop has no end: "listening" is left by nothing.
TypeOK ==
    /\ kind \in {"tcp", "ws"}
    /\ server \in {"creating", "failed", "listening"}
    /\ client \in [Clients -> ClientStates]
    /\ backlog \in Seq(Clients) /\ Len(backlog) <= Backlog
    /\ upgrading \subseteq Clients
    /\ files \subseteq Clients /\ Cardinality(files) <= MaxFiles
    /\ sockets \in Seq(Clients)
    /\ held \subseteq Yielded
    /\ arrivals \in Seq(Clients)

(* Every open stream belongs to a socket of the ComHub or to the upgrade   *)
(* in progress, and each of these has its stream: connections that failed  *)
(* to upgrade give their file descriptor back, so that a server does not   *)
(* run out of them by being probed.                                        *)
FilesAccounted ==
    /\ TypeOK
    /\ files = held \cup upgrading
    /\ held \cap upgrading = {}

(* The sockets come out in the order in which the clients connected, one   *)
(* for each at most, whatever each client does in between: two upgrades    *)
(* are never in progress at once.                                          *)
SocketsInOrder ==
    \A i, j \in 1 .. Len(sockets) :
        i < j => \E k, l \in 1 .. Len(arrivals) :
                    /\ k < l
                    /\ arrivals[k] = sockets[i]
                    /\ arrivals[l] = sockets[j]

Waiting(c) == c \in {backlog[i] : i \in 1 .. Len(backlog)}

(* A client waits for ever to be accepted only if the loop is caught in    *)
(* the upgrade of a client that stays connected and silent (which happens  *)
(* to no TCP server), or if all file descriptors stay in use.  An error of *)
(* accept or of an upgrade is no reason.                                   *)
WaitingHasCause ==
    \A c \in Clients :
        <>[]Waiting(c) =>
            \/ <>[](kind = "ws" /\ \E d \in upgrading : client[d] = "silent")
            \/ <>[]Full
==============================================================================
