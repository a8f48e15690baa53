# Verification of datex-native

TLA+ models of the concurrent parts of `datex-native`: the communication
interfaces of `crates/datex-native` and the command line program of
`crates/datex-cli`. TLC checks the models on small instances, TLAPS proves every
invariant, action property and refinement that TLC checks for every value of the
constants; liveness is left to TLC.

    tlc -config TcpSocket.cfg MCTcpSocket.tla     # one run, see "Runs"
    tlapm TcpSocketProofs.tla                     # one proof module

Paths below are relative to `crates/datex-native/src/com_interfaces` or, for
`lib.rs`, `repl.rs`, `config.rs` and `workbench/`, to `crates/datex-cli/src`
and its `utils`.

## The system

The runtime (`datex-core`, not part of this repository) owns a *ComHub*. Each
communication interface is created by an async `create_interface` and hands
the ComHub an iterator of *sockets*; a socket is an iterator of incoming data
and a *send callback*. The ComHub polls iterators and calls send callbacks,
possibly many at once; it may drop either half of a socket at any time. That is
all the models assume of it.

| Component | State | Operations | What is hard |
|---|---|---|---|
| TCP (`tcp/*.rs`) | write half behind `Arc<Mutex>`, read half | send callback, read generator, accept loop | partial writes and reads, concurrent sends, dropping a socket under a send |
| WebSocket (`websocket/*.rs`) | sink behind `Arc<Mutex>`, stream | send callback, iterator, accept loop with handshake | foreign frames, errors under the lock, a handshake inside the accept loop |
| WebRTC (`webrtc/*.rs`) | peer connection, data channel, `open_rx`, `got_answer` | offerer and answerer task, ICE callback, channel callbacks | two tasks, two callbacks and a library that all interleave; `select!`; no time limit anywhere |
| Serial (`serial/serial_client.rs`) | port behind a std `Mutex` | read closure on the blocking pool, synchronous send | `try_lock().unwrap()`, reads that hold the lock while they wait |
| HTTP (`http/*.rs`) | channel of responses, one socket per request | POST per block, respond once | results out of order, dropped halves, requests never answered |
| REPL (`repl.rs`) | two channels, prompt thread, runtime task, history file | four kinds of command | a thread and a task, unwrapped sends, executions that do not return, exit under a write |
| Configuration (`utils/config.rs`) | `~/.datex/*.dx` | list, create, read | concurrent first starts, kills in the middle of a write, directory entries that are skipped |
| Command line (`lib.rs`, `config.rs`, `command_line_args.rs`) | the stage of each process | version, run, repl, lsp, workbench | errors that are unwrapped far from where they happen, fallbacks that other code does not expect |
| Workbench (`workbench/*.rs`) | terminal mode, exit flag | draw, handle one event, yield | giving the terminal back, one thread for the loop and the runtime, errors of `poll` that are swallowed |
| Registration, macro, packaging | none | | not modelled, see below |

The interfaces do not share state with each other; they meet only in the
ComHub. An HTTP client talks to an HTTP server, both are in one module; so are
the two endpoints of a WebRTC handshake. TCP and WebSocket run the same code at
both ends, so that one direction of a connection is the unit of the model. The
REPL, scripts and the workbench get their runtime from
`run_runtime_with_config`, which first reads the configuration and then runs
the command. The two meet again in `~/.datex`: the REPL keeps its history there.

Correct means, component by component: what is sent arrives whole, once and in
order, or its sender is told; a clean end cuts nothing off; a socket gives up
only for a reason; every call gets a result; a lock is never lost. For the
handshake: success is real on both sides. For the REPL: a response belongs to
its command. For the configuration: one identity, never damaged. For a
listening server: no client is forgotten, no stream is kept for nothing. For the
command line: the terminal is given back and a panic has a cause. Where the code
can wait for ever, every reason for which it does is named.

## Modules

| Module | Models | Implements |
|---|---|---|
| `BlockPipe` | abstract: a direction of a socket as a pipe of whole blocks | |
| `TcpSocket` | one direction of a TCP connection | `BlockPipe` |
| `WebSocket` | one direction of a WebSocket connection | `BlockPipe` |
| `Acceptor` | creation and accept loop of a TCP or WebSocket server | |
| `WebRtcHandshake` | two endpoints and their signaling | |
| `WebRtcChannel` | one direction of an open data channel | `BlockPipe` |
| `SerialPort` | port, read closures, senders | |
| `HttpExchange` | client and server of one interface | |
| `ReplRpc` | abstract: commands answered one at a time | |
| `ReplSession` | prompt thread, runtime task, channels | `ReplRpc` |
| `ConfigStore` | processes and their configuration files | |
| `Cli` | whole processes of the program, composed with `ConfigStore` | |
| `CliProofs` | theorems about `ConfigStore` and `Cli` | |
| `WebProofs` | theorems about `WebSocket` and `HttpExchange` | |
| other `*Proofs` | theorems about the module of that name | |
| `MC*` | the instances TLC checks (`ReplSession` needs none) | |

Each module has the same order: constants with their assumption, variables,
`Init`, the *plausible bugs* (see below), the actions grouped by the function
they stand for, the surroundings (ComHub, operating system, libraries), `Next`,
`Spec` and `FairSpec`, the type invariant and the properties. Every action is
one step between two await points, lock operations or system calls, and
contains all that the code does in between.

Every property is accompanied by a *plausible bug*: a variant of one action
with a missing guard, reset or clone, which makes TLC report the property as
violated. No specification uses the variants.

### TcpSocket

`send[b]` is the await point of the call for block `b`: before `write.lock()`
("locking"), inside `write_all` ("writing"), or its result. `holder` is the
mutex. `write_all` hands single bytes `<<b, i>>` to the kernel, which covers
every way it may be cut; `Window` bounds the bytes between the two ends. `item`
is the range of bytes that the generator yielded last. `WriteHalfDropped` is
the reason for the FIN: all clones of the `Arc` are gone, or the process is.

As a `BlockPipe`, a block is accepted with its first byte and arrives with its
last: the mapping takes the blocks of all first bytes on the stream
(`FirstBytes`), and of all last bytes yielded (`LastBytes`), in the order of
their positions (`BlocksAt`).

The kill of the sending process shows a limit that the code cannot remove: the
receiver sees the same clean end (`Ok(0)`) as after an orderly close, with
a block cut off. `CleanEndIsComplete` therefore excludes it.

### WebSocket

Frames in place of bytes. `Ping` stands for ping, pong and text, `Close` for
the close frame; only a peer that runs another implementation sends them.
tungstenite delivers each as `Some(Ok(_))`. `accepted` is a history variable, the
blocks among the frames, which only the mapping to `BlockPipe` reads.

### Acceptor

Both accept loops, told apart by `kind`. `backlog` is the kernel's queue,
`files` the accepted streams that are open, `upgrading` those inside
`accept_async`, `sockets` what the generator has yielded, `held` the sockets that
the ComHub still has. A client connects, speaks (an upgrade request or
nonsense) and leaves, in any order with the loop. `AcceptErr` and `UpgradeErr`
are the two `Err(_) => continue`. Without a free descriptor `accept` fails at
once: `AcceptErr` is then a step that changes nothing, taken again and again,
which is the hot loop of the code; a descriptor that is freed ends it.

`WaitingHasCause` is what a server promises its clients in spite of that: who
waits for ever waits for a descriptor or, at a WebSocket server, for a client
that is connected and silent inside the upgrade. The second cause is a limit of
the code: `accept_async` is awaited in the loop and has no time limit.

### WebRtcHandshake

`pc` is the await point of the task, `inbox` the signals on their way (each
direction in order), `local`/`remote` whether the descriptions are set. The ICE
callback gathers `Candidates` candidates once the local description is set and
sends them beside the task. `role` is chosen freely on each side, since the two
are configured independently. `negotiated` is the channel id in the offerer's
setup.

Signaling and the webrtc library are external. Signals leave and arrive through
the trait `WebRTCSignaling`, whose implementations are the embedder's: the model
keeps their order and may lose any of them (`LoseSignal`). The library connects
the two when both descriptions are set and an endpoint knows a candidate that it
gets through to; `reach` holds the endpoints that get through, and every subset is
checked. It then opens the channel of the offerer and announces it to the
answerer.

No part of the code has a time limit or watches the state of the connection.
`HangHasCause` therefore lists why an endpoint may wait for ever, and is checked
without any condition:

- its peer has given up;
- both endpoints are answerers, and each waits for the other's offer (two
  offerers fail instead);
- it is the answerer of a negotiated channel, which is never announced, and it
  knows no other way to its channel;
- the offerer does not get through to the answerer. That the answerer would get
  through does not help: it leaves its loop with the answer and never adds a
  candidate of the offerer (`AnswererAddsNoCandidate`);
- a signal was lost, or a call failed.

`HandshakeCompletes` is the other half: opposite roles, an announced channel and
an offerer that gets through are enough, unless something fails, is lost or
overtakes.

### WebRtcChannel

Starts where `WebRtcHandshake` ends for the sender: its channel is open. The
receiver may be behind. `stage` is its position: an offerer has installed its
callbacks before it sent its offer, an answerer waits for the announcement
first (`FirstStage`), and both return their interface later (`Ready`). `sent` is
what `data_channel.send` took, `wire` the same blocks in the order in which they
can be read, `got` how many of them the library has read, `delivering` the block
inside `on_message`, `queue` the bounded channel. A send fails on a closed
channel, and may fail on an open one (`SendErr`), for example because the message
is too large.

`ordered` is `setup.ordered` of the offerer, which `mapping.rs:79` hands to the
library. With it a block comes on the wire behind all others; without it also
before blocks that are not read yet (`Places`). `ImplementsPipe` says what each
means for the ComHub: the order of sending in the first case, in the second only
that blocks come out whole, once and in the order in which they were read.

Blocks that arrive while there is no `on_message` are lost (`missed`); from the
first one that `on_message` gets, the direction is a `BlockPipe`. The lost ones
were sent before the answerer had its callbacks (`MissNeedsEarlySend`): the
offerer's handshake ends earlier, so a block it sends at once may be one.
The iterator ends when the last sender of the channel is gone. One of them is
in `on_message`, which belongs to the data channel, which the send callback
owns: a closed channel alone does not end it (`EndNeedsCallbackDropped`).

### SerialPort

The read closure takes the lock (`TryLock`), reads and returns; the result of
its join handle is looked at by the iterator in a later step (`Resume`). A
panic happens before a guard exists, so that the mutex is not poisoned.

### HttpExchange

`call[c]` is the await point of a call of the client, `request[c]` what became
of it at the server. A block is named by its call, a response by its request.
Requests that nobody answers are dropped with their socket, which the client
sees as an error of the transport or of the status. The specification's names
have a prefix (`HttpSpec`), so that one module can be about it and `WebSocket`.

### ReplSession

A command carries its number. Its four kinds are told apart by what the task
awaits: `com` and `mem` are answered at once ("answering"), a trace and everything
else first run in the runtime ("executing"), which returns at some time, panics,
or does neither: an execution has no time limit, so `Return` is not fair. Every
arm sends exactly one response (`Respond`); `clear` and a malformed trace return
to the prompt. `WaitingHasCause` says that the session cannot hang but in such
an execution.

### ConfigStore

A file is named by its endpoint, as in the code. `fs::write` is two steps, and
a kill or an error in between leaves a `partial` file. A listing returns files
in any order and includes partial ones.

Every call may be refused: creating or listing `~/.datex` (`ListErr`), opening or
writing the new file (`WriteErr`), opening or reading one that may well be whole
(`ReadErr`). Such a start ends in "error", one that reads a configuration that
does not parse in "failed". One failure is silent: `entry.ok()` (`config.rs:59`)
drops directory entries that cannot be read, so a listing is any subset of the
files. A start that sees none of them draws a second endpoint; `blind` remembers
it. `OneIdentity` therefore excludes blind listings beside overlapping starts, and
those two are the only ways to a second endpoint. `FailureNeedsTornWrite` does
not need that exclusion. `TornBarsEveryStart` says what a torn file costs: nothing
in the code mends or removes it, so that nobody runs any more.

### Cli

Extends `ConfigStore`: a process of `Cli` that looks for its configuration in
`~/.datex` takes the actions of `ConfigStore` (`Start`, `Configure`, `Kill`),
everything else it does leaves the store alone. `stage` is where the process
stands: at the configuration, in the command, done, panicked. `dir` is the
directory itself, which only `get_dx_files` creates (`CreateDirectory`).
`RunRuntime` is the rest of `run_runtime_with_config`, with the registration of
the interface factories. The REPL is reduced to the start and the end of its
thread and to panics of either side; what happens in between is `ReplSession`.

`home` is what `home_dir()` returns, and has three cases: a directory, none, or
an empty path. The last two give a temporary endpoint (`config.rs:116-117`); but
`repl.rs:104` panics only without one, and with the empty path uses a `.datex`
relative to the working directory, which nobody creates.

`fault` notes for each process that a call of the system or of a library failed
or panicked in it ("system"), or that what the user gave it, `--config` or
`RUST_LOG`, is malformed ("input"); errors inside the store are told by its `pc`.
`lost` notes that the history could not be written. With them, `FailureHasCause`
says what remains when nothing fails: a torn configuration, a REPL that panics
without a home directory although its configuration fell back to a temporary
endpoint, and a REPL started with `--config` on a fresh account, or with an empty
home path, that loses its history.

The workbench is a loop of `DrawFrame`, `HandleEvents` (at most one event, or 10
ms) and `Resume` (its turn after `yield_now`). `ratatui::restore` runs before
`start_workbench` returns the error that its caller unwraps. A `poll` that fails is
taken for no event (`PollErr`, `workbench.rs:89`): if that lasts, the loop spins
in raw mode. `QuitEnds` is stated for a poll that does not fail for ever
(`PollRecovers`), however often it fails in between.

## Runs

| Run | Instance | What it shows |
|---|---|---|
| `TcpSocket` | 3 sends of 1, 2, 3 bytes; 2 bytes in flight; buffer 2 | `BlocksContiguous`, `CleanEndIsComplete`, refinement of `BlockPipe`, every call resolves, the peer's iterator ends |
| `WebSocket` | 3 sends, 2 frames in flight, foreign frames | `FailureHasCause`, refinement of `BlockPipe`, every call resolves and a sent block is delivered |
| `Acceptor` | 3 clients, backlog of 2, 2 descriptors, TCP and WebSocket | sockets in the order of arrival, no descriptor kept for nothing, why a client waits |
| `WebRtcHandshake` | 2 endpoints, all role pairs, 2 candidates each, negotiated or not, a network path for none, one or both, failing calls, lost signals | what success and failure mean, `select!` never takes the open branch early, when the handshake completes, every reason why an endpoint hangs |
| `WebRtcBothSucceed` | same | **violated**: working signaling implies success |
| `WebRtcChannel` | 3 blocks, a queue of 1, both roles, ordered or not | which blocks can be lost, refinement of `BlockPipe` for the others, delivery, when the iterator ends |
| `SerialPort` | 2 senders, 4 bytes, buffer 2 | no byte lost, failures have a cause, the lock survives the reader |
| `SerialReadLock` | same | **violated**: the lock is free when a read starts |
| `HttpExchange` | 2 calls | sent means answered, one reply per call, no panic while the iterator is polled, the iterator ends completely and in the end |
| `ReplSession` | 8 commands, capacity 2 | refinement of `ReplRpc`, unwrapped sends are safe, history is written before the exit, who waits for ever waits for an execution |
| `ConfigStore` | 3 processes, 3 endpoints, errors of every call, listings that skip files | one identity, failures need a torn write, complete configurations stay, torn ones bar every start |
| `Cli` | 2 processes, 2 endpoints, 2 unread events, all three home paths | the terminal is restored, panics and a lost history have a cause, `q` ends the workbench |

All type invariants are proved. The runs of `TcpSocket`, `WebRtcHandshake`,
`SerialPort` and `ConfigStore` do not repeat them; in the other modules `TypeOK`
is the first conjunct of one of the invariants checked.

A violated run checks one claim of a comment, an assertion or a test that the
code does not keep; `findings` in `PROJECT.json` quotes the line. More
places where the code does less than a comment or an `unwrap` suggests are
part of the models, and properties say how far they reach:

- An item of a TCP iterator is what one `read` returned, not a block
  (`tcp_server.rs:88`). `ImplementsPipe` and `CleanEndIsComplete` are about the
  bytes; `datex-core` has to find the blocks in them.
- A close frame ends a WebSocket iterator with an error
  (`websocket_server.rs:85`), although the comment at line 98 expects the close
  there, at the end of the stream. `FailureHasCause` counts it as a cause.
- A response that arrives after the iterator of an HTTP client was dropped makes
  the call panic (`http_client.rs:75`). `EndIsComplete` says that nothing else
  does.
- The REPL's `unwrap`s at `repl.rs:104` and `repl.rs:279`, and the two errors
  that are swallowed at `config.rs:59` and `workbench.rs:89`: see `Cli` and
  `ConfigStore` above.

**Bounds.** Three senders are one owner of the lock and two in competition for
it, so that a waiter can be overtaken; block lengths 1, 2 and 3 against
a buffer and a window of 2 give a block in one read, a block of exactly one
buffer and one that needs several, and writes that block in the middle. Two
candidates allow one to overtake the description and one to follow it. Four
bytes and a buffer of two make reads partial, full and repeated. Two calls are
enough for reordering in HTTP: calls interact only through the channel, whose
order is that of pairs. Eight commands wrap around a channel of two; in fact
neither channel ever holds more than one. Three processes allow two concurrent
first starts and a later one; three endpoints bound how often a new one is
drawn. Three clients against a backlog and a descriptor limit of two let somebody
wait at each of the two, and let one be upgraded while another is queued. Three
blocks through a queue of one fill the queue and `on_message` with a third block on
the wire, and let a later block pass an earlier one on an unordered channel. Two
processes of `Cli` are one that creates what the other reads; with three endpoints
the run only takes longer. Two unread events put `q` behind another one. `MaxBytes`, `MaxCommands`,
`MaxEvents`, `Candidates`, `Window`, `Backlog`, `MaxFiles`, `Capacity` and the
sets of calls, clients, blocks, processes and endpoints are all the bounds there
are. Runs with
`CHECK_DEADLOCK FALSE` model systems that do stop: all calls done, session over.

**Fairness.** Liveness assumes weak fairness of the steps that tokio or the
operating system owes a task that can go on: a woken task is polled, a free
lock is handed to a waiter, a closure of the blocking pool is run, data that
is there is delivered. No fairness is assumed of the user, the ComHub's decision
to call or to drop, resets, kills, faults, or a server's answer. futures'
`Mutex` wakes waiters one after another, and the runs have finitely many
senders, so weak fairness per call is enough.

The accept loop is fair because the ComHub polls the generator of sockets; that
the ComHub drops a socket is assumed only once its client has left and so its
iterator has ended. A client may stay silent for ever.

Two endpoints connect for certain only where one gets through to a candidate that
it knows, and a signal arrives for certain only if it is not lost. In
`WebRtcChannel` the library's read loop and the polled iterator are fair; that a
channel reports that it is open is assumed only while it is, and that a closed one
lets its callbacks go not at all.

The REPL's task and thread are fair up to the runtime: that an execution or
a trace comes to its end is not assumed. The workbench is a task of the runtime
and polled as long as it can go on; the tasks it yields to return. What its poll
finds is left open: no fairness makes it succeed.

## Proofs

| Theorem | States | For every |
|---|---|---|
| `TcpSocketProofs!TypeCorrect` | `[]TypeOK` | number and length of blocks, buffer, window |
| `TcpSocketProofs!BlocksNeverMix` | `[]BlocksContiguous` | same |
| `TcpSocketProofs!CleanEnd` | `[]CleanEndIsComplete` | same |
| `TcpSocketProofs!TcpImplementsPipe` | `Spec => Pipe!PipeSpec` | same |
| `WebRtcHandshakeProofs!TypeCorrect` | `[]TypeOK` | number of candidates |
| `WebRtcHandshakeProofs!OpenBranchNeedsAnswer` | `[]OpenNeedsAnswer` | same |
| `WebRtcHandshakeProofs!TrickledCandidatesUnused` | `[]AnswererAddsNoCandidate` | same |
| `WebRtcHandshakeProofs!SuccessIsNotOneSided` | `[]SuccessIsReal` | same |
| `WebRtcHandshakeProofs!OnlyOvertakingFails` | `[]FailureNeedsOvertaking` | same |
| `WebRtcChannelProofs!OnlyEarlyIsMissed` | `[]MissNeedsEarlySend` | number of blocks, capacity |
| `WebRtcChannelProofs!EndHasCause` | `[]EndNeedsCallbackDropped` | same |
| `WebRtcChannelProofs!ChannelImplementsPipe` | `Spec => Pipe!PipeSpec` | same |
| `AcceptorProofs!NoFileIsLeaked` | `[]FilesAccounted` | number of clients, backlog, limit of files |
| `AcceptorProofs!FirstComeFirstServed` | `[]SocketsInOrder` | same |
| `SerialPortProofs!NoByteLost` | `[]NothingReadIsLost` | number of senders, buffer |
| `SerialPortProofs!FailureCause` | `[]FailureHasCause` | same |
| `WebProofs!GivesUpWithCause` | `[]FailureHasCause` of `WebSocket` | number of blocks, window |
| `WebProofs!WebSocketImplementsPipe` | `Spec => Pipe!PipeSpec` | same |
| `WebProofs!SentWasAnswered` | `[]SentMeansAnswered` of `HttpExchange` | number of calls |
| `WebProofs!EndLeavesNothing` | `[]EndIsComplete` of `HttpExchange` | same |
| `ReplSessionProofs!SendsFindTheirPeer` | `[]PeerListens` | capacity, number of commands |
| `ReplSessionProofs!HistoryIsSaved` | `[]HistorySavedFirst` | same |
| `ReplSessionProofs!SessionImplementsRpc` | `Spec => Rpc!RpcSpec` | same |
| `CliProofs!WholeConfig` | `[]RunsOnWholeConfig` of `ConfigStore` | number of processes and endpoints |
| `CliProofs!ConfigurationIsKept` | `WholeStaysWhole` | same |
| `CliProofs!SameEndpoint` | `[]OneIdentity` | same |
| `CliProofs!OnlyTornWriteFails` | `[]FailureNeedsTornWrite` | same |
| `CliProofs!TornIsFinal` | `[]TornBarsEveryStart` | same |
| `CliProofs!CliWholeConfig` | `[]RunsOnWholeConfig` of the whole program | number of processes, endpoints, events |
| `CliProofs!CliSameEndpoint` | `[]OneIdentity`, `[]FailureNeedsTornWrite` of the whole program | same |
| `CliProofs!TerminalIsRestored` | `[]TerminalRestored`, with all types | same |
| `CliProofs!FailureCause` | `[]FailureHasCause` of `Cli` | same |

All rest on the assumptions of their module only (blocks are not empty, the
owner of a free lock is no block, there are two endpoints, and so on). Every
inductive invariant was first checked by TLC on the instance of its run.

*TcpSocket.* That the stream is contiguous is not inductive: the next byte must
continue the last one. `IInv` adds that the guard is owned by the one call that
is writing (`OneWriter`), that a block that is neither begun nor finished is
the writer's (`Progress`), and that the stream ends where the block of its last
byte stands (`StreamEnd`). Then a writer either continues its own block or
starts after a whole one. For the clean end, `NothingAfterEnd` says that nobody
can write once the end was seen: the callback is dropped and no call is in
flight, and a call in flight is the only one that could still put a byte.

The refinement needs two facts more (`PInv`): every byte of a block on the
stream is among those that were put (`StreamWasPut`), so that a first byte
begins a block that was never accepted; and the blocks that have begun are the
whole ones and at most the last one (`OnlyLastGoesOn`). The blocks that have
arrived, which are the whole ones up to the bytes yielded, are then a prefix of
those that have begun. Both sequences list a set of positions in ascending order
(`BlocksAt`), about which there are lemmas of their own: the k-th position
exists and is the only one (`NthExists`, `NthIsUnique`), a position above all
others adds its block at the end (`BlocksAdded`), and the positions up to some
point give a prefix (`BlocksUpTo`). `NthExists` is an induction over data;
`InductionOnNat` gets it from the least element of a set, without the library's
theorems on predicates.

*WebRtcHandshake.* `OpenNeedsAnswer` follows from a chain through the library:
the open callback needs an open channel, an open channel a connection, and
a connection both descriptions (`OpenNeedsLink`); an offerer that waits in
`select!` with a remote description has noted it (`AnswerIsNoted`). That the
answerer adds no candidate follows from its leaving the loop with the first
description (`NoCandidateYet`).

Success and failure need to know what is on its way (`SInv`). A description
comes from an endpoint of the role that creates it, whether it is in the inbox
(`SignalsFromPeer`) or accepted (`RemoteFromPeer`): so a connection joins opposite
roles, and once it is there only a fault fails a task (`ErrorUnlinked`). Without
a fault and as long as no candidate has overtaken, the first signal in an inbox
is the description its owner waits for (`DescriptionsFirst`), because an endpoint
that has not sent its description yet has all its candidates left
(`GatheringWaits`).

*WebRtcChannel.* As long as the iterator is open, the blocks yielded, those in
the queue and the one in `on_message` together are what `on_message` got, in
the order of the wire (`AllAccounted`), which new blocks join only behind what
is read already (`InsertProperties`) and at the end if the channel is ordered, so
that the wire is then what was sent (`PromisedIsWire`); what was yielded stays so after it was
dropped (`YieldedInOrder`). The blocks in front of them were missed, all while
there was no `on_message` (`MissedFirst`).

*Acceptor.* Sockets, the one upgrade in progress and the backlog are one queue in
the order of the connections (`QueueInOrder`), which a step preserves because a
client connects once (`ConnectsOnce`).

*SerialPort.* The bytes taken and the bytes yielded differ only while a result
waits to be looked at. A failure comes from a panic, which needs another owner
of the lock, who is a sender, or from a read without data, which needs silence
or a missing port.

*WebSocket.* Up to the first foreign frame the frames are the accepted blocks
(`BlocksFirst`), and an iterator that still reads has met no foreign frame
(`NothingSkipped`); a block is accepted by the call that reports it as sent
(`AcceptedWasSent`), hence once.

*HttpExchange.* A response is put into the channel by the step that ends its call
(`RepliesAreOver`), so that no call brings two; a status of success comes from an
answer (`SuccessIsAnswered`); and after the end the callback is gone
(`NoSenderAfterEnd`), so that no new call finds the channel closed.

*ReplSession.* At the prompt nothing is under way (`AtPrompt`); while the thread
waits, its command is in exactly one of four places: the first channel, in the
hands of the task (executing or answering), the second channel as its response, or
lost with the task
(`Underway`). So each channel holds one element at most, and a response can only
belong to the command that was asked last.

*ConfigStore.* Endpoints are drawn once, so that the file a process is creating
belongs to it alone; the invariant says which files can be partial, and that
every process that has run has left its file behind, whole (`IdentityWhole`).
While no two starts overlap (`Alone`), a partial file is still being written or
a write was torn (`PartialIsWritten`). While no listing was blind either, there is
at most one file and none when one is created (`OneFile`): hence one endpoint, and
nobody who has run beside a partial file.

*Cli.* Each step of a command is matched with a step of `ConfigStore` or leaves
its variables alone (the lemma `CliUsesStore`, no result of its own since the
actions are the store's), which carries the theorems about the store over to the
program. The terminal: only a process inside the workbench's loop has the
screen (`ScreenInLoop`). The causes of a failure: whoever is past the listing
has seen `~/.datex` (`DirectorySeen`), so that a prompt has the directory, or its
configuration came from elsewhere (`PromptHasDirectory`). A panic without a fault
of its own comes from the store or from the missing home directory
(`PanicHasCause`); the store speaks only to processes that were sent there
(`AtTheStore`), and `OnlyTornWriteFails` says what it can tell them.

Only model-checked are the liveness properties, since fairness is out of the
prover's reach: `EverySendResolves`, `DropEndsPeerIterator`, `SentIsDelivered` (of
`WebSocket` and `WebRtcChannel`), `HandshakeCompletes`, `HangHasCause`,
`WaitingHasCause` (of `Acceptor` and `ReplSession`), `WritersSurviveReader`, `AnswerResolvesCall`,
`IteratorComesToEnd` and `QuitEnds`.

## Not modelled

- The rest of `create_interface` before there is state: URLs, addresses and
  refused connections of clients end it with an error.
- `register_native_interface_factories`: straight-line calls into a table of
  `datex-core`; the step `RunRuntime` of `Cli` includes them.
- `webrtc/mapping.rs` apart from the negotiated id and the order of the channel,
  the attribute macro, build and release scripts: conversions field by field and
  code generation.
- The two views of the workbench, highlighting, help and output: layout.
- What a script, the language server or a command of the REPL does: `datex-core`.
- Whether the ComHub drops a send future in the middle of `write_all`: decided
  in `datex-core`. It would leave half a block on the connection. So would
  a write to the serial port that times out; the line has no frames, and only
  `datex-core` can notice.
- What a killed or panicking process leaves on its terminal, and what a power
  failure leaves of a file that was written: the terminal of the next process is a
  new one, and only kills of processes are modelled.
- Time limits for HTTP requests and upgrades: the code has none, and a property
  that asked for them would only say so.

## Plan

Every safety property, action property and refinement of the runs is proved.
What could be added: the safety part of the liveness arguments, as invariants
for every value of the constants. Each says that somebody who waits has
somebody to wait for:

1. `TcpSocket`, `WebSocket`, `SerialPort`: a lock that is not free has an owner
   who can take a step, or whose peer can.
2. `ReplSession`: as long as the session is not over, one of the two sides or the
   runtime can take a step.
3. `Acceptor`, `WebRtcHandshake`: the causes in `WaitingHasCause` and
   `HangHasCause` are the only ones with which an endpoint or a client is stuck.
