# PickCluster: TLA+ models, checks and proofs

PickCluster (`src/`) is a small bitcoin client in Python 2: a main program starts a node process, the
node starts a network process, and the network process keeps one receive thread and one send thread per
connection. This directory holds TLA+ models of it, the TLC runs that check them on small instances, and
theorems about them that TLAPS checks for every instance. `PROJECT.json` lists the runs, the lines every
definition stands for, the faulty variants that show each property can fail, the hazards and the findings.

## Inventory

| component | state it keeps | operations | correct if |
|---|---|---|---|
| Network process, `network.py` `PeerManager` | dict of peers, id counter, command queue, notice queue, event queue | connect, disconnect, shutdown, set_version, send_message; notices of the threads | a message goes to the connection it names; each event names a connection the node knows; the dict holds the active connections; shutdown returns, unless its events have nowhere to go |
| Connection threads, `Peer`, `PeerSendThread` | socket, interrupt flags, version, receive buffer, send queue | connect, read and decode, write, end and join | a connection that reports its end has stopped; the loss of one thread ends the other; messages arrive in order whatever the chunks |
| Sockets, addresses, `get_client_socket`, `convert_ip`, `get_server_socket` | none | connect, convert an address | every attempt is answered |
| Node process, `node.py` `Node`, `PeerHandle` | map of handles (version, tolerance), handlers | drain commands, poll, take one event; handshake; misbehaviour; shutdown | handle and connection agree on the version; the handshake comes first in both directions; a bad peer is dropped |
| Poll queue, `Node.__handlers_queue` | handlers with the time they are next due | register, poll and requeue | no handler is lost, doubled, overlooked, or polled too often |
| Ping manager and handlers, `ping_manager.py`, `handler.py` | nonce, time and latency per peer | send pings, answer pings, take pongs | a pong counts only for the last ping of its own connection, and in time |
| Message codec, `bitcoin_codec.py` | none | decode the head of a buffer, encode | nothing is lost, invented or taken twice |
| Byte array codec, `byte_array_codec.py` | position in a buffer | integers of several widths, var_int, strings | what is encoded is decoded again; what is cut short is refused |
| Messages and targets, `message.py` | none | encode and decode at a version; compact targets | both ends mean the same fields; a compact target is the nearest below |
| Protocol parameters, `protocols.py` | tables | subsidy, retarget | a target depends on earlier blocks only, and changes within its limits; the subsidies have a limit |
| Log manager, `logmanager.py` | queues of each process, log queue | start, wrap, log, stop | a process that is told to end ends, unless it waits for a pipe nobody reads; no record is lost |
| Main program, `pickcluter.py` | none | start, connect, shut down | shutdown returns, with the same exception |

**Interaction.** Main puts CONNECT and SHUTDOWN on the node's queue. The node puts commands on the network
process's queue and takes events off its other queue; both are `multiprocessing.Queue`s, which a feeder thread
writes, so that a non-blocking `get` may find nothing although a `put` has returned. The threads of the
connections put notices on an in-process queue which the network process forwards. A thread is ended by a flag
it polls (`__interrupted`), and joined.

**What is hard.** Ids are read when an attempt starts and used as keys when it is registered. Commands name
connections that may be gone when they arrive. The version of a connection lives in two processes. Each thread
of a connection waits for the other at its end. Three processes are joined in a chain, one of them twice, and
any may have died of an exception. Chunks end anywhere, and so do partial writes. Pipes fill up while their
reader waits for their writer. The clock may be set back. The list with lines, and the properties for each
item, is under `hazards` in `PROJECT.json`.

## Modules

| module | models | extends / instances |
|---|---|---|
| `PeerManager` | the network process and the threads of its connections | |
| `NetworkManager` | `PeerManager` with any user that calls its methods as the node does | extends `PeerManager`, instances `PeerService` |
| `PeerService` | what the network process promises its user | |
| `Node` | the node process on top of the network process | extends `PeerManager` |
| `PickCluster` | the three processes together | extends `Node`, instances `NetworkManager` |
| `PollQueue` | the queue of polled handlers | |
| `MessageStream` | the receive loop and the decoder, by position in the stream | instances `MessageChannel` |
| `MessageChannel` | what the receiving side of a connection promises | |
| `Link` | a connection from the queue of one send thread to the network process at the other end | extends `MessageStream`, instances `MessageChannel` |
| `PingManager` | pings and pongs, their nonces, and the latency estimate | |
| `Lifecycle` | the four processes from start to end, their queues and the log | |
| `Powers` | shifts by any number of bits, as powers | |
| `TargetBits` | the compact form of targets | extends `Powers` |
| `Chain` | the target and subsidy calculators on a chain of blocks | extends `TargetBits` |
| `ByteArrayCodec` | integers, truth values and strings as bytes | extends `Powers` |
| `Messages` | the fields of every message, encoded and decoded | extends `ByteArrayCodec` |
| `AddressText` | `convert_ip` | |
| `Data` | the pure functions in one state space | extends `Messages`, `Chain`, `AddressText` |
| `MC...` | model values and small sets for TLC | |
| `..._proofs` | the theorems | |

**PeerManager.** One action per branch of `PeerManager._execute` (`CommandConnect`, `CommandDisconnect`, ...,
`InfoConnected`, ...), of `Peer._execute` (`ConnectOk`, `ConnectFail`, `PeerNameError`, `StartSender`,
`TestInterrupted`, `RecvMessage`, `RecvEnd`, `CloseSocket`, `RemovePeer`, ...) and of
`PeerSendThread._execute`. `pc`, `thread[p]` and `sender[p]` are the places of the threads, the other
variables the fields of the objects and the queues. Everything the code does between two points where another
thread can tell the difference is one action. A lookup that fails (`peers.get` returns None, `del` of a
missing key) ends the main loop through the `finally` clause, and `cause` records why. A Peer object is named
by its attempt; a message is its command and the remote end it is meant for or comes from. A thread that
cannot be started is `CommandConnectRaises` for the receive thread, which ends the main loop, and a part of
`StartSender` for the send thread.

A process ends (`ProcessExit`, and `NodeExit` in `Node`) only when the feeder threads of the queues its parent
made have written everything (`Flushed`): the events of the network process must fit in the pipe, of `PipeSize`
items, and its log records must be taken (`LogWritten`, FALSE where the log server is gone and its pipe is
full). `outQueue` is the buffer and the pipe in one. `Lifecycle` has the two apart, for all queues.

**NetworkManager** adds a user that connects, sends, sets versions, disconnects and shuts down at any time,
naming only peers it has been told of, as the node does. `SerialConnects` says whether attempts may overlap.
The program as it is connects once; the interface allows more.

**Node, PickCluster** replace that user by the node itself: its loop drains commands, polls, takes one event.
A handler that puts several commands leaves them in `todo`, put one by one. `Network` maps the program to
`NetworkManager`: the node's map, without what the user does not see, is the user's `known`, and the second
SHUTDOWN, which goes to a process that has ended, is left out. `MayShutdown` FALSE: the line the main process
waits for never comes.

**PollQueue** has the clock as a variable that moves, or is set back, at any time. Registration and polling
are `__register_handler` and `__get_polled_handler`, with `__add_polled_handler` as `Slot` and
`AddPolledHandler`. What polling a handler sends is in `Node`.

**MessageStream** names a byte by its position: the buffer is what lies between `consumed` and `received`. A
frame has a size and at most one flaw, the first in the order of the decoder's checks; each outcome of
`decode_message` (message, None and the same buffer, exception) is an action. Whether a body decodes is
independent of the version here; in the code it may depend on it, which adds only another cause to an
exception the model has anyway.

**Link** puts a second PickCluster at the other end: `QueueMessage` is `PeerSendThread.send`, `WriteWhole` and
`WritePartly` are its send loop. The loop advances an offset but offers the whole message again after a
partial write. The bytes behind the part are then displaced: what the reader finds there has a wrong start,
length or checksum, and everything after it is displaced too. `origin` says which end it is; with "any" the
remote end sends what it likes, flawed or not, so that the run checks both.

**PingManager** has the handles of the node as far as pings use them. `Poll` pings every peer in the map, also
those without a version yet, whose ping is encoded for version 0 and has no nonce (`HasNonce`). `HandlePong`
leaves the nonce set: the code clears a field of another name (`ping_none`), so a pong that comes again counts
again. A remote end answers with nonces it has read, or 0, at any time and as often as it likes. The latency
is None in the code where it is 0 here, and rounded down to the unit of the clock.

**Lifecycle** has a place for each of main, node, network process and log server. A `multiprocessing.Queue` is
a buffer in every process that puts, a feeder thread (`Feed`) that empties it, and a pipe of `PipeSize` items.
A process that ends waits for the feeders of queues it did not make itself (`Flushed`). `start()` waits for a
start code and raises when it is late (`NodeTimesOut`, `NetworkTimesOut`); at its end main runs
`stop_log_server`, then joins what is left. What node and network process do in between is reduced to what
what they put. The threads of the network process go on logging while it exits. A record that comes after its
feeder was told to stop is never written; it is not counted as logged, and so `NoRecordLost` does not speak of
it.

**TargetBits** has the two functions over bytes of `ByteBits` bits, which is 8 in the code; a target of more
bytes than can be counted (`MaxCount`, 255) raises, and is none (`Fits`). **Chain** lets a chain grow by
`get_standard_target` and `get_subsidy`, with timestamps of any kind; the lists are indexed as in Python,
where -1 is the last item. No negative index is ever used: there is no caller for height 0, and with the
parameters of the networks a retarget looks back no further than the start of the chain (`RetargetIndices`).
A block whose target does not fit ends the chain.

**ByteArrayCodec, Messages** take a message as a sequence of fields over bytes of `Radix` values (256 in the
code). `Writes` and `Reads` say at which version a field is there: when encoding, that of the connection; when
decoding, that, or for the relay flag the one in the message. `Send` encodes at any version, `Receive` decodes
at any other. The kind `integers` is not a message: it has the gets and puts no message uses.

**AddressText** takes the text of an address as its words between colons. `Text` is how the library writes an
address (external), `ConvertIp` how `convert_ip` reads it, with the different ways of dropping an empty word
at the start and at the end, and the padding in between. What ends in an address of version 4 is written with
dots, and an address of one link (`LinkLocal`) with its zone, as `fe80::1%eth0`, by the library of Python 2:
`int()` raises for both.

**Data** puts TargetBits, Chain, Messages and AddressText in one state space; in each behaviour one of them
is at work and the others are idle. `MCData` adds the inputs that TLC enumerates.

A definition named `..._Mutant` is a faulty variant; no specification uses it.

## Runs

| run | question | states |
|---|---|---|
| `network_serial` | attempts do not overlap: are ids, notices and events consistent, and is `PeerService` implemented? | 806 k |
| `network_overlap` | they overlap: what still holds? A closed connection has stopped and said its last. | 1.62 M |
| `network_liveness` | does shutdown return, unless events are left over; does the loss of a send thread end its connection, is a disconnect heard, is a connect answered? | 130 k |
| `network_send_in_transit` | violation: a message for a peer that closed in the meantime | 5 k to the violation |
| `network_lost_peer` | violation: the dict loses an active peer | 23 k to the violation |
| `cluster_one` | one connection, all kinds of messages: the invariants of the handshake, versions, refinement; do all three processes end, unless events are left over; is a bad peer dropped? | 98 k |
| `cluster_two` | two attempts that may overlap, colliding ids, a message on each connection, pings at any time, a node that may end with a KeyError: still our version first? | 2.92 M |
| `poll_queue` | order, loss, lateness and rate of the polled handlers | 404 k |
| `message_stream` | order and completeness from one end to the other, with partial writes and flaws; is what came too early delivered with the next chunk? | 641 k |
| `data` | the test of targets that the repository has switched off; are messages read as they were meant, at any versions and cut at any byte; addresses; chains of targets | 165 k |
| `lifecycle` | does a program that is asked to end do so, and is every record logged? | 427 k |
| `ping` | which pongs count, and what do they change; are pings answered in order with their nonces? | 2.17 M |

**Findings.** (1) `CMD_SEND_MESSAGE` (network.py:140) uses the peer it looked up without a test, although
`CMD_SET_VERSION` five lines below has the test and the comment "peer could shutdown while command is in
transit": the exception ends the network process with all its connections. (2) With two attempts under way,
both take the id the counter has when they start (126) while the key is the counter when they are registered
(156): the end of one deletes the other, still active, from the dict that is said to hold the active peers.

**Bounds.** Two remote ends are enough for two attempts to overlap, for ids to collide, and for one connection
to end while the other lives. `MaxReceived`, `CommandCount` (0 to `MaxCommands`) and `MaxPolled` bound messages
read and commands sent: one or two are enough for a message or a command to be in transit while its connection
ends, for a second version message, and for pings between any two steps of a handshake. Versions 0 and 1, with
claims of 0 and 2, are the three cases of `handle_version`. `MaxTime` 4 with rates 1 and 2 lets a handler be
late by more than a round, twins fall due together, and the clock go back. In `cluster_two` the node polls as
long as it has put less than two commands (`MaxPolled`): there are pings while the greeting of their connection
is still on its way, and whatever overtook it would be seen. One message is read on each connection there: when
it comes under an id that a colliding connection's DISCONNECTED has removed from the map, the node ends with a
KeyError. (A DISCONNECTED event cannot do that: one is forwarded for each key, behind its CONNECTED.) That the
node stays within what `NetworkManager` assumes of its user in these cases too is proved (`NetworkUsed`), not
run. A pipe of one item (`PipeSize`) both lets the network process end with an event unread and keeps it from
ending with two. Three frames, of a header of two bytes and a body of one, in chunks of up to five bytes let a
chunk end in a header, in a body, at the end of a message and in the next one; the buffer holds more than one
message when they wait for the version. In `data`, bytes of three bits (`ByteBits` 3, `Radix` 8) and counts to
six give every case of the shifts (below, at and above three bytes) and of the var_int; each field of each
message takes the values at the limits of its form, versions lie on both sides of `MinVersion` and
`RelayVersion`; words are 0, 1 and the largest, so that all 6,561 addresses cover every pattern of zero runs,
and a third of them need a zone; periods of three blocks and halvings every two give chains of seven blocks two
retargets and three halvings, and from the largest first target one that does not fit. In `lifecycle`, pipes of
one item, two events and one further record and command fill every pipe there is. In `ping`, two peers and two
nonces besides 0 are enough for a nonce to reach the wrong connection; `MaxTime` 4 with a limit of 3 has pongs
in time, at the limit and too late, and one pong on its way (`MaxAhead`) lets it be overtaken by a poll or a
disconnect. One of the two remote ends sends up to two pings on a connection (`MaxPings`), which have an order,
before or after its pong; the other only answers. Symmetry is used in safety runs only, among remote ends the
code treats alike.

**Deadlock** is not checked where the system may stop: after a shutdown, after an exception, or when the
bounds of a run are used up. The poll queue and the ping manager, which never stop, are checked for it.

**Fairness.** Weak fairness of the threads: each runs when it can. Strong fairness of taking a command
(`HandleCommand`, `NodeHandleCommand`) or an event (`NodeTakeEvent`): the get may miss what is still being
written, but the feeder thread writes it after a finite time and the loops look again and again. In
`Lifecycle`, weak fairness of every process and of every feeder thread; the node looks at its commands and at
its events in each round, and what the pipe has stays there. In `Link`, weak fairness of the receive loop. The
user of `NetworkManager` keeps taking events, as the node does. No fairness is assumed of remote ends, of
sockets, of failures, of what comes late, or of what the main process asks for.

`ShutdownReturns` and `ClusterShutdownReturns` have one exception (`Jammed`): the network process is at its end
with more events than the pipe holds, or with records that nobody takes, and whoever joins it does not read
them. `ProgramEnds` names the three cases in which the program does not end, all of them in the code: the network
process waits to write events that the node, joining it, no longer reads; a process waits to write to the log
of a server that could not open its file; or the network process was not up in time, which raises outside
the `try` statement of the node, so that nobody shuts it down. In every other case all processes end.
`ConnectAnswered` has an exception too: an attempt that raises before it is known that there is a connection,
in the thread or in starting it, is never answered.

## Proofs

* `NetworkManager_proofs`. `TypeCorrect` holds always. The rest is for `SerialConnects`: `SerialInvariant`
  proves the inductive `SerialInv`, and the safety properties follow from it. None of them is inductive by
  itself: that a peer is keyed by its id needs to know that the one attempt under way has the id the
  counter still has (`OneAttempt`, `IdsUnique`), that the notices in flight come from connections in the
  dict or about to be (`NoticesInOrder`), and that commands and events in flight name a connection that
  was registered with that id (`SendsValid`, `EventsValid`, `KnownValid`, `DictAnnounced`). The proof has a
  lemma per action and per conjunct it can disturb.

  `ReportsEndLast` needs no `SerialConnects`. That nothing follows the last notice of a connection rests on a
  closed thread staying closed, and so on no command starting an attempt a second time (`AttemptsFresh`).

  `ServiceImplemented` proves `ImplementsService` under `SerialConnects`. To `SerialInv` it adds that each
  connection is announced, and each failed attempt reported, once (`ToldInvariant`); an event the user takes is
  then a step of `PeerService`, and every other step a stutter.
* `PeerManager_proofs` has what these and the following share: lemmas on queues, and what each action of the
  network process leaves alone.
* `PickCluster_proofs`. `ClusterTypeCorrect` gives the types of the whole program. `NetworkUsed` is a
  refinement: every step of the program is a step of `NetworkManager` with its user, or a stutter. The node
  must name only ids it has been told of and start no attempt twice, which holds because what a handler has
  left to put names handles in the map (`TodoNamesKnown`), a KeyError ends the node before it puts anything,
  and main asks for each connection once (`AskedOnce`). So the theorems of `NetworkManager_proofs` hold of
  the program; `NodeIsServed` is one of them.

  `OurVersionFirst` holds whether or not attempts overlap. Its invariant `ClusterInv`
  follows our version message from `todo` over the command queue and the send queue to the wire: for every
  id to which nothing has been queued yet (`Untouched`), the first message in the command queue is the
  version message (`InOrder`, `GreetedFirst`), and the send queue of a connection nothing has been written
  to begins with it (`WrittenInOrder`). That an id is not untouched twice needs that keys are passed and never
  come again (`KeysPassed`). For `VersionsAgreeHolds` and `NothingBeforeVersion`, `HandshakeInv` says that the
  node learns a version before the network process does, and that before anything is decoded with it
  (`LearnedFirst`), and that the last command under way for an id sets the version that is agreed
  (`LastSets`). Both are for `SerialConnects`: they use `SerialInv` and `ToldOnce`, carried over by
  `NetworkUsed`, so that an id means one connection.
* `PollQueue_proofs`. `PollInvariant` proves `PollInv`, for any handlers, rates and clock. The queue is in
  order, so that looking at its last element is enough; besides, the next time of a handler is one rate
  ahead for every poll so far (`Ahead`), from which the bound on the rate follows, and that the poll loop
  ends. The lemmas on insertion stand at the beginning.
* `Link_proofs`. `StreamInvariant` proves that frames are contiguous and that the buffer starts where the
  messages delivered end; then the frame at its head can only be the next (`HeadIsNext`), and every step is a
  step of `MessageChannel` or a stutter (`StreamImplementsChannel`). A write of a send thread, whole or in
  parts, is a step any remote end may take; so a link is a `MessageStream` (`LinkIsStream`) and the theorems
  above hold of it. `SentFromQueue` says that the frames sent are those of the queue but for their flaws; with
  `StreamInv` it makes `LinkInv`, from which `LinkDeliversQueue` follows: the messages received are a prefix of
  the messages queued.
* `PingManager_proofs`. `PingInvariant` proves `PingInv`. What a handle remembers is not enough for the
  latency: that a pong with the right nonce was asked for on this connection needs to know that what a
  remote end has read was drawn (`EchoesOwn`) and that no two have read the same (`NoncesApart`). The
  lemma `PongThatCounts` then gives `LatencyIsMeasured`, with the mean between its two ends.
  `PongsEchoPings` is inductive by itself: `PongsEcho` says how many of the pings of a remote end were
  taken, and where on the wire the others are.
* `Lifecycle_proofs`. `LogIsComplete` rests on the inductive `LifecycleInv`: the records of a process lie in
  order in the file, the pipe and its buffer (`RecordsKept`); processes end one after the other, each when
  its records are written (`EndsInTurn`); so the None main puts comes behind them all (`EndMarkLast`), and
  a log server that has ended without a fault has left nothing (`ServerEndsLast`). To the log every step is
  one of six things (`LogUntouched`, `Logged`, `Closed`, `Fed`, `Wrote`, `ServerTold`), and the proof is by
  these rather than by the many actions.

* `Data_proofs` is about the pure functions, for bytes of any width and all inputs. The provers have no
  induction and know nothing of recursive functions. So the module begins with the least element of a set of
  naturals, from the library's theorem that finite sets are well-founded; with induction in terms of sets
  (`SetInduction`); and with the existence of the function that a value and a step define (`Iterated`). From
  these follow the rules of powers and of the length in bits. For targets: the count of bytes is the only one
  whose mantissa has its top bit free and its top byte in use (`ByteCountRule`, `ByteCountUnique`), a compact
  target is rounded to a multiple of the last byte kept (`RoundedRule`), and an encoding is that of its value
  but for leading zeros (`CanonicalEncoded`). `ChainConsistentHolds`: a target between a quarter of the old one
  and four times it is rounded to one in those limits (`RetargetWithin`), and what stands at the end of the
  lists does not change what is found from their start (`StandardTargetFixed`). That the subsidies have a
  limit needs `PayoutSoFar`: what has been paid, and what the rest of the current period and all after it
  will pay at most, is no more than that limit. `AddressReadHolds`: the run that is left out is the longest and
  the first of them (`LongestRule`), so that what is written with dots is known by it (`DotsRaise`,
  `Ip4Dots`), and any other is put back (`ReadBack`), unless a zone stands at its end (`ZoneRaises`).

  `MessagesRoundTripHolds`: a field that is put is got again, at any position of any buffer (`GetRule`,
  `PutRule`). An encoding is what its fields leave one after the other (`StepBytes`, `StandsInBuffer`), and
  decoding follows it field by field: after so many fields either something was raised, or the fields read are
  those meant and the position is that of the encoding, unless nothing more is looked for (`Reached`,
  `ReachedRule`). That needs to know which fields two versions differ in: what was not sent and is looked for
  comes last and is never found, and after what was sent and is not wanted nothing more is (`Orderly`). A
  message cut short is followed in the same way until the first field that is not all there (`CutRule`,
  `CutShort`). What a behaviour adds is only how far its message is (`MessageTyped`).

Assumptions are the ASSUMEs of the modules: versions are naturals with 0 among them, rates are naturals,
frames are no shorter than their header, two weeks are a multiple of four, a retarget looks back no further than
its period, and the like. TLC evaluates them in the runs.

Only model-checked: liveness (`ShutdownReturns`, `SenderLossEndsPeer`, `DisconnectHeard`, `ConnectAnswered`,
`ClusterShutdownReturns`, `BadPeerEnds`, `DeliveredOnNextChunk`, `ProgramEnds`), which under fairness is out of
the prover's reach.

## Not modelled, and why

* Incoming connections: no code accepts any (`get_server_socket` has no caller), and `handle_connect` is
  only called with `outgoing` true; the branches for the other case are left out.
* `get_net_address`, which imports a module that does not exist, and `get_target`, which calls a
  `TargetCalculator` as a function, which it is not: neither has a caller. The tables of the networks are
  constants.
* The bytes of a message header and the checksum: a header is right or has a flaw.
* The name lookup and the calls of the operating system are an outcome: they succeed, fail or raise. Errors of
  the operating system in `start()` of a process are left out; a thread that cannot be started is modelled, for
  both threads of a connection.
* A record is put once for every log handler a process has inherited; here it is one record. The rotation of
  log files, and what only prints.
* A limit of the receive buffer: the code has none.

## Plan

Done: the core (`PeerManager` to `PickCluster`), `PollQueue`, `MessageStream` and `Link`, `PingManager`,
`Lifecycle`, and the pure functions (`TargetBits`, `Chain`, `ByteArrayCodec`, `Messages`, `AddressText`).
Proved: every safety invariant, action property and refinement the passing runs check.

Next: composition, with `MessageStream` as an implementation of the receive actions of `PeerManager`.
