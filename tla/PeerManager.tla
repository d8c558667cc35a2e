---------------------------- MODULE PeerManager ----------------------------
(***************************************************************************)
(* The network process of PickCluster, src/network/network.py.             *)
(*                                                                         *)
(* PeerManager is a process whose main thread alternates between two       *)
(* queues: it drains the commands the node process put on the inter-       *)
(* process command queue, then takes at most one notice from the           *)
(* in-process queue its peer threads write to, and forwards it to the      *)
(* node.  Every connection attempt has a Peer thread of its own, which     *)
(* connects, reads and decodes; a Peer thread that connected owns a        *)
(* PeerSendThread, which writes.  This module holds the actions of these   *)
(* three kinds of threads; the modules that use it add the other end of    *)
(* the two inter-process queues.                                           *)
(*                                                                         *)
(* A Peer object is named by the connection attempt it serves, so Peer     *)
(* also stands for what the program can tell attempts apart by: the host   *)
(* and port.  Names that end in _Mutant are faulty variants of the         *)
(* definition that follows them; no specification uses them.               *)
(***************************************************************************)
EXTENDS Naturals, Sequences, Functions

CONSTANTS Peer,       \* the Peer objects, one per connection attempt
          Kind,       \* the commands of bitcoin messages, e.g. "version"
          Version,    \* protocol versions, 0 before the handshake
          PipeSize,   \* how many events the pipe of the out queue holds
          LogWritten, \* FALSE: the log server is gone and its pipe is full
          MaxReceived \* bound: messages decoded on one connection

ASSUME KindAssumption    == "version" \in Kind
ASSUME VersionAssumption == Version \subseteq Nat /\ 0 \in Version
ASSUME PipeAssumption    == PipeSize \in Nat /\ LogWritten \in BOOLEAN
ASSUME BoundAssumption   == MaxReceived \in Nat

(***************************************************************************)
(* A message is abstracted to its kind and to the remote end it belongs    *)
(* to: the one it is meant for, or the one that wrote it.                  *)
(***************************************************************************)
Message == [kind : Kind, peer : Peer]

Command ==
  [type : {"CONNECT"}, host : Peer]
    \cup [type : {"DISCONNECT"}, id : Nat]
    \cup [type : {"SEND_MESSAGE"}, id : Nat, msg : Message]
    \cup [type : {"SET_VERSION"}, id : Nat, version : Version]
    \cup [type : {"SHUTDOWN"}]

Info ==
  [type : {"CONNECTED", "DISCONNECTED", "CONNECT_FAILED"}, peer : Peer]
    \cup [type : {"MSG_RECEIVED"}, peer : Peer, msg : Message]

Event ==
  [type : {"CONNECTED", "DISCONNECTED", "CONNECT_FAILED"}, id : Nat, host : Peer]
    \cup [type : {"MSG_RECEIVED"}, id : Nat, msg : Message]

VARIABLES
  (* the two inter-process queues *)
  cmdQueue,       \* mp_in_queue: commands on their way to the manager
  outQueue,       \* mp_out_queue: events on their way to the node
  (* the main thread of the process, PeerManager._execute *)
  pc,             \* where the main thread is
  cause,          \* what ended the main loop
  peers,          \* __peers, a dict from ids to Peer objects
  peerIdCounter,  \* peer_id_counter
  infoQueue,      \* __info_queue: notices of the peer threads
  (* the fields of a Peer object and the state of its thread *)
  thread,         \* where the thread is
  peerId,         \* __id, given by the constructor
  interrupted,    \* __interrupted
  version,        \* __version, what incoming messages are decoded with
  received,       \* how many messages the thread has decoded
  (* its PeerSendThread *)
  sender,         \* where the send thread is, "none" before it exists
  sendStop,       \* its __interrupted
  sendQueue,      \* __send_queue
  wire            \* what it wrote to the socket

mainVars   == <<pc, cause, peers, peerIdCounter>>
threadVars == <<thread, peerId, interrupted, version, received>>
senderVars == <<sender, sendStop, sendQueue, wire>>
vars       == <<cmdQueue, outQueue, mainVars, infoQueue, threadVars, senderVars>>

(***************************************************************************)
(* Places of the threads.                                                  *)
(*   pc: "drain" in the inner loop over the commands, "info" at the get    *)
(*   on __info_queue, "exiting" after the finally clause, while the        *)
(*   process waits for what it has put to be written, "exited" once the    *)
(*   process, and every thread in it, is gone.                             *)
(*   thread: "new" not created; "connecting" in get_client_socket;         *)
(*   "announced" after _add_peer; "test" at the test of __interrupted;     *)
(*   "recv" past it; "closing" in the finally clause; "joining" at         *)
(*   peer_send_thread.join(); "closed" after _remove_peer; "failed" after  *)
(*   _connect_failed; "vanished" after an exception before _add_peer, in   *)
(*   the thread or in starting it.                                         *)
(*   sender: "test", "get", "done" likewise; "unstarted" if it was         *)
(*   constructed but the operating system refused to start it.             *)
(***************************************************************************)
ManagerPlace == {"drain", "info", "exiting", "exited"}
Cause        == {"none", "shutdown", "AttributeError", "KeyError", "ThreadError"}
ThreadPlace  == {"new", "connecting", "announced", "test", "recv", "closing",
                 "joining", "closed", "failed", "vanished"}
SenderPlace  == {"none", "unstarted", "test", "get", "done"}

TypeOK ==
  /\ cmdQueue \in Seq(Command)
  /\ outQueue \in Seq(Event)
  /\ pc \in ManagerPlace
  /\ cause \in Cause
  /\ DOMAIN peers \subseteq Nat
  /\ peers \in [DOMAIN peers -> Peer]
  /\ peerIdCounter \in Nat
  /\ infoQueue \in Seq(Info)
  /\ thread \in [Peer -> ThreadPlace]
  /\ peerId \in [Peer -> Nat]
  /\ interrupted \in [Peer -> BOOLEAN]
  /\ version \in [Peer -> Version]
  /\ received \in [Peer -> 0..MaxReceived]
  /\ sender \in [Peer -> SenderPlace]
  /\ sendStop \in [Peer -> BOOLEAN]
  /\ sendQueue \in [Peer -> Seq(Message)]
  /\ wire \in [Peer -> Seq(Message)]

Init ==
  /\ cmdQueue = <<>>
  /\ outQueue = <<>>
  /\ pc = "drain"
  /\ cause = "none"
  /\ peers = [i \in {} |-> i]
  /\ peerIdCounter = 1
  /\ infoQueue = <<>>
  /\ thread = [p \in Peer |-> "new"]
  /\ peerId = [p \in Peer |-> 0]
  /\ interrupted = [p \in Peer |-> FALSE]
  /\ version = [p \in Peer |-> 0]
  /\ received = [p \in Peer |-> 0]
  /\ sender = [p \in Peer |-> "none"]
  /\ sendStop = [p \in Peer |-> FALSE]
  /\ sendQueue = [p \in Peer |-> <<>>]
  /\ wire = [p \in Peer |-> <<>>]

-----------------------------------------------------------------------------
(***************************************************************************)
(* The inner loop: commands from the node.                                 *)
(***************************************************************************)
TakeCommand(type) ==
  /\ pc = "drain"
  /\ cmdQueue # <<>>
  /\ Head(cmdQueue).type = type
  /\ cmdQueue' = Tail(cmdQueue)

(***************************************************************************)
(* Leaving the main loop, by return or by an exception that _execute does  *)
(* not catch: the finally clause interrupts the peers in the dict.         *)
(***************************************************************************)
LeaveMainLoop(why) ==
  /\ pc' = "exiting"
  /\ cause' = why
  /\ interrupted' = [p \in Peer |-> interrupted[p] \/ p \in Range(peers)]

(* CMD_CONNECT: the new Peer gets the current value of the counter, which  *)
(* moves on only when a connection is registered.                          *)
CommandConnect_Mutant ==
  /\ TakeCommand("CONNECT")
  /\ LET p == Head(cmdQueue).host
     IN  /\ thread' = [thread EXCEPT ![p] = "connecting"]
         /\ peerId' = [peerId EXCEPT ![p] = peerIdCounter]
  /\ peerIdCounter' = peerIdCounter + 1
  /\ UNCHANGED <<outQueue, pc, cause, peers, infoQueue, interrupted, version,
                 received, senderVars>>

CommandConnect ==
  /\ TakeCommand("CONNECT")
  /\ LET p == Head(cmdQueue).host
     IN  /\ thread' = [thread EXCEPT ![p] = "connecting"]
         /\ peerId' = [peerId EXCEPT ![p] = peerIdCounter]
  /\ UNCHANGED <<outQueue, mainVars, infoQueue, interrupted, version, received,
                 senderVars>>

(* start() raises when the operating system gives no thread, and with it    *)
(* the main loop ends.                                                      *)
CommandConnectRaises ==
  /\ TakeCommand("CONNECT")
  /\ thread' = [thread EXCEPT ![Head(cmdQueue).host] = "vanished"]
  /\ LeaveMainLoop("ThreadError")
  /\ UNCHANGED <<outQueue, peers, peerIdCounter, infoQueue, peerId, version,
                 received, senderVars>>

CommandDisconnect_Mutant ==
  /\ TakeCommand("DISCONNECT")
  /\ UNCHANGED <<outQueue, mainVars, infoQueue, threadVars, senderVars>>

CommandDisconnect ==
  /\ TakeCommand("DISCONNECT")
  /\ LET id == Head(cmdQueue).id
     IN  interrupted' = [p \in Peer |->
           \/ interrupted[p]
           \/ id \in DOMAIN peers /\ peers[id] = p]
  /\ UNCHANGED <<outQueue, mainVars, infoQueue, thread, peerId, version,
                 received, senderVars>>

(* CMD_SEND_MESSAGE queues the message at the peer's send thread.  Neither  *)
(* an id that is not in the dict nor a peer whose send thread is not        *)
(* constructed yet is tested for: both end the process.                     *)
CanSend(id) ==
  id \in DOMAIN peers /\ sender[peers[id]] # "none"

CommandSendMessage ==
  /\ TakeCommand("SEND_MESSAGE")
  /\ LET cmd == Head(cmdQueue)
     IN  \/ /\ CanSend(cmd.id)
            /\ sendQueue' = [sendQueue EXCEPT ![peers[cmd.id]] = Append(@, cmd.msg)]
            /\ UNCHANGED <<pc, cause, interrupted>>
         \/ /\ ~CanSend(cmd.id)
            /\ LeaveMainLoop("AttributeError")
            /\ UNCHANGED sendQueue
  /\ UNCHANGED <<outQueue, peers, peerIdCounter, infoQueue, thread, peerId,
                 version, received, sender, sendStop, wire>>

CommandSetVersion ==
  /\ TakeCommand("SET_VERSION")
  /\ LET cmd == Head(cmdQueue)
     IN  version' = [p \in Peer |->
           IF cmd.id \in DOMAIN peers /\ peers[cmd.id] = p
             THEN cmd.version ELSE version[p]]
  /\ UNCHANGED <<outQueue, mainVars, infoQueue, thread, peerId, interrupted,
                 received, senderVars>>

CommandShutdown_Mutant ==
  /\ TakeCommand("SHUTDOWN")
  /\ pc' = "info"
  /\ UNCHANGED <<outQueue, cause, peers, peerIdCounter, infoQueue, threadVars,
                 senderVars>>

CommandShutdown ==
  /\ TakeCommand("SHUTDOWN")
  /\ LeaveMainLoop("shutdown")
  /\ UNCHANGED <<outQueue, peers, peerIdCounter, infoQueue, thread, peerId,
                 version, received, senderVars>>

HandleCommand ==
  \/ CommandConnect
  \/ CommandConnectRaises
  \/ CommandDisconnect
  \/ CommandSendMessage
  \/ CommandSetVersion
  \/ CommandShutdown

(* The non-blocking get finds nothing: the queue is empty, or the feeder    *)
(* thread of the process that put a command has not written it yet.         *)
NoCommand ==
  /\ pc = "drain"
  /\ pc' = "info"
  /\ UNCHANGED <<cmdQueue, outQueue, cause, peers, peerIdCounter, infoQueue,
                 threadVars, senderVars>>

-----------------------------------------------------------------------------
(***************************************************************************)
(* One notice of a peer thread, forwarded to the node.                     *)
(***************************************************************************)
TakeInfo(type) ==
  /\ pc = "info"
  /\ infoQueue # <<>>
  /\ Head(infoQueue).type = type
  /\ infoQueue' = Tail(infoQueue)

Forward(type, p) ==
  outQueue' = Append(outQueue, [type |-> type, id |-> peerId[p], host |-> p])

(* INFO_CONNECTED: the dict key is the counter at this moment, while the   *)
(* event carries the id the Peer was constructed with.                     *)
NextPeerId_Mutant(id) == id

NextPeerId(id) == id + 1

InfoConnected ==
  /\ TakeInfo("CONNECTED")
  /\ LET p == Head(infoQueue).peer
     IN  /\ peers' = [i \in DOMAIN peers \cup {peerIdCounter} |->
                        IF i = peerIdCounter THEN p ELSE peers[i]]
         /\ Forward("CONNECTED", p)
  /\ peerIdCounter' = NextPeerId(peerIdCounter)
  /\ pc' = "drain"
  /\ UNCHANGED <<cmdQueue, cause, threadVars, senderVars>>

(* INFO_DISCONNECTED deletes by the id the Peer was constructed with; an    *)
(* absent key ends the process before the event is forwarded.               *)
InfoDisconnected_Mutant ==
  /\ TakeInfo("DISCONNECTED")
  /\ LET p == Head(infoQueue).peer
     IN  /\ peers' = [peers EXCEPT ![peerId[p]] = "None"]
         /\ Forward("DISCONNECTED", p)
  /\ pc' = "drain"
  /\ UNCHANGED <<cmdQueue, cause, peerIdCounter, threadVars, senderVars>>

InfoDisconnected ==
  /\ TakeInfo("DISCONNECTED")
  /\ LET p == Head(infoQueue).peer
     IN  \/ /\ peerId[p] \in DOMAIN peers
            /\ peers' = Restrict(peers, DOMAIN peers \ {peerId[p]})
            /\ Forward("DISCONNECTED", p)
            /\ pc' = "drain"
            /\ UNCHANGED <<cause, interrupted>>
         \/ /\ peerId[p] \notin DOMAIN peers
            /\ LeaveMainLoop("KeyError")
            /\ UNCHANGED <<peers, outQueue>>
  /\ UNCHANGED <<cmdQueue, peerIdCounter, thread, peerId, version, received,
                 senderVars>>

InfoConnectFailed ==
  /\ TakeInfo("CONNECT_FAILED")
  /\ Forward("CONNECT_FAILED", Head(infoQueue).peer)
  /\ pc' = "drain"
  /\ UNCHANGED <<cmdQueue, cause, peers, peerIdCounter, threadVars, senderVars>>

InfoMsgReceived ==
  /\ TakeInfo("MSG_RECEIVED")
  /\ LET info == Head(infoQueue)
     IN  outQueue' = Append(outQueue,
           [type |-> "MSG_RECEIVED", id |-> peerId[info.peer], msg |-> info.msg])
  /\ pc' = "drain"
  /\ UNCHANGED <<cmdQueue, cause, peers, peerIdCounter, threadVars, senderVars>>

HandleInfo ==
  \/ InfoConnected
  \/ InfoDisconnected
  \/ InfoConnectFailed
  \/ InfoMsgReceived

(* __info_queue.get(True, 0.25) raises Queue.Empty. *)
InfoTimeout ==
  /\ pc = "info"
  /\ infoQueue = <<>>
  /\ pc' = "drain"
  /\ UNCHANGED <<cmdQueue, outQueue, cause, peers, peerIdCounter, infoQueue,
                 threadVars, senderVars>>

(* The process ends.  A forked child does not wait for its threads, but for *)
(* the feeder threads of the queues its parent made: what it has put on the *)
(* out queue must fit in the pipe, and what it has logged must be written.  *)
Flushed == Len(outQueue) <= PipeSize /\ LogWritten

ProcessExit ==
  /\ pc = "exiting"
  /\ Flushed
  /\ pc' = "exited"
  /\ UNCHANGED <<cmdQueue, outQueue, cause, peers, peerIdCounter, infoQueue,
                 threadVars, senderVars>>

ManagerStep == HandleCommand \/ NoCommand \/ HandleInfo \/ InfoTimeout \/ ProcessExit

-----------------------------------------------------------------------------
(***************************************************************************)
(* The Peer thread.                                                        *)
(***************************************************************************)
At(p, place) == pc # "exited" /\ thread[p] = place

Goto(p, place) == thread' = [thread EXCEPT ![p] = place]

Notify(type, p) == infoQueue' = Append(infoQueue, [type |-> type, peer |-> p])

ConnectOk(p) ==
  /\ At(p, "connecting")
  /\ Notify("CONNECTED", p)
  /\ Goto(p, "announced")
  /\ UNCHANGED <<cmdQueue, outQueue, mainVars, peerId, interrupted, version,
                 received, senderVars>>

ConnectFail_Mutant(p) ==
  /\ At(p, "connecting")
  /\ Goto(p, "failed")
  /\ UNCHANGED <<cmdQueue, outQueue, mainVars, infoQueue, peerId, interrupted,
                 version, received, senderVars>>

ConnectFail(p) ==
  /\ At(p, "connecting")
  /\ Notify("CONNECT_FAILED", p)
  /\ Goto(p, "failed")
  /\ UNCHANGED <<cmdQueue, outQueue, mainVars, peerId, interrupted, version,
                 received, senderVars>>

(* getaddrinfo, getpeername or convert_ip raises (a host without an         *)
(* address, a remote end that has already gone, an address convert_ip       *)
(* cannot parse): the thread ends and nobody is told.                       *)
PeerNameError(p) ==
  /\ At(p, "connecting")
  /\ Goto(p, "vanished")
  /\ UNCHANGED <<cmdQueue, outQueue, mainVars, infoQueue, peerId, interrupted,
                 version, received, senderVars>>

(* The send thread is constructed and started after the connection has been *)
(* announced; start() may fail for lack of resources.                       *)
StartSender(p) ==
  /\ At(p, "announced")
  /\ \/ /\ sender' = [sender EXCEPT ![p] = "test"]
        /\ Goto(p, "test")
     \/ /\ sender' = [sender EXCEPT ![p] = "unstarted"]
        /\ Goto(p, "closing")
  /\ UNCHANGED <<cmdQueue, outQueue, mainVars, infoQueue, peerId, interrupted,
                 version, received, sendStop, sendQueue, wire>>

TestInterrupted(p) ==
  /\ At(p, "test")
  /\ Goto(p, IF interrupted[p] THEN "closing" ELSE "recv")
  /\ UNCHANGED <<cmdQueue, outQueue, mainVars, infoQueue, peerId, interrupted,
                 version, received, senderVars>>

(* A message is decoded and passed on.  With version 0 only a version       *)
(* message leaves the buffer.                                               *)
Decodable_Mutant(p, kind) == kind \in Kind

Decodable(p, kind) == version[p] = 0 => kind = "version"

RecvMessage(p) ==
  /\ At(p, "recv")
  /\ received[p] < MaxReceived
  /\ \E kind \in Kind :
       /\ Decodable(p, kind)
       /\ infoQueue' = Append(infoQueue,
            [type |-> "MSG_RECEIVED", peer |-> p, msg |-> [kind |-> kind, peer |-> p]])
  /\ received' = [received EXCEPT ![p] = @ + 1]
  /\ Goto(p, "test")
  /\ UNCHANGED <<cmdQueue, outQueue, mainVars, peerId, interrupted, version,
                 senderVars>>

(* recv times out after 0.25 s, or what has arrived is not a whole message. *)
RecvNothing(p) ==
  /\ At(p, "recv")
  /\ Goto(p, "test")
  /\ UNCHANGED <<cmdQueue, outQueue, mainVars, infoQueue, peerId, interrupted,
                 version, received, senderVars>>

(* End of file, a socket error, or bytes that raise DecodeError. *)
RecvEnd(p) ==
  /\ At(p, "recv")
  /\ Goto(p, "closing")
  /\ UNCHANGED <<cmdQueue, outQueue, mainVars, infoQueue, peerId, interrupted,
                 version, received, senderVars>>

(* The finally clause: shut the socket down, stop the send thread ... *)
CloseSocket(p) ==
  /\ At(p, "closing")
  /\ sendStop' = [sendStop EXCEPT ![p] = TRUE]
  /\ Goto(p, "joining")
  /\ UNCHANGED <<cmdQueue, outQueue, mainVars, infoQueue, peerId, interrupted,
                 version, received, sender, sendQueue, wire>>

(* ... wait for it, and report.  Joining a thread that never started raises *)
(* instead of waiting; the outer finally clause reports all the same.       *)
SenderFinished_Mutant(p) == sender[p] \in SenderPlace

SenderFinished(p) == sender[p] \in {"done", "unstarted"}

RemovePeer(p) ==
  /\ At(p, "joining")
  /\ SenderFinished(p)
  /\ Notify("DISCONNECTED", p)
  /\ Goto(p, "closed")
  /\ UNCHANGED <<cmdQueue, outQueue, mainVars, peerId, interrupted, version,
                 received, senderVars>>

PeerStep(p) ==
  \/ ConnectOk(p)
  \/ ConnectFail(p)
  \/ PeerNameError(p)
  \/ StartSender(p)
  \/ TestInterrupted(p)
  \/ RecvMessage(p)
  \/ RecvNothing(p)
  \/ RecvEnd(p)
  \/ CloseSocket(p)
  \/ RemovePeer(p)

-----------------------------------------------------------------------------
(***************************************************************************)
(* The PeerSendThread.  Whatever ends it interrupts the Peer it belongs to.*)
(***************************************************************************)
SenderAt(p, place) == pc # "exited" /\ sender[p] = place

EndSender_Mutant(p) ==
  /\ sender' = [sender EXCEPT ![p] = "done"]
  /\ UNCHANGED interrupted

EndSender(p) ==
  /\ sender' = [sender EXCEPT ![p] = "done"]
  /\ interrupted' = [interrupted EXCEPT ![p] = TRUE]

SenderTest(p) ==
  /\ SenderAt(p, "test")
  /\ \/ /\ sendStop[p]
        /\ EndSender(p)
     \/ /\ ~sendStop[p]
        /\ sender' = [sender EXCEPT ![p] = "get"]
        /\ UNCHANGED interrupted
  /\ UNCHANGED <<cmdQueue, outQueue, mainVars, infoQueue, thread, peerId,
                 version, received, sendStop, sendQueue, wire>>

SenderTimeout(p) ==
  /\ SenderAt(p, "get")
  /\ sendQueue[p] = <<>>
  /\ sender' = [sender EXCEPT ![p] = "test"]
  /\ UNCHANGED <<cmdQueue, outQueue, mainVars, infoQueue, threadVars, sendStop,
                 sendQueue, wire>>

(* A message is encoded and written, or encoding or writing it raises;      *)
(* once the Peer thread has shut the socket down writing always raises.     *)
SenderWrite(p) ==
  /\ SenderAt(p, "get")
  /\ sendQueue[p] # <<>>
  /\ sendQueue' = [sendQueue EXCEPT ![p] = Tail(@)]
  /\ \/ /\ ~sendStop[p]
        /\ wire' = [wire EXCEPT ![p] = Append(@, Head(sendQueue[p]))]
        /\ sender' = [sender EXCEPT ![p] = "test"]
        /\ UNCHANGED interrupted
     \/ /\ EndSender(p)
        /\ UNCHANGED wire
  /\ UNCHANGED <<cmdQueue, outQueue, mainVars, infoQueue, thread, peerId,
                 version, received, sendStop>>

SenderStep(p) == SenderTest(p) \/ SenderTimeout(p) \/ SenderWrite(p)

NetworkStep == ManagerStep \/ \E p \in Peer : PeerStep(p) \/ SenderStep(p)
=============================================================================
