---------------------------- MODULE PickCluster ----------------------------
(***************************************************************************)
(* The whole program, src/pickcluter.py: the main process starts the node, *)
(* asks it to connect, and shuts it down; the node starts and uses the     *)
(* network process.                                                        *)
(***************************************************************************)
EXTENDS Node

CONSTANTS
  SerialConnects, \* TRUE: the main process waits for an attempt to be answered
                  \* before it asks for another
  MayShutdown     \* FALSE: the line the main process waits for never comes

ASSUME SerialAssumption   == SerialConnects \in BOOLEAN
ASSUME ShutdownAssumption == MayShutdown \in BOOLEAN

VARIABLES mainPc,  \* "running", "joining" in node.shutdown(), "stopped"
          asked    \* the remote ends the main process asked for

mainProcessVars == <<mainPc, asked>>
allVars         == <<vars, nodeVars, mainProcessVars>>

(* Type correctness of the three processes; in particular no connection is *)
(* ever given a version the node does not speak.                            *)
ClusterTypeOK ==
  /\ TypeOK
  /\ NodeTypeOK
  /\ mainPc \in {"running", "joining", "stopped"}
  /\ asked \subseteq Peer

ClusterInit ==
  /\ Init
  /\ NodeInit
  /\ mainPc = "running"
  /\ asked = {}

Announcing(p) == \E i \in DOMAIN infoQueue :
                   infoQueue[i].type = "CONNECTED" /\ infoQueue[i].peer = p

Answered(p) ==
  /\ thread[p] \notin {"new", "connecting"}
  /\ ~Announcing(p)

MainConnect(p) ==
  /\ mainPc = "running"
  /\ p \notin asked
  /\ SerialConnects => \A q \in asked : Answered(q)
  /\ asked' = asked \cup {p}
  /\ nodeQueue' = Append(nodeQueue, [type |-> "CONNECT", host |-> p])
  /\ UNCHANGED <<vars, nodePc, peerMap, todo, commands, history, mainPc>>

MainShutdown ==
  /\ MayShutdown
  /\ mainPc = "running"
  /\ nodeQueue' = Append(nodeQueue, [type |-> "SHUTDOWN"])
  /\ mainPc' = "joining"
  /\ UNCHANGED <<vars, nodePc, peerMap, todo, commands, history, asked>>

MainJoined ==
  /\ mainPc = "joining"
  /\ nodePc \in {"stopped", "failed"}
  /\ mainPc' = "stopped"
  /\ UNCHANGED <<vars, nodeVars, asked>>

MainStep == (\E p \in Peer : MainConnect(p)) \/ MainShutdown \/ MainJoined

ClusterNext ==
  \/ MainStep
  \/ NodeStep /\ UNCHANGED mainProcessVars
  \/ NetworkStep /\ UNCHANGED <<nodeVars, mainProcessVars>>

Spec == ClusterInit /\ [][ClusterNext]_allVars

(***************************************************************************)
(* Fairness.  Threads run when they can; what was put on a queue is        *)
(* written by a feeder thread after a finite time, so whoever looks for it *)
(* again and again finds it.                                               *)
(***************************************************************************)
Node_(A)    == A /\ UNCHANGED mainProcessVars
Network_(A) == A /\ UNCHANGED <<nodeVars, mainProcessVars>>

Fairness ==
  /\ WF_allVars(Network_(ManagerStep))
  /\ SF_allVars(Network_(HandleCommand))
  /\ \A p \in Peer : /\ WF_allVars(Network_(PeerStep(p)))
                     /\ WF_allVars(Network_(SenderStep(p)))
  /\ WF_allVars(Node_(NodeStep))
  /\ SF_allVars(Node_(NodeHandleCommand))
  /\ SF_allVars(Node_(NodeTakeEvent))
  /\ WF_allVars(MainJoined)

FairSpec == Spec /\ Fairness

-----------------------------------------------------------------------------
(***************************************************************************)
(* The node uses the network process as NetworkManager lets its users do,  *)
(* so what holds there holds here.  The second SHUTDOWN of the finally     *)
(* clause goes to a process that has ended; it is left out of the mapping. *)
(***************************************************************************)
UserPlace ==
  CASE nodePc \in {"drain", "event"}                 -> "running"
    [] nodePc \in {"joining", "raised"}             -> "joining"
    [] nodePc \in {"rejoining", "stopped", "failed"} -> "stopped"

Network ==
  INSTANCE NetworkManager WITH
    cmdQueue     <- IF nodePc \in {"rejoining", "stopped"} THEN Front(cmdQueue)
                                                          ELSE cmdQueue,
    userPc       <- UserPlace,
    known        <- [i \in DOMAIN peerMap |-> peerMap[i].host],
    CommandCount <- Nat

(* Every behaviour of the program is one of NetworkManager. *)
UsesNetworkManager == Network!Spec

(* The version a connection is decoded with is the one in the node's handle *)
(* of it, once the network process has taken the command that sets it.      *)
Settling(k) ==
  \/ \E i \in DOMAIN todo : todo[i].type = "SET_VERSION" /\ todo[i].id = k
  \/ \E i \in DOMAIN cmdQueue : cmdQueue[i].type = "SET_VERSION" /\ cmdQueue[i].id = k

VersionsAgree ==
  \A k \in DOMAIN peerMap \cap DOMAIN peers :
    ~Settling(k) => version[peers[k]] = peerMap[k].version

(* Before a version is agreed, the node hears nothing but version messages  *)
(* of a peer.                                                               *)
VersionHeardFirst ==
  \A i \in DOMAIN outQueue :
    /\ outQueue[i].type = "MSG_RECEIVED"
    /\ outQueue[i].id \in DOMAIN peerMap
    => outQueue[i].msg.kind = "version" \/ peerMap[outQueue[i].id].version # 0

(* The first message a remote end reads is our version message, although    *)
(* pings are sent to every peer in the map at any time.                     *)
VersionSentFirst ==
  \A p \in Peer : wire[p] # <<>> => wire[p][1].kind = "version"

-----------------------------------------------------------------------------
(***************************************************************************)
(* The inductive strengthening of these properties.                        *)
(***************************************************************************)
Connects(queue, p) ==
  \E i \in DOMAIN queue : queue[i].type = "CONNECT" /\ queue[i].host = p

ConnectsOnce(queue) ==
  \A i, j \in DOMAIN queue :
    /\ queue[i].type = "CONNECT" /\ queue[j].type = "CONNECT"
    /\ queue[i].host = queue[j].host
    => i = j

Requested(p) == Connects(nodeQueue, p)
Ordered(p)   == Connects(cmdQueue, p)

(* An attempt that has neither been registered nor failed. *)
Underway(p) ==
  Requested(p) \/ Ordered(p) \/ thread[p] = "connecting" \/ Announcing(p)

(* A remote end is asked for once, and its attempt is in one place only. *)
AskedOnce ==
  /\ \A p \in Peer : p \notin asked => thread[p] = "new"
  /\ \A p \in Peer : Announcing(p) => thread[p] \notin {"new", "connecting"}
  /\ \A p \in Peer : Requested(p) => p \in asked /\ thread[p] = "new" /\ ~Ordered(p)
  /\ \A p \in Peer : Ordered(p) => p \in asked /\ thread[p] = "new"
  /\ ConnectsOnce(nodeQueue) /\ ConnectsOnce(cmdQueue)

OneUnderway ==
  SerialConnects => \A p, q \in Peer : Underway(p) /\ Underway(q) => p = q

(* What a handler has yet to put names peers of the map, and it is put      *)
(* before the node does anything else.                                      *)
TodoNamesKnown ==
  /\ IsFiniteSet(DOMAIN peerMap)
  /\ todo # <<>> => nodePc \in {"drain", "event"}
  /\ \A i \in DOMAIN todo :
       /\ todo[i].type \in {"SEND_MESSAGE", "SET_VERSION", "DISCONNECT"}
       /\ todo[i].id \in DOMAIN peerMap
       /\ todo[i].type = "SEND_MESSAGE" => todo[i].msg.peer = peerMap[todo[i].id].host

(* The node is past a join() only once the network process has ended. *)
JoinsEnded == nodePc \in {"rejoining", "stopped", "failed"} => pc = "exited"

(* The keys of the dict are numbers the counter has passed. *)
KeysPassed == \A k \in DOMAIN peers : k < peerIdCounter

(* The ids nothing has been sent to: the network process has not given them *)
(* yet, or the send thread of the connection has had nothing to write.      *)
Unsent(p) == sender[p] # "done" /\ sendQueue[p] = <<>> /\ wire[p] = <<>>

Untouched ==
  {k \in Nat : k >= peerIdCounter \/ (k \in DOMAIN peers /\ Unsent(peers[k]))}

Greets(cmd, k) ==
  cmd.type = "SEND_MESSAGE" /\ cmd.id = k /\ cmd.msg.kind = "version"

Greeted(queue, k, n) == \E j \in 1..n : Greets(queue[j], k)

(* Of what is on a command queue, and of what is to be put there, our       *)
(* version message is the first for each of these ids.                      *)
InOrder(queue, rest, ids, untouched) ==
  /\ \A i \in DOMAIN queue :
       queue[i].type = "SEND_MESSAGE" /\ queue[i].id \in untouched
         => Greets(queue[i], queue[i].id) \/ Greeted(queue, queue[i].id, i - 1)
  /\ \A i \in DOMAIN rest :
       rest[i].type = "SEND_MESSAGE" /\ rest[i].id \in untouched
         => Greets(rest[i], rest[i].id) \/ Greeted(queue, rest[i].id, Len(queue))
  /\ \A k \in ids \cap untouched :
       Greeted(queue, k, Len(queue)) \/ \E i \in DOMAIN rest : Greets(rest[i], k)

(* Our version message is on its way to every peer of the map that has not  *)
(* been sent it, ahead of any other message.                                *)
GreetedFirst ==
  pc \in {"drain", "info"} => InOrder(cmdQueue, todo, DOMAIN peerMap, Untouched)

WrittenInOrder ==
  \A p \in Peer :
    /\ thread[p] \in {"new", "connecting", "announced"} => sender[p] = "none"
    /\ wire[p] = <<>> /\ sendQueue[p] # <<>> /\ sender[p] # "done"
         => sendQueue[p][1].kind = "version"

(* It holds whether or not attempts overlap. *)
ClusterInv ==
  /\ ClusterTypeOK
  /\ AskedOnce
  /\ OneUnderway
  /\ TodoNamesKnown
  /\ JoinsEnded
  /\ KeysPassed
  /\ GreetedFirst
  /\ WrittenInOrder
  /\ VersionSentFirst

(* The ids with which nothing but version messages need be expected any     *)
(* more: a version is agreed, or the connection has been reported as ended. *)
Learned == ended \cup {k \in DOMAIN peerMap : peerMap[k].version # 0}

SetsVersion(cmd, k) == cmd.type = "SET_VERSION" /\ cmd.id = k

(* The node knows the version of a connection before the network process    *)
(* does, and the network process before anything is decoded with it.        *)
LearnedFirst ==
  /\ ended \cap DOMAIN peerMap = {}
  /\ \A cmd \in Range(cmdQueue) \cup Range(todo) :
       cmd.type = "SET_VERSION" =>
         /\ cmd.id \in DOMAIN peerMap \cup ended
         /\ cmd.version # 0 => cmd.id \in Learned
  /\ \A p \in Peer :
       version[p] # 0 => thread[p] \notin {"new", "connecting"} /\ peerId[p] \in Learned
  /\ \A info \in Range(infoQueue) :
       info.type = "MSG_RECEIVED" /\ info.msg.kind # "version"
         => peerId[info.peer] \in Learned
  /\ \A event \in Range(outQueue) :
       event.type = "MSG_RECEIVED" /\ event.msg.kind # "version"
         => event.id \in Learned

(* Of the commands that set the version of a peer, the last sets the one    *)
(* that is agreed.                                                          *)
Agreed == [k \in DOMAIN peerMap |-> peerMap[k].version]

LastSets(queue, rest, agreed) ==
  /\ \A i \in DOMAIN queue :
       queue[i].type = "SET_VERSION" /\ queue[i].id \in DOMAIN agreed =>
         \/ queue[i].version = agreed[queue[i].id]
         \/ \E j \in DOMAIN queue : j > i /\ SetsVersion(queue[j], queue[i].id)
         \/ \E j \in DOMAIN rest : SetsVersion(rest[j], queue[i].id)
  /\ \A i \in DOMAIN rest :
       rest[i].type = "SET_VERSION" =>
         rest[i].id \in DOMAIN agreed /\ rest[i].version = agreed[rest[i].id]

(* It holds while attempts do not overlap. *)
HandshakeInv ==
  /\ LearnedFirst
  /\ LastSets(cmdQueue, todo, Agreed)
  /\ VersionsAgree
  /\ VersionHeardFirst

(* A peer that has used up its tolerance is disconnected. *)
BadPeerEnds ==
  \A id \in 1..Cardinality(Peer) :
    id \in DOMAIN peerMap /\ peerMap[id].tolerance <= 0
      ~> \/ id \notin DOMAIN peerMap
         \/ pc = "exited"
         \/ mainPc # "running"

(* node.shutdown() returns to the main process, even if the network process *)
(* has died before; unless the network process cannot end because the node, *)
(* which joins it, no longer takes its events, or nobody takes what was     *)
(* logged.                                                                  *)
Jammed == nodePc \in {"joining", "raised"} /\ pc = "exiting" /\ ~Flushed

ClusterShutdownReturns == mainPc = "joining" ~> mainPc = "stopped" \/ Jammed
=============================================================================
