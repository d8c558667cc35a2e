------------------------------- MODULE Node --------------------------------
(***************************************************************************)
(* The node process of PickCluster, src/bitcoin/node.py, on top of the     *)
(* network process it starts.                                              *)
(*                                                                         *)
(* Its one thread drains the commands of the main process, polls the       *)
(* handlers that are due, and takes at most one event of the network       *)
(* process, round after round.  What it tells the network process goes     *)
(* through a queue, one put after the other: a handler that puts several   *)
(* commands leaves them in todo, and nothing else happens in the node      *)
(* until they are put.                                                     *)
(***************************************************************************)
EXTENDS PeerManager, SequencesExt

CONSTANTS PROTOCOL_VERSION, \* the highest version the node speaks
          NonceVersion,     \* 60000: pings are answered in later versions
          ClaimedVersion,   \* the versions remote ends claim
          MaxPolled         \* bound: handlers are polled up to this many commands

ASSUME ProtocolAssumption == PROTOCOL_VERSION \in Version \ {0}
ASSUME ClaimedAssumption  ==
  /\ ClaimedVersion \subseteq Nat
  /\ \A v \in ClaimedVersion : v < PROTOCOL_VERSION => v \in Version
ASSUME PolledAssumption   == MaxPolled \in Nat

(* What the node sends. *)
NodeKind == {"version", "verack", "ping", "pong"}

ASSUME NodeKindAssumption == NodeKind \subseteq Kind

VARIABLES
  nodePc,     \* where the node's thread is
  nodeQueue,  \* mp_in_queue of the node: commands of the main process
  peerMap,    \* __peer_map, from ids to PeerHandles
  todo,       \* commands the running handler has yet to put
  commands,   \* how many commands that name an id were put, for the bound
  (* history *)
  ended,      \* ids reported as disconnected
  refused,    \* remote ends reported as not reachable
  heard       \* remote ends whose messages were delivered

history  == <<ended, refused, heard>>
nodeVars == <<nodePc, nodeQueue, peerMap, todo, commands, history>>

(* "drain" and "event" are the two gets of the main loop; "joining" is     *)
(* the join() in shutdown(), "rejoining" the one in the finally clause after *)
(* it; "raised" is that join() after an exception.                          *)
NodePlace == {"drain", "event", "joining", "rejoining", "raised",
              "stopped", "failed"}

NodeCommand == [type : {"CONNECT"}, host : Peer] \cup [type : {"SHUTDOWN"}]

(* What the node knows of a connection; misbehaviour uses up the tolerance. *)
PeerHandle == [host : Peer, version : Version, tolerance : Int]

NodeTypeOK ==
  /\ nodePc \in NodePlace
  /\ nodeQueue \in Seq(NodeCommand)
  /\ DOMAIN peerMap \subseteq Nat
  /\ peerMap \in [DOMAIN peerMap -> PeerHandle]
  /\ todo \in Seq(Command)
  /\ commands \in Nat
  /\ ended \subseteq Nat
  /\ refused \subseteq Peer
  /\ heard \subseteq Peer

NodeInit ==
  /\ nodePc = "drain"
  /\ nodeQueue = <<>>
  /\ peerMap = [i \in {} |-> i]
  /\ todo = <<>>
  /\ commands = 0
  /\ ended = {}
  /\ refused = {}
  /\ heard = {}

-----------------------------------------------------------------------------
(***************************************************************************)
(* Commands to the network process.                                        *)
(***************************************************************************)
Put(cmd) == cmdQueue' = Append(cmdQueue, cmd)

SendMessage(id, kind) ==
  [type |-> "SEND_MESSAGE", id |-> id,
   msg |-> [kind |-> kind, peer |-> peerMap[id].host]]

NodeAt(place) == nodePc = place /\ todo = <<>>

NetworkUnchanged == UNCHANGED <<mainVars, infoQueue, threadVars, senderVars>>

NodePut ==
  /\ todo # <<>>
  /\ Put(Head(todo))
  /\ todo' = Tail(todo)
  /\ commands' = commands + 1
  /\ UNCHANGED <<outQueue, nodePc, nodeQueue, peerMap, history>>
  /\ NetworkUnchanged

-----------------------------------------------------------------------------
(***************************************************************************)
(* Commands of the main process.                                           *)
(***************************************************************************)
NodeConnect ==
  /\ NodeAt("drain")
  /\ nodeQueue # <<>>
  /\ Head(nodeQueue).type = "CONNECT"
  /\ nodeQueue' = Tail(nodeQueue)
  /\ Put([type |-> "CONNECT", host |-> Head(nodeQueue).host])
  /\ UNCHANGED <<outQueue, nodePc, peerMap, todo, commands, history>>
  /\ NetworkUnchanged

(* shutdown() of the network process: put and join, and then return ... *)
NodeShutdown_Mutant ==
  /\ NodeAt("drain")
  /\ nodeQueue # <<>>
  /\ Head(nodeQueue).type = "SHUTDOWN"
  /\ nodeQueue' = Tail(nodeQueue)
  /\ nodePc' = "joining"
  /\ UNCHANGED <<cmdQueue, outQueue, peerMap, todo, commands, history>>
  /\ NetworkUnchanged

NodeShutdown ==
  /\ NodeAt("drain")
  /\ nodeQueue # <<>>
  /\ Head(nodeQueue).type = "SHUTDOWN"
  /\ nodeQueue' = Tail(nodeQueue)
  /\ Put([type |-> "SHUTDOWN"])
  /\ nodePc' = "joining"
  /\ UNCHANGED <<outQueue, peerMap, todo, commands, history>>
  /\ NetworkUnchanged

(* ... through the finally clause, which calls shutdown() once more. *)
NodeJoined ==
  /\ nodePc = "joining"
  /\ pc = "exited"
  /\ Put([type |-> "SHUTDOWN"])
  /\ nodePc' = "rejoining"
  /\ UNCHANGED <<outQueue, nodeQueue, peerMap, todo, commands, history>>
  /\ NetworkUnchanged

(* The node has put nothing on its own out queue but the start code, which  *)
(* start() has taken; what it has logged must be written.                   *)
NodeExit ==
  /\ pc = "exited"
  /\ LogWritten
  /\ \/ nodePc = "rejoining" /\ nodePc' = "stopped"
     \/ nodePc = "raised" /\ nodePc' = "failed"
  /\ UNCHANGED <<vars, nodeQueue, peerMap, todo, commands, history>>

NodeHandleCommand == NodeConnect \/ NodeShutdown

-----------------------------------------------------------------------------
(***************************************************************************)
(* Once the non-blocking get finds nothing, or nothing yet, the handlers   *)
(* that are due are polled.  The one handler is the ping manager, which    *)
(* sends a ping to every peer in the map.                                  *)
(***************************************************************************)
Pings ==
  LET ids == SetToSeq(DOMAIN peerMap)
  IN  [i \in DOMAIN ids |-> SendMessage(ids[i], "ping")]

NodePoll ==
  /\ NodeAt("drain")
  /\ commands < MaxPolled
  /\ todo' = Pings
  /\ nodePc' = "event"
  /\ UNCHANGED <<vars, nodeQueue, peerMap, commands, history>>

NodeNotDue ==
  /\ NodeAt("drain")
  /\ nodePc' = "event"
  /\ UNCHANGED <<vars, nodeQueue, peerMap, todo, commands, history>>

-----------------------------------------------------------------------------
(***************************************************************************)
(* One event of the network process.                                       *)
(***************************************************************************)
TakeEvent(type) ==
  /\ NodeAt("event")
  /\ outQueue # <<>>
  /\ Head(outQueue).type = type
  /\ outQueue' = Tail(outQueue)
  /\ UNCHANGED <<nodeQueue, commands>>
  /\ NetworkUnchanged

(* handle_connect: a new handle, in which no version is agreed, and our     *)
(* version message.                                                         *)
Greeting_Mutant(id, host) == <<>>

Greeting(id, host) ==
  <<[type |-> "SEND_MESSAGE", id |-> id, msg |-> [kind |-> "version", peer |-> host]]>>

NodeConnected ==
  /\ TakeEvent("CONNECTED")
  /\ LET event  == Head(outQueue)
         handle == [host |-> event.host, version |-> 0, tolerance |-> 100]
     IN  /\ peerMap' = [i \in DOMAIN peerMap \cup {event.id} |->
                          IF i = event.id THEN handle ELSE peerMap[i]]
         /\ todo' = Greeting(event.id, event.host)
  /\ nodePc' = "drain"
  /\ UNCHANGED <<cmdQueue, history>>

NodeConnectFailed ==
  /\ TakeEvent("CONNECT_FAILED")
  /\ refused' = refused \cup {Head(outQueue).host}
  /\ nodePc' = "drain"
  /\ UNCHANGED <<cmdQueue, peerMap, todo, ended, heard>>

(* The first version message settles the version of the connection, in the  *)
(* handle and in the network process; any other is misbehaviour, and uses   *)
(* up the tolerance.  Both are acknowledged.                                *)
BadPeer_Mutant(id, percent) ==
  LET left == peerMap[id].tolerance - percent
  IN  /\ peerMap' = [peerMap EXCEPT ![id].tolerance = left]
      /\ todo' = (IF left < 0 THEN <<[type |-> "DISCONNECT", id |-> id]>> ELSE <<>>)
                    \o <<SendMessage(id, "verack")>>

BadPeer(id, percent) ==
  LET left == peerMap[id].tolerance - percent
  IN  /\ peerMap' = [peerMap EXCEPT ![id].tolerance = left]
      /\ todo' = (IF left <= 0 THEN <<[type |-> "DISCONNECT", id |-> id]>> ELSE <<>>)
                    \o <<SendMessage(id, "verack")>>

AgreedVersion(claimed) ==
  IF claimed > PROTOCOL_VERSION THEN PROTOCOL_VERSION ELSE claimed

SetVersion_Mutant(id, v) ==
  /\ peerMap' = [peerMap EXCEPT ![id].version = v]
  /\ todo' = <<SendMessage(id, "verack")>>

SetVersion(id, v) ==
  /\ peerMap' = [peerMap EXCEPT ![id].version = v]
  /\ todo' = <<[type |-> "SET_VERSION", id |-> id, version |-> v],
               SendMessage(id, "verack")>>

HandleVersion(id) ==
  \/ /\ peerMap[id].version # 0
     /\ BadPeer(id, 100)
  \/ /\ peerMap[id].version = 0
     /\ \E claimed \in ClaimedVersion : SetVersion(id, AgreedVersion(claimed))

(* A ping is answered if the version allows it; a message of any other      *)
(* command sends nothing.                                                   *)
HandleOther(id, kind) ==
  /\ todo' = IF kind = "ping" /\ peerMap[id].version > NonceVersion
               THEN <<SendMessage(id, "pong")>> ELSE <<>>
  /\ UNCHANGED peerMap

NodeMessage ==
  /\ TakeEvent("MSG_RECEIVED")
  /\ LET event == Head(outQueue)
     IN  /\ event.id \in DOMAIN peerMap
         /\ IF event.msg.kind = "version"
              THEN HandleVersion(event.id)
              ELSE HandleOther(event.id, event.msg.kind)
         /\ heard' = heard \cup {event.msg.peer}
  /\ nodePc' = "drain"
  /\ UNCHANGED <<cmdQueue, ended, refused>>

NodeDisconnected_Mutant ==
  /\ TakeEvent("DISCONNECTED")
  /\ Head(outQueue).id \in DOMAIN peerMap
  /\ ended' = ended \cup {Head(outQueue).id}
  /\ nodePc' = "drain"
  /\ UNCHANGED <<cmdQueue, peerMap, todo, refused, heard>>

NodeDisconnected ==
  /\ TakeEvent("DISCONNECTED")
  /\ LET id == Head(outQueue).id
     IN  /\ id \in DOMAIN peerMap
         /\ peerMap' = Restrict(peerMap, DOMAIN peerMap \ {id})
         /\ ended' = ended \cup {id}
  /\ nodePc' = "drain"
  /\ UNCHANGED <<cmdQueue, todo, refused, heard>>

(* An id that is not in the map: KeyError leaves the main loop through the  *)
(* finally clause, which shuts the network process down.                    *)
NodeKeyError ==
  /\ TakeEvent("MSG_RECEIVED") \/ TakeEvent("DISCONNECTED")
  /\ Head(outQueue).id \notin DOMAIN peerMap
  /\ Put([type |-> "SHUTDOWN"])
  /\ nodePc' = "raised"
  /\ UNCHANGED <<peerMap, todo, history>>

(* The get times out after 0.25 s. *)
NodeNoEvent ==
  /\ NodeAt("event")
  /\ nodePc' = "drain"
  /\ UNCHANGED <<vars, nodeQueue, peerMap, todo, commands, history>>

NodeTakeEvent ==
  \/ NodeConnected
  \/ NodeConnectFailed
  \/ NodeMessage
  \/ NodeDisconnected
  \/ NodeKeyError

NodeStep ==
  \/ NodePut
  \/ NodeHandleCommand
  \/ NodeJoined
  \/ NodeExit
  \/ NodePoll
  \/ NodeNotDue
  \/ NodeTakeEvent
  \/ NodeNoEvent
=============================================================================
