------------------------- MODULE PickCluster_proofs -------------------------
(***************************************************************************)
(* Theorems about the whole program, for every set of remote ends, every   *)
(* set of versions and every bound: the node uses the network process as   *)
(* NetworkManager lets its users do, our version message comes first, and  *)
(* both processes agree on the version of a connection.                    *)
(***************************************************************************)
EXTENDS PickCluster, PeerManager_proofs, FiniteSetTheorems, SequenceTheorems

USE DEF Range, Restrict

-----------------------------------------------------------------------------
(***************************************************************************)
(* What a handler leaves in todo.                                          *)
(***************************************************************************)

(* The sequence made of a finite set has its elements. *)
LEMMA SequenceOfSet ==
  ASSUME NEW S, IsFiniteSet(S)
  PROVE  /\ Cardinality(S) \in Nat
         /\ SetToSeq(S) \in [1..Cardinality(S) -> S]
  <1>1. Cardinality(S) \in Nat /\ ExistsBijection(1..Cardinality(S), S)
    BY FS_CardinalityType
  <1>2. \E f \in [1..Cardinality(S) -> S] : IsInjective(f)
    BY <1>1 DEF ExistsBijection, Bijection, Injection
  <1> QED
    BY <1>1, <1>2 DEF SetToSeq

(* A message names a peer of the map and is meant for its remote end. *)
Named(cmd) ==
  /\ cmd \in Command
  /\ cmd.type \in {"SEND_MESSAGE", "SET_VERSION", "DISCONNECT"}
  /\ cmd.id \in DOMAIN peerMap
  /\ cmd.type = "SEND_MESSAGE" => cmd.msg.peer = peerMap[cmd.id].host

LEMMA NamedMessage ==
  ASSUME NodeTypeOK, NEW id \in DOMAIN peerMap, NEW kind \in NodeKind
  PROVE  /\ Named(SendMessage(id, kind))
         /\ SendMessage(id, kind).type = "SEND_MESSAGE"
         /\ SendMessage(id, kind).id = id
         /\ SendMessage(id, kind).msg.kind = kind
  <1>1. kind \in Kind /\ peerMap[id].host \in Peer /\ id \in Nat
    BY NodeKindAssumption DEF NodeTypeOK, PeerHandle
  <1> QED
    BY <1>1 DEF Named, SendMessage, Command, Message

(* The ping manager sends one ping to every peer of the map. *)
LEMMA PingsElements ==
  ASSUME NodeTypeOK, IsFiniteSet(DOMAIN peerMap)
  PROVE  /\ Pings \in Seq(Command)
         /\ \A i \in DOMAIN Pings : Named(Pings[i]) /\ Pings[i].type = "SEND_MESSAGE"
  <1> DEFINE ids == SetToSeq(DOMAIN peerMap)
             n   == Cardinality(DOMAIN peerMap)
  <1>1. n \in Nat /\ ids \in [1..n -> DOMAIN peerMap]
    BY SequenceOfSet
  <1>2. Pings = [i \in 1..n |-> SendMessage(ids[i], "ping")]
    BY <1>1 DEF Pings
  <1>3. ASSUME NEW i \in 1..n
        PROVE  LET cmd == SendMessage(ids[i], "ping")
               IN  Named(cmd) /\ cmd.type = "SEND_MESSAGE" /\ cmd \in Command
    <2>1. ids[i] \in DOMAIN peerMap /\ "ping" \in NodeKind
      BY <1>1 DEF NodeKind
    <2> QED
      BY <2>1, NamedMessage DEF Named
  <1> QED
    BY <1>1, <1>2, <1>3

LEMMA ConcatSingles ==
  ASSUME NEW S, NEW a \in S, NEW b \in S
  PROVE  <<a>> \o <<b>> = <<a, b>>
  <1>1. <<a>> \in Seq(S) /\ <<b>> \in Seq(S) /\ <<a, b>> \in Seq(S)
    OBVIOUS
  <1>2. /\ <<a>> \o <<b>> \in Seq(S)
        /\ Len(<<a>> \o <<b>>) = 2
        /\ (<<a>> \o <<b>>)[1] = a /\ (<<a>> \o <<b>>)[2] = b
    BY <1>1, ConcatProperties
  <1> DEFINE s == <<a>> \o <<b>>
             t == <<a, b>>
  <1>3. Len(t) = 2 /\ t[1] = a /\ t[2] = b
    OBVIOUS
  <1>4. s \in Seq(S) /\ t \in Seq(S) /\ Len(s) = Len(t)
    BY <1>1, <1>2, <1>3
  <1>5. \A i \in 1..Len(s) : s[i] = t[i]
    BY <1>2, <1>3
  <1> HIDE DEF s, t
  <1>6. s = t
    BY <1>4, <1>5, SeqEqual
  <1> QED
    BY <1>6 DEF s, t

(* The version agreed on is one the node speaks. *)
LEMMA AgreedVersionType ==
  ASSUME NEW claimed \in ClaimedVersion
  PROVE  AgreedVersion(claimed) \in Version
  BY ProtocolAssumption, ClaimedAssumption, VersionAssumption DEF AgreedVersion

(* A handler of a message keeps the peers of the map and who they are, and  *)
(* names the peer the message is from.                                      *)
LEMMA HandlerEffect ==
  ASSUME NodeTypeOK, NEW id \in DOMAIN peerMap, NEW kind,
         HandleVersion(id) \/ HandleOther(id, kind)
  PROVE  /\ DOMAIN peerMap' = DOMAIN peerMap
         /\ peerMap' \in [DOMAIN peerMap -> PeerHandle]
         /\ \A k \in DOMAIN peerMap : peerMap'[k].host = peerMap[k].host
         /\ todo' \in Seq(Command)
         /\ \A i \in DOMAIN todo' : Named(todo'[i])
  <1>1. id \in Nat /\ peerMap \in [DOMAIN peerMap -> PeerHandle]
    BY DEF NodeTypeOK
  <1>2. /\ Named(SendMessage(id, "verack")) /\ SendMessage(id, "verack") \in Command
        /\ Named(SendMessage(id, "pong")) /\ SendMessage(id, "pong") \in Command
    BY NamedMessage DEF NodeKind, Named
  <1>3. CASE BadPeer(id, 100)
    <2> DEFINE left == peerMap[id].tolerance - 100
               drop == [type |-> "DISCONNECT", id |-> id]
    <2>1. peerMap[id].tolerance \in Int /\ left \in Int
      BY <1>1 DEF PeerHandle
    <2>2. peerMap' = [peerMap EXCEPT ![id].tolerance = left]
      BY <1>3 DEF BadPeer
    <2>3. Named(drop) /\ drop \in Command
      BY <1>1 DEF Named, Command
    <2>4. todo' = (IF left <= 0 THEN <<drop>> ELSE <<>>) \o <<SendMessage(id, "verack")>>
      BY <1>3 DEF BadPeer
    <2>5. todo' \in Seq(Command) /\ \A i \in DOMAIN todo' : Named(todo'[i])
      <3>1. CASE left <= 0
        <4>1. todo' = <<drop>> \o <<SendMessage(id, "verack")>>
          BY <2>4, <3>1
        <4>2. todo' = <<drop, SendMessage(id, "verack")>>
          BY <1>2, <2>3, <4>1, ConcatSingles
        <4> QED
          BY <1>2, <2>3, <4>2
      <3>2. CASE ~(left <= 0)
        <4>1. todo' = <<>> \o <<SendMessage(id, "verack")>>
          BY <2>4, <3>2
        <4>2. todo' = <<SendMessage(id, "verack")>>
          BY <1>2, <4>1
        <4> QED
          BY <1>2, <4>2
      <3> QED
        BY <3>1, <3>2
    <2>6. peerMap' \in [DOMAIN peerMap -> PeerHandle]
      BY <1>1, <2>1, <2>2 DEF PeerHandle
    <2> QED
      BY <1>1, <2>2, <2>5, <2>6 DEF PeerHandle
  <1>4. ASSUME NEW v \in Version, SetVersion(id, v)
        PROVE  /\ DOMAIN peerMap' = DOMAIN peerMap
               /\ peerMap' \in [DOMAIN peerMap -> PeerHandle]
               /\ \A k \in DOMAIN peerMap : peerMap'[k].host = peerMap[k].host
               /\ todo' \in Seq(Command)
               /\ \A i \in DOMAIN todo' : Named(todo'[i])
    <2> DEFINE set == [type |-> "SET_VERSION", id |-> id, version |-> v]
    <2>1. Named(set) /\ set \in Command
      BY <1>1 DEF Named, Command
    <2>2. todo' = <<set, SendMessage(id, "verack")>>
      BY <1>4 DEF SetVersion
    <2>3. todo' \in Seq(Command) /\ \A i \in DOMAIN todo' : Named(todo'[i])
      BY <1>2, <2>1, <2>2
    <2> QED
      BY <1>1, <1>4, <2>3 DEF SetVersion, PeerHandle
  <1>5. CASE HandleOther(id, kind)
    <2>1. todo' = <<SendMessage(id, "pong")>> \/ todo' = <<>>
      BY <1>5 DEF HandleOther
    <2> QED
      BY <1>1, <1>2, <1>5, <2>1 DEF HandleOther
  <1> QED
    BY <1>3, <1>4, <1>5, AgreedVersionType DEF HandleVersion

LEMMA ClusterInitTypes == ClusterInit => ClusterTypeOK /\ TodoNamesKnown
  <1> SUFFICES ASSUME ClusterInit PROVE ClusterTypeOK /\ TodoNamesKnown
    OBVIOUS
  <1>1. TypeOK
    BY PeerManagerInitTypes DEF ClusterInit
  <1>2. peerMap = [i \in {} |-> i] /\ DOMAIN peerMap = {}
    BY DEF ClusterInit, NodeInit
  <1>3. peerMap \in [DOMAIN peerMap -> PeerHandle] /\ IsFiniteSet(DOMAIN peerMap)
    BY <1>2, FS_EmptySet
  <1> QED
    BY <1>1, <1>2, <1>3
    DEF ClusterInit, NodeInit, ClusterTypeOK, NodeTypeOK, NodePlace, TodoNamesKnown

(* Every step of the node. *)
LEMMA NodeStepTypes ==
  ASSUME ClusterTypeOK, TodoNamesKnown, NodeStep
  PROVE  TypeOK' /\ NodeTypeOK' /\ TodoNamesKnown'
  <1> USE DEF history
  <1>1. TypeOK /\ NodeTypeOK
    BY DEF ClusterTypeOK
  <1>2. /\ nodePc \in NodePlace /\ nodeQueue \in Seq(NodeCommand)
        /\ DOMAIN peerMap \subseteq Nat /\ peerMap \in [DOMAIN peerMap -> PeerHandle]
        /\ todo \in Seq(Command) /\ commands \in Nat
        /\ ended \subseteq Nat /\ refused \subseteq Peer /\ heard \subseteq Peer
    BY <1>1 DEF NodeTypeOK
  <1>3. UNCHANGED vars => TypeOK'
    BY <1>1 DEF TypeOK, vars, mainVars, threadVars, senderVars
  <1>4. ASSUME NEW cmd \in Command, Put(cmd), UNCHANGED outQueue, NetworkUnchanged
        PROVE  TypeOK'
    <2>1. cmdQueue' \in Seq(Command)
      BY <1>1, <1>4, QueueTypes DEF Put
    <2> QED
      BY <1>1, <1>4, <2>1
      DEF TypeOK, NetworkUnchanged, mainVars, threadVars, senderVars
  <1>5. [type |-> "SHUTDOWN"] \in Command
    BY DEF Command
  <1>6. CASE NodePut
    <2>1. /\ Head(todo) \in Command /\ Tail(todo) \in Seq(Command)
          /\ DOMAIN Tail(todo) = 1..(Len(todo) - 1)
          /\ \A i \in 1..(Len(todo) - 1) : Tail(todo)[i] = todo[i + 1]
      BY <1>2, <1>6, TailElements DEF NodePut
    <2>2. TypeOK'
      BY <1>4, <1>6, <2>1 DEF NodePut
    <2>3. NodeTypeOK'
      BY <1>2, <1>6, <2>1 DEF NodePut, NodeTypeOK
    <2>4. \A i \in DOMAIN todo' : i + 1 \in DOMAIN todo /\ todo'[i] = todo[i + 1]
      BY <1>2, <1>6, <2>1 DEF NodePut
    <2>5. TodoNamesKnown'
      BY <1>6, <2>4 DEF NodePut, TodoNamesKnown
    <2> QED
      BY <2>2, <2>3, <2>5
  <1>7. CASE NodeConnect
    <2>1. /\ Head(nodeQueue) \in NodeCommand /\ Tail(nodeQueue) \in Seq(NodeCommand)
          /\ Head(nodeQueue).type = "CONNECT"
      BY <1>2, <1>7, TailElements DEF NodeConnect
    <2>2. [type |-> "CONNECT", host |-> Head(nodeQueue).host] \in Command
      BY <2>1 DEF NodeCommand, Command
    <2>3. TypeOK'
      BY <1>4, <1>7, <2>2 DEF NodeConnect
    <2> QED
      BY <1>2, <1>7, <2>1, <2>3 DEF NodeConnect, NodeTypeOK, TodoNamesKnown
  <1>8. CASE NodeShutdown
    <2>1. Tail(nodeQueue) \in Seq(NodeCommand)
      BY <1>2, <1>8, TailElements DEF NodeShutdown
    <2>2. TypeOK'
      BY <1>4, <1>5, <1>8 DEF NodeShutdown
    <2> QED
      BY <1>2, <1>8, <2>1, <2>2
      DEF NodeShutdown, NodeAt, NodeTypeOK, NodePlace, TodoNamesKnown
  <1>9. CASE NodeJoined
    <2>1. TypeOK'
      BY <1>4, <1>5, <1>9 DEF NodeJoined
    <2>2. todo = <<>>
      BY <1>9 DEF NodeJoined, TodoNamesKnown
    <2> QED
      BY <1>2, <1>9, <2>1, <2>2 DEF NodeJoined, NodeTypeOK, NodePlace, TodoNamesKnown
  <1>10. CASE NodeExit
    <2>1. todo = <<>>
      BY <1>10 DEF NodeExit, TodoNamesKnown
    <2> QED
      BY <1>2, <1>3, <1>10, <2>1 DEF NodeExit, NodeTypeOK, NodePlace, TodoNamesKnown
  <1>11. CASE NodePoll
    <2>1. Pings \in Seq(Command) /\ \A i \in DOMAIN Pings : Named(Pings[i])
      BY <1>1, PingsElements DEF TodoNamesKnown
    <2>2. TodoNamesKnown'
      BY <1>11, <2>1 DEF NodePoll, TodoNamesKnown, Named
    <2> QED
      BY <1>2, <1>3, <1>11, <2>1, <2>2 DEF NodePoll, NodeTypeOK, NodePlace
  <1>12. CASE NodeNotDue \/ NodeNoEvent
    BY <1>2, <1>3, <1>12
    DEF NodeNotDue, NodeNoEvent, NodeAt, NodeTypeOK, NodePlace, TodoNamesKnown
  <1>13. ASSUME NEW type, TakeEvent(type)
         PROVE  /\ Head(outQueue) \in Event /\ Head(outQueue).type = type
                /\ todo = <<>>
                /\ UNCHANGED cmdQueue => TypeOK'
    <2>1. Head(outQueue) \in Event /\ outQueue' \in Seq(Event)
      BY <1>1, <1>13, QueueTypes DEF TakeEvent
    <2>2. UNCHANGED cmdQueue => TypeOK'
      BY <1>1, <1>13, <2>1
      DEF TakeEvent, TypeOK, NetworkUnchanged, mainVars, threadVars, senderVars
    <2> QED
      BY <1>13, <2>1, <2>2 DEF TakeEvent, NodeAt
  <1>14. ASSUME NEW type, TakeEvent(type), UNCHANGED cmdQueue, nodePc' = "drain",
                DOMAIN peerMap' \subseteq Nat, peerMap' \in [DOMAIN peerMap' -> PeerHandle],
                IsFiniteSet(DOMAIN peerMap'), todo' \in Seq(Command),
                \A i \in DOMAIN todo' : Named(todo[i])',
                ended' \subseteq Nat, refused' \subseteq Peer, heard' \subseteq Peer
         PROVE  TypeOK' /\ NodeTypeOK' /\ TodoNamesKnown'
    <2>1. TypeOK' /\ UNCHANGED <<nodeQueue, commands>>
      BY <1>13, <1>14 DEF TakeEvent
    <2>2. NodeTypeOK'
      BY <1>2, <1>14, <2>1 DEF NodeTypeOK, NodePlace
    <2>3. TodoNamesKnown'
      BY <1>14 DEF TodoNamesKnown, Named
    <2> QED
      BY <2>1, <2>2, <2>3
  <1>15. CASE NodeConnected
    <2> DEFINE event  == Head(outQueue)
               handle == [host |-> event.host, version |-> 0, tolerance |-> 100]
    <2>1. event \in Event /\ event.type = "CONNECTED"
      BY <1>13, <1>15 DEF NodeConnected
    <2>2. event.id \in Nat /\ event.host \in Peer
      BY <2>1, FieldTypes
    <2>3. handle \in PeerHandle
      BY <2>2, VersionAssumption DEF PeerHandle
    <2>4. peerMap' = [i \in DOMAIN peerMap \cup {event.id} |->
                        IF i = event.id THEN handle ELSE peerMap[i]]
      BY <1>15 DEF NodeConnected
    <2>5. /\ DOMAIN peerMap' = DOMAIN peerMap \cup {event.id}
          /\ DOMAIN peerMap' \subseteq Nat /\ peerMap' \in [DOMAIN peerMap' -> PeerHandle]
      BY <1>2, <2>2, <2>3, <2>4
    <2>6. IsFiniteSet(DOMAIN peerMap')
      BY <2>5, FS_AddElement DEF TodoNamesKnown
    <2>7. /\ "version" \in Kind
          /\ todo' = <<[type |-> "SEND_MESSAGE", id |-> event.id,
                        msg |-> [kind |-> "version", peer |-> event.host]]>>
      BY <1>15, KindAssumption DEF NodeConnected, Greeting
    <2>8. todo' \in Seq(Command) /\ \A i \in DOMAIN todo' : Named(todo[i])'
      BY <2>2, <2>4, <2>7 DEF Named, Command, Message
    <2> QED
      BY <1>2, <1>14, <1>15, <2>5, <2>6, <2>8 DEF NodeConnected
  <1>16. CASE NodeConnectFailed
    <2> Head(outQueue) \in Event /\ Head(outQueue).type = "CONNECT_FAILED" /\ todo = <<>>
      BY <1>13, <1>16 DEF NodeConnectFailed
    <2>1. Head(outQueue).host \in Peer
      BY FieldTypes
    <2> QED
      BY <1>2, <1>14, <1>16, <2>1 DEF NodeConnectFailed, TodoNamesKnown
  <1>17. CASE NodeMessage
    <2>1. Head(outQueue) \in Event /\ Head(outQueue).type = "MSG_RECEIVED"
      BY <1>13, <1>17 DEF NodeMessage
    <2>2. Head(outQueue).msg.peer \in Peer
      BY <2>1, FieldTypes
    <2>3. /\ Head(outQueue).id \in DOMAIN peerMap
          /\ \/ HandleVersion(Head(outQueue).id)
             \/ HandleOther(Head(outQueue).id, Head(outQueue).msg.kind)
      BY <1>17 DEF NodeMessage
    <2>4. /\ DOMAIN peerMap' = DOMAIN peerMap
          /\ peerMap' \in [DOMAIN peerMap -> PeerHandle]
          /\ \A k \in DOMAIN peerMap : peerMap'[k].host = peerMap[k].host
          /\ todo' \in Seq(Command)
          /\ \A i \in DOMAIN todo' : Named(todo'[i])
      BY <1>1, <2>3, HandlerEffect
    <2>5. \A i \in DOMAIN todo' : Named(todo[i])'
      BY <2>4 DEF Named
    <2> QED
      BY <1>2, <1>14, <1>17, <2>2, <2>4, <2>5 DEF NodeMessage, TodoNamesKnown
  <1>18. CASE NodeDisconnected
    <2>1. todo = <<>>
      BY <1>13, <1>18 DEF NodeDisconnected
    <2>2. /\ Head(outQueue).id \in DOMAIN peerMap
          /\ peerMap' = [i \in DOMAIN peerMap \ {Head(outQueue).id} |-> peerMap[i]]
      BY <1>18 DEF NodeDisconnected
    <2>3. /\ DOMAIN peerMap' = DOMAIN peerMap \ {Head(outQueue).id}
          /\ peerMap' \in [DOMAIN peerMap' -> PeerHandle]
      BY <1>2, <2>2
    <2>4. IsFiniteSet(DOMAIN peerMap')
      BY <2>3, FS_RemoveElement DEF TodoNamesKnown
    <2> QED
      BY <1>2, <1>14, <1>18, <2>1, <2>2, <2>3, <2>4 DEF NodeDisconnected
  <1>19. CASE NodeKeyError
    <2>1. \E type : TakeEvent(type)
      BY <1>19 DEF NodeKeyError
    <2>2. outQueue' \in Seq(Event) /\ todo = <<>> /\ NetworkUnchanged
      BY <1>1, <2>1, QueueTypes DEF TakeEvent, NodeAt
    <2>3. cmdQueue' \in Seq(Command)
      BY <1>1, <1>5, <1>19, QueueTypes DEF NodeKeyError, Put
    <2>4. TypeOK'
      BY <1>1, <2>2, <2>3
      DEF TypeOK, NetworkUnchanged, mainVars, threadVars, senderVars
    <2>5. UNCHANGED <<nodeQueue, commands, peerMap, todo, history>> /\ nodePc' = "raised"
      BY <1>19, <2>1 DEF NodeKeyError, TakeEvent
    <2> QED
      BY <1>2, <2>2, <2>4, <2>5 DEF NodeTypeOK, NodePlace, TodoNamesKnown
  <1> QED
    BY <1>6, <1>7, <1>8, <1>9, <1>10, <1>11, <1>12, <1>15, <1>16, <1>17, <1>18, <1>19
    DEF NodeStep, NodeHandleCommand, NodeTakeEvent

(* Every step of the three processes. *)
LEMMA ClusterStepTypes ==
  ASSUME ClusterTypeOK, TodoNamesKnown, [ClusterNext]_allVars
  PROVE  ClusterTypeOK' /\ TodoNamesKnown'
  <1>1. TypeOK /\ NodeTypeOK
    BY DEF ClusterTypeOK
  <1>2. ASSUME UNCHANGED <<nodePc, peerMap, todo>> PROVE TodoNamesKnown'
    BY <1>2 DEF TodoNamesKnown
  <1>3. UNCHANGED vars => TypeOK'
    BY <1>1 DEF TypeOK, vars, mainVars, threadVars, senderVars
  <1>4. UNCHANGED nodeVars => NodeTypeOK' /\ TodoNamesKnown'
    BY <1>1, <1>2 DEF nodeVars, NodeTypeOK, history
  <1>5. ASSUME NEW cmd \in NodeCommand, nodeQueue' = Append(nodeQueue, cmd),
               UNCHANGED <<vars, nodePc, peerMap, todo, commands, history>>
        PROVE  TypeOK' /\ NodeTypeOK' /\ TodoNamesKnown'
    <2>1. nodeQueue' \in Seq(NodeCommand)
      BY <1>1, <1>5, AppendElements DEF NodeTypeOK
    <2> QED
      BY <1>1, <1>2, <1>3, <1>5, <2>1 DEF NodeTypeOK, history
  <1>6. ASSUME NEW p \in Peer, MainConnect(p) PROVE ClusterTypeOK' /\ TodoNamesKnown'
    <2>1. [type |-> "CONNECT", host |-> p] \in NodeCommand
      BY DEF NodeCommand
    <2> QED
      BY <1>5, <1>6, <2>1 DEF MainConnect, ClusterTypeOK
  <1>7. CASE MainShutdown
    <2>1. [type |-> "SHUTDOWN"] \in NodeCommand
      BY DEF NodeCommand
    <2> QED
      BY <1>5, <1>7, <2>1 DEF MainShutdown, ClusterTypeOK
  <1>8. CASE MainJoined
    BY <1>3, <1>4, <1>8 DEF MainJoined, ClusterTypeOK
  <1>9. CASE NodeStep /\ UNCHANGED mainProcessVars
    BY <1>9, NodeStepTypes DEF ClusterTypeOK, mainProcessVars
  <1>10. CASE NetworkStep /\ UNCHANGED <<nodeVars, mainProcessVars>>
    BY <1>1, <1>4, <1>10, NetworkStepTypes DEF ClusterTypeOK, mainProcessVars
  <1>11. CASE UNCHANGED allVars
    BY <1>3, <1>4, <1>11 DEF allVars, ClusterTypeOK, mainProcessVars
  <1> QED
    BY <1>6, <1>7, <1>8, <1>9, <1>10, <1>11 DEF ClusterNext, MainStep

(* The three processes keep to their types; in particular no connection is  *)
(* given a version the node does not speak.                                 *)
THEOREM ClusterTypeCorrect == Spec => []ClusterTypeOK
  <1>1. ClusterInit => ClusterTypeOK /\ TodoNamesKnown
    BY ClusterInitTypes
  <1>2. ClusterTypeOK /\ TodoNamesKnown /\ [ClusterNext]_allVars
          => ClusterTypeOK' /\ TodoNamesKnown'
    BY ClusterStepTypes
  <1> QED
    BY <1>1, <1>2, PTL DEF Spec

-----------------------------------------------------------------------------
(***************************************************************************)
(* Connection attempts.  A CONNECT is on the queue of the node, then on    *)
(* that of the network process; then the attempt is a thread, and then a   *)
(* notice.                                                                 *)
(***************************************************************************)
LEMMA ConnectsAfterAppend ==
  ASSUME NEW S, NEW s \in Seq(S), NEW e \in S
  PROVE  /\ \A p : Connects(Append(s, e), p)
                 => Connects(s, p) \/ (e.type = "CONNECT" /\ e.host = p)
         /\ ConnectsOnce(s) /\ (e.type = "CONNECT" => ~Connects(s, e.host))
              => ConnectsOnce(Append(s, e))
  <1>1. /\ DOMAIN s = 1..Len(s) /\ Len(s) \in Nat
        /\ DOMAIN Append(s, e) = 1..(Len(s) + 1)
        /\ \A i \in 1..Len(s) : Append(s, e)[i] = s[i]
        /\ Append(s, e)[Len(s) + 1] = e
    BY AppendElements
  <1> DEFINE t == Append(s, e)
  <1> HIDE DEF t
  <1>2. \A i \in DOMAIN t : (i \in DOMAIN s /\ t[i] = s[i]) \/ (i = Len(s) + 1 /\ t[i] = e)
    BY <1>1 DEF t
  <1> QED
    BY <1>1, <1>2 DEF Connects, ConnectsOnce, t

LEMMA ConnectsAfterTail ==
  ASSUME NEW S, NEW s \in Seq(S), s # <<>>
  PROVE  /\ \A p : Connects(Tail(s), p) => Connects(s, p)
         /\ ConnectsOnce(s) => ConnectsOnce(Tail(s))
         /\ Head(s).type = "CONNECT" => Connects(s, Head(s).host)
         /\ ConnectsOnce(s) /\ Head(s).type = "CONNECT" => ~Connects(Tail(s), Head(s).host)
  <1>1. /\ DOMAIN s = 1..Len(s) /\ Len(s) \in Nat
        /\ Head(s) = s[1] /\ 1 \in DOMAIN s
        /\ DOMAIN Tail(s) = 1..(Len(s) - 1)
        /\ \A i \in 1..(Len(s) - 1) : Tail(s)[i] = s[i + 1]
    BY TailElements
  <1> DEFINE t == Tail(s)
  <1> HIDE DEF t
  <1>2. \A i \in DOMAIN t : i + 1 \in DOMAIN s /\ i + 1 # 1 /\ t[i] = s[i + 1]
    BY <1>1 DEF t
  <1>3. \A i, j \in DOMAIN t : i + 1 = j + 1 => i = j
    BY <1>1 DEF t
  <1> QED
    BY <1>1, <1>2, <1>3 DEF Connects, ConnectsOnce, t

Announces(s, p) == \E i \in DOMAIN s : s[i].type = "CONNECTED" /\ s[i].peer = p

LEMMA NoticesAfterAppend ==
  ASSUME NEW S, NEW s \in Seq(S), NEW e \in S
  PROVE  \A p : Announces(Append(s, e), p)
               => Announces(s, p) \/ (e.type = "CONNECTED" /\ e.peer = p)
  <1>1. /\ DOMAIN s = 1..Len(s) /\ Len(s) \in Nat
        /\ DOMAIN Append(s, e) = 1..(Len(s) + 1)
        /\ \A i \in 1..Len(s) : Append(s, e)[i] = s[i]
        /\ Append(s, e)[Len(s) + 1] = e
    BY AppendElements
  <1>2. \A i \in DOMAIN Append(s, e) : i \in DOMAIN s \/ i = Len(s) + 1
    BY <1>1
  <1> QED
    BY <1>1, <1>2 DEF Announces

LEMMA NoticesAfterTail ==
  ASSUME NEW S, NEW s \in Seq(S), s # <<>>
  PROVE  \A p : Announces(Tail(s), p) => Announces(s, p)
  <1>1. /\ DOMAIN s = 1..Len(s) /\ Len(s) \in Nat
        /\ DOMAIN Tail(s) = 1..(Len(s) - 1)
        /\ \A i \in 1..(Len(s) - 1) : Tail(s)[i] = s[i + 1]
    BY TailElements
  <1>2. \A i \in DOMAIN Tail(s) : i + 1 \in DOMAIN s
    BY <1>1
  <1> QED
    BY <1>1, <1>2 DEF Announces

(* A step that starts no attempt leaves those there are, or ends one. *)
NoNewAttempt ==
  /\ asked' = asked
  /\ \A p \in Peer : /\ Connects(nodeQueue', p) => Connects(nodeQueue, p)
                     /\ Connects(cmdQueue', p) => Connects(cmdQueue, p)
                     /\ Announces(infoQueue', p) => Announces(infoQueue, p)
                     /\ thread'[p] = "new" <=> thread[p] = "new"
                     /\ thread'[p] = "connecting" => thread[p] = "connecting"
  /\ ConnectsOnce(nodeQueue') /\ ConnectsOnce(cmdQueue')

LEMMA NoNewAttemptKeeps ==
  ASSUME AskedOnce, OneUnderway, NoNewAttempt
  PROVE  AskedOnce' /\ OneUnderway'
  <1> USE DEF Requested, Ordered, Announcing, Announces
  <1>1. AskedOnce'
    BY DEF AskedOnce, NoNewAttempt
  <1>2. OneUnderway'
    BY DEF OneUnderway, Underway, NoNewAttempt
  <1> QED
    BY <1>1, <1>2

LEMMA MainAttempts ==
  ASSUME ClusterTypeOK, AskedOnce, OneUnderway, MainStep
  PROVE  AskedOnce' /\ OneUnderway'
  <1> USE DEF vars, mainVars, threadVars, senderVars
  <1>1. nodeQueue \in Seq(NodeCommand)
    BY DEF ClusterTypeOK, NodeTypeOK
  <1>2. ASSUME NEW p \in Peer, MainConnect(p) PROVE AskedOnce' /\ OneUnderway'
    <2> DEFINE cmd == [type |-> "CONNECT", host |-> p]
    <2>1. cmd \in NodeCommand /\ cmd.type = "CONNECT" /\ cmd.host = p
      BY DEF NodeCommand
    <2>2. nodeQueue' = Append(nodeQueue, cmd)
      BY <1>2 DEF MainConnect
    <2>3. thread[p] = "new" /\ ~Connects(nodeQueue, p) /\ ~Connects(cmdQueue, p)
      BY <1>2 DEF MainConnect, AskedOnce, Requested, Ordered
    <2>4. /\ \A q : Connects(nodeQueue', q) => Connects(nodeQueue, q) \/ q = p
          /\ ConnectsOnce(nodeQueue')
      BY <1>1, <2>1, <2>2, <2>3, ConnectsAfterAppend DEF AskedOnce
    <2>5. AskedOnce'
      BY <1>2, <2>3, <2>4
      DEF MainConnect, AskedOnce, Requested, Ordered, Announcing
    <2>6. OneUnderway'
      <3>1. ASSUME SerialConnects, NEW q \in Peer, Underway(q) PROVE FALSE
        BY <1>2, <3>1 DEF MainConnect, AskedOnce, Underway, Answered
      <3>2. \A q \in Peer : /\ Connects(cmdQueue', q) <=> Connects(cmdQueue, q)
                            /\ thread'[q] = thread[q]
                            /\ infoQueue' = infoQueue
        BY <1>2 DEF MainConnect
      <3> QED
        BY <2>4, <3>1, <3>2 DEF OneUnderway, Underway, Requested, Ordered, Announcing
    <2> QED
      BY <2>5, <2>6
  <1>3. CASE MainShutdown
    <2> DEFINE cmd == [type |-> "SHUTDOWN"]
    <2>1. cmd \in NodeCommand /\ cmd.type # "CONNECT"
      BY DEF NodeCommand
    <2>2. nodeQueue' = Append(nodeQueue, cmd)
      BY <1>3 DEF MainShutdown
    <2>3. /\ \A q : Connects(nodeQueue', q) => Connects(nodeQueue, q)
          /\ ConnectsOnce(nodeQueue')
      BY <1>1, <2>1, <2>2, ConnectsAfterAppend DEF AskedOnce
    <2>4. NoNewAttempt
      BY <1>3, <2>3 DEF MainShutdown, NoNewAttempt, AskedOnce
    <2> QED
      BY <2>4, NoNewAttemptKeeps
  <1>4. CASE MainJoined
    <2>1. NoNewAttempt
      BY <1>4 DEF MainJoined, NoNewAttempt, AskedOnce, nodeVars
    <2> QED
      BY <2>1, NoNewAttemptKeeps
  <1> QED
    BY <1>2, <1>3, <1>4 DEF MainStep

LEMMA NodeAttempts ==
  ASSUME ClusterTypeOK, TodoNamesKnown, AskedOnce, OneUnderway,
         NodeStep, UNCHANGED mainProcessVars
  PROVE  AskedOnce' /\ OneUnderway'
  <1> USE DEF vars, mainVars, threadVars, senderVars, mainProcessVars,
              NetworkUnchanged
  <1>1. nodeQueue \in Seq(NodeCommand) /\ cmdQueue \in Seq(Command) /\ todo \in Seq(Command)
    BY DEF ClusterTypeOK, NodeTypeOK, TypeOK
  <1>2. ASSUME UNCHANGED <<nodeQueue, cmdQueue, infoQueue, thread, asked>>
        PROVE  AskedOnce' /\ OneUnderway'
    BY <1>2, NoNewAttemptKeeps DEF NoNewAttempt, AskedOnce
  <1>3. ASSUME NEW cmd \in Command, Put(cmd), cmd.type # "CONNECT",
               UNCHANGED <<infoQueue, thread>>,
               \A q : Connects(nodeQueue', q) => Connects(nodeQueue, q),
               ConnectsOnce(nodeQueue')
        PROVE  AskedOnce' /\ OneUnderway'
    <2>1. /\ \A q : Connects(cmdQueue', q) => Connects(cmdQueue, q)
          /\ ConnectsOnce(cmdQueue')
      BY <1>1, <1>3, ConnectsAfterAppend DEF Put, AskedOnce
    <2>2. NoNewAttempt
      BY <1>3, <2>1 DEF NoNewAttempt
    <2> QED
      BY <2>2, NoNewAttemptKeeps
  <1>4. [type |-> "SHUTDOWN"] \in Command /\ [type |-> "SHUTDOWN"].type # "CONNECT"
    BY DEF Command
  <1>5. CASE NodePut
    <2>1. Head(todo) \in Command /\ Head(todo) = todo[1] /\ 1 \in DOMAIN todo
      BY <1>1, <1>5, TailElements DEF NodePut
    <2>2. Head(todo).type # "CONNECT"
      BY <2>1 DEF TodoNamesKnown
    <2> QED
      BY <1>3, <1>5, <2>1, <2>2 DEF NodePut, AskedOnce
  <1>6. CASE NodeConnect
    <2> DEFINE p   == Head(nodeQueue).host
               cmd == [type |-> "CONNECT", host |-> p]
    <2>1. /\ Head(nodeQueue) \in NodeCommand /\ Head(nodeQueue).type = "CONNECT"
          /\ nodeQueue' = Tail(nodeQueue) /\ nodeQueue # <<>>
          /\ cmdQueue' = Append(cmdQueue, cmd)
          /\ UNCHANGED <<infoQueue, thread, asked>>
      BY <1>1, <1>6, TailElements DEF NodeConnect, Put
    <2>2. p \in Peer /\ cmd \in Command /\ cmd.type = "CONNECT" /\ cmd.host = p
      BY <2>1 DEF NodeCommand, Command
    <2>3. /\ Connects(nodeQueue, p)
          /\ \A q : Connects(nodeQueue', q) => Connects(nodeQueue, q)
          /\ ~Connects(nodeQueue', p)
          /\ ConnectsOnce(nodeQueue')
      BY <1>1, <2>1, ConnectsAfterTail DEF AskedOnce
    <2>4. p \in asked /\ thread[p] = "new" /\ ~Connects(cmdQueue, p)
      BY <2>2, <2>3 DEF AskedOnce, Requested, Ordered
    <2>5. /\ \A q : Connects(cmdQueue', q) => Connects(cmdQueue, q) \/ q = p
          /\ ConnectsOnce(cmdQueue')
      BY <1>1, <2>1, <2>2, <2>4, ConnectsAfterAppend DEF AskedOnce
    <2> HIDE DEF p, cmd
    <2>6. AskedOnce'
      BY <2>1, <2>3, <2>4, <2>5 DEF AskedOnce, Requested, Ordered, Announcing
    <2>7. OneUnderway'
      BY <2>1, <2>2, <2>3, <2>5
      DEF OneUnderway, Underway, Requested, Ordered, Announcing
    <2> QED
      BY <2>6, <2>7
  <1>7. CASE NodeShutdown
    <2>1. /\ \A q : Connects(nodeQueue', q) => Connects(nodeQueue, q)
          /\ ConnectsOnce(nodeQueue')
      BY <1>1, <1>7, ConnectsAfterTail DEF NodeShutdown, AskedOnce
    <2> QED
      BY <1>3, <1>4, <1>7, <2>1 DEF NodeShutdown
  <1>8. CASE NodeJoined
    BY <1>3, <1>4, <1>8 DEF NodeJoined, AskedOnce
  <1>9. CASE NodeKeyError
    BY <1>3, <1>4, <1>9 DEF NodeKeyError, TakeEvent, AskedOnce
  <1>10. CASE NodeExit \/ NodePoll \/ NodeNotDue \/ NodeNoEvent
    BY <1>2, <1>10 DEF NodeExit, NodePoll, NodeNotDue, NodeNoEvent
  <1>11. CASE NodeConnected \/ NodeConnectFailed \/ NodeMessage \/ NodeDisconnected
    BY <1>2, <1>11
    DEF NodeConnected, NodeConnectFailed, NodeMessage, NodeDisconnected, TakeEvent
  <1> QED
    BY <1>5, <1>6, <1>7, <1>8, <1>9, <1>10, <1>11
    DEF NodeStep, NodeHandleCommand, NodeTakeEvent

LEMMA NetworkAttempts ==
  ASSUME ClusterTypeOK, AskedOnce, OneUnderway,
         NetworkStep, UNCHANGED <<nodeVars, mainProcessVars>>
  PROVE  AskedOnce' /\ OneUnderway'
  <1> USE DEF mainVars, threadVars, senderVars
  <1>1. /\ TypeOK /\ cmdQueue \in Seq(Command) /\ infoQueue \in Seq(Info)
        /\ thread \in [Peer -> ThreadPlace]
    BY DEF ClusterTypeOK, TypeOK
  <1>2. UNCHANGED <<nodeQueue, asked>> /\ ConnectsOnce(nodeQueue) /\ ConnectsOnce(cmdQueue)
    BY DEF nodeVars, mainProcessVars, AskedOnce
  <1>3. ASSUME NEW type, TakeCommand(type), type # "CONNECT", UNCHANGED <<thread, infoQueue>>
        PROVE  AskedOnce' /\ OneUnderway'
    <2>1. /\ \A q : Connects(cmdQueue', q) => Connects(cmdQueue, q)
          /\ ConnectsOnce(cmdQueue')
      BY <1>1, <1>2, <1>3, ConnectsAfterTail DEF TakeCommand
    <2>2. NoNewAttempt
      BY <1>2, <1>3, <2>1 DEF NoNewAttempt
    <2> QED
      BY <2>2, NoNewAttemptKeeps
  <1>4. ASSUME UNCHANGED cmdQueue,
               \A q \in Peer : /\ Announces(infoQueue', q) => Announces(infoQueue, q)
                               /\ thread'[q] = "new" <=> thread[q] = "new"
                               /\ thread'[q] = "connecting" => thread[q] = "connecting"
        PROVE  AskedOnce' /\ OneUnderway'
    BY <1>2, <1>4, NoNewAttemptKeeps DEF NoNewAttempt
  <1>5. CASE CommandConnect \/ CommandConnectRaises
    <2> DEFINE p == Head(cmdQueue).host
    <2>1. /\ Head(cmdQueue) \in Command /\ Head(cmdQueue).type = "CONNECT"
          /\ cmdQueue' = Tail(cmdQueue) /\ cmdQueue # <<>>
          /\ \E place \in {"connecting", "vanished"} : thread' = [thread EXCEPT ![p] = place]
          /\ UNCHANGED infoQueue
      BY <1>1, <1>5, TailElements DEF CommandConnect, CommandConnectRaises, TakeCommand
    <2>2. p \in Peer
      BY <2>1, FieldTypes
    <2>3. /\ Connects(cmdQueue, p)
          /\ \A q : Connects(cmdQueue', q) => Connects(cmdQueue, q)
          /\ ~Connects(cmdQueue', p)
          /\ ConnectsOnce(cmdQueue')
      BY <1>1, <1>2, <2>1, ConnectsAfterTail
    <2>4. p \in asked /\ thread[p] = "new" /\ ~Connects(nodeQueue, p) /\ ~Announcing(p)
      BY <2>2, <2>3 DEF AskedOnce, Requested, Ordered
    <2> HIDE DEF p
    <2>5. /\ \A q \in Peer : q # p => thread'[q] = thread[q]
          /\ thread'[p] \in {"connecting", "vanished"}
      BY <1>1, <2>1, <2>2
    <2>6. AskedOnce'
      BY <1>2, <2>1, <2>2, <2>3, <2>4, <2>5
      DEF AskedOnce, Requested, Ordered, Announcing
    <2>7. OneUnderway'
      BY <1>2, <2>1, <2>2, <2>3, <2>5
      DEF OneUnderway, Underway, Requested, Ordered, Announcing
    <2> QED
      BY <2>6, <2>7
  <1>6. CASE CommandDisconnect \/ CommandSendMessage \/ CommandSetVersion \/ CommandShutdown
    <2>1. \E type \in {"DISCONNECT", "SEND_MESSAGE", "SET_VERSION", "SHUTDOWN"} :
            TakeCommand(type)
      BY <1>6
      DEF CommandDisconnect, CommandSendMessage, CommandSetVersion, CommandShutdown
    <2>2. UNCHANGED <<thread, infoQueue>>
      BY <1>6
      DEF CommandDisconnect, CommandSendMessage, CommandSetVersion, CommandShutdown
    <2> QED
      BY <1>3, <2>1, <2>2
  <1>7. CASE NoCommand \/ InfoTimeout \/ ProcessExit
    BY <1>4, <1>7 DEF NoCommand, InfoTimeout, ProcessExit
  <1>8. CASE HandleInfo
    <2>1. infoQueue # <<>> /\ infoQueue' = Tail(infoQueue) /\ UNCHANGED <<cmdQueue, thread>>
      BY <1>8 DEF HandleInfo, InfoConnected, InfoDisconnected, InfoConnectFailed,
                  InfoMsgReceived, TakeInfo
    <2>2. \A q : Announces(infoQueue', q) => Announces(infoQueue, q)
      BY <1>1, <2>1, NoticesAfterTail
    <2> QED
      BY <1>4, <2>1, <2>2
  <1>9. ASSUME NEW p \in Peer, PeerStep(p) PROVE AskedOnce' /\ OneUnderway'
    <2> USE DEF At, Goto
    <2>1. CASE ConnectOk(p)
      <3> DEFINE info == [type |-> "CONNECTED", peer |-> p]
      <3>1. /\ info \in Info /\ info.peer = p /\ infoQueue' = Append(infoQueue, info)
            /\ UNCHANGED cmdQueue
            /\ thread[p] = "connecting" /\ thread' = [thread EXCEPT ![p] = "announced"]
        BY <2>1 DEF ConnectOk, Notify, Info
      <3>2. \A q : Announces(infoQueue', q) => Announces(infoQueue, q) \/ q = p
        BY <1>1, <3>1, NoticesAfterAppend
      <3>3. AskedOnce'
        BY <1>1, <1>2, <3>1, <3>2
        DEF AskedOnce, Requested, Ordered, Announcing, Announces
      <3>4. OneUnderway'
        BY <1>1, <1>2, <3>1, <3>2
        DEF OneUnderway, Underway, Requested, Ordered, Announcing, Announces
      <3> QED
        BY <3>3, <3>4
    <2>2. ASSUME NEW info \in Info, infoQueue' = Append(infoQueue, info),
                 info.type # "CONNECTED"
          PROVE  \A q : Announces(infoQueue', q) => Announces(infoQueue, q)
      BY <1>1, <2>2, NoticesAfterAppend
    <2>3. CASE ConnectFail(p) \/ RemovePeer(p)
      <3>1. PICK type \in {"CONNECT_FAILED", "DISCONNECTED"} : Notify(type, p)
        BY <2>3 DEF ConnectFail, RemovePeer
      <3>2. \A q : Announces(infoQueue', q) => Announces(infoQueue, q)
        BY <2>2, <3>1 DEF Notify, Info
      <3> QED
        BY <1>1, <1>4, <2>3, <3>2 DEF ConnectFail, RemovePeer
    <2>4. CASE RecvMessage(p)
      <3>1. PICK kind \in Kind : infoQueue' = Append(infoQueue,
              [type |-> "MSG_RECEIVED", peer |-> p, msg |-> [kind |-> kind, peer |-> p]])
        BY <2>4 DEF RecvMessage
      <3>2. [type |-> "MSG_RECEIVED", peer |-> p, msg |-> [kind |-> kind, peer |-> p]] \in Info
        BY DEF Info, Message
      <3>3. \A q : Announces(infoQueue', q) => Announces(infoQueue, q)
        BY <2>2, <3>1, <3>2
      <3> QED
        BY <1>1, <1>4, <2>4, <3>3 DEF RecvMessage
    <2>5. CASE PeerNameError(p) \/ StartSender(p) \/ TestInterrupted(p) \/ RecvNothing(p)
               \/ RecvEnd(p) \/ CloseSocket(p)
      <3>1. UNCHANGED <<cmdQueue, infoQueue>>
        BY <2>5 DEF PeerNameError, StartSender, TestInterrupted, RecvNothing, RecvEnd,
                    CloseSocket
      <3>2. /\ thread[p] # "new"
            /\ \E place \in ThreadPlace \ {"new", "connecting"} :
                 thread' = [thread EXCEPT ![p] = place]
        BY <2>5 DEF PeerNameError, StartSender, TestInterrupted, RecvNothing, RecvEnd,
                    CloseSocket, ThreadPlace
      <3> QED
        BY <1>1, <1>4, <3>1, <3>2
    <2> QED
      BY <1>9, <2>1, <2>3, <2>4, <2>5 DEF PeerStep
  <1>10. ASSUME NEW p \in Peer, SenderStep(p) PROVE AskedOnce' /\ OneUnderway'
    <2>1. UNCHANGED <<cmdQueue, infoQueue, thread>>
      BY <1>10 DEF SenderStep, SenderTest, SenderTimeout, SenderWrite
    <2> QED
      BY <1>4, <2>1
  <1> QED
    BY <1>5, <1>6, <1>7, <1>8, <1>9, <1>10 DEF NetworkStep, ManagerStep, HandleCommand

(* At the start nothing is asked for. *)
LEMMA ClusterInitAttempts == ClusterInit => AskedOnce /\ OneUnderway /\ JoinsEnded
  <1> SUFFICES ASSUME ClusterInit PROVE AskedOnce /\ OneUnderway /\ JoinsEnded
    OBVIOUS
  <1>1. /\ nodeQueue = <<>> /\ cmdQueue = <<>> /\ infoQueue = <<>> /\ nodePc = "drain"
        /\ \A p \in Peer : thread[p] = "new"
    BY DEF ClusterInit, Init, NodeInit
  <1>2. \A p : ~Connects(nodeQueue, p) /\ ~Connects(cmdQueue, p) /\ ~Announces(infoQueue, p)
    BY <1>1 DEF Connects, Announces
  <1> QED
    BY <1>1, <1>2
    DEF AskedOnce, OneUnderway, Underway, JoinsEnded, Requested, Ordered,
                      Announcing, Announces, ConnectsOnce

(* A process that has ended does nothing. *)
LEMMA ExitedIsLast ==
  ASSUME pc = "exited"
  PROVE  ~NetworkStep
  BY DEF NetworkStep, ManagerStep, HandleCommand, HandleInfo, CommandConnect,
         CommandConnectRaises, CommandDisconnect, CommandSendMessage, CommandSetVersion, CommandShutdown,
         TakeCommand, NoCommand, InfoConnected, InfoDisconnected, InfoConnectFailed,
         InfoMsgReceived, TakeInfo, InfoTimeout, ProcessExit, PeerStep, ConnectOk,
         ConnectFail, PeerNameError, StartSender, TestInterrupted, RecvMessage,
         RecvNothing, RecvEnd, CloseSocket, RemovePeer, At, SenderStep, SenderTest,
         SenderTimeout, SenderWrite, SenderAt

LEMMA JoinsKept ==
  ASSUME JoinsEnded, [ClusterNext]_allVars
  PROVE  JoinsEnded'
  <1>1. CASE MainStep
    BY <1>1 DEF MainStep, MainConnect, MainShutdown, MainJoined, vars, mainVars,
                nodeVars, JoinsEnded
  <1>2. CASE NodeStep
    BY <1>2
    DEF JoinsEnded, NodeStep, NodePut, NodeHandleCommand, NodeConnect, NodeShutdown,
        NodeJoined, NodeExit, NodePoll, NodeNotDue, NodeTakeEvent, NodeConnected,
        NodeConnectFailed, NodeMessage, NodeDisconnected, NodeKeyError, NodeNoEvent,
        TakeEvent, NodeAt, NetworkUnchanged, vars, mainVars
  <1>3. CASE NetworkStep /\ UNCHANGED nodeVars
    BY <1>3, ExitedIsLast DEF JoinsEnded, nodeVars
  <1>4. CASE UNCHANGED allVars
    BY <1>4 DEF allVars, vars, mainVars, nodeVars, JoinsEnded
  <1> QED
    BY <1>1, <1>2, <1>3, <1>4 DEF ClusterNext

-----------------------------------------------------------------------------
(***************************************************************************)
(* The refinement: what each step is to NetworkManager.  While the second  *)
(* SHUTDOWN is not on the command queue the two see the same queue.        *)
(***************************************************************************)

(* A step of the network process is the same step there. *)
LEMMA NetworkMapped ==
  ASSUME nodePc \notin {"rejoining", "stopped"}, UNCHANGED nodeVars, NetworkStep
  PROVE  Network!NetworkStep /\ UNCHANGED Network!userVars
  <1> DEFINE queue == IF nodePc \in {"rejoining", "stopped"} THEN Front(cmdQueue) ELSE cmdQueue
  <1> USE DEF mainVars, threadVars, senderVars, Network!mainVars, Network!threadVars,
              Network!senderVars
  <1>1. queue = cmdQueue /\ queue' = cmdQueue'
    BY DEF nodeVars
  <1>2. UNCHANGED Network!userVars
    BY DEF nodeVars, history, Network!userVars, Network!history, UserPlace
  <1>3. CommandConnect => Network!CommandConnect
    BY <1>1
    DEF CommandConnect, Network!CommandConnect, TakeCommand, Network!TakeCommand
  <1>r. CommandConnectRaises => Network!CommandConnectRaises
    BY <1>1
    DEF CommandConnectRaises, Network!CommandConnectRaises, TakeCommand,
        Network!TakeCommand, LeaveMainLoop, Network!LeaveMainLoop, Range, Network!Range
  <1>4. CommandDisconnect => Network!CommandDisconnect
    BY <1>1
    DEF CommandDisconnect, Network!CommandDisconnect, TakeCommand, Network!TakeCommand
  <1>5. CommandSendMessage => Network!CommandSendMessage
    BY <1>1
    DEF CommandSendMessage, Network!CommandSendMessage, TakeCommand,
        Network!TakeCommand, CanSend, Network!CanSend, LeaveMainLoop,
        Network!LeaveMainLoop, Range, Network!Range
  <1>6. CommandSetVersion => Network!CommandSetVersion
    BY <1>1
    DEF CommandSetVersion, Network!CommandSetVersion, TakeCommand, Network!TakeCommand
  <1>7. CommandShutdown => Network!CommandShutdown
    BY <1>1
    DEF CommandShutdown, Network!CommandShutdown, TakeCommand, Network!TakeCommand,
        LeaveMainLoop, Network!LeaveMainLoop, Range, Network!Range
  <1>8. NoCommand => Network!NoCommand
    BY <1>1 DEF NoCommand, Network!NoCommand
  <1>9. InfoConnected => Network!InfoConnected
    BY <1>1
    DEF InfoConnected, Network!InfoConnected, TakeInfo, Network!TakeInfo, Forward,
        Network!Forward, NextPeerId, Network!NextPeerId
  <1>10. InfoDisconnected => Network!InfoDisconnected
    BY <1>1
    DEF InfoDisconnected, Network!InfoDisconnected, TakeInfo, Network!TakeInfo,
        Forward, Network!Forward, LeaveMainLoop, Network!LeaveMainLoop, Range,
        Network!Range, Restrict, Network!Restrict
  <1>11. InfoConnectFailed => Network!InfoConnectFailed
    BY <1>1
    DEF InfoConnectFailed, Network!InfoConnectFailed, TakeInfo, Network!TakeInfo,
        Forward, Network!Forward
  <1>12. InfoMsgReceived => Network!InfoMsgReceived
    BY <1>1 DEF InfoMsgReceived, Network!InfoMsgReceived, TakeInfo, Network!TakeInfo
  <1>13. InfoTimeout => Network!InfoTimeout
    BY <1>1 DEF InfoTimeout, Network!InfoTimeout
  <1>14. ProcessExit => Network!ProcessExit
    BY <1>1 DEF ProcessExit, Network!ProcessExit, Flushed, Network!Flushed
  <1>15. \A p \in Peer : ConnectOk(p) => Network!ConnectOk(p)
    BY <1>1
    DEF ConnectOk, Network!ConnectOk, Notify, Network!Notify, At, Network!At, Goto,
        Network!Goto
  <1>16. \A p \in Peer : ConnectFail(p) => Network!ConnectFail(p)
    BY <1>1
    DEF ConnectFail, Network!ConnectFail, Notify, Network!Notify, At, Network!At,
        Goto, Network!Goto
  <1>17. \A p \in Peer : PeerNameError(p) => Network!PeerNameError(p)
    BY <1>1
    DEF PeerNameError, Network!PeerNameError, At, Network!At, Goto, Network!Goto
  <1>18. \A p \in Peer : StartSender(p) => Network!StartSender(p)
    BY <1>1 DEF StartSender, Network!StartSender, At, Network!At, Goto, Network!Goto
  <1>19. \A p \in Peer : TestInterrupted(p) => Network!TestInterrupted(p)
    BY <1>1
    DEF TestInterrupted, Network!TestInterrupted, At, Network!At, Goto, Network!Goto
  <1>20. \A p \in Peer : RecvMessage(p) => Network!RecvMessage(p)
    BY <1>1
    DEF RecvMessage, Network!RecvMessage, Decodable, Network!Decodable, At,
        Network!At, Goto, Network!Goto
  <1>21. \A p \in Peer : RecvNothing(p) => Network!RecvNothing(p)
    BY <1>1 DEF RecvNothing, Network!RecvNothing, At, Network!At, Goto, Network!Goto
  <1>22. \A p \in Peer : RecvEnd(p) => Network!RecvEnd(p)
    BY <1>1 DEF RecvEnd, Network!RecvEnd, At, Network!At, Goto, Network!Goto
  <1>23. \A p \in Peer : CloseSocket(p) => Network!CloseSocket(p)
    BY <1>1 DEF CloseSocket, Network!CloseSocket, At, Network!At, Goto, Network!Goto
  <1>24. \A p \in Peer : RemovePeer(p) => Network!RemovePeer(p)
    BY <1>1
    DEF RemovePeer, Network!RemovePeer, Notify, Network!Notify, SenderFinished,
        Network!SenderFinished, At, Network!At, Goto, Network!Goto
  <1>25. \A p \in Peer : SenderTest(p) => Network!SenderTest(p)
    BY <1>1
    DEF SenderTest, Network!SenderTest, SenderAt, Network!SenderAt, EndSender,
        Network!EndSender
  <1>26. \A p \in Peer : SenderTimeout(p) => Network!SenderTimeout(p)
    BY <1>1 DEF SenderTimeout, Network!SenderTimeout, SenderAt, Network!SenderAt
  <1>27. \A p \in Peer : SenderWrite(p) => Network!SenderWrite(p)
    BY <1>1
    DEF SenderWrite, Network!SenderWrite, SenderAt, Network!SenderAt, EndSender,
        Network!EndSender
  <1> QED
    BY <1>2, <1>3, <1>r, <1>4, <1>5, <1>6, <1>7, <1>8, <1>9, <1>10, <1>11, <1>12, <1>13,
       <1>14, <1>15, <1>16, <1>17, <1>18, <1>19, <1>20, <1>21, <1>22, <1>23, <1>24,
       <1>25, <1>26, <1>27
    DEF NetworkStep, Network!NetworkStep, ManagerStep, Network!ManagerStep,
        HandleCommand, Network!HandleCommand, HandleInfo, Network!HandleInfo,
        PeerStep, Network!PeerStep, SenderStep, Network!SenderStep

LEMMA FrontOfAppend ==
  ASSUME NEW S, NEW s \in Seq(S), NEW e \in S
  PROVE  Front(Append(s, e)) = s
  BY DEF Front

(* The main process is not seen there. *)
LEMMA MainMapped ==
  ASSUME MainStep
  PROVE  UNCHANGED Network!allVars
  <1>1. UNCHANGED <<vars, nodePc, peerMap, commands, history>>
    BY DEF MainStep, MainConnect, MainShutdown, MainJoined, nodeVars
  <1> QED
    BY <1>1
    DEF Network!allVars, Network!vars, Network!userVars, Network!mainVars,
        Network!threadVars,
        Network!senderVars, Network!history, vars, mainVars, threadVars, senderVars,
        history, UserPlace

(* What a handler puts is a command that names a peer its user knows. *)
LEMMA IssueMapped ==
  ASSUME TodoNamesKnown, ClusterTypeOK, NodePut
  PROVE  Network!UserStep
  <1> DEFINE cmd == Head(todo)
  <1>1. /\ todo \in Seq(Command) /\ todo # <<>> /\ commands \in Nat
        /\ peerMap \in [DOMAIN peerMap -> PeerHandle]
    BY DEF NodePut, ClusterTypeOK, NodeTypeOK
  <1>2. cmd \in Command /\ cmd = todo[1] /\ 1 \in DOMAIN todo
    BY <1>1, TailElements
  <1>3. /\ cmd.type \in {"SEND_MESSAGE", "SET_VERSION", "DISCONNECT"}
        /\ cmd.id \in DOMAIN peerMap
        /\ cmd.type = "SEND_MESSAGE" => cmd.msg.peer = peerMap[cmd.id].host
    BY <1>2 DEF TodoNamesKnown
  <1> HIDE DEF cmd
  <1>4. nodePc \in {"drain", "event"} /\ UNCHANGED nodePc
    BY <1>1 DEF TodoNamesKnown, NodePut
  <1>5. Network!Issue(cmd)
    <2>1. commands + 1 \in Nat
      BY <1>1
    <2> QED
      BY <1>4, <2>1
      DEF NodePut, Put, NetworkUnchanged, history, cmd, Network!Issue, Network!Put,
          UserPlace,
          Network!mainVars, Network!threadVars, Network!senderVars, Network!history,
          mainVars, threadVars, senderVars
  <1> DEFINE known == [i \in DOMAIN peerMap |-> peerMap[i].host]
  <1>6. CASE cmd.type = "SEND_MESSAGE"
    <2>1. /\ cmd = [type |-> "SEND_MESSAGE", id |-> cmd.id, msg |-> cmd.msg]
          /\ cmd.msg = [kind |-> cmd.msg.kind, peer |-> cmd.msg.peer]
          /\ cmd.msg.kind \in Kind
      BY <1>2, <1>6 DEF Command, Message
    <2>2. cmd = [type |-> "SEND_MESSAGE", id |-> cmd.id,
                 msg |-> [kind |-> cmd.msg.kind, peer |-> known[cmd.id]]]
      BY <1>3, <1>6, <2>1
    <2>3. Network!UserSend(cmd.id)
      BY <1>5, <2>1, <2>2 DEF Network!UserSend
    <2> QED
      BY <1>3, <2>3 DEF Network!UserStep
  <1>7. CASE cmd.type = "SET_VERSION"
    <2>1. /\ cmd.version \in Version
          /\ cmd = [type |-> "SET_VERSION", id |-> cmd.id, version |-> cmd.version]
      BY <1>2, <1>7 DEF Command
    <2>2. Network!UserSetVersion(cmd.id)
      BY <1>5, <2>1 DEF Network!UserSetVersion
    <2> QED
      BY <1>3, <2>2 DEF Network!UserStep
  <1>8. CASE cmd.type = "DISCONNECT"
    <2>1. cmd = [type |-> "DISCONNECT", id |-> cmd.id]
      BY <1>2, <1>8 DEF Command
    <2>2. Network!UserDisconnect(cmd.id)
      BY <1>5, <2>1 DEF Network!UserDisconnect
    <2> QED
      BY <1>3, <2>2 DEF Network!UserStep
  <1> QED
    BY <1>3, <1>6, <1>7, <1>8

(* A step of the node is one of the user, or none. *)
LEMMA NodeMapped ==
  ASSUME ClusterTypeOK, TodoNamesKnown, AskedOnce, OneUnderway, JoinsEnded, NodeStep
  PROVE  Network!UserStep \/ UNCHANGED Network!allVars
  <1> USE DEF mainVars, threadVars, senderVars, vars, history, Network!mainVars,
              Network!threadVars,
              Network!senderVars, Network!vars, Network!history
  <1>1. /\ nodeQueue \in Seq(NodeCommand) /\ cmdQueue \in Seq(Command)
        /\ outQueue \in Seq(Event)
        /\ peerMap \in [DOMAIN peerMap -> PeerHandle] /\ nodePc \in NodePlace
    BY DEF ClusterTypeOK, TypeOK, NodeTypeOK
  <1>2. ASSUME UNCHANGED <<vars, commands, history, peerMap>>,
               UNCHANGED nodePc \/ (nodePc \in {"drain", "event"} /\ nodePc' \in {"drain", "event"})
                 \/ (nodePc = "rejoining" /\ nodePc' = "stopped")
        PROVE  UNCHANGED Network!allVars
    BY <1>2 DEF Network!allVars, Network!userVars, UserPlace
  <1>3. CASE NodePut
    BY <1>3, IssueMapped
  <1>4. CASE NodeConnect
    <2> DEFINE p == Head(nodeQueue).host
    <2>1. Head(nodeQueue) \in NodeCommand /\ Head(nodeQueue).type = "CONNECT" /\ nodeQueue # <<>>
      BY <1>1, <1>4, TailElements DEF NodeConnect
    <2>2. p \in Peer /\ Requested(p)
      BY <1>1, <2>1, ConnectsAfterTail DEF NodeCommand, Requested
    <2>3. thread[p] = "new" /\ ~Ordered(p)
      BY <2>2 DEF AskedOnce
    <2>4. SerialConnects =>
            \A q \in Peer : ~(Ordered(q) \/ thread[q] = "connecting" \/ Announcing(q))
      <3>1. ASSUME SerialConnects, NEW q \in Peer,
                   Ordered(q) \/ thread[q] = "connecting" \/ Announcing(q)
            PROVE  FALSE
        <4>1. q = p
          BY <2>2, <3>1 DEF OneUnderway, Underway
        <4> QED
          BY <2>2, <2>3, <3>1, <4>1 DEF AskedOnce
      <3> QED
        BY <3>1
    <2>5. nodePc = "drain" /\ nodePc' = "drain"
      BY <1>4 DEF NodeConnect, NodeAt
    <2>6. \A q : Network!Ordered(q) <=> Ordered(q)
      BY <2>5 DEF Network!Ordered, Ordered, Connects
    <2>7. \A q : Network!Pending(q) => Ordered(q) \/ thread[q] = "connecting" \/ Announcing(q)
      BY <2>6 DEF Network!Pending, Network!Announcing, Announcing
    <2> HIDE DEF p
    <2>8. Network!UserConnect(p)
      BY <1>4, <2>3, <2>4, <2>5, <2>6, <2>7
      DEF NodeConnect, p, Put, NetworkUnchanged, Network!UserConnect, Network!Put,
          Network!userVars, UserPlace
    <2> QED
      BY <2>2, <2>8 DEF Network!UserStep
  <1>5. CASE NodeShutdown
    BY <1>5 DEF NodeShutdown, NodeAt, Put, NetworkUnchanged, Network!UserStep,
                Network!UserShutdown, Network!Put, UserPlace
  <1>6. CASE NodeJoined
    <2>1. [type |-> "SHUTDOWN"] \in Command
      BY DEF Command
    <2>2. Front(cmdQueue') = cmdQueue
      BY <1>1, <1>6, <2>1, FrontOfAppend DEF NodeJoined, Put
    <2> QED
      BY <1>6, <2>2
      DEF NodeJoined, NetworkUnchanged, Network!UserStep, Network!UserJoined,
          UserPlace
  <1>7. CASE NodeExit
    <2>1. CASE nodePc = "rejoining"
      BY <1>2, <1>7, <2>1 DEF NodeExit
    <2>2. CASE nodePc = "raised"
      BY <1>7, <2>2 DEF NodeExit, Network!UserStep, Network!UserJoined, UserPlace
    <2> QED
      BY <1>7, <2>1, <2>2 DEF NodeExit
  <1>8. CASE NodePoll \/ NodeNotDue \/ NodeNoEvent
    BY <1>2, <1>8 DEF NodePoll, NodeNotDue, NodeNoEvent, NodeAt
  <1>9. CASE NodeTakeEvent
    <2>1. PICK type : TakeEvent(type)
      BY <1>9
      DEF NodeTakeEvent, NodeConnected, NodeConnectFailed, NodeMessage,
          NodeDisconnected,
                  NodeKeyError
    <2>2. /\ Head(outQueue) \in Event /\ nodePc = "event"
          /\ \A t : TakeEvent(t) =>
               /\ UserPlace = "running" /\ outQueue # <<>> /\ Head(outQueue).type = t
               /\ outQueue' = Tail(outQueue) /\ UNCHANGED commands /\ NetworkUnchanged
      BY <1>1, <2>1, TailElements DEF TakeEvent, NodeAt, UserPlace
    <2>3. \A t : TakeEvent(t) => Network!TakeEvent(t)
      BY <2>2 DEF Network!TakeEvent, NetworkUnchanged
    <2> DEFINE known == [i \in DOMAIN peerMap |-> peerMap[i].host]
    <2>4. nodePc' \in {"drain", "raised"}
      BY <1>9
      DEF NodeTakeEvent, NodeConnected, NodeConnectFailed, NodeMessage,
          NodeDisconnected,
                  NodeKeyError
    <2>5. CASE NodeConnected
      <3>1. known' = [i \in DOMAIN known \cup {Head(outQueue).id} |->
                       IF i = Head(outQueue).id THEN Head(outQueue).host ELSE known[i]]
        BY <2>5 DEF NodeConnected
      <3>2. Network!UserConnected
        BY <2>2, <2>3, <2>5, <3>1 DEF NodeConnected, Network!UserConnected, UserPlace
      <3> QED
        BY <3>2 DEF Network!UserStep, Network!UserTakeEvent
    <2>6. CASE NodeConnectFailed
      <3>1. Network!UserRefused
        BY <2>2, <2>3, <2>6 DEF NodeConnectFailed, Network!UserRefused, UserPlace
      <3> QED
        BY <3>1 DEF Network!UserStep, Network!UserTakeEvent
    <2>7. CASE NodeMessage
      <3>1. /\ DOMAIN peerMap' = DOMAIN peerMap
            /\ \A k \in DOMAIN peerMap : peerMap'[k].host = peerMap[k].host
        BY <2>7, HandlerEffect DEF NodeMessage, ClusterTypeOK
      <3>2. known' = known
        BY <3>1
      <3>3. Network!UserMessage
        BY <2>2, <2>3, <2>7, <3>2 DEF NodeMessage, Network!UserMessage, UserPlace
      <3> QED
        BY <3>3 DEF Network!UserStep, Network!UserTakeEvent
    <2>8. CASE NodeDisconnected
      <3> DEFINE id == Head(outQueue).id
      <3>1. known' = [i \in DOMAIN known \ {id} |-> known[i]]
        <4>1. peerMap' = [i \in DOMAIN peerMap \ {id} |-> peerMap[i]]
          BY <2>8 DEF NodeDisconnected
        <4> HIDE DEF id
        <4>2. /\ DOMAIN peerMap' = DOMAIN peerMap \ {id}
              /\ \A i \in DOMAIN peerMap' : peerMap'[i] = peerMap[i]
          BY <4>1
        <4> QED
          BY <4>2
      <3>2. Network!UserDisconnected
        BY <2>2, <2>3, <2>8, <3>1
        DEF NodeDisconnected, Network!UserDisconnected, UserPlace, Network!Restrict
      <3> QED
        BY <3>2 DEF Network!UserStep, Network!UserTakeEvent
    <2>9. CASE NodeKeyError
      <3>1. Network!UserKeyError
        BY <2>2, <2>3, <2>9
        DEF NodeKeyError, Put, Network!Put, Network!UserKeyError, UserPlace
      <3> QED
        BY <3>1 DEF Network!UserStep, Network!UserTakeEvent
    <2> QED
      BY <1>9, <2>5, <2>6, <2>7, <2>8, <2>9 DEF NodeTakeEvent
  <1> QED
    BY <1>3, <1>4, <1>5, <1>6, <1>7, <1>8, <1>9 DEF NodeStep, NodeHandleCommand

(* Every step of the program is one of NetworkManager, or none. *)
LEMMA ClusterMapped ==
  ASSUME ClusterTypeOK, TodoNamesKnown, AskedOnce, OneUnderway, JoinsEnded,
         [ClusterNext]_allVars
  PROVE  [Network!NetworkNext]_(Network!allVars)
  <1>1. CASE MainStep
    BY <1>1, MainMapped
  <1>2. CASE NodeStep
    BY <1>2, NodeMapped DEF Network!NetworkNext
  <1>3. CASE NetworkStep /\ UNCHANGED nodeVars
    <2>1. nodePc \notin {"rejoining", "stopped"}
      BY <1>3, ExitedIsLast DEF JoinsEnded
    <2> QED
      BY <1>3, <2>1, NetworkMapped DEF Network!NetworkNext
  <1>4. CASE UNCHANGED allVars
    BY <1>4
    DEF allVars, nodeVars, vars, mainVars, threadVars, senderVars, history, UserPlace,
       Network!allVars, Network!vars, Network!userVars, Network!mainVars, Network!threadVars,
       Network!senderVars, Network!history
  <1> QED
    BY <1>1, <1>2, <1>3, <1>4 DEF ClusterNext

LEMMA InitMapped ==
  ASSUME ClusterInit
  PROVE  Network!NetworkInit
  <1>1. peerMap = [i \in {} |-> i] /\ nodePc = "drain" /\ DOMAIN peerMap = {}
    BY DEF ClusterInit, NodeInit
  <1>2. [i \in DOMAIN peerMap |-> peerMap[i].host] = [i \in {} |-> i]
    BY <1>1
  <1> QED
    BY <1>1, <1>2
    DEF ClusterInit, NodeInit, Init, Network!NetworkInit, Network!UserInit,
        Network!Init, UserPlace

-----------------------------------------------------------------------------
(* What the refinement needs of every reachable state. *)
ClusterFacts ==
  ClusterTypeOK /\ TodoNamesKnown /\ AskedOnce /\ OneUnderway /\ JoinsEnded

LEMMA ClusterFactsNext ==
  ASSUME ClusterFacts, [ClusterNext]_allVars
  PROVE  ClusterFacts'
  <1>1. ClusterTypeOK' /\ TodoNamesKnown' /\ JoinsEnded'
    BY ClusterStepTypes, JoinsKept DEF ClusterFacts
  <1>2. CASE MainStep
    BY <1>1, <1>2, MainAttempts DEF ClusterFacts
  <1>3. CASE NodeStep /\ UNCHANGED mainProcessVars
    BY <1>1, <1>3, NodeAttempts DEF ClusterFacts
  <1>4. CASE NetworkStep /\ UNCHANGED <<nodeVars, mainProcessVars>>
    BY <1>1, <1>4, NetworkAttempts DEF ClusterFacts
  <1>5. CASE UNCHANGED allVars
    <2>1. AskedOnce' /\ OneUnderway'
      BY <1>5
      DEF allVars, vars, mainVars, threadVars, senderVars, nodeVars, mainProcessVars,
         ClusterFacts, AskedOnce, OneUnderway, Underway, Requested, Ordered, Announcing
    <2> QED
      BY <1>1, <2>1 DEF ClusterFacts
  <1> QED
    BY <1>2, <1>3, <1>4, <1>5 DEF ClusterNext

LEMMA ClusterFactsHold == Spec => []ClusterFacts
  <1>1. ClusterInit => ClusterFacts
    BY ClusterInitTypes, ClusterInitAttempts DEF ClusterFacts
  <1>2. ClusterFacts /\ [ClusterNext]_allVars => ClusterFacts'
    BY ClusterFactsNext
  <1> QED
    BY <1>1, <1>2, PTL DEF Spec

(* Whatever the main process asks for and the remote ends send, the node    *)
(* uses the network process as NetworkManager lets its users: it names only *)
(* peers it knows, asks for a remote end once, and for one at a time if the *)
(* main process waits.                                                      *)
THEOREM NetworkUsed == Spec => UsesNetworkManager
  <1>1. ClusterInit => Network!NetworkInit
    BY InitMapped
  <1>2. ClusterFacts /\ [ClusterNext]_allVars => [Network!NetworkNext]_(Network!allVars)
    BY ClusterMapped DEF ClusterFacts
  <1> QED
    BY <1>1, <1>2, ClusterFactsHold, PTL DEF Spec, UsesNetworkManager, Network!Spec

-----------------------------------------------------------------------------
(***************************************************************************)
(* Our version message is the first a remote end reads.  What InOrder says *)
(* of the two queues it is put through survives each way they change.      *)
(***************************************************************************)
LEMMA OrderShrinks ==
  ASSUME NEW queue, NEW rest, NEW ids, NEW quiet, NEW ids2 \in SUBSET ids,
         NEW quiet2 \in SUBSET quiet, InOrder(queue, rest, ids, quiet)
  PROVE  InOrder(queue, rest, ids2, quiet2)
  BY DEF InOrder

LEMMA GreetedAfterAppend ==
  ASSUME NEW S, NEW queue \in Seq(S), NEW cmd \in S
  PROVE  \A k, n : n \in 0..Len(queue) =>
           /\ Greeted(queue, k, n) => Greeted(Append(queue, cmd), k, n)
           /\ Greeted(queue, k, n) => Greeted(Append(queue, cmd), k, Len(queue) + 1)
           /\ Greets(cmd, k) => Greeted(Append(queue, cmd), k, Len(queue) + 1)
  <1> DEFINE t == Append(queue, cmd)
  <1>1. /\ Len(queue) \in Nat
        /\ \A i \in 1..Len(queue) : t[i] = queue[i]
        /\ t[Len(queue) + 1] = cmd
    BY AppendElements
  <1> HIDE DEF t
  <1> SUFFICES ASSUME NEW k, NEW n \in 0..Len(queue)
               PROVE  /\ Greeted(queue, k, n) => Greeted(t, k, n)
                      /\ Greeted(queue, k, n) => Greeted(t, k, Len(queue) + 1)
                      /\ Greets(cmd, k) => Greeted(t, k, Len(queue) + 1)
    BY DEF t
  <1>2. \A j \in 1..n : j \in 1..Len(queue) /\ j \in 1..(Len(queue) + 1)
    BY <1>1
  <1>3. Len(queue) + 1 \in 1..(Len(queue) + 1)
    BY <1>1
  <1> QED
    BY <1>1, <1>2, <1>3 DEF Greeted

(* A command that carries no message is put. *)
LEMMA OrderAfterPut ==
  ASSUME NEW S, NEW queue \in Seq(S), NEW rest, NEW ids, NEW quiet, NEW cmd \in S,
         cmd.type # "SEND_MESSAGE", InOrder(queue, rest, ids, quiet)
  PROVE  InOrder(Append(queue, cmd), rest, ids, quiet)
  <1> DEFINE t == Append(queue, cmd)
  <1>1. /\ Len(queue) \in Nat /\ DOMAIN queue = 1..Len(queue)
        /\ Len(t) = Len(queue) + 1 /\ DOMAIN t = 1..(Len(queue) + 1)
        /\ \A i \in 1..Len(queue) : t[i] = queue[i]
        /\ t[Len(queue) + 1] = cmd
    BY AppendElements
  <1>2. \A k, n : n \in 0..Len(queue) =>
          /\ Greeted(queue, k, n) => Greeted(t, k, n)
          /\ Greeted(queue, k, n) => Greeted(t, k, Len(queue) + 1)
    BY GreetedAfterAppend
  <1> HIDE DEF t
  <1>3. /\ \A i \in DOMAIN t : i = Len(queue) + 1 \/ (i \in DOMAIN queue /\ i - 1 \in 0..Len(queue))
        /\ Len(queue) \in 0..Len(queue)
    BY <1>1
  <1>4. InOrder(t, rest, ids, quiet)
    BY <1>1, <1>2, <1>3 DEF InOrder
  <1> QED
    BY <1>4 DEF t

(* The next command of the handler is put. *)
LEMMA OrderAfterMove ==
  ASSUME NEW S, NEW queue \in Seq(S), NEW rest \in Seq(S), rest # <<>>,
         NEW ids, NEW quiet, InOrder(queue, rest, ids, quiet)
  PROVE  InOrder(Append(queue, Head(rest)), Tail(rest), ids, quiet)
  <1> DEFINE cmd == Head(rest)
             t   == Append(queue, cmd)
             u   == Tail(rest)
  <1>1. /\ cmd \in S /\ cmd = rest[1] /\ 1 \in DOMAIN rest
        /\ DOMAIN rest = 1..Len(rest) /\ Len(rest) \in Nat
        /\ DOMAIN u = 1..(Len(rest) - 1)
        /\ \A i \in 1..(Len(rest) - 1) : u[i] = rest[i + 1]
    BY TailElements
  <1>2. /\ Len(queue) \in Nat /\ DOMAIN queue = 1..Len(queue)
        /\ Len(t) = Len(queue) + 1 /\ DOMAIN t = 1..(Len(queue) + 1)
        /\ \A i \in 1..Len(queue) : t[i] = queue[i]
        /\ t[Len(queue) + 1] = cmd
    BY <1>1, AppendElements
  <1>3. \A k, n : n \in 0..Len(queue) =>
          /\ Greeted(queue, k, n) => Greeted(t, k, n)
          /\ Greeted(queue, k, n) => Greeted(t, k, Len(queue) + 1)
          /\ Greets(cmd, k) => Greeted(t, k, Len(queue) + 1)
    BY <1>1, GreetedAfterAppend
  <1> HIDE DEF cmd, t, u
  <1>4. /\ \A i \in DOMAIN t : i = Len(queue) + 1 \/ (i \in DOMAIN queue /\ i - 1 \in 0..Len(queue))
        /\ Len(queue) \in 0..Len(queue) /\ (Len(queue) + 1) - 1 = Len(queue)
    BY <1>2
  <1>5. /\ \A i \in DOMAIN u : i + 1 \in DOMAIN rest /\ u[i] = rest[i + 1]
        /\ \A i \in DOMAIN rest : i = 1 \/ (i - 1 \in DOMAIN u /\ u[i - 1] = rest[i])
    BY <1>1
  <1>6. ASSUME NEW i \in DOMAIN t, t[i].type = "SEND_MESSAGE", t[i].id \in quiet
        PROVE  Greets(t[i], t[i].id) \/ Greeted(t, t[i].id, i - 1)
    <2>1. CASE i = Len(queue) + 1
      BY <1>1, <1>2, <1>3, <1>4, <1>6, <2>1 DEF InOrder
    <2>2. CASE i \in DOMAIN queue /\ i - 1 \in 0..Len(queue)
      BY <1>2, <1>3, <1>6, <2>2 DEF InOrder
    <2> QED
      BY <1>4, <2>1, <2>2
  <1>7. ASSUME NEW i \in DOMAIN u, u[i].type = "SEND_MESSAGE", u[i].id \in quiet
        PROVE  Greets(u[i], u[i].id) \/ Greeted(t, u[i].id, Len(t))
    BY <1>2, <1>3, <1>4, <1>5, <1>7 DEF InOrder
  <1>8. ASSUME NEW k \in ids \cap quiet
        PROVE  Greeted(t, k, Len(t)) \/ \E i \in DOMAIN u : Greets(u[i], k)
    BY <1>1, <1>2, <1>3, <1>4, <1>5 DEF InOrder
  <1>9. InOrder(t, u, ids, quiet)
    BY <1>6, <1>7, <1>8 DEF InOrder
  <1> QED
    BY <1>9 DEF t, u, cmd

(* The network process takes a command that greets none of the ids left. *)
LEMMA OrderAfterTake ==
  ASSUME NEW S, NEW queue \in Seq(S), queue # <<>>, NEW rest, NEW ids, NEW quiet,
         \A k \in quiet : ~Greets(Head(queue), k), InOrder(queue, rest, ids, quiet)
  PROVE  InOrder(Tail(queue), rest, ids, quiet)
  <1> DEFINE t == Tail(queue)
  <1>1. /\ Head(queue) = queue[1] /\ Len(queue) \in Nat /\ DOMAIN queue = 1..Len(queue)
        /\ Len(t) = Len(queue) - 1 /\ DOMAIN t = 1..(Len(queue) - 1)
        /\ 1 \in DOMAIN queue
        /\ \A i \in 1..(Len(queue) - 1) : t[i] = queue[i + 1]
    BY TailElements
  <1> HIDE DEF t
  <1>2. ASSUME NEW k \in quiet, NEW n \in 1..Len(queue), Greeted(queue, k, n)
        PROVE  Greeted(t, k, n - 1)
    <2>1. PICK j \in 1..n : Greets(queue[j], k)
      BY <1>2 DEF Greeted
    <2>2. j # 1
      BY <1>1, <2>1
    <2>3. j - 1 \in 1..(n - 1) /\ j - 1 \in 1..(Len(queue) - 1) /\ (j - 1) + 1 = j
      BY <1>1, <2>2
    <2> QED
      BY <1>1, <2>1, <2>3 DEF Greeted
  <1>3. /\ \A i \in DOMAIN t : /\ i + 1 \in DOMAIN queue /\ t[i] = queue[i + 1]
                               /\ i \in 1..Len(queue) /\ (i + 1) - 1 = i
        /\ Len(queue) \in 1..Len(queue)
    BY <1>1
  <1>4. ASSUME NEW i \in DOMAIN t, t[i].type = "SEND_MESSAGE", t[i].id \in quiet
        PROVE  Greets(t[i], t[i].id) \/ Greeted(t, t[i].id, i - 1)
    <2>1. Greets(t[i], t[i].id) \/ Greeted(queue, t[i].id, (i + 1) - 1)
      BY <1>3, <1>4 DEF InOrder
    <2> QED
      BY <1>2, <1>3, <1>4, <2>1
  <1>5. \A k \in quiet : Greeted(queue, k, Len(queue)) => Greeted(t, k, Len(t))
    BY <1>1, <1>2, <1>3
  <1>6. InOrder(t, rest, ids, quiet)
    BY <1>4, <1>5 DEF InOrder
  <1> QED
    BY <1>6 DEF t

(* A handler names ids of the map, and every one of them has its greeting   *)
(* on the queue.                                                            *)
LEMMA OrderAfterLoad ==
  ASSUME NEW queue, NEW rest, NEW ids, NEW quiet, InOrder(queue, <<>>, ids, quiet),
         \A i \in DOMAIN rest : rest[i].type = "SEND_MESSAGE" => rest[i].id \in ids
  PROVE  InOrder(queue, rest, ids, quiet)
  BY DEF InOrder

(* A new peer comes with its greeting. *)
LEMMA OrderAfterGreeting ==
  ASSUME NEW queue, NEW cmd, NEW k, NEW ids, NEW quiet, Greets(cmd, k),
         InOrder(queue, <<>>, ids, quiet)
  PROVE  InOrder(queue, <<cmd>>, ids \cup {k}, quiet)
  <1> DEFINE rest == <<cmd>>
  <1>1. DOMAIN rest = {1} /\ rest[1] = cmd
    OBVIOUS
  <1> HIDE DEF rest
  <1>2. InOrder(queue, rest, ids \cup {k}, quiet)
    BY <1>1 DEF InOrder, Greets
  <1> QED
    BY <1>2 DEF rest

-----------------------------------------------------------------------------
(***************************************************************************)
(* The steps of the network process.  No id becomes untouched again.       *)
(***************************************************************************)
Early == {"new", "connecting", "announced"}

Kept ==
  /\ KeysPassed'
  /\ Untouched' \subseteq Untouched
  /\ WrittenInOrder'
  /\ VersionSentFirst'

LEMMA UntouchedShrinks ==
  ASSUME TypeOK, TypeOK',
         peerIdCounter <= peerIdCounter',
         \A k \in DOMAIN peers' :
           k >= peerIdCounter \/ (k \in DOMAIN peers /\ peers'[k] = peers[k]),
         \A p \in Peer : sender'[p] # "done" /\ sendQueue'[p] = <<>> /\ wire'[p] = <<>>
                           => sender[p] # "done" /\ sendQueue[p] = <<>> /\ wire[p] = <<>>
  PROVE  Untouched' \subseteq Untouched
  <1>1. /\ peerIdCounter \in Nat /\ peerIdCounter' \in Nat
        /\ \A k \in DOMAIN peers : peers[k] \in Peer
        /\ \A k \in DOMAIN peers' : peers'[k] \in Peer
    BY DEF TypeOK
  <1>2. ASSUME NEW k \in Nat, k >= peerIdCounter' \/ (k \in DOMAIN peers' /\ Unsent(peers[k])')
        PROVE  k \in Untouched
    <2>1. CASE k >= peerIdCounter'
      BY <1>1, <2>1 DEF Untouched
    <2>2. CASE k \in DOMAIN peers' /\ Unsent(peers[k])'
      BY <1>1, <2>2 DEF Untouched, Unsent
    <2> QED
      BY <1>2, <2>1, <2>2
  <1> QED
    BY <1>2 DEF Untouched

(* Neither the dict nor the send threads have moved. *)
LEMMA Undisturbed ==
  ASSUME TypeOK, TypeOK', KeysPassed, WrittenInOrder, VersionSentFirst,
         UNCHANGED <<peers, peerIdCounter, sender, sendQueue, wire>>,
         \A p \in Peer : thread'[p] \in Early => thread[p] \in Early
  PROVE  Kept
  <1>1. peerIdCounter \in Nat
    BY DEF TypeOK
  <1>2. Untouched' \subseteq Untouched
    BY <1>1, UntouchedShrinks
  <1>3. KeysPassed' /\ WrittenInOrder' /\ VersionSentFirst'
    BY DEF KeysPassed, WrittenInOrder, VersionSentFirst, Early
  <1> QED
    BY <1>2, <1>3 DEF Kept

(* A key that is added to the dict was not passed before. *)
LEMMA DictKeeps ==
  ASSUME TypeOK, TypeOK', KeysPassed, WrittenInOrder, VersionSentFirst,
         InfoConnected \/ InfoDisconnected
  PROVE  Kept
  <1>1. peerIdCounter \in Nat /\ DOMAIN peers \subseteq Nat
    BY DEF TypeOK
  <1>2. UNCHANGED <<thread, senderVars>>
    BY DEF InfoConnected, InfoDisconnected, threadVars
  <1>3. WrittenInOrder' /\ VersionSentFirst'
    BY <1>2 DEF WrittenInOrder, VersionSentFirst, senderVars
  <1>4. /\ peerIdCounter <= peerIdCounter'
        /\ \A k \in DOMAIN peers' :
             k >= peerIdCounter \/ (k \in DOMAIN peers /\ peers'[k] = peers[k])
        /\ KeysPassed'
    <2>1. CASE InfoConnected
      <3>1. peerIdCounter' = peerIdCounter + 1
        BY <2>1 DEF InfoConnected, NextPeerId
      <3>2. /\ DOMAIN peers' = DOMAIN peers \cup {peerIdCounter}
            /\ \A k \in DOMAIN peers' : k = peerIdCounter \/ peers'[k] = peers[k]
        BY <2>1 DEF InfoConnected
      <3> QED
        BY <1>1, <3>1, <3>2 DEF KeysPassed
    <2>2. CASE InfoDisconnected
      <3>1. peerIdCounter' = peerIdCounter
        BY <2>2 DEF InfoDisconnected
      <3>2. \A k \in DOMAIN peers' : k \in DOMAIN peers /\ peers'[k] = peers[k]
        BY <2>2 DEF InfoDisconnected
      <3> QED
        BY <1>1, <3>1, <3>2 DEF KeysPassed
    <2> QED
      BY <2>1, <2>2
  <1>5. Untouched' \subseteq Untouched
    BY <1>2, <1>4, UntouchedShrinks DEF senderVars
  <1> QED
    BY <1>3, <1>4, <1>5 DEF Kept

(* The first message queued for an id is the one GreetedFirst says; if it   *)
(* cannot be queued the main loop ends.                                     *)
LEMMA SendKeeps ==
  ASSUME TypeOK, TypeOK', KeysPassed, GreetedFirst, WrittenInOrder, VersionSentFirst,
         CommandSendMessage
  PROVE  /\ Kept
         /\ pc' = "drain" => \A k \in Untouched' : ~Greets(Head(cmdQueue), k)
  <1> DEFINE cmd == Head(cmdQueue)
             p   == peers[cmd.id]
  <1>1. /\ cmdQueue \in Seq(Command) /\ cmdQueue # <<>>
        /\ pc = "drain" /\ cmd.type = "SEND_MESSAGE"
        /\ UNCHANGED <<peers, peerIdCounter, thread, sender, wire>>
    BY DEF CommandSendMessage, TakeCommand, TypeOK
  <1>2. cmd \in Command /\ cmd = cmdQueue[1] /\ 1 \in DOMAIN cmdQueue
    BY <1>1, TailElements
  <1>3. cmd.id \in Nat /\ cmd.msg \in Message
    BY <1>1, <1>2, FieldTypes
  <1>4. CASE ~CanSend(cmd.id)
    <2>1. UNCHANGED sendQueue /\ pc' = "exiting"
      BY <1>4 DEF CommandSendMessage, LeaveMainLoop
    <2> QED
      BY <1>1, <2>1, Undisturbed
  <1>5. CASE CanSend(cmd.id)
    <2>1. /\ cmd.id \in DOMAIN peers /\ p \in Peer
          /\ sendQueue' = [sendQueue EXCEPT ![p] = Append(@, cmd.msg)]
      BY <1>5 DEF CommandSendMessage, CanSend, TypeOK
    <2>2. /\ sendQueue \in [Peer -> Seq(Message)] /\ peerIdCounter \in Nat
          /\ DOMAIN peers \subseteq Nat
      BY DEF TypeOK
    <2> HIDE DEF cmd, p
    <2>3. /\ \A q \in Peer : q # p => sendQueue'[q] = sendQueue[q]
          /\ sendQueue'[p] = Append(sendQueue[p], cmd.msg)
          /\ sendQueue'[p] # <<>>
          /\ sendQueue[p] # <<>> => sendQueue'[p][1] = sendQueue[p][1]
          /\ sendQueue[p] = <<>> => sendQueue'[p][1] = cmd.msg
      BY <1>3, <2>1, <2>2
    <2>4. Untouched' \subseteq Untouched
      BY <1>1, <2>2, <2>3, UntouchedShrinks
    <2>5. cmd.id \notin Untouched'
      <3>1. cmd.id < peerIdCounter
        BY <2>1 DEF KeysPassed
      <3> QED
        BY <1>1, <1>3, <2>2, <2>3, <3>1 DEF Untouched, Unsent, p
    <2>6. ASSUME wire[p] = <<>>, sendQueue[p] = <<>>, sender[p] # "done"
          PROVE  cmd.msg.kind = "version"
      <3>1. cmd.id \in Untouched
        BY <1>3, <2>1, <2>6 DEF Untouched, Unsent, p
      <3>2. Greets(cmd, cmd.id) \/ Greeted(cmdQueue, cmd.id, 0)
        <4>1. InOrder(cmdQueue, todo, DOMAIN peerMap, Untouched)
          BY <1>1 DEF GreetedFirst
        <4> QED
          BY <1>1, <1>2, <3>1, <4>1 DEF InOrder
      <3> QED
        BY <3>2 DEF Greeted, Greets
    <2>7. WrittenInOrder'
      BY <1>1, <2>1, <2>3, <2>6 DEF WrittenInOrder
    <2>8. KeysPassed' /\ VersionSentFirst'
      BY <1>1 DEF KeysPassed, VersionSentFirst
    <2> QED
      BY <2>4, <2>5, <2>7, <2>8 DEF Kept, Greets, cmd
  <1> QED
    BY <1>4, <1>5

(* The first message written is the first queued; if it cannot be written   *)
(* the send thread ends.                                                    *)
LEMMA SenderKeeps ==
  ASSUME TypeOK, TypeOK', KeysPassed, WrittenInOrder, VersionSentFirst,
         NEW p \in Peer, SenderStep(p) \/ StartSender(p)
  PROVE  Kept
  <1>1. /\ sendQueue \in [Peer -> Seq(Message)] /\ wire \in [Peer -> Seq(Message)]
        /\ sender \in [Peer -> SenderPlace] /\ thread \in [Peer -> ThreadPlace]
        /\ peerIdCounter \in Nat
    BY DEF TypeOK
  <1>2. UNCHANGED <<peers, peerIdCounter>>
    BY DEF SenderStep, StartSender, SenderTest, SenderTimeout, SenderWrite, mainVars
  <1>3. KeysPassed'
    BY <1>2 DEF KeysPassed
  <1>4. SUFFICES /\ \A q \in Peer : /\ sender'[q] # "done" /\ sendQueue'[q] = <<>>
                                    /\ wire'[q] = <<>>
                                    => /\ sender[q] # "done" /\ sendQueue[q] = <<>>
                                       /\ wire[q] = <<>>
                 /\ WrittenInOrder'
                 /\ VersionSentFirst'
    BY <1>1, <1>2, <1>3, UntouchedShrinks DEF Kept
  <1>5. CASE StartSender(p)
    <2>1. /\ thread[p] = "announced" /\ UNCHANGED <<sendQueue, wire>>
          /\ \E place \in {"test", "unstarted"} : sender' = [sender EXCEPT ![p] = place]
          /\ \E place \in {"test", "closing"} : thread' = [thread EXCEPT ![p] = place]
      BY <1>5 DEF StartSender, At, Goto
    <2>2. sender[p] = "none"
      BY <2>1 DEF WrittenInOrder
    <2>3. /\ \A q \in Peer : q # p => sender'[q] = sender[q] /\ thread'[q] = thread[q]
          /\ sender'[p] \in {"test", "unstarted"} /\ thread'[p] \in {"test", "closing"}
      BY <1>1, <2>1
    <2>4. WrittenInOrder' /\ VersionSentFirst'
      BY <2>1, <2>2, <2>3 DEF WrittenInOrder, VersionSentFirst
    <2> QED
      BY <2>1, <2>2, <2>3, <2>4
  <1>6. CASE SenderTest(p) \/ SenderTimeout(p)
    <2>1. /\ sender[p] \in {"test", "get"} /\ UNCHANGED <<sendQueue, wire, thread>>
          /\ \E place \in {"test", "get", "done"} : sender' = [sender EXCEPT ![p] = place]
      BY <1>6 DEF SenderTest, SenderTimeout, SenderAt, EndSender, threadVars
    <2>2. /\ \A q \in Peer : q # p => sender'[q] = sender[q]
          /\ sender'[p] \in {"test", "get", "done"}
      BY <1>1, <2>1
    <2>3. WrittenInOrder' /\ VersionSentFirst'
      BY <2>1, <2>2 DEF WrittenInOrder, VersionSentFirst
    <2> QED
      BY <2>1, <2>2, <2>3
  <1>7. CASE SenderWrite(p)
    <2> DEFINE msg == Head(sendQueue[p])
    <2>1. /\ sender[p] = "get" /\ sendQueue[p] # <<>> /\ UNCHANGED thread
          /\ sendQueue' = [sendQueue EXCEPT ![p] = Tail(@)]
      BY <1>7 DEF SenderWrite, SenderAt
    <2>2. /\ sendQueue[p] \in Seq(Message) /\ wire[p] \in Seq(Message)
          /\ \A q \in Peer : q # p => sendQueue'[q] = sendQueue[q]
      BY <1>1, <2>1
    <2>3. msg \in Message /\ msg = sendQueue[p][1]
      BY <2>1, <2>2, TailElements
    <2>4. wire[p] = <<>> => msg.kind = "version"
      BY <2>1, <2>3 DEF WrittenInOrder
    <2>5. CASE wire' = [wire EXCEPT ![p] = Append(@, msg)] /\ sender' = [sender EXCEPT ![p] = "test"]
      <3>1. /\ \A q \in Peer : q # p => wire'[q] = wire[q] /\ sender'[q] = sender[q]
            /\ wire'[p] = Append(wire[p], msg) /\ sender'[p] = "test"
        BY <1>1, <2>5
      <3> HIDE DEF msg
      <3>2. /\ wire'[p] # <<>>
            /\ wire[p] = <<>> => wire'[p][1] = msg
            /\ wire[p] # <<>> => wire'[p][1] = wire[p][1]
        BY <2>2, <2>3, <3>1
      <3>3. VersionSentFirst'
        BY <2>4, <3>1, <3>2 DEF VersionSentFirst
      <3>4. WrittenInOrder'
        BY <2>1, <2>2, <3>1, <3>2 DEF WrittenInOrder
      <3> QED
        BY <2>1, <2>2, <3>1, <3>2, <3>3, <3>4
    <2>6. CASE UNCHANGED wire /\ sender' = [sender EXCEPT ![p] = "done"]
      <3>1. /\ \A q \in Peer : q # p => sender'[q] = sender[q]
            /\ sender'[p] = "done"
        BY <1>1, <2>6
      <3>2. VersionSentFirst' /\ WrittenInOrder'
        BY <2>1, <2>2, <2>6, <3>1 DEF VersionSentFirst, WrittenInOrder
      <3> QED
        BY <2>1, <2>2, <2>6, <3>1, <3>2
    <2> QED
      BY <1>7, <2>5, <2>6 DEF SenderWrite, EndSender
  <1> QED
    BY <1>5, <1>6, <1>7 DEF SenderStep

(* The part of ClusterInv these lemmas keep. *)
GreetingInv == KeysPassed /\ GreetedFirst /\ WrittenInOrder /\ VersionSentFirst

LEMMA NetworkGreets ==
  ASSUME ClusterTypeOK, ClusterTypeOK', AskedOnce, GreetingInv,
         NetworkStep, UNCHANGED nodeVars
  PROVE  GreetingInv'
  <1> USE DEF mainVars, threadVars, senderVars
  <1>1. /\ TypeOK /\ TypeOK' /\ KeysPassed /\ WrittenInOrder /\ VersionSentFirst /\ GreetedFirst
        /\ cmdQueue \in Seq(Command) /\ thread \in [Peer -> ThreadPlace]
        /\ UNCHANGED <<todo, peerMap>>
    BY DEF ClusterTypeOK, GreetingInv, TypeOK, nodeVars
  <1>2. ASSUME Kept, pc' \in {"drain", "info"} => pc \in {"drain", "info"}, UNCHANGED cmdQueue
        PROVE  GreetingInv'
    BY <1>1, <1>2, OrderShrinks DEF Kept, GreetingInv, GreetedFirst
  <1>3. ASSUME Kept, pc = "drain", cmdQueue # <<>>, cmdQueue' = Tail(cmdQueue),
               pc' = "drain" => \A k \in Untouched' : ~Greets(Head(cmdQueue), k),
               pc' \in {"drain", "exiting"}
        PROVE  GreetingInv'
    <2>1. ASSUME pc' = "drain" PROVE InOrder(cmdQueue', todo, DOMAIN peerMap, Untouched')
      <3>1. InOrder(cmdQueue, todo, DOMAIN peerMap, Untouched')
        BY <1>1, <1>3, OrderShrinks DEF Kept, GreetedFirst
      <3> QED
        BY <1>1, <1>3, <2>1, <3>1, OrderAfterTake
    <2> QED
      BY <1>1, <1>3, <2>1 DEF Kept, GreetingInv, GreetedFirst
  <1>4. ASSUME UNCHANGED <<peers, peerIdCounter, sender, sendQueue, wire>>,
               \A p \in Peer : thread'[p] \in Early => thread[p] \in Early
        PROVE  Kept
    BY <1>1, <1>4, Undisturbed
  <1>5. CASE CommandConnect \/ CommandConnectRaises
    <2> DEFINE p == Head(cmdQueue).host
    <2>1. /\ Head(cmdQueue) \in Command /\ Head(cmdQueue).type = "CONNECT"
          /\ cmdQueue # <<>> /\ pc = "drain" /\ cmdQueue' = Tail(cmdQueue)
          /\ \E place \in {"connecting", "vanished"} : thread' = [thread EXCEPT ![p] = place]
          /\ pc' \in {"drain", "exiting"}
          /\ UNCHANGED <<peers, peerIdCounter, sender, sendQueue, wire>>
      BY <1>1, <1>5, TailElements DEF CommandConnect, CommandConnectRaises, TakeCommand, LeaveMainLoop
    <2>2. p \in Peer
      BY <2>1, FieldTypes
    <2>3. thread[p] = "new"
      BY <1>1, <2>1, <2>2, ConnectsAfterTail DEF AskedOnce, Ordered
    <2> HIDE DEF p
    <2>4. \A q \in Peer : thread'[q] \in Early => thread[q] \in Early
      BY <1>1, <2>1, <2>2, <2>3 DEF Early
    <2> QED
      BY <1>3, <1>4, <2>1, <2>4 DEF Greets
  <1>6. CASE CommandSendMessage
    <2>1. cmdQueue # <<>> /\ pc = "drain" /\ cmdQueue' = Tail(cmdQueue) /\ pc' \in {"drain", "exiting"}
      BY <1>6 DEF CommandSendMessage, TakeCommand, LeaveMainLoop
    <2> QED
      BY <1>1, <1>3, <1>6, <2>1, SendKeeps
  <1>7. CASE CommandDisconnect \/ CommandSetVersion \/ CommandShutdown
    <2>1. /\ cmdQueue # <<>> /\ pc = "drain" /\ cmdQueue' = Tail(cmdQueue)
          /\ Head(cmdQueue).type # "SEND_MESSAGE" /\ pc' \in {"drain", "exiting"}
          /\ UNCHANGED <<peers, peerIdCounter, sender, sendQueue, wire, thread>>
      BY <1>7
      DEF CommandDisconnect, CommandSetVersion, CommandShutdown, TakeCommand,
          LeaveMainLoop
    <2> QED
      BY <1>3, <1>4, <2>1 DEF Greets
  <1>8. CASE NoCommand \/ InfoTimeout \/ ProcessExit \/ InfoConnectFailed \/ InfoMsgReceived
    BY <1>2, <1>4, <1>8
    DEF NoCommand, InfoTimeout, ProcessExit, InfoConnectFailed, InfoMsgReceived,
        TakeInfo
  <1>9. CASE InfoConnected \/ InfoDisconnected
    <2>1. UNCHANGED cmdQueue /\ pc = "info"
      BY <1>9 DEF InfoConnected, InfoDisconnected, TakeInfo
    <2>2. Kept
      BY <1>1, <1>9, DictKeeps
    <2> QED
      BY <1>2, <2>1, <2>2
  <1>10. ASSUME NEW p \in Peer, SenderStep(p) \/ StartSender(p) PROVE GreetingInv'
    <2>1. UNCHANGED <<cmdQueue, pc>>
      BY <1>10 DEF SenderStep, StartSender, SenderTest, SenderTimeout, SenderWrite
    <2>2. Kept
      BY <1>1, <1>10, SenderKeeps
    <2> QED
      BY <1>2, <2>1, <2>2
  <1>11. ASSUME NEW p \in Peer, PeerStep(p) PROVE GreetingInv'
    <2>1. CASE ConnectOk(p) \/ ConnectFail(p) \/ PeerNameError(p) \/ TestInterrupted(p)
               \/ RecvMessage(p) \/ RecvNothing(p) \/ RecvEnd(p) \/ CloseSocket(p) \/ RemovePeer(p)
      <3>1. UNCHANGED <<cmdQueue, pc, peers, peerIdCounter, sender, sendQueue, wire>>
        BY <2>1
        DEF ConnectOk, ConnectFail, PeerNameError, TestInterrupted, RecvMessage,
                    RecvNothing, RecvEnd, CloseSocket, RemovePeer
      <3>2. \/ thread[p] \in Early /\ \E place \in ThreadPlace : thread' = [thread EXCEPT ![p] = place]
            \/ \E place \in ThreadPlace \ Early : thread' = [thread EXCEPT ![p] = place]
        BY <2>1
        DEF ConnectOk, ConnectFail, PeerNameError, TestInterrupted, RecvMessage,
                    RecvNothing, RecvEnd, CloseSocket, RemovePeer, At, Goto, Early, ThreadPlace
      <3>3. \A q \in Peer : thread'[q] \in Early => thread[q] \in Early
        BY <1>1, <3>2
      <3> QED
        BY <1>2, <1>4, <3>1, <3>3
    <2> QED
      BY <1>10, <1>11, <2>1 DEF PeerStep
  <1> QED
    BY <1>5, <1>6, <1>7, <1>8, <1>9, <1>10, <1>11
    DEF NetworkStep, ManagerStep, HandleCommand, HandleInfo

LEMMA NodeGreets ==
  ASSUME ClusterTypeOK, TodoNamesKnown, TodoNamesKnown', GreetingInv, NodeStep
  PROVE  GreetingInv'
  <1> USE DEF mainVars, threadVars, senderVars, vars, NetworkUnchanged
  <1>1. /\ cmdQueue \in Seq(Command) /\ todo \in Seq(Command)
        /\ NodeTypeOK /\ DOMAIN peerMap \subseteq Nat
    BY DEF ClusterTypeOK, TypeOK, NodeTypeOK
  <1>2. UNCHANGED <<pc, peers, peerIdCounter, sender, sendQueue, wire, thread>>
    BY DEF NodeStep, NodePut, NodeHandleCommand, NodeConnect, NodeShutdown,
        NodeJoined, NodeExit, NodePoll, NodeNotDue, NodeTakeEvent, NodeConnected,
        NodeConnectFailed, NodeMessage, NodeDisconnected, NodeKeyError, NodeNoEvent,
        TakeEvent
  <1>3. /\ Untouched' = Untouched
        /\ KeysPassed' /\ WrittenInOrder' /\ VersionSentFirst'
    BY <1>2
    DEF GreetingInv, Untouched, Unsent, KeysPassed, WrittenInOrder, VersionSentFirst
  <1>4. SUFFICES ASSUME InOrder(cmdQueue, todo, DOMAIN peerMap, Untouched)
                 PROVE  InOrder(cmdQueue', todo', DOMAIN peerMap', Untouched)
    BY <1>2, <1>3 DEF GreetingInv, GreetedFirst
  <1>5. ASSUME NEW cmd \in Command, Put(cmd), cmd.type # "SEND_MESSAGE", UNCHANGED <<todo, peerMap>>
        PROVE  InOrder(cmdQueue', todo', DOMAIN peerMap', Untouched)
    BY <1>1, <1>4, <1>5, OrderAfterPut DEF Put
  <1>6. [type |-> "SHUTDOWN"] \in Command /\ [type |-> "SHUTDOWN"].type # "SEND_MESSAGE"
    BY DEF Command
  <1>7. CASE NodePut
    BY <1>1, <1>4, <1>7, OrderAfterMove DEF NodePut, Put
  <1>8. CASE NodeConnect
    <2> DEFINE cmd == [type |-> "CONNECT", host |-> Head(nodeQueue).host]
    <2>1. Head(nodeQueue) \in NodeCommand /\ Head(nodeQueue).type = "CONNECT"
      BY <1>1, <1>8, TailElements DEF NodeConnect, NodeTypeOK
    <2>2. cmd \in Command /\ cmd.type # "SEND_MESSAGE"
      BY <2>1 DEF NodeCommand, Command
    <2> QED
      BY <1>5, <1>8, <2>2 DEF NodeConnect
  <1>9. CASE NodeShutdown \/ NodeJoined
    BY <1>5, <1>6, <1>9 DEF NodeShutdown, NodeJoined
  <1>10. CASE NodeKeyError
    BY <1>5, <1>6, <1>10 DEF NodeKeyError
  <1>11. CASE NodeExit \/ NodeNotDue \/ NodeNoEvent
    BY <1>4, <1>11 DEF NodeExit, NodeNotDue, NodeNoEvent
  <1>12. ASSUME todo = <<>>, UNCHANGED cmdQueue, DOMAIN peerMap' = DOMAIN peerMap
         PROVE  InOrder(cmdQueue', todo', DOMAIN peerMap', Untouched)
    <2>1. \A i \in DOMAIN todo' : todo'[i].id \in DOMAIN peerMap
      BY <1>12 DEF TodoNamesKnown
    <2> QED
      BY <1>4, <1>12, <2>1, OrderAfterLoad
  <1>13. CASE NodePoll
    BY <1>12, <1>13 DEF NodePoll, NodeAt
  <1>14. CASE NodeMessage
    <2>1. DOMAIN peerMap' = DOMAIN peerMap
      BY <1>1, <1>14, HandlerEffect DEF NodeMessage
    <2> QED
      BY <1>12, <1>14, <2>1 DEF NodeMessage, TakeEvent, NodeAt
  <1>15. CASE NodeConnectFailed
    BY <1>4, <1>15 DEF NodeConnectFailed
  <1>16. CASE NodeDisconnected
    <2>1. DOMAIN peerMap' \subseteq DOMAIN peerMap /\ UNCHANGED <<cmdQueue, todo>>
      BY <1>16 DEF NodeDisconnected
    <2> QED
      BY <1>4, <2>1, OrderShrinks
  <1>17. CASE NodeConnected
    <2> DEFINE k   == Head(outQueue).id
               cmd == [type |-> "SEND_MESSAGE", id |-> k,
                       msg |-> [kind |-> "version", peer |-> Head(outQueue).host]]
    <2>1. /\ DOMAIN peerMap' = DOMAIN peerMap \cup {k}
          /\ todo = <<>> /\ todo' = <<cmd>> /\ UNCHANGED cmdQueue
      BY <1>17 DEF NodeConnected, Greeting, TakeEvent, NodeAt
    <2>2. Greets(cmd, k)
      BY DEF Greets
    <2> HIDE DEF k, cmd
    <2> QED
      BY <1>4, <2>1, <2>2, OrderAfterGreeting
  <1> QED
    BY <1>7, <1>8, <1>9, <1>10, <1>11, <1>13, <1>14, <1>15, <1>16, <1>17
    DEF NodeStep, NodeHandleCommand, NodeTakeEvent

LEMMA GreetingNext ==
  ASSUME ClusterFacts, ClusterFacts', GreetingInv, [ClusterNext]_allVars
  PROVE  GreetingInv'
  <1>1. CASE MainStep \/ UNCHANGED allVars
    <2>1. UNCHANGED <<vars, todo, peerMap>>
      BY <1>1 DEF MainStep, MainConnect, MainShutdown, MainJoined, allVars, nodeVars
    <2> QED
      BY <2>1
      DEF vars, mainVars, threadVars, senderVars, GreetingInv, KeysPassed,
          GreetedFirst,
                  Untouched, Unsent, WrittenInOrder, VersionSentFirst
  <1>2. CASE NodeStep
    BY <1>2, NodeGreets DEF ClusterFacts
  <1>3. CASE NetworkStep /\ UNCHANGED nodeVars
    BY <1>3, NetworkGreets DEF ClusterFacts
  <1> QED
    BY <1>1, <1>2, <1>3 DEF ClusterNext

LEMMA GreetingInit == ClusterInit => GreetingInv
  <1> SUFFICES ASSUME ClusterInit PROVE GreetingInv
    OBVIOUS
  <1>1. /\ DOMAIN peers = {} /\ DOMAIN peerMap = {} /\ cmdQueue = <<>> /\ todo = <<>>
        /\ \A p \in Peer : sender[p] = "none" /\ wire[p] = <<>> /\ sendQueue[p] = <<>>
    BY DEF ClusterInit, Init, NodeInit
  <1> QED
    BY <1>1
    DEF GreetingInv, KeysPassed, GreetedFirst, InOrder, WrittenInOrder,
        VersionSentFirst

(* Whether or not attempts overlap and ids collide, each attempt is in one  *)
(* place, what is put names peers of the map, and the greeting is ahead of  *)
(* any other message all the way from the handler to the socket.            *)
THEOREM ClusterInvHolds == Spec => []ClusterInv
  <1>1. ClusterInit => GreetingInv
    BY GreetingInit
  <1>2. ClusterFacts /\ ClusterFacts' /\ GreetingInv /\ [ClusterNext]_allVars => GreetingInv'
    BY GreetingNext
  <1>3. ClusterFacts /\ GreetingInv => ClusterInv
    BY DEF ClusterFacts, GreetingInv, ClusterInv
  <1> QED
    BY <1>1, <1>2, <1>3, ClusterFactsHold, PTL DEF Spec

(* The first message a remote end reads is our version message, however     *)
(* the pings of the ping manager fall between the other commands.           *)
THEOREM OurVersionFirst == Spec => []VersionSentFirst
  <1>1. ClusterInv => VersionSentFirst
    BY DEF ClusterInv
  <1> QED
    BY <1>1, ClusterInvHolds, PTL

-----------------------------------------------------------------------------
(***************************************************************************)
(* What the theorems of NetworkManager_proofs say of the network process   *)
(* of the program.  Net is the Network of PickCluster with these theorems. *)
(***************************************************************************)
Net ==
  INSTANCE NetworkManager_proofs WITH
    cmdQueue     <- IF nodePc \in {"rejoining", "stopped"} THEN Front(cmdQueue)
                                                          ELSE cmdQueue,
    userPc       <- UserPlace,
    known        <- [i \in DOMAIN peerMap |-> peerMap[i].host],
    CommandCount <- Nat

LEMMA SameNetwork == Network!Spec => Net!Spec
  <1>1. Network!NetworkInit <=> Net!NetworkInit
    BY DEF Network!NetworkInit, Net!NetworkInit, Network!Init, Net!Init,
       Network!UserInit, Net!UserInit
  <1>2. Network!allVars = Net!allVars
    BY DEF Network!allVars, Net!allVars, Network!vars, Net!vars, Network!userVars,
       Net!userVars, Network!history, Net!history, Network!mainVars, Net!mainVars,
       Network!threadVars, Net!threadVars, Network!senderVars, Net!senderVars
  <1>3. Network!NetworkNext <=> Net!NetworkNext
    BY DEF Network!NetworkNext, Net!NetworkNext, Network!NetworkStep, Net!NetworkStep,
       Network!ManagerStep, Net!ManagerStep, Network!HandleCommand, Net!HandleCommand,
       Network!CommandConnect, Net!CommandConnect, Network!CommandConnectRaises,
       Net!CommandConnectRaises, Network!CommandDisconnect,
       Net!CommandDisconnect, Network!CommandSendMessage, Net!CommandSendMessage,
       Network!CommandSetVersion, Net!CommandSetVersion, Network!CommandShutdown,
       Net!CommandShutdown, Network!TakeCommand, Net!TakeCommand,
       Network!LeaveMainLoop, Net!LeaveMainLoop, Network!CanSend, Net!CanSend,
       Network!NoCommand, Net!NoCommand, Network!HandleInfo, Net!HandleInfo,
       Network!InfoConnected, Net!InfoConnected, Network!InfoDisconnected,
       Net!InfoDisconnected, Network!InfoConnectFailed, Net!InfoConnectFailed,
       Network!InfoMsgReceived, Net!InfoMsgReceived, Network!TakeInfo, Net!TakeInfo,
       Network!Forward, Net!Forward, Network!NextPeerId, Net!NextPeerId,
       Network!InfoTimeout, Net!InfoTimeout, Network!ProcessExit, Net!ProcessExit,
       Network!Flushed, Net!Flushed,
       Network!PeerStep, Net!PeerStep, Network!ConnectOk, Net!ConnectOk,
       Network!ConnectFail, Net!ConnectFail, Network!PeerNameError, Net!PeerNameError,
       Network!StartSender, Net!StartSender, Network!TestInterrupted,
       Net!TestInterrupted, Network!RecvMessage, Net!RecvMessage, Network!Decodable,
       Net!Decodable, Network!RecvNothing, Net!RecvNothing, Network!RecvEnd,
       Net!RecvEnd, Network!CloseSocket, Net!CloseSocket, Network!SenderFinished,
       Net!SenderFinished, Network!RemovePeer, Net!RemovePeer, Network!At, Net!At,
       Network!Goto, Net!Goto, Network!Notify, Net!Notify, Network!SenderStep,
       Net!SenderStep, Network!SenderTest, Net!SenderTest, Network!SenderTimeout,
       Net!SenderTimeout, Network!SenderWrite, Net!SenderWrite, Network!SenderAt,
       Net!SenderAt, Network!EndSender, Net!EndSender, Network!UserStep, Net!UserStep,
       Network!UserConnect, Net!UserConnect, Network!Issue, Net!Issue,
       Network!UserSend, Net!UserSend, Network!UserSetVersion, Net!UserSetVersion,
       Network!UserDisconnect, Net!UserDisconnect, Network!UserShutdown,
       Net!UserShutdown, Network!UserJoined, Net!UserJoined, Network!TakeEvent,
       Net!TakeEvent, Network!UserTakeEvent, Net!UserTakeEvent, Network!UserConnected,
       Net!UserConnected, Network!UserRefused, Net!UserRefused, Network!UserMessage,
       Net!UserMessage, Network!UserDisconnected, Net!UserDisconnected,
       Network!UserKeyError, Net!UserKeyError, Network!Ordered, Net!Ordered,
       Network!Pending, Net!Pending, Network!Announcing, Net!Announcing, Network!Put,
       Net!Put, Network!Range, Net!Range, Network!Restrict, Net!Restrict,
       Network!vars, Net!vars, Network!userVars, Net!userVars, Network!history,
       Net!history, Network!mainVars, Net!mainVars, Network!threadVars,
       Net!threadVars, Network!senderVars, Net!senderVars
  <1>4. [Network!NetworkNext]_(Network!allVars) <=> [Net!NetworkNext]_(Net!allVars)
    BY <1>3
    DEF Network!allVars, Net!allVars, Network!vars, Net!vars, Network!userVars,
        Net!userVars, Network!history, Net!history, Network!mainVars, Net!mainVars,
        Network!threadVars, Net!threadVars, Network!senderVars, Net!senderVars
  <1> QED
    BY <1>1, <1>4, PTL DEF Network!Spec, Net!Spec

(* What is proved of that process for attempts that do not overlap. *)
LEMMA SerialAll ==
  ASSUME SerialConnects
  PROVE  Spec => [](Net!SerialInv /\ Net!ToldOnce)
  <1>1. 0 \in Nat /\ Nat \subseteq Nat
    OBVIOUS
  <1> QED
    BY <1>1, NetworkUsed, SameNetwork, Net!ToldInvariant, KindAssumption,
       VersionAssumption, PipeAssumption, BoundAssumption, SerialAssumption, PTL DEF UsesNetworkManager

(* Of that, the node relies on this: the dict has each connection under its *)
(* own id, a message comes from a connection that is up, and an id that is *)
(* announced is new to the node.                                            *)
NetworkPromise ==
  /\ \A k \in DOMAIN peers :
       peerId[peers[k]] = k /\ thread[peers[k]] \notin {"new", "connecting"}
  /\ \A info \in Range(infoQueue) :
       info.type = "MSG_RECEIVED" => thread[info.peer] \notin {"new", "connecting"}
  /\ \A k \in DOMAIN peerMap : k < peerIdCounter
  /\ \A event \in Range(outQueue) :
       event.type = "CONNECTED" => event.id \notin DOMAIN peerMap \cup ended

LEMMA PromiseKept ==
  ASSUME Net!SerialInv, Net!ToldOnce
  PROVE  NetworkPromise
  <1> DEFINE known == [i \in DOMAIN peerMap |-> peerMap[i].host]
  <1>1. DOMAIN known = DOMAIN peerMap /\ \A k \in DOMAIN peerMap : known[k] \in Peer
    BY DEF Net!SerialInv, Net!NetworkTypeOK, Net!UserTypeOK
  <1>2. \A k \in DOMAIN peers : peers[k] \in Peer
    BY DEF Net!SerialInv, Net!NetworkTypeOK, Net!TypeOK
  <1>3. \A k \in DOMAIN peers :
          peerId[peers[k]] = k /\ thread[peers[k]] \notin {"new", "connecting"}
    BY <1>2
    DEF Net!SerialInv, Net!PeersKeyedById, Net!DictRegistered, Net!Registered,
        Net!Established, Net!Active
  <1>4. \A info \in Range(infoQueue) :
          info.type = "MSG_RECEIVED" => thread[info.peer] \notin {"new", "connecting"}
    BY DEF Net!SerialInv, Net!NoticesInOrder, Net!Established, Net!Active, Range
  <1>5. \A k \in DOMAIN peerMap : k < peerIdCounter
    BY <1>1 DEF Net!SerialInv, Net!KnownValid, Net!NamesRegistered, Net!IdsUnique
  <1>6. \A event \in Range(outQueue) :
          event.type = "CONNECTED" => event.id \notin DOMAIN peerMap \cup ended
    BY <1>1 DEF Net!ToldOnce, Net!AnnouncedOnce, Net!AnnounceAt, Range
  <1> QED
    BY <1>3, <1>4, <1>5, <1>6 DEF NetworkPromise

-----------------------------------------------------------------------------
(***************************************************************************)
(* The node learns the version of a connection first.                      *)
(***************************************************************************)
(* What is on a queue after a put and after a get. *)
LEMMA RangeAppend ==
  ASSUME NEW S, NEW s \in Seq(S), NEW e \in S
  PROVE  Range(Append(s, e)) = Range(s) \cup {e}
  <1>1. /\ DOMAIN s = 1..Len(s) /\ Len(s) \in Nat
        /\ DOMAIN Append(s, e) = 1..(Len(s) + 1)
        /\ \A i \in 1..Len(s) : Append(s, e)[i] = s[i]
        /\ Append(s, e)[Len(s) + 1] = e
    BY AppendElements
  <1> DEFINE t == Append(s, e)
  <1> HIDE DEF t
  <1>2. /\ \A i \in DOMAIN t : (i \in DOMAIN s /\ t[i] = s[i]) \/ t[i] = e
        /\ \A i \in DOMAIN s : i \in DOMAIN t /\ t[i] = s[i]
        /\ Len(s) + 1 \in DOMAIN t /\ t[Len(s) + 1] = e
    BY <1>1 DEF t
  <1>3. Range(t) = Range(s) \cup {e}
    BY <1>2
  <1> QED
    BY <1>3 DEF t

LEMMA RangeTake ==
  ASSUME NEW S, NEW s \in Seq(S), s # <<>>
  PROVE  Range(s) = {Head(s)} \cup Range(Tail(s))
  <1>1. /\ DOMAIN s = 1..Len(s) /\ Len(s) \in Nat
        /\ Head(s) = s[1] /\ 1 \in DOMAIN s
        /\ DOMAIN Tail(s) = 1..(Len(s) - 1)
        /\ \A i \in 1..(Len(s) - 1) : Tail(s)[i] = s[i + 1]
    BY TailElements
  <1> DEFINE t == Tail(s)
             h == Head(s)
  <1> HIDE DEF t, h
  <1>2. /\ \A i \in DOMAIN t : i + 1 \in DOMAIN s /\ t[i] = s[i + 1]
        /\ \A i \in DOMAIN s : i = 1 \/ (i - 1 \in DOMAIN t /\ t[i - 1] = s[i])
        /\ h = s[1] /\ 1 \in DOMAIN s
    BY <1>1 DEF t, h
  <1>3. Range(s) = {h} \cup Range(t)
    <2>1. \A x \in Range(s) : x = h \/ x \in Range(t)
      BY <1>2
    <2>2. h \in Range(s) /\ \A x \in Range(t) : x \in Range(s)
      BY <1>2
    <2> HIDE DEF Range
    <2> QED
      BY <2>1, <2>2
  <1> QED
    BY <1>3 DEF t, h

(* An id that is learned stays so. *)
Grows ==
  /\ Learned \subseteq Learned'
  /\ DOMAIN peerMap \cup ended \subseteq DOMAIN peerMap' \cup ended'
  /\ ended' \cap DOMAIN peerMap' = {}

(* What LearnedFirst asks of a step of the node, and of one of the network  *)
(* process.                                                                 *)
LEMMA NodeLearns ==
  ASSUME LearnedFirst, Grows, UNCHANGED <<version, thread, peerId, infoQueue>>,
         Range(outQueue') \subseteq Range(outQueue),
         \A cmd \in Range(cmdQueue') \cup Range(todo') :
           cmd.type = "SET_VERSION" =>
             \/ cmd \in Range(cmdQueue) \cup Range(todo)
             \/ cmd.id \in DOMAIN peerMap' /\ (cmd.version # 0 => cmd.id \in Learned')
  PROVE  LearnedFirst'
  <1> HIDE DEF Range
  <1>1. ended' \cap DOMAIN peerMap' = {}
    BY DEF Grows
  <1>2. \A cmd \in Range(cmdQueue') \cup Range(todo') :
          cmd.type = "SET_VERSION" =>
            /\ cmd.id \in DOMAIN peerMap' \cup ended'
            /\ cmd.version # 0 => cmd.id \in Learned'
    BY DEF LearnedFirst, Grows
  <1>3. \A p \in Peer :
          version'[p] # 0
            => thread'[p] \notin {"new", "connecting"} /\ peerId'[p] \in Learned'
    BY DEF LearnedFirst, Grows
  <1>4. \A info \in Range(infoQueue') :
          info.type = "MSG_RECEIVED" /\ info.msg.kind # "version"
            => peerId'[info.peer] \in Learned'
    BY DEF LearnedFirst, Grows
  <1>5. \A event \in Range(outQueue') :
          event.type = "MSG_RECEIVED" /\ event.msg.kind # "version"
            => event.id \in Learned'
    BY DEF LearnedFirst, Grows
  <1> QED
    BY <1>1, <1>2, <1>3, <1>4, <1>5 DEF LearnedFirst

LEMMA NetworkLearns ==
  ASSUME LearnedFirst, UNCHANGED <<todo, peerMap, ended>>,
         Range(cmdQueue') \subseteq Range(cmdQueue),
         \A p \in Peer :
           version'[p] # 0
             => thread'[p] \notin {"new", "connecting"} /\ peerId'[p] \in Learned,
         \A info \in Range(infoQueue') :
           info.type = "MSG_RECEIVED" /\ info.msg.kind # "version"
             => peerId'[info.peer] \in Learned,
         \A event \in Range(outQueue') :
           event.type = "MSG_RECEIVED" /\ event.msg.kind # "version"
             => event.id \in Learned
  PROVE  LearnedFirst'
  <1> HIDE DEF Range
  <1>1. Learned' = Learned
    BY DEF Learned
  <1>2. \A cmd \in Range(cmdQueue') \cup Range(todo') :
          cmd.type = "SET_VERSION" =>
            /\ cmd.id \in DOMAIN peerMap' \cup ended'
            /\ cmd.version # 0 => cmd.id \in Learned'
    BY <1>1 DEF LearnedFirst
  <1>3. ended' \cap DOMAIN peerMap' = {}
    BY DEF LearnedFirst
  <1> QED
    BY <1>1, <1>2, <1>3 DEF LearnedFirst

(* A repeated version message, or any other message, sets no version. *)
LEMMA HandlerSetsNone ==
  ASSUME NodeTypeOK, NEW k \in DOMAIN peerMap, NEW kind, DOMAIN peerMap \subseteq Nat,
         HandleOther(k, kind) \/ BadPeer(k, 100)
  PROVE  \A i \in DOMAIN todo' : todo'[i].type # "SET_VERSION"
  <1>1. /\ SendMessage(k, "pong").type = "SEND_MESSAGE"
        /\ SendMessage(k, "verack").type = "SEND_MESSAGE"
        /\ SendMessage(k, "verack") \in Command
    BY NamedMessage DEF NodeKind, Named
  <1>2. CASE HandleOther(k, kind)
    BY <1>1, <1>2 DEF HandleOther
  <1>3. CASE BadPeer(k, 100)
    <2> DEFINE drop == [type |-> "DISCONNECT", id |-> k]
    <2>1. drop \in Command /\ drop.type = "DISCONNECT"
      BY DEF Command
    <2>2. \/ todo' = <<drop>> \o <<SendMessage(k, "verack")>>
          \/ todo' = <<>> \o <<SendMessage(k, "verack")>>
      BY <1>3 DEF BadPeer
    <2>3. todo' = <<drop, SendMessage(k, "verack")>> \/ todo' = <<SendMessage(k, "verack")>>
      BY <1>1, <2>1, <2>2, ConcatSingles
    <2> QED
      BY <1>1, <2>1, <2>3
  <1> QED
    BY <1>2, <1>3

(* A handler sets a version only after it has noted it in the handle. *)
LEMMA NodeKeepsLearned ==
  ASSUME ClusterTypeOK, TodoNamesKnown, NetworkPromise, LearnedFirst, NodeStep
  PROVE  LearnedFirst'
  <1> USE DEF mainVars, threadVars, senderVars, vars, NetworkUnchanged, history
  <1>1. /\ cmdQueue \in Seq(Command) /\ todo \in Seq(Command) /\ outQueue \in Seq(Event)
        /\ NodeTypeOK /\ DOMAIN peerMap \subseteq Nat
        /\ peerMap \in [DOMAIN peerMap -> PeerHandle]
        /\ ended \cap DOMAIN peerMap = {}
    BY DEF ClusterTypeOK, TypeOK, NodeTypeOK, LearnedFirst
  <1> HIDE DEF Range
  <1>2. UNCHANGED <<version, thread, peerId, infoQueue>>
    BY DEF NodeStep, NodePut, NodeHandleCommand, NodeConnect, NodeShutdown,
        NodeJoined, NodeExit, NodePoll, NodeNotDue, NodeTakeEvent, NodeConnected,
        NodeConnectFailed, NodeMessage, NodeDisconnected, NodeKeyError, NodeNoEvent,
        TakeEvent
  <1>3. UNCHANGED <<peerMap, ended>> => Grows
    BY <1>1 DEF Grows, Learned
  <1>4. ASSUME NEW cmd \in Command, Put(cmd), cmd.type # "SET_VERSION",
               UNCHANGED <<todo, peerMap, ended>>, Range(outQueue') \subseteq Range(outQueue)
        PROVE  LearnedFirst'
    <2>1. Range(cmdQueue') = Range(cmdQueue) \cup {cmd}
      BY <1>1, <1>4, RangeAppend DEF Put
    <2> QED
      BY <1>2, <1>3, <1>4, <2>1, NodeLearns
  <1>5. [type |-> "SHUTDOWN"] \in Command /\ [type |-> "SHUTDOWN"].type # "SET_VERSION"
    BY DEF Command
  <1>6. CASE NodePut
    <2>1. /\ Range(cmdQueue') = Range(cmdQueue) \cup {Head(todo)}
          /\ Range(todo') \subseteq Range(todo) /\ Head(todo) \in Range(todo)
          /\ UNCHANGED <<peerMap, ended, outQueue>>
      <3>1. todo # <<>> /\ cmdQueue' = Append(cmdQueue, Head(todo)) /\ todo' = Tail(todo)
            /\ UNCHANGED <<peerMap, ended, outQueue>>
        BY <1>6 DEF NodePut, Put
      <3>2. Head(todo) \in Command
        BY <1>1, <3>1, TailElements
      <3> QED
        BY <1>1, <3>1, <3>2, RangeAppend, RangeTake
    <2> QED
      BY <1>2, <1>3, <2>1, NodeLearns
  <1>7. CASE NodeConnect
    <2> DEFINE cmd == [type |-> "CONNECT", host |-> Head(nodeQueue).host]
    <2>1. Head(nodeQueue) \in NodeCommand /\ Head(nodeQueue).type = "CONNECT"
      BY <1>1, <1>7, TailElements DEF NodeConnect, NodeTypeOK
    <2>2. cmd \in Command /\ cmd.type # "SET_VERSION"
      BY <2>1 DEF NodeCommand, Command
    <2> QED
      BY <1>4, <1>7, <2>2 DEF NodeConnect
  <1>8. CASE NodeShutdown \/ NodeJoined
    BY <1>4, <1>5, <1>8 DEF NodeShutdown, NodeJoined
  <1>9. ASSUME NEW type, TakeEvent(type)
        PROVE  /\ Range(outQueue') \subseteq Range(outQueue) /\ Head(outQueue) \in Range(outQueue)
               /\ todo = <<>> /\ Head(outQueue).type = type
    BY <1>1, <1>9, RangeTake DEF TakeEvent, NodeAt
  <1>10. CASE NodeKeyError
    BY <1>4, <1>5, <1>9, <1>10 DEF NodeKeyError
  <1>11. CASE NodeExit \/ NodeNotDue \/ NodeNoEvent
    <2>1. UNCHANGED <<cmdQueue, outQueue, todo, peerMap, ended>>
      BY <1>11 DEF NodeExit, NodeNotDue, NodeNoEvent
    <2> QED
      BY <1>2, <1>3, <2>1, NodeLearns
  <1>12. CASE NodePoll
    <2>1. \A i \in DOMAIN Pings : Pings[i].type = "SEND_MESSAGE"
      BY <1>1, PingsElements DEF TodoNamesKnown
    <2>2. \A cmd \in Range(todo') : cmd.type # "SET_VERSION"
      BY <1>12, <2>1 DEF NodePoll, Range
    <2>3. UNCHANGED <<cmdQueue, outQueue, peerMap, ended>>
      BY <1>12 DEF NodePoll
    <2> QED
      BY <1>2, <1>3, <2>2, <2>3, NodeLearns
  <1>13. CASE NodeConnectFailed
    <2>1. UNCHANGED <<cmdQueue, todo, peerMap, ended>>
      BY <1>13 DEF NodeConnectFailed
    <2> QED
      BY <1>2, <1>3, <1>9, <1>13, <2>1, NodeLearns DEF NodeConnectFailed
  <1>14. CASE NodeDisconnected
    <2> DEFINE k == Head(outQueue).id
    <2>1. /\ k \in DOMAIN peerMap /\ ended' = ended \cup {k}
          /\ peerMap' = [i \in DOMAIN peerMap \ {k} |-> peerMap[i]]
          /\ UNCHANGED <<cmdQueue, todo>>
      BY <1>14 DEF NodeDisconnected
    <2> HIDE DEF k
    <2>2. Grows
      BY <1>1, <2>1 DEF Grows, Learned
    <2> QED
      BY <1>2, <1>9, <1>14, <2>1, <2>2, NodeLearns DEF NodeDisconnected
  <1>15. CASE NodeConnected
    <2> DEFINE event == Head(outQueue)
    <2>1. event \in Range(outQueue) /\ event.type = "CONNECTED"
      BY <1>9, <1>15 DEF NodeConnected
    <2>2. event.id \notin DOMAIN peerMap \cup ended
      BY <2>1 DEF NetworkPromise
    <2>3. /\ DOMAIN peerMap' = DOMAIN peerMap \cup {event.id}
          /\ \A i \in DOMAIN peerMap : i # event.id => peerMap'[i] = peerMap[i]
          /\ UNCHANGED <<cmdQueue, ended>>
      BY <1>15 DEF NodeConnected
    <2>4. \A cmd \in Range(todo') : cmd.type # "SET_VERSION"
      BY <1>15 DEF NodeConnected, Greeting, Range
    <2> HIDE DEF event
    <2>5. Grows
      BY <1>1, <2>2, <2>3 DEF Grows, Learned
    <2> QED
      BY <1>2, <1>9, <1>15, <2>3, <2>4, <2>5, NodeLearns DEF NodeConnected
  <1>16. CASE NodeMessage
    <2> DEFINE k == Head(outQueue).id
    <2>1. /\ k \in DOMAIN peerMap /\ UNCHANGED <<cmdQueue, ended>>
          /\ HandleVersion(k) \/ HandleOther(k, Head(outQueue).msg.kind)
      BY <1>16 DEF NodeMessage
    <2> HIDE DEF k
    <2>2. DOMAIN peerMap' = DOMAIN peerMap
      BY <1>1, <2>1, HandlerEffect
    <2>3. CASE HandleOther(k, Head(outQueue).msg.kind) \/ BadPeer(k, 100)
      <3>1. \A i \in DOMAIN peerMap : peerMap'[i].version = peerMap[i].version
        BY <1>1, <2>1, <2>3 DEF HandleOther, BadPeer, PeerHandle
      <3>2. \A cmd \in Range(todo') : cmd.type # "SET_VERSION"
        <4>1. \A i \in DOMAIN todo' : todo'[i].type # "SET_VERSION"
          BY <1>1, <2>1, <2>3, HandlerSetsNone
        <4> QED
          BY <4>1 DEF Range
      <3>3. Grows
        BY <1>1, <2>1, <2>2, <3>1 DEF Grows, Learned
      <3> QED
        BY <1>2, <1>9, <1>16, <2>1, <3>2, <3>3, NodeLearns DEF NodeMessage
    <2>4. ASSUME NEW v \in Version, peerMap[k].version = 0, SetVersion(k, v) PROVE LearnedFirst'
      <3>1. /\ \A i \in DOMAIN peerMap : i # k => peerMap'[i] = peerMap[i]
            /\ peerMap'[k].version = v
        BY <1>1, <2>1, <2>4 DEF SetVersion, PeerHandle
      <3>2. Grows
        BY <1>1, <2>1, <2>2, <2>4, <3>1 DEF Grows, Learned
      <3>3. SendMessage(k, "verack").type = "SEND_MESSAGE"
        BY DEF SendMessage
      <3>4. \A cmd \in Range(todo') :
              cmd.type = "SET_VERSION" => cmd.id = k /\ cmd.version = v
        BY <2>4, <3>3 DEF SetVersion, Range
      <3>5. v # 0 => k \in Learned'
        BY <2>1, <2>2, <3>1 DEF Learned
      <3> QED
        BY <1>2, <1>9, <1>16, <2>1, <2>2, <3>2, <3>4, <3>5, NodeLearns DEF NodeMessage
    <2> QED
      BY <2>1, <2>3, <2>4, AgreedVersionType DEF HandleVersion
  <1> QED
    BY <1>6, <1>7, <1>8, <1>10, <1>11, <1>12, <1>13, <1>14, <1>15, <1>16
    DEF NodeStep, NodeHandleCommand, NodeTakeEvent

(* Only SET_VERSION changes the version of a connection, and only CONNECT   *)
(* its id.                                                                  *)
LEMMA ThreadsLearn ==
  ASSUME LearnedFirst, UNCHANGED <<todo, peerMap, ended, version, peerId>>,
         Range(cmdQueue') \subseteq Range(cmdQueue),
         Range(infoQueue') \subseteq Range(infoQueue),
         \A p \in Peer : thread'[p] \in {"new", "connecting"} => thread[p] \in {"new", "connecting"},
         \A event \in Range(outQueue') :
           event.type = "MSG_RECEIVED" /\ event.msg.kind # "version"
             => event \in Range(outQueue) \/ event.id \in Learned
  PROVE  LearnedFirst'
  <1> HIDE DEF Range
  <1>1. \A p \in Peer :
          version'[p] # 0
            => thread'[p] \notin {"new", "connecting"} /\ peerId'[p] \in Learned
    BY DEF LearnedFirst
  <1>2. \A info \in Range(infoQueue') :
          info.type = "MSG_RECEIVED" /\ info.msg.kind # "version"
            => peerId'[info.peer] \in Learned
    BY DEF LearnedFirst
  <1>3. \A event \in Range(outQueue') :
          event.type = "MSG_RECEIVED" /\ event.msg.kind # "version"
            => event.id \in Learned
    BY DEF LearnedFirst
  <1> QED
    BY <1>1, <1>2, <1>3, NetworkLearns

(* The network process decodes with the version it was told. *)
LEMMA NetworkKeepsLearned ==
  ASSUME ClusterTypeOK, AskedOnce, NetworkPromise, LearnedFirst, NetworkStep,
         UNCHANGED nodeVars
  PROVE  LearnedFirst'
  <1> USE DEF mainVars, threadVars, senderVars
  <1>1. /\ cmdQueue \in Seq(Command) /\ infoQueue \in Seq(Info) /\ outQueue \in Seq(Event)
        /\ thread \in [Peer -> ThreadPlace] /\ version \in [Peer -> Version]
        /\ peerId \in [Peer -> Nat] /\ DOMAIN peers \subseteq Nat
        /\ peers \in [DOMAIN peers -> Peer]
        /\ UNCHANGED <<todo, peerMap, ended>>
    BY DEF ClusterTypeOK, TypeOK, nodeVars, history
  <1>2. ASSUME NEW type, TakeCommand(type)
        PROVE  /\ Range(cmdQueue') \subseteq Range(cmdQueue)
               /\ Head(cmdQueue) \in Range(cmdQueue) /\ Head(cmdQueue) \in Command
               /\ Head(cmdQueue).type = type /\ cmdQueue # <<>>
    BY <1>1, <1>2, RangeTake, TailElements DEF TakeCommand
  <1>3. ASSUME NEW type, TakeInfo(type)
        PROVE  /\ Range(infoQueue') \subseteq Range(infoQueue)
               /\ Head(infoQueue) \in Range(infoQueue) /\ Head(infoQueue) \in Info
               /\ Head(infoQueue).type = type
    BY <1>1, <1>3, RangeTake, TailElements DEF TakeInfo
  <1>r. CASE CommandConnectRaises
    <2> DEFINE p == Head(cmdQueue).host
    <2>1. /\ Head(cmdQueue) \in Command /\ Head(cmdQueue).type = "CONNECT"
          /\ cmdQueue # <<>> /\ Range(cmdQueue') \subseteq Range(cmdQueue)
          /\ thread' = [thread EXCEPT ![p] = "vanished"]
          /\ UNCHANGED <<version, peerId, infoQueue, outQueue>>
      BY <1>2, <1>r DEF CommandConnectRaises
    <2> HIDE DEF p, Range
    <2>2. \A q \in Peer : thread'[q] = thread[q] \/ thread'[q] = "vanished"
      BY <1>1, <2>1
    <2>3. \A q \in Peer :
            version'[q] # 0
              => thread'[q] \notin {"new", "connecting"} /\ peerId'[q] \in Learned
      BY <2>1, <2>2 DEF LearnedFirst
    <2>4. \A info \in Range(infoQueue') :
            info.type = "MSG_RECEIVED" /\ info.msg.kind # "version"
              => peerId'[info.peer] \in Learned
      BY <2>1 DEF LearnedFirst
    <2>5. \A event \in Range(outQueue') :
            event.type = "MSG_RECEIVED" /\ event.msg.kind # "version"
              => event.id \in Learned
      BY <2>1 DEF LearnedFirst
    <2> QED
      BY <1>1, <2>1, <2>3, <2>4, <2>5, NetworkLearns
  <1>4. CASE CommandConnect
    <2> DEFINE p == Head(cmdQueue).host
    <2>1. /\ Head(cmdQueue) \in Command /\ Head(cmdQueue).type = "CONNECT"
          /\ cmdQueue # <<>> /\ Range(cmdQueue') \subseteq Range(cmdQueue)
          /\ thread' = [thread EXCEPT ![p] = "connecting"]
          /\ peerId' = [peerId EXCEPT ![p] = peerIdCounter]
          /\ UNCHANGED <<version, infoQueue, outQueue>>
      BY <1>2, <1>4 DEF CommandConnect
    <2>2. p \in Peer
      BY <2>1, FieldTypes
    <2>3. thread[p] = "new"
      BY <1>1, <2>1, <2>2, ConnectsAfterTail DEF AskedOnce, Ordered
    <2> HIDE DEF p, Range
    <2>4. version[p] = 0
      BY <2>2, <2>3 DEF LearnedFirst
    <2>5. \A q \in Peer : q # p => thread'[q] = thread[q] /\ peerId'[q] = peerId[q]
      BY <1>1, <2>1
    <2>6. \A q \in Peer :
            version'[q] # 0
              => thread'[q] \notin {"new", "connecting"} /\ peerId'[q] \in Learned
      BY <2>1, <2>4, <2>5 DEF LearnedFirst
    <2>7. \A info \in Range(infoQueue) : info \in Info
      BY <1>1 DEF Range
    <2>8. \A info \in Range(infoQueue') :
            info.type = "MSG_RECEIVED" /\ info.msg.kind # "version"
              => peerId'[info.peer] \in Learned
      <3> SUFFICES ASSUME NEW info \in Range(infoQueue), info.type = "MSG_RECEIVED",
                          info.msg.kind # "version"
                   PROVE  peerId'[info.peer] \in Learned
        BY <2>1
      <3>1. info.peer \in Peer
        BY <2>7 DEF Info
      <3>2. info.peer # p
        BY <2>3 DEF NetworkPromise
      <3> QED
        BY <2>5, <3>1, <3>2 DEF LearnedFirst
    <2>9. \A event \in Range(outQueue') :
            event.type = "MSG_RECEIVED" /\ event.msg.kind # "version"
              => event.id \in Learned
      BY <2>1 DEF LearnedFirst
    <2> QED
      BY <1>1, <2>1, <2>6, <2>8, <2>9, NetworkLearns
  <1>5. CASE CommandSetVersion
    <2> DEFINE cmd == Head(cmdQueue)
    <2>1. /\ cmd \in Range(cmdQueue) /\ cmd.type = "SET_VERSION"
          /\ Range(cmdQueue') \subseteq Range(cmdQueue)
          /\ version' = [q \in Peer |-> IF cmd.id \in DOMAIN peers /\ peers[cmd.id] = q
                                          THEN cmd.version ELSE version[q]]
          /\ UNCHANGED <<thread, peerId, infoQueue, outQueue>>
      BY <1>2, <1>5 DEF CommandSetVersion
    <2> HIDE DEF cmd, Range
    <2>2. cmd.version # 0 => cmd.id \in Learned
      BY <2>1 DEF LearnedFirst
    <2>3. \A q \in Peer :
            version'[q] # 0
              => thread'[q] \notin {"new", "connecting"} /\ peerId'[q] \in Learned
      BY <2>1, <2>2 DEF LearnedFirst, NetworkPromise
    <2>4. /\ \A info \in Range(infoQueue') :
               info.type = "MSG_RECEIVED" /\ info.msg.kind # "version"
                 => peerId'[info.peer] \in Learned
          /\ \A event \in Range(outQueue') :
               event.type = "MSG_RECEIVED" /\ event.msg.kind # "version"
                 => event.id \in Learned
      BY <2>1 DEF LearnedFirst
    <2> QED
      BY <1>1, <2>1, <2>3, <2>4, NetworkLearns
  <1>6. CASE CommandDisconnect \/ CommandSendMessage \/ CommandShutdown
    <2>1. /\ Range(cmdQueue') \subseteq Range(cmdQueue)
          /\ UNCHANGED <<thread, peerId, version, infoQueue, outQueue>>
      BY <1>2, <1>6 DEF CommandDisconnect, CommandSendMessage, CommandShutdown
    <2> QED
      BY <1>1, <2>1, ThreadsLearn
  <1>7. CASE InfoConnected \/ InfoDisconnected \/ InfoConnectFailed
    <2>1. Range(infoQueue') \subseteq Range(infoQueue) /\ Head(infoQueue) \in Info
          /\ Head(infoQueue).type \in {"CONNECTED", "DISCONNECTED", "CONNECT_FAILED"}
      BY <1>3, <1>7 DEF InfoConnected, InfoDisconnected, InfoConnectFailed
    <2>2. Head(infoQueue).peer \in Peer
      BY <2>1 DEF Info
    <2>3. UNCHANGED <<thread, peerId, version, cmdQueue>>
      BY <1>7 DEF InfoConnected, InfoDisconnected, InfoConnectFailed
    <2>4. \/ UNCHANGED outQueue
          \/ \E type \in {"CONNECTED", "DISCONNECTED", "CONNECT_FAILED"} :
               Forward(type, Head(infoQueue).peer)
      BY <1>7 DEF InfoConnected, InfoDisconnected, InfoConnectFailed
    <2>5. \A event \in Range(outQueue') :
            event.type = "MSG_RECEIVED" => event \in Range(outQueue)
      <3>1. CASE UNCHANGED outQueue
        BY <3>1
      <3>2. ASSUME NEW type \in {"CONNECTED", "DISCONNECTED", "CONNECT_FAILED"},
                   Forward(type, Head(infoQueue).peer)
            PROVE  \A event \in Range(outQueue') :
                     event.type = "MSG_RECEIVED" => event \in Range(outQueue)
        <4> DEFINE e == [type |-> type, id |-> peerId[Head(infoQueue).peer],
                         host |-> Head(infoQueue).peer]
        <4>1. e \in Event /\ e.type # "MSG_RECEIVED"
          BY <1>1, <2>2 DEF Event
        <4>2. outQueue' = Append(outQueue, e)
          BY <3>2 DEF Forward
        <4> HIDE DEF e, Range
        <4>3. Range(outQueue') = Range(outQueue) \cup {e}
          BY <1>1, <4>1, <4>2, RangeAppend
        <4> QED
          BY <4>1, <4>3
      <3> QED
        BY <2>4, <3>1, <3>2
    <2> HIDE DEF Range
    <2> QED
      BY <1>1, <2>1, <2>3, <2>5, ThreadsLearn
  <1>8. CASE InfoMsgReceived
    <2> DEFINE info == Head(infoQueue)
               e    == [type |-> "MSG_RECEIVED", id |-> peerId[info.peer], msg |-> info.msg]
    <2>1. /\ Range(infoQueue') \subseteq Range(infoQueue)
          /\ info \in Range(infoQueue) /\ info \in Info /\ info.type = "MSG_RECEIVED"
          /\ outQueue' = Append(outQueue, e)
          /\ UNCHANGED <<thread, peerId, version, cmdQueue>>
      BY <1>3, <1>8 DEF InfoMsgReceived
    <2>2. e \in Event
      <3>1. info.peer \in Peer /\ info.msg \in Message
        BY <2>1, FieldTypes
      <3> HIDE DEF info
      <3> QED
        BY <1>1, <3>1 DEF Event
    <2>3. e.msg.kind # "version" => e.id \in Learned
      BY <2>1 DEF LearnedFirst
    <2> HIDE DEF e, info, Range
    <2>4. Range(outQueue') = Range(outQueue) \cup {e}
      BY <1>1, <2>1, <2>2, RangeAppend
    <2> QED
      BY <1>1, <2>1, <2>3, <2>4, ThreadsLearn
  <1>9. CASE NoCommand \/ InfoTimeout \/ ProcessExit
    BY <1>1, <1>9, ThreadsLearn DEF NoCommand, InfoTimeout, ProcessExit
  <1>10. ASSUME NEW p \in Peer, NEW place \in ThreadPlace \ {"new", "connecting"},
                thread' = [thread EXCEPT ![p] = place]
         PROVE  \A q \in Peer : thread'[q] \in {"new", "connecting"} => thread[q] \in {"new", "connecting"}
    BY <1>1, <1>10
  <1>11. ASSUME NEW p \in Peer, NEW e \in Info, infoQueue' = Append(infoQueue, e),
                NEW place \in ThreadPlace \ {"new", "connecting"},
                thread' = [thread EXCEPT ![p] = place],
                UNCHANGED <<cmdQueue, outQueue, version, peerId>>,
                e.type = "MSG_RECEIVED" /\ e.msg.kind # "version" => peerId[e.peer] \in Learned
         PROVE  LearnedFirst'
    <2> HIDE DEF Range
    <2>1. Range(infoQueue') = Range(infoQueue) \cup {e}
      BY <1>1, <1>11, RangeAppend
    <2>2. \A q \in Peer : thread'[q] \in {"new", "connecting"} => thread[q] \in {"new", "connecting"}
      BY <1>10, <1>11
    <2>3. \A q \in Peer :
            version'[q] # 0
              => thread'[q] \notin {"new", "connecting"} /\ peerId'[q] \in Learned
      BY <1>11, <2>2 DEF LearnedFirst
    <2>4. /\ \A info \in Range(infoQueue') :
               info.type = "MSG_RECEIVED" /\ info.msg.kind # "version"
                 => peerId'[info.peer] \in Learned
          /\ \A event \in Range(outQueue') :
               event.type = "MSG_RECEIVED" /\ event.msg.kind # "version"
                 => event.id \in Learned
      BY <1>11, <2>1 DEF LearnedFirst
    <2> QED
      BY <1>1, <1>11, <2>3, <2>4, NetworkLearns
  <1>12. ASSUME NEW p \in Peer, RecvMessage(p) PROVE LearnedFirst'
    <2>1. PICK kind \in Kind :
            /\ Decodable(p, kind)
            /\ infoQueue' = Append(infoQueue,
                 [type |-> "MSG_RECEIVED", peer |-> p, msg |-> [kind |-> kind, peer |-> p]])
      BY <1>12 DEF RecvMessage
    <2> DEFINE e == [type |-> "MSG_RECEIVED", peer |-> p, msg |-> [kind |-> kind, peer |-> p]]
    <2>2. e \in Info
      BY DEF Info, Message
    <2>3. e.msg.kind # "version" => peerId[e.peer] \in Learned
      BY <2>1 DEF Decodable, LearnedFirst
    <2>4. /\ thread' = [thread EXCEPT ![p] = "test"]
          /\ UNCHANGED <<cmdQueue, outQueue, version, peerId>>
      BY <1>12 DEF RecvMessage, Goto
    <2>5. infoQueue' = Append(infoQueue, e) /\ "test" \in ThreadPlace \ {"new", "connecting"}
      BY <2>1 DEF ThreadPlace
    <2> HIDE DEF e
    <2> QED
      BY <1>11, <2>2, <2>3, <2>4, <2>5
  <1>13. ASSUME NEW p \in Peer, ConnectOk(p) \/ ConnectFail(p) \/ RemovePeer(p) PROVE LearnedFirst'
    <2>1. PICK type \in {"CONNECTED", "CONNECT_FAILED", "DISCONNECTED"} :
            infoQueue' = Append(infoQueue, [type |-> type, peer |-> p])
      BY <1>13 DEF ConnectOk, ConnectFail, RemovePeer, Notify
    <2>2. PICK place \in ThreadPlace \ {"new", "connecting"} : thread' = [thread EXCEPT ![p] = place]
      BY <1>13 DEF ConnectOk, ConnectFail, RemovePeer, Goto, ThreadPlace
    <2>3. UNCHANGED <<cmdQueue, outQueue, version, peerId>>
      BY <1>13 DEF ConnectOk, ConnectFail, RemovePeer
    <2>4. [type |-> type, peer |-> p] \in Info /\ [type |-> type, peer |-> p].type # "MSG_RECEIVED"
      BY DEF Info
    <2> QED
      BY <1>11, <2>1, <2>2, <2>3, <2>4
  <1>14. ASSUME NEW p \in Peer, SenderStep(p) \/ (PeerStep(p) /\ ~RecvMessage(p)
                  /\ ~(ConnectOk(p) \/ ConnectFail(p) \/ RemovePeer(p)))
         PROVE  LearnedFirst'
    <2>1. UNCHANGED <<cmdQueue, outQueue, infoQueue, version, peerId>>
      BY <1>14 DEF SenderStep, SenderTest, SenderTimeout, SenderWrite, PeerStep,
           PeerNameError, StartSender, TestInterrupted, RecvNothing, RecvEnd, CloseSocket
    <2>2. \/ UNCHANGED thread
          \/ \E place \in ThreadPlace \ {"new", "connecting"} : thread' = [thread EXCEPT ![p] = place]
      BY <1>14 DEF SenderStep, SenderTest, SenderTimeout, SenderWrite, PeerStep,
           PeerNameError, StartSender, TestInterrupted, RecvNothing, RecvEnd, CloseSocket,
           Goto, ThreadPlace
    <2>3. \A q \in Peer : thread'[q] \in {"new", "connecting"} => thread[q] \in {"new", "connecting"}
      BY <1>10, <2>2
    <2> HIDE DEF Range
    <2> QED
      BY <1>1, <2>1, <2>3, ThreadsLearn
  <1> QED
    BY <1>4, <1>r, <1>5, <1>6, <1>7, <1>8, <1>9, <1>12, <1>13, <1>14
    DEF NetworkStep, ManagerStep, HandleCommand, HandleInfo

-----------------------------------------------------------------------------
(***************************************************************************)
(* The versions agree.  What LastSets says of the two queues a SET_VERSION *)
(* goes through survives each way they change.                             *)
(***************************************************************************)
(* A command that sets no version is put. *)
LEMMA SetsAfterPut ==
  ASSUME NEW S, NEW queue \in Seq(S), NEW rest, NEW agreed, NEW cmd \in S,
         cmd.type # "SET_VERSION", LastSets(queue, rest, agreed)
  PROVE  LastSets(Append(queue, cmd), rest, agreed)
  <1> DEFINE t == Append(queue, cmd)
  <1>1. /\ Len(queue) \in Nat /\ DOMAIN queue = 1..Len(queue)
        /\ DOMAIN t = 1..(Len(queue) + 1)
        /\ \A i \in 1..Len(queue) : t[i] = queue[i]
        /\ t[Len(queue) + 1] = cmd
    BY AppendElements
  <1> HIDE DEF t
  <1>2. /\ \A i \in DOMAIN t : i \in DOMAIN queue \/ t[i] = cmd
        /\ \A i \in DOMAIN queue : i \in DOMAIN t /\ t[i] = queue[i]
    BY <1>1
  <1>3. LastSets(t, rest, agreed)
    BY <1>2 DEF LastSets, SetsVersion
  <1> QED
    BY <1>3 DEF t

(* The next command of the handler is put. *)
LEMMA SetsAfterMove ==
  ASSUME NEW S, NEW queue \in Seq(S), NEW rest \in Seq(S), rest # <<>>, NEW agreed,
         LastSets(queue, rest, agreed)
  PROVE  LastSets(Append(queue, Head(rest)), Tail(rest), agreed)
  <1> DEFINE cmd == Head(rest)
             t   == Append(queue, cmd)
             u   == Tail(rest)
  <1>1. /\ cmd \in S /\ cmd = rest[1] /\ 1 \in DOMAIN rest
        /\ DOMAIN rest = 1..Len(rest) /\ Len(rest) \in Nat
        /\ DOMAIN u = 1..(Len(rest) - 1)
        /\ \A i \in 1..(Len(rest) - 1) : u[i] = rest[i + 1]
    BY TailElements
  <1>2. /\ Len(queue) \in Nat /\ DOMAIN queue = 1..Len(queue)
        /\ DOMAIN t = 1..(Len(queue) + 1)
        /\ \A i \in 1..Len(queue) : t[i] = queue[i]
        /\ t[Len(queue) + 1] = cmd
    BY <1>1, AppendElements
  <1> HIDE DEF cmd, t, u
  <1>3. /\ \A i \in DOMAIN t : i \in DOMAIN queue \/ t[i] = cmd
        /\ \A i \in DOMAIN queue : i \in DOMAIN t /\ t[i] = queue[i] /\ Len(queue) + 1 > i
        /\ Len(queue) + 1 \in DOMAIN t
    BY <1>2
  <1>4. /\ \A i \in DOMAIN u : i + 1 \in DOMAIN rest /\ u[i] = rest[i + 1]
        /\ \A i \in DOMAIN rest : i = 1 \/ (i - 1 \in DOMAIN u /\ u[i - 1] = rest[i])
    BY <1>1
  <1>5. ASSUME NEW i \in DOMAIN t, t[i].type = "SET_VERSION", t[i].id \in DOMAIN agreed
        PROVE  \/ t[i].version = agreed[t[i].id]
               \/ \E j \in DOMAIN t : j > i /\ SetsVersion(t[j], t[i].id)
               \/ \E j \in DOMAIN u : SetsVersion(u[j], t[i].id)
    <2>1. CASE t[i] = cmd
      BY <1>1, <1>5, <2>1 DEF LastSets
    <2>2. CASE i \in DOMAIN queue
      <3>1. t[i] = queue[i]
        BY <1>3, <2>2
      <3>2. CASE \E j \in DOMAIN queue : j > i /\ SetsVersion(queue[j], queue[i].id)
        BY <1>3, <3>1, <3>2
      <3>3. ASSUME NEW j \in DOMAIN rest, SetsVersion(rest[j], queue[i].id)
            PROVE  \/ \E m \in DOMAIN t : m > i /\ SetsVersion(t[m], t[i].id)
                   \/ \E m \in DOMAIN u : SetsVersion(u[m], t[i].id)
        <4>1. CASE j = 1
          BY <1>1, <1>2, <1>3, <2>2, <3>1, <3>3, <4>1
        <4>2. CASE j # 1
          BY <1>4, <3>1, <3>3, <4>2
        <4> QED
          BY <4>1, <4>2
      <3> QED
        BY <1>5, <2>2, <3>1, <3>2, <3>3 DEF LastSets
    <2> QED
      BY <1>3, <2>1, <2>2
  <1>6. LastSets(t, u, agreed)
    BY <1>4, <1>5 DEF LastSets
  <1> QED
    BY <1>6 DEF t, u, cmd

(* The network process takes a command. *)
LEMMA SetsAfterTake ==
  ASSUME NEW S, NEW queue \in Seq(S), queue # <<>>, NEW rest, NEW agreed,
         LastSets(queue, rest, agreed)
  PROVE  LastSets(Tail(queue), rest, agreed)
  <1> DEFINE t == Tail(queue)
  <1>1. /\ Len(queue) \in Nat /\ DOMAIN queue = 1..Len(queue)
        /\ DOMAIN t = 1..(Len(queue) - 1)
        /\ \A i \in 1..(Len(queue) - 1) : t[i] = queue[i + 1]
    BY TailElements
  <1> HIDE DEF t
  <1>2. /\ \A i \in DOMAIN t : i + 1 \in DOMAIN queue /\ t[i] = queue[i + 1]
        /\ \A i \in DOMAIN t : \A j \in DOMAIN queue :
             j > i + 1 => j - 1 > i /\ j - 1 \in DOMAIN t /\ t[j - 1] = queue[j]
    BY <1>1
  <1>3. LastSets(t, rest, agreed)
    BY <1>2 DEF LastSets
  <1> QED
    BY <1>3 DEF t

(* A handler that sets no version keeps those of the ids with a command on  *)
(* its way.                                                                 *)
LEMMA SetsAfterLoad ==
  ASSUME NEW queue, NEW rest, NEW agreed, NEW agreed2, LastSets(queue, <<>>, agreed),
         \A i \in DOMAIN queue :
           queue[i].type = "SET_VERSION" /\ queue[i].id \in DOMAIN agreed2
             => queue[i].id \in DOMAIN agreed /\ agreed2[queue[i].id] = agreed[queue[i].id],
         \A i \in DOMAIN rest : rest[i].type # "SET_VERSION"
  PROVE  LastSets(queue, rest, agreed2)
  BY DEF LastSets

(* A handler that agrees on a version tells the network process. *)
LEMMA SetsAfterSet ==
  ASSUME NEW queue, NEW cmd, NEW ack, NEW agreed, NEW agreed2,
         LastSets(queue, <<>>, agreed), cmd.type = "SET_VERSION", ack.type # "SET_VERSION",
         DOMAIN agreed2 = DOMAIN agreed, cmd.id \in DOMAIN agreed,
         \A k \in DOMAIN agreed : k # cmd.id => agreed2[k] = agreed[k],
         agreed2[cmd.id] = cmd.version
  PROVE  LastSets(queue, <<cmd, ack>>, agreed2)
  <1> DEFINE rest == <<cmd, ack>>
  <1>1. DOMAIN rest = {1, 2} /\ rest[1] = cmd /\ rest[2] = ack
    OBVIOUS
  <1> HIDE DEF rest
  <1>2. LastSets(queue, rest, agreed2)
    BY <1>1 DEF LastSets, SetsVersion
  <1> QED
    BY <1>2 DEF rest

-----------------------------------------------------------------------------
(* The ids whose version is still on its way to the network process. *)
Setting ==
  {cmd.id : cmd \in {c \in Range(cmdQueue) \cup Range(todo) : c.type = "SET_VERSION"}}

Agreement ==
  \A k \in DOMAIN peerMap \cap DOMAIN peers :
    k \notin Setting => version[peers[k]] = peerMap[k].version

(* The property in terms of that set. *)
LEMMA AgreementIs == VersionsAgree <=> Agreement
  <1>1. \A k : Settling(k) <=> k \in Setting
    BY DEF Settling, Setting, Range
  <1> QED
    BY <1>1 DEF VersionsAgree, Agreement

(* The last command about an id is the one that brings the versions together. *)
LEMMA NetworkKeepsAgreement ==
  ASSUME ClusterTypeOK, NetworkPromise, LastSets(cmdQueue, todo, Agreed), Agreement,
         NetworkStep, UNCHANGED nodeVars
  PROVE  LastSets(cmdQueue', todo', Agreed') /\ Agreement'
  <1> USE DEF mainVars, threadVars, senderVars
  <1> HIDE DEF Range
  <1>1. /\ cmdQueue \in Seq(Command) /\ version \in [Peer -> Version]
        /\ DOMAIN peers \subseteq Nat /\ peers \in [DOMAIN peers -> Peer]
        /\ UNCHANGED <<todo, peerMap, Agreed>>
    BY DEF ClusterTypeOK, TypeOK, nodeVars, Agreed
  <1>2. ASSUME NEW type, TakeCommand(type)
        PROVE  /\ LastSets(cmdQueue', todo', Agreed')
               /\ Head(cmdQueue).type = type /\ cmdQueue # <<>>
               /\ Range(cmdQueue) = {Head(cmdQueue)} \cup Range(cmdQueue')
    BY <1>1, <1>2, SetsAfterTake, RangeTake DEF TakeCommand
  <1>3. ASSUME UNCHANGED version, Setting \subseteq Setting',
               \A k \in DOMAIN peerMap \cap DOMAIN peers' :
                 k \in DOMAIN peers /\ peers'[k] = peers[k]
        PROVE  Agreement'
    BY <1>1, <1>3 DEF Agreement
  <1>4. UNCHANGED cmdQueue => Setting' = Setting /\ LastSets(cmdQueue', todo', Agreed')
    BY <1>1 DEF Setting
  <1>5. CASE \/ CommandConnect \/ CommandConnectRaises \/ CommandDisconnect
             \/ CommandSendMessage \/ CommandShutdown
    <2>1. PICK type \in {"CONNECT", "DISCONNECT", "SEND_MESSAGE", "SHUTDOWN"} : TakeCommand(type)
      BY <1>5
      DEF CommandConnect, CommandConnectRaises, CommandDisconnect, CommandSendMessage,
          CommandShutdown
    <2>2. UNCHANGED <<version, peers>>
      BY <1>5
      DEF CommandConnect, CommandConnectRaises, CommandDisconnect, CommandSendMessage,
                  CommandShutdown,
                  LeaveMainLoop
    <2>3. Setting' = Setting
      BY <1>1, <1>2, <2>1 DEF Setting
    <2> QED
      BY <1>2, <1>3, <2>1, <2>2, <2>3
  <1>6. CASE CommandSetVersion
    <2> DEFINE cmd == Head(cmdQueue)
    <2>1. /\ TakeCommand("SET_VERSION")
          /\ version' = [q \in Peer |-> IF cmd.id \in DOMAIN peers /\ peers[cmd.id] = q
                                          THEN cmd.version ELSE version[q]]
          /\ UNCHANGED peers
      BY <1>6 DEF CommandSetVersion
    <2>2. /\ LastSets(cmdQueue', todo', Agreed') /\ cmd.type = "SET_VERSION"
          /\ cmdQueue # <<>> /\ cmdQueue' = Tail(cmdQueue)
          /\ Range(cmdQueue) = {cmd} \cup Range(cmdQueue')
      BY <1>2, <2>1 DEF TakeCommand
    <2>3. /\ cmd = cmdQueue[1] /\ 1 \in DOMAIN cmdQueue
          /\ \A j \in DOMAIN cmdQueue : j > 1 => cmdQueue[j] \in Range(cmdQueue')
      <3>1. /\ cmd = cmdQueue[1] /\ DOMAIN cmdQueue = 1..Len(cmdQueue)
            /\ Len(cmdQueue) \in Nat
            /\ DOMAIN cmdQueue' = 1..(Len(cmdQueue) - 1) /\ 1 \in DOMAIN cmdQueue
            /\ \A i \in 1..(Len(cmdQueue) - 1) : cmdQueue'[i] = cmdQueue[i + 1]
        BY <1>1, <2>2, TailElements
      <3>2. \A j \in DOMAIN cmdQueue :
              j > 1 => j - 1 \in DOMAIN cmdQueue' /\ cmdQueue'[j - 1] = cmdQueue[j]
        BY <3>1
      <3> QED
        BY <3>1, <3>2 DEF Range
    <2> HIDE DEF cmd
    <2>4. Setting \subseteq Setting' \cup {cmd.id}
      BY <1>1, <2>2 DEF Setting
    <2>5. ASSUME NEW k \in DOMAIN peerMap \cap DOMAIN peers, k \notin Setting'
          PROVE  version'[peers[k]] = peerMap[k].version
      <3>1. peers[k] \in Peer
        BY <1>1
      <3>2. CASE k = cmd.id
        <4>1. version'[peers[k]] = cmd.version
          BY <2>1, <3>1, <3>2
        <4>2. ~\E j \in DOMAIN cmdQueue : j > 1 /\ SetsVersion(cmdQueue[j], k)
          BY <2>3, <2>5 DEF Setting, SetsVersion
        <4>3. ~\E j \in DOMAIN todo : SetsVersion(todo[j], k)
          BY <1>1, <2>5 DEF Setting, SetsVersion, Range
        <4>4. k \in DOMAIN Agreed /\ Agreed[k] = peerMap[k].version
          BY DEF Agreed
        <4> QED
          BY <2>2, <2>3, <3>2, <4>1, <4>2, <4>3, <4>4 DEF LastSets
      <3>3. CASE k # cmd.id
        <4>1. k \notin Setting
          BY <2>4, <2>5, <3>3
        <4>2. ~(cmd.id \in DOMAIN peers /\ peers[cmd.id] = peers[k])
          BY <3>3 DEF NetworkPromise
        <4> QED
          BY <2>1, <3>1, <4>1, <4>2 DEF Agreement
      <3> QED
        BY <3>2, <3>3
    <2> QED
      BY <1>1, <2>1, <2>2, <2>5 DEF Agreement
  <1>7. CASE InfoConnected
    <2>1. /\ \A k \in DOMAIN peers' :
               k # peerIdCounter => k \in DOMAIN peers /\ peers'[k] = peers[k]
          /\ UNCHANGED <<version, cmdQueue>>
      BY <1>7 DEF InfoConnected
    <2>2. peerIdCounter \notin DOMAIN peerMap
      <3>1. peerIdCounter \in Nat /\ DOMAIN peerMap \subseteq Nat
        BY DEF ClusterTypeOK, TypeOK, NodeTypeOK
      <3> QED
        BY <3>1 DEF NetworkPromise
    <2> QED
      BY <1>3, <1>4, <2>1, <2>2
  <1>8. CASE InfoDisconnected
    <2>1. /\ \A k \in DOMAIN peers' : k \in DOMAIN peers /\ peers'[k] = peers[k]
          /\ UNCHANGED <<version, cmdQueue>>
      BY <1>8 DEF InfoDisconnected, LeaveMainLoop
    <2> QED
      BY <1>3, <1>4, <2>1
  <1>9. CASE NoCommand \/ InfoTimeout \/ ProcessExit \/ InfoConnectFailed \/ InfoMsgReceived
             \/ \E p \in Peer : PeerStep(p) \/ SenderStep(p)
    <2>1. UNCHANGED <<version, cmdQueue, peers>>
      BY <1>9
      DEF NoCommand, InfoTimeout, ProcessExit, InfoConnectFailed, InfoMsgReceived,
          PeerStep, ConnectOk, ConnectFail, PeerNameError, StartSender, TestInterrupted,
          RecvMessage, RecvNothing, RecvEnd, CloseSocket, RemovePeer, SenderStep,
          SenderTest, SenderTimeout, SenderWrite
    <2> QED
      BY <1>3, <1>4, <2>1
  <1> QED
    BY <1>5, <1>6, <1>7, <1>8, <1>9
    DEF NetworkStep, ManagerStep, HandleCommand, HandleInfo

(* The node begins with version 0, as the network process does. *)
LEMMA NodeKeepsAgreement ==
  ASSUME ClusterTypeOK, TodoNamesKnown, NetworkPromise, LearnedFirst,
         LastSets(cmdQueue, todo, Agreed), Agreement, NodeStep
  PROVE  LastSets(cmdQueue', todo', Agreed') /\ Agreement'
  <1> USE DEF mainVars, threadVars, senderVars, vars, NetworkUnchanged, history
  <1> HIDE DEF Range
  <1>1. /\ cmdQueue \in Seq(Command) /\ todo \in Seq(Command) /\ NodeTypeOK
        /\ DOMAIN peerMap \subseteq Nat /\ peerMap \in [DOMAIN peerMap -> PeerHandle]
        /\ peers \in [DOMAIN peers -> Peer]
        /\ Agreed = [k \in DOMAIN peerMap |-> peerMap[k].version]
        /\ Agreed' = [k \in DOMAIN peerMap' |-> peerMap'[k].version]
    BY DEF ClusterTypeOK, TypeOK, NodeTypeOK, Agreed
  <1>2. UNCHANGED <<version, peers>>
    BY DEF NodeStep, NodePut, NodeHandleCommand, NodeConnect, NodeShutdown,
        NodeJoined, NodeExit, NodePoll, NodeNotDue, NodeTakeEvent, NodeConnected,
        NodeConnectFailed, NodeMessage, NodeDisconnected, NodeKeyError, NodeNoEvent,
        TakeEvent
  <1>3. UNCHANGED <<peerMap, cmdQueue, todo>> =>
          LastSets(cmdQueue', todo', Agreed') /\ Agreement'
    BY <1>1, <1>2 DEF Agreement, Setting
  <1>4. ASSUME NEW cmd \in Command, Put(cmd), cmd.type # "SET_VERSION",
               UNCHANGED <<todo, peerMap>>
        PROVE  LastSets(cmdQueue', todo', Agreed') /\ Agreement'
    <2>1. Range(cmdQueue') = Range(cmdQueue) \cup {cmd} /\ cmdQueue' = Append(cmdQueue, cmd)
      BY <1>1, <1>4, RangeAppend DEF Put
    <2>2. Agreement'
      BY <1>2, <1>4, <2>1 DEF Agreement, Setting
    <2>3. LastSets(cmdQueue', todo', Agreed')
      BY <1>1, <1>4, <2>1, SetsAfterPut
    <2> QED
      BY <2>2, <2>3
  <1>5. [type |-> "SHUTDOWN"] \in Command /\ [type |-> "SHUTDOWN"].type # "SET_VERSION"
    BY DEF Command
  <1>6. CASE NodePut
    <2>1. /\ todo # <<>> /\ cmdQueue' = Append(cmdQueue, Head(todo)) /\ todo' = Tail(todo)
          /\ UNCHANGED peerMap
      BY <1>6 DEF NodePut, Put
    <2>2. Head(todo) \in Command
      BY <1>1, <2>1, TailElements
    <2>3. /\ Range(cmdQueue') = Range(cmdQueue) \cup {Head(todo)}
          /\ Range(todo) = {Head(todo)} \cup Range(todo')
      BY <1>1, <2>1, <2>2, RangeAppend, RangeTake
    <2>4. Setting' = Setting
      BY <2>3 DEF Setting
    <2>5. LastSets(cmdQueue', todo', Agreed')
      BY <1>1, <2>1, SetsAfterMove
    <2> QED
      BY <1>2, <2>1, <2>4, <2>5 DEF Agreement
  <1>7. CASE NodeConnect
    <2> DEFINE cmd == [type |-> "CONNECT", host |-> Head(nodeQueue).host]
    <2>1. Head(nodeQueue) \in NodeCommand /\ Head(nodeQueue).type = "CONNECT"
      BY <1>1, <1>7, TailElements DEF NodeConnect, NodeTypeOK
    <2>2. cmd \in Command /\ cmd.type # "SET_VERSION"
      BY <2>1 DEF NodeCommand, Command
    <2> QED
      BY <1>4, <1>7, <2>2 DEF NodeConnect
  <1>8. CASE NodeShutdown \/ NodeJoined
    BY <1>4, <1>5, <1>8 DEF NodeShutdown, NodeJoined
  <1>9. CASE NodeKeyError
    BY <1>4, <1>5, <1>9 DEF NodeKeyError
  <1>10. CASE NodeExit \/ NodeNotDue \/ NodeNoEvent \/ NodeConnectFailed
    BY <1>3, <1>10 DEF NodeExit, NodeNotDue, NodeNoEvent, NodeConnectFailed
  (* A handler that sets no version. *)
  <1>11. ASSUME todo = <<>>, UNCHANGED cmdQueue,
                \A i \in DOMAIN todo' : todo'[i].type # "SET_VERSION",
                \A k \in DOMAIN peerMap' :
                  \/ k \in DOMAIN peerMap /\ peerMap'[k].version = peerMap[k].version
                  \/ /\ \A cmd \in Range(cmdQueue) : cmd.type = "SET_VERSION" => cmd.id # k
                     /\ k \in DOMAIN peers => version[peers[k]] = peerMap'[k].version
         PROVE  LastSets(cmdQueue', todo', Agreed') /\ Agreement'
    <2>1. Setting' = Setting
      <3>1. Range(todo) = {} /\ \A cmd \in Range(todo') : cmd.type # "SET_VERSION"
        BY <1>11 DEF Range
      <3> QED
        BY <1>11, <3>1 DEF Setting
    <2>2. Agreement'
      BY <1>2, <1>11, <2>1 DEF Agreement
    <2>3. \A i \in DOMAIN cmdQueue :
            cmdQueue[i].type = "SET_VERSION" /\ cmdQueue[i].id \in DOMAIN Agreed'
              => /\ cmdQueue[i].id \in DOMAIN Agreed
                 /\ Agreed'[cmdQueue[i].id] = Agreed[cmdQueue[i].id]
      BY <1>1, <1>11 DEF Range
    <2>4. LastSets(cmdQueue', todo', Agreed')
      BY <1>11, <2>3, SetsAfterLoad
    <2> QED
      BY <2>2, <2>4
  <1>12. CASE NodePoll
    <2>1. \A i \in DOMAIN Pings : Pings[i].type = "SEND_MESSAGE"
      BY <1>1, PingsElements DEF TodoNamesKnown
    <2> QED
      BY <1>11, <1>12, <2>1 DEF NodePoll, NodeAt
  <1>13. CASE NodeDisconnected
    <2>1. /\ todo = <<>> /\ UNCHANGED <<todo, cmdQueue>>
          /\ \A k \in DOMAIN peerMap' : k \in DOMAIN peerMap /\ peerMap'[k] = peerMap[k]
      BY <1>13 DEF NodeDisconnected, TakeEvent, NodeAt
    <2>2. \A i \in DOMAIN todo' : todo'[i].type # "SET_VERSION"
      BY <2>1
    <2> QED
      BY <1>11, <2>1, <2>2
  <1>14. CASE NodeConnected
    <2> DEFINE event == Head(outQueue)
               k     == event.id
    <2>1. /\ todo = <<>> /\ UNCHANGED cmdQueue
          /\ outQueue \in Seq(Event) /\ outQueue # <<>> /\ event.type = "CONNECTED"
          /\ todo' = Greeting(k, event.host)
          /\ peerMap' = [i \in DOMAIN peerMap \cup {k} |->
                           IF i = k THEN [host |-> event.host, version |-> 0, tolerance |-> 100]
                                    ELSE peerMap[i]]
      BY <1>14 DEF NodeConnected, TakeEvent, NodeAt, ClusterTypeOK, TypeOK
    <2>2. event \in Range(outQueue)
      BY <2>1, RangeTake
    <2> HIDE DEF event
    <2>3. k \notin DOMAIN peerMap \cup ended
      BY <2>1, <2>2 DEF NetworkPromise
    <2>4. \A cmd \in Range(cmdQueue) : cmd.type = "SET_VERSION" => cmd.id # k
      BY <2>3 DEF LearnedFirst
    <2>5. k \in DOMAIN peers => version[peers[k]] = 0
      BY <1>1, <2>3 DEF LearnedFirst, Learned, NetworkPromise
    <2>6. /\ peerMap'[k].version = 0
          /\ \A i \in DOMAIN peerMap' : i # k => i \in DOMAIN peerMap /\ peerMap'[i] = peerMap[i]
      BY <2>1
    <2>7. \A i \in DOMAIN todo' : todo'[i].type # "SET_VERSION"
      BY <2>1 DEF Greeting
    <2> HIDE DEF k
    <2> QED
      BY <1>11, <2>1, <2>4, <2>5, <2>6, <2>7
  <1>15. CASE NodeMessage
    <2> DEFINE k == Head(outQueue).id
    <2>1. /\ k \in DOMAIN peerMap /\ UNCHANGED cmdQueue /\ todo = <<>>
          /\ HandleVersion(k) \/ HandleOther(k, Head(outQueue).msg.kind)
      BY <1>15 DEF NodeMessage, TakeEvent, NodeAt
    <2> HIDE DEF k
    <2>2. DOMAIN peerMap' = DOMAIN peerMap
      BY <1>1, <2>1, HandlerEffect
    <2>3. CASE HandleOther(k, Head(outQueue).msg.kind) \/ BadPeer(k, 100)
      <3>1. \A i \in DOMAIN peerMap : peerMap'[i].version = peerMap[i].version
        BY <1>1, <2>1, <2>3 DEF HandleOther, BadPeer, PeerHandle
      <3>2. \A i \in DOMAIN todo' : todo'[i].type # "SET_VERSION"
        BY <1>1, <2>1, <2>3, HandlerSetsNone
      <3> QED
        BY <1>11, <2>1, <2>2, <3>1, <3>2
    <2>4. ASSUME NEW v \in Version, SetVersion(k, v)
          PROVE  LastSets(cmdQueue', todo', Agreed') /\ Agreement'
      <3> DEFINE cmd == [type |-> "SET_VERSION", id |-> k, version |-> v]
                 ack == SendMessage(k, "verack")
      <3>1. /\ \A i \in DOMAIN peerMap : i # k => peerMap'[i] = peerMap[i]
            /\ peerMap'[k].version = v
        BY <1>1, <2>1, <2>4 DEF SetVersion, PeerHandle
      <3>2. /\ cmd.type = "SET_VERSION" /\ cmd.id = k /\ cmd.version = v
            /\ ack.type # "SET_VERSION" /\ todo' = <<cmd, ack>>
        BY <2>4 DEF SetVersion, SendMessage
      <3> HIDE DEF cmd, ack
      <3>3. Range(todo') = {cmd, ack} /\ Range(todo) = {}
        <4>1. DOMAIN <<cmd, ack>> = {1, 2} /\ <<cmd, ack>>[1] = cmd /\ <<cmd, ack>>[2] = ack
          OBVIOUS
        <4> QED
          BY <2>1, <3>2, <4>1 DEF Range
      <3>4. Setting' = Setting \cup {k}
        BY <2>1, <3>2, <3>3 DEF Setting
      <3>5. Agreement'
        BY <1>2, <2>2, <3>1, <3>4 DEF Agreement
      <3>6. /\ DOMAIN Agreed' = DOMAIN Agreed /\ k \in DOMAIN Agreed
            /\ \A i \in DOMAIN Agreed : i # k => Agreed'[i] = Agreed[i]
            /\ Agreed'[k] = v
        BY <1>1, <2>1, <2>2, <3>1
      <3>7. LastSets(cmdQueue, <<>>, Agreed)
        BY <2>1
      <3>8. LastSets(cmdQueue, <<cmd, ack>>, Agreed')
        BY <3>2, <3>6, <3>7, SetsAfterSet
      <3> QED
        BY <2>1, <3>2, <3>5, <3>8
    <2> QED
      BY <2>1, <2>3, <2>4, AgreedVersionType DEF HandleVersion
  <1> QED
    BY <1>6, <1>7, <1>8, <1>9, <1>10, <1>12, <1>13, <1>14, <1>15
    DEF NodeStep, NodeHandleCommand, NodeTakeEvent

-----------------------------------------------------------------------------
(***************************************************************************)
(* The theorems.                                                           *)
(***************************************************************************)
(* HandshakeInv follows from three of its parts. *)
HandshakeFacts == LearnedFirst /\ LastSets(cmdQueue, todo, Agreed) /\ VersionsAgree

LEMMA HandshakeInit == ClusterInit => HandshakeFacts
  <1> SUFFICES ASSUME ClusterInit PROVE HandshakeFacts
    OBVIOUS
  <1>1. /\ cmdQueue = <<>> /\ todo = <<>> /\ infoQueue = <<>> /\ outQueue = <<>>
        /\ ended = {} /\ DOMAIN peerMap = {}
        /\ \A p \in Peer : version[p] = 0
    BY DEF ClusterInit, Init, NodeInit
  <1> QED
    BY <1>1 DEF HandshakeFacts, LearnedFirst, LastSets, VersionsAgree

LEMMA HandshakeNext ==
  ASSUME ClusterFacts, NetworkPromise, HandshakeFacts, [ClusterNext]_allVars
  PROVE  HandshakeFacts'
  <1> HIDE DEF Range
  <1>1. ASSUME UNCHANGED <<vars, todo, peerMap, ended>> PROVE HandshakeFacts'
    <2>1. UNCHANGED Learned /\ UNCHANGED Agreed
      BY <1>1 DEF Learned, Agreed
    <2>2. LearnedFirst'
      BY <1>1, <2>1 DEF HandshakeFacts, LearnedFirst, vars, threadVars
    <2>3. VersionsAgree'
      BY <1>1 DEF HandshakeFacts, VersionsAgree, Settling, vars, mainVars, threadVars
    <2> QED
      BY <1>1, <2>1, <2>2, <2>3 DEF HandshakeFacts, vars
  <1>2. CASE MainStep \/ UNCHANGED allVars
    BY <1>1, <1>2
    DEF MainStep, MainConnect, MainShutdown, MainJoined, allVars, nodeVars, history
  <1>3. Agreement' => VersionsAgree'
    BY AgreementIs, PTL
  <1>4. CASE NodeStep
    BY <1>3, <1>4, NodeKeepsLearned, NodeKeepsAgreement, AgreementIs
    DEF HandshakeFacts, ClusterFacts
  <1>5. CASE NetworkStep /\ UNCHANGED nodeVars
    BY <1>3, <1>5, NetworkKeepsLearned, NetworkKeepsAgreement, AgreementIs
    DEF HandshakeFacts, ClusterFacts
  <1> QED
    BY <1>2, <1>4, <1>5 DEF ClusterNext

(* While attempts do not overlap the node is ahead of the network process:  *)
(* it has agreed on a version before the network process decodes anything   *)
(* but version messages with it, and the last command on its way about an   *)
(* id sets what the node has agreed on.                                     *)
THEOREM HandshakeInvHolds == ASSUME SerialConnects PROVE Spec => []HandshakeInv
  <1>1. ClusterInit => HandshakeFacts
    BY HandshakeInit
  <1>2. Net!SerialInv /\ Net!ToldOnce => NetworkPromise
    BY PromiseKept
  <1>3. ClusterFacts /\ NetworkPromise /\ HandshakeFacts /\ [ClusterNext]_allVars
          => HandshakeFacts'
    BY HandshakeNext
  <1>4. HandshakeFacts => HandshakeInv
    <2> SUFFICES ASSUME HandshakeFacts PROVE VersionHeardFirst
      BY DEF HandshakeFacts, HandshakeInv
    <2>1. \A i \in DOMAIN outQueue : outQueue[i] \in Range(outQueue)
      OBVIOUS
    <2> QED
      BY <2>1 DEF HandshakeFacts, LearnedFirst, VersionHeardFirst, Learned
  <1> QED
    BY <1>1, <1>2, <1>3, <1>4, ClusterFactsHold, SerialAll, PTL DEF Spec

(* While attempts do not overlap, the version a connection is decoded with  *)
(* is the one in the node's handle of it, once the network process has      *)
(* taken the commands that set it.                                          *)
THEOREM VersionsAgreeHolds == ASSUME SerialConnects PROVE Spec => []VersionsAgree
  <1>1. HandshakeInv => VersionsAgree
    BY DEF HandshakeInv
  <1> QED
    BY <1>1, HandshakeInvHolds, PTL

(* While attempts do not overlap, the node hears nothing but version        *)
(* messages of a peer before a version is agreed with it.                   *)
THEOREM NothingBeforeVersion == ASSUME SerialConnects PROVE Spec => []VersionHeardFirst
  <1>1. HandshakeInv => VersionHeardFirst
    BY DEF HandshakeInv
  <1> QED
    BY <1>1, HandshakeInvHolds, PTL

(* While attempts do not overlap, the network process keeps the promises of *)
(* PeerService to the node of this program.                                 *)
THEOREM NodeIsServed == ASSUME SerialConnects PROVE Spec => Net!ImplementsService
  <1>1. 0 \in Nat /\ Nat \subseteq Nat
    OBVIOUS
  <1> QED
    BY <1>1, NetworkUsed, SameNetwork, Net!ServiceImplemented, KindAssumption,
       VersionAssumption, PipeAssumption, BoundAssumption, SerialAssumption, PTL DEF UsesNetworkManager
=============================================================================
