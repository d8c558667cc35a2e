----------------------- MODULE NetworkManager_proofs -----------------------
(***************************************************************************)
(* Theorems about the network process and its user, for every set of peers *)
(* and every bound.                                                        *)
(***************************************************************************)
EXTENDS NetworkManager, PeerManager_proofs

-----------------------------------------------------------------------------
(***************************************************************************)
(* Type correctness.                                                       *)
(***************************************************************************)
USE DEF Range, Restrict

LEMMA InitTypes == NetworkInit => NetworkTypeOK
  BY PeerManagerInitTypes, CommandsAssumption
  DEF NetworkInit, UserInit, NetworkTypeOK, UserTypeOK

LEMMA UserStepTypes ==
  ASSUME NetworkTypeOK, UserStep
  PROVE  NetworkTypeOK'
  <1> USE DEF NetworkTypeOK, TypeOK, UserTypeOK, vars, mainVars, threadVars,
              senderVars, history
  <1>1. ASSUME NEW p \in Peer, UserConnect(p) PROVE NetworkTypeOK'
    <2>1. [type |-> "CONNECT", host |-> p] \in Command
      BY DEF Command
    <2> QED
      BY <1>1, <2>1, QueueTypes DEF UserConnect, Put, userVars
  <1>2. ASSUME NEW id \in DOMAIN known, NEW cmd \in Command, Issue(cmd)
        PROVE  NetworkTypeOK'
    <2>1. cmdQueue' \in Seq(Command)
      BY <1>2, QueueTypes DEF Issue, Put
    <2>2. commands' \in CommandCount
      BY <1>2 DEF Issue
    <2> QED
      BY <1>2, <2>1, <2>2 DEF Issue
  <1>3. ASSUME NEW id \in DOMAIN known, UserSend(id) PROVE NetworkTypeOK'
    <2>1. PICK kind \in Kind : Issue([type |-> "SEND_MESSAGE", id |-> id,
                                      msg |-> [kind |-> kind, peer |-> known[id]]])
      BY <1>3 DEF UserSend
    <2>2. [type |-> "SEND_MESSAGE", id |-> id,
           msg |-> [kind |-> kind, peer |-> known[id]]] \in Command
      BY DEF Command, Message
    <2> QED
      BY <1>2, <2>1, <2>2
  <1>4. ASSUME NEW id \in DOMAIN known, UserSetVersion(id) PROVE NetworkTypeOK'
    BY <1>2, <1>4 DEF UserSetVersion, Command
  <1>5. ASSUME NEW id \in DOMAIN known, UserDisconnect(id) PROVE NetworkTypeOK'
    BY <1>2, <1>5 DEF UserDisconnect, Command
  <1>6. [type |-> "SHUTDOWN"] \in Command
    BY DEF Command
  <1>7. CASE UserShutdown
    BY <1>6, <1>7, QueueTypes DEF UserShutdown, Put
  <1>8. CASE UserJoined
    BY <1>8 DEF UserJoined
  <1>9. ASSUME NEW type, TakeEvent(type)
        PROVE  /\ Head(outQueue) \in Event
               /\ outQueue' \in Seq(Event)
               /\ Head(outQueue).type = type
               /\ UNCHANGED <<mainVars, infoQueue, threadVars, senderVars, commands>>
    BY <1>9, QueueTypes DEF TakeEvent
  <1>10. CASE UserConnected
    <2> Head(outQueue) \in Event /\ Head(outQueue).type = "CONNECTED"
      BY <1>9, <1>10 DEF UserConnected
    <2>1. Head(outQueue).id \in Nat /\ Head(outQueue).host \in Peer
      BY FieldTypes
    <2>2. DOMAIN known' \subseteq Nat /\ known' \in [DOMAIN known' -> Peer]
      BY <1>10, <2>1 DEF UserConnected
    <2> QED
      BY <1>9, <1>10, <2>2 DEF UserConnected
  <1>11. CASE UserRefused
    <2> Head(outQueue) \in Event /\ Head(outQueue).type = "CONNECT_FAILED"
      BY <1>9, <1>11 DEF UserRefused
    <2>1. Head(outQueue).host \in Peer
      BY FieldTypes
    <2>2. refused' \subseteq Peer
      BY <1>11, <2>1 DEF UserRefused
    <2>3. /\ outQueue' \in Seq(Event)
          /\ UNCHANGED <<mainVars, infoQueue, threadVars, senderVars, commands>>
      BY <1>9, <1>11 DEF UserRefused
    <2> QED
      BY <1>11, <2>2, <2>3 DEF UserRefused
  <1>12. CASE UserMessage
    <2>1. Head(outQueue) \in Event /\ Head(outQueue).type = "MSG_RECEIVED"
      BY <1>9, <1>12 DEF UserMessage
    <2>2. Head(outQueue).msg.peer \in Peer
      BY <2>1, FieldTypes
    <2> QED
      BY <1>9, <1>12, <2>2 DEF UserMessage
  <1>13. CASE UserDisconnected
    <2>1. DOMAIN known' \subseteq Nat /\ known' \in [DOMAIN known' -> Peer]
      BY <1>13 DEF UserDisconnected
    <2>2. ended' \subseteq Nat
      BY <1>13 DEF UserDisconnected
    <2> QED
      BY <1>9, <1>13, <2>1, <2>2 DEF UserDisconnected
  <1>14. CASE UserKeyError
    BY <1>6, <1>9, <1>14, QueueTypes DEF UserKeyError, Put
  <1> QED
    BY <1>1, <1>3, <1>4, <1>5, <1>7, <1>8, <1>10, <1>11, <1>12, <1>13, <1>14
    DEF UserStep, UserTakeEvent

LEMMA NextTypes ==
  ASSUME NetworkTypeOK, [NetworkNext]_allVars
  PROVE  NetworkTypeOK'
  <1>1. ASSUME NetworkStep, UNCHANGED userVars PROVE NetworkTypeOK'
    <2>1. TypeOK'
      BY <1>1, ManagerStepTypes, PeerStepTypes, SenderStepTypes DEF NetworkStep, NetworkTypeOK
    <2>2. UserTypeOK'
      BY <1>1 DEF NetworkTypeOK, UserTypeOK, userVars, history
    <2> QED
      BY <2>1, <2>2 DEF NetworkTypeOK
  <1>2. CASE UNCHANGED allVars
    BY <1>2 DEF NetworkTypeOK, TypeOK, UserTypeOK, allVars, vars, mainVars, threadVars,
                senderVars, userVars, history
  <1> QED
    BY <1>1, <1>2, UserStepTypes DEF NetworkNext

(* The variables of the network process and of its user keep their types,  *)
(* for every set of peers and messages, whether or not attempts overlap.    *)
THEOREM TypeCorrect == Spec => []NetworkTypeOK
  <1>1. NetworkInit => NetworkTypeOK
    BY InitTypes
  <1>2. NetworkTypeOK /\ [NetworkNext]_allVars => NetworkTypeOK'
    BY NextTypes
  <1> QED
    BY <1>1, <1>2, PTL DEF Spec

-----------------------------------------------------------------------------
(***************************************************************************)
(* The attempts on their way, after each of the ways to change a queue.    *)
(***************************************************************************)
LEMMA OrderedAfterPut ==
  ASSUME NetworkTypeOK, NEW cmd \in Command, Put(cmd), NEW p \in Peer
  PROVE  Ordered(p)' <=> Ordered(p) \/ (cmd.type = "CONNECT" /\ cmd.host = p)
  <1>1. cmdQueue \in Seq(Command)
    BY DEF NetworkTypeOK, TypeOK
  <1> QED
    BY <1>1, AppendElements DEF Put, Ordered

LEMMA OrderedAfterTake ==
  ASSUME NetworkTypeOK, OneAttempt, NEW type, TakeCommand(type), NEW p \in Peer
  PROVE  /\ Ordered(p)' => Ordered(p)
         /\ type = "CONNECT" => Ordered(Head(cmdQueue).host) /\ ~Ordered(p)'
  <1>1. cmdQueue \in Seq(Command) /\ cmdQueue # <<>> /\ cmdQueue' = Tail(cmdQueue)
    BY DEF NetworkTypeOK, TypeOK, TakeCommand
  <1>2. \A i \in DOMAIN cmdQueue' : i + 1 \in DOMAIN cmdQueue /\ cmdQueue'[i] = cmdQueue[i + 1]
    BY <1>1, TailElements
  <1>3. Ordered(p)' => Ordered(p)
    BY <1>2 DEF Ordered
  <1>4. CASE type = "CONNECT"
    <2>1. 1 \in DOMAIN cmdQueue /\ cmdQueue[1].type = "CONNECT" /\ Head(cmdQueue) = cmdQueue[1]
      BY <1>1, <1>4, TailElements DEF TakeCommand
    <2>2. \A i \in DOMAIN cmdQueue' : cmdQueue'[i].type # "CONNECT"
      <3> SUFFICES ASSUME NEW i \in DOMAIN cmdQueue', cmdQueue'[i].type = "CONNECT"
                   PROVE  FALSE
        OBVIOUS
      <3>1. i + 1 = 1
        BY <1>2, <2>1 DEF OneAttempt
      <3>2. i \in Nat /\ i # 0
        BY <1>1, TailElements
      <3> QED
        BY <3>1, <3>2
    <2> QED
      BY <1>3, <2>1, <2>2 DEF Ordered
  <1> QED
    BY <1>3, <1>4

LEMMA AnnouncingAfterAppend ==
  ASSUME NetworkTypeOK, NEW info \in Info, infoQueue' = Append(infoQueue, info),
         NEW p \in Peer
  PROVE  Announcing(p)' <=> Announcing(p) \/ (info.type = "CONNECTED" /\ info.peer = p)
  <1>1. infoQueue \in Seq(Info)
    BY DEF NetworkTypeOK, TypeOK
  <1> QED
    BY <1>1, AppendElements DEF Announcing

LEMMA AnnouncingAfterTake ==
  ASSUME NetworkTypeOK, OneAttempt, NEW type, TakeInfo(type), NEW p \in Peer
  PROVE  /\ type # "CONNECTED" => (Announcing(p)' <=> Announcing(p))
         /\ type = "CONNECTED" => /\ Announcing(Head(infoQueue).peer)
                                  /\ ~Announcing(p)'
                                  /\ \A i \in DOMAIN infoQueue' : infoQueue'[i].type # "CONNECTED"
  <1>1. infoQueue \in Seq(Info) /\ infoQueue # <<>> /\ infoQueue' = Tail(infoQueue)
    BY DEF NetworkTypeOK, TypeOK, TakeInfo
  <1>2. \A i \in DOMAIN infoQueue' : i + 1 \in DOMAIN infoQueue /\ infoQueue'[i] = infoQueue[i + 1]
    BY <1>1, TailElements
  <1>3. /\ 1 \in DOMAIN infoQueue /\ infoQueue[1].type = type /\ Head(infoQueue) = infoQueue[1]
    BY <1>1, TailElements DEF TakeInfo
  <1>4. Announcing(p)' => Announcing(p)
    BY <1>2 DEF Announcing
  <1>5. CASE type # "CONNECTED"
    <2> SUFFICES ASSUME Announcing(p) PROVE Announcing(p)'
      BY <1>4, <1>5
    <2>1. PICK i \in DOMAIN infoQueue : infoQueue[i].type = "CONNECTED" /\ infoQueue[i].peer = p
      BY DEF Announcing
    <2>2. i \in Nat /\ i # 1 /\ i \in 1..Len(infoQueue)
      BY <1>1, <1>3, <1>5, <2>1
    <2>3. i - 1 \in DOMAIN infoQueue' /\ infoQueue'[i - 1] = infoQueue[i]
      BY <1>1, <2>2, TailElements
    <2> QED
      BY <2>1, <2>3 DEF Announcing
  <1>6. CASE type = "CONNECTED"
    <2>1. \A i \in DOMAIN infoQueue' : infoQueue'[i].type # "CONNECTED"
      <3> SUFFICES ASSUME NEW i \in DOMAIN infoQueue', infoQueue'[i].type = "CONNECTED"
                   PROVE  FALSE
        OBVIOUS
      <3>1. i + 1 = 1
        BY <1>2, <1>3, <1>6 DEF OneAttempt
      <3>2. i \in Nat /\ i # 0
        BY <1>1, TailElements
      <3> QED
        BY <3>1, <3>2
    <2> QED
      BY <1>3, <1>6, <2>1 DEF Announcing
  <1> QED
    BY <1>5, <1>6

(* What a step that leaves its variables alone keeps. *)
LEMMA Frame ==
  ASSUME SerialInv
  PROVE  /\ UNCHANGED <<cmdQueue, infoQueue, thread>> => OneAttempt'
         /\ UNCHANGED <<infoQueue, thread, peerId, peerIdCounter>> => IdsUnique'
         /\ UNCHANGED <<infoQueue, thread, peers>> =>
              DictRegistered' /\ HoldsActivePeers' /\ NoticesInOrder'
         /\ UNCHANGED <<peers, peerId>> => PeersKeyedById'
         /\ UNCHANGED <<infoQueue, thread, sender>> => DisconnectedIsLast'
         /\ UNCHANGED <<infoQueue, thread, peerId>> =>
              /\ UNCHANGED known => KnownValid'
              /\ UNCHANGED outQueue => EventsValid'
              /\ UNCHANGED cmdQueue => SendsValid'
         /\ UNCHANGED <<peers, known, outQueue>> => DictAnnounced'
         /\ UNCHANGED <<known, outQueue>> => EventsInOrder'
         /\ UNCHANGED <<sendQueue, wire>> => RoutedToAddressee'
         /\ UNCHANGED cause => NeverKeyError'
  <1> USE DEF SerialInv
  <1>1. UNCHANGED <<cmdQueue, infoQueue, thread>> => OneAttempt'
    BY DEF OneAttempt, Pending, Ordered, Announcing, Established, Active
  <1>2. UNCHANGED <<infoQueue, thread, peerId, peerIdCounter>> => IdsUnique'
    BY DEF IdsUnique, Registered, Announcing, Established, Active
  <1>3. UNCHANGED <<infoQueue, thread, peers>> => DictRegistered'
    BY DEF DictRegistered, Registered, Announcing, Established, Active
  <1>4. UNCHANGED <<infoQueue, thread, peers>> => HoldsActivePeers'
    BY DEF HoldsActivePeers, Announcing, Active
  <1>5. UNCHANGED <<infoQueue, thread, peers>> => NoticesInOrder'
    BY DEF NoticesInOrder, Established, Active
  <1>6. UNCHANGED <<peers, peerId>> => PeersKeyedById'
    BY DEF PeersKeyedById
  <1>7. UNCHANGED <<infoQueue, thread, sender>> => DisconnectedIsLast'
    BY DEF DisconnectedIsLast
  <1>8. UNCHANGED <<infoQueue, thread, peerId>> =>
          /\ UNCHANGED known => KnownValid'
          /\ UNCHANGED outQueue => EventsValid'
          /\ UNCHANGED cmdQueue => SendsValid'
    BY DEF KnownValid, EventsValid, SendsValid, NamesRegistered, Registered, Announcing,
           Established, Active
  <1>9. UNCHANGED <<peers, known, outQueue>> => DictAnnounced'
    BY DEF DictAnnounced
  <1>10. UNCHANGED <<known, outQueue>> => EventsInOrder'
    BY DEF EventsInOrder
  <1>11. UNCHANGED <<sendQueue, wire>> => RoutedToAddressee'
    BY DEF RoutedToAddressee
  <1>12. UNCHANGED cause => NeverKeyError'
    BY DEF NeverKeyError
  <1> QED
    BY <1>1, <1>2, <1>3, <1>4, <1>5, <1>6, <1>7, <1>8, <1>9, <1>10, <1>11, <1>12

-----------------------------------------------------------------------------
(***************************************************************************)
(* The user's steps preserve the invariant.                                *)
(***************************************************************************)

(* A command that orders no connection and, if it sends a message, names a *)
(* registered connection.                                                  *)
LEMMA PutKeepsInv ==
  ASSUME SerialInv, NetworkTypeOK', NEW cmd \in Command, Put(cmd), cmd.type # "CONNECT",
         cmd.type = "SEND_MESSAGE" => NamesRegistered(cmd.id, cmd.msg.peer),
         UNCHANGED <<outQueue, mainVars, infoQueue, threadVars, senderVars, known>>
  PROVE  SerialInv'
  <1> USE DEF mainVars, threadVars, senderVars
  <1>1. cmdQueue \in Seq(Command) /\ NetworkTypeOK
    BY DEF SerialInv, NetworkTypeOK, TypeOK
  <1>2. cmdQueue' = Append(cmdQueue, cmd)
    BY DEF Put
  <1>3. OneAttempt'
    <2>1. \A p \in Peer : (Ordered(p)' <=> Ordered(p)) /\ (Announcing(p)' <=> Announcing(p))
      BY <1>1, OrderedAfterPut DEF Announcing
    <2>2. \A i, j \in DOMAIN cmdQueue' :
            cmdQueue'[i].type = "CONNECT" /\ cmdQueue'[j].type = "CONNECT" => i = j
      BY <1>1, <1>2, AppendElements DEF SerialInv, OneAttempt
    <2> QED
      BY <2>1, <2>2 DEF SerialInv, OneAttempt, Pending, Established, Active
  <1>4. SendsValid'
    <2>1. \A p \in Peer : Registered(p)' <=> Registered(p)
      BY DEF Registered, Announcing, Established, Active
    <2>2. \A id, p : NamesRegistered(id, p) => NamesRegistered(id, p)'
      BY DEF NamesRegistered, Registered, Announcing, Established, Active
    <2> QED
      BY <1>1, <1>2, <2>2, AppendElements DEF SerialInv, SendsValid
  <1> QED
    BY <1>3, <1>4, Frame DEF SerialInv

LEMMA UserStepInv ==
  ASSUME SerialConnects, SerialInv, NetworkTypeOK', UserStep
  PROVE  SerialInv'
  <1> USE DEF mainVars, threadVars, senderVars
  <1>1. NetworkTypeOK /\ outQueue \in Seq(Event) /\ cmdQueue \in Seq(Command)
    BY DEF SerialInv, NetworkTypeOK, TypeOK
  <1>2. ASSUME NEW p \in Peer, UserConnect(p) PROVE SerialInv'
    <2>1. [type |-> "CONNECT", host |-> p] \in Command
      BY DEF Command
    <2>2. \A q \in Peer : Ordered(q)' <=> Ordered(q) \/ q = p
      BY <1>1, <1>2, <2>1, OrderedAfterPut DEF UserConnect
    <2>3. \A q \in Peer : ~Pending(q)
      BY <1>2 DEF UserConnect
    <2>4. OneAttempt'
      <3>1. \A q \in Peer : Pending(q)' => q = p
        BY <1>2, <2>2, <2>3 DEF UserConnect, Pending, Announcing
      <3>2. \A i \in DOMAIN cmdQueue : cmdQueue[i].type # "CONNECT"
        <4> SUFFICES ASSUME NEW i \in DOMAIN cmdQueue, cmdQueue[i].type = "CONNECT"
                     PROVE  FALSE
          OBVIOUS
        <4>1. cmdQueue[i] \in Command
          BY <1>1
        <4>2. cmdQueue[i].host \in Peer
          BY <4>1, FieldTypes
        <4>3. Ordered(cmdQueue[i].host)
          BY DEF Ordered
        <4> QED
          BY <2>3, <4>2, <4>3 DEF Pending
      <3>3. \A i, j \in DOMAIN cmdQueue' :
              cmdQueue'[i].type = "CONNECT" /\ cmdQueue'[j].type = "CONNECT" => i = j
        BY <1>1, <1>2, <2>1, <3>2, AppendElements DEF UserConnect, Put
      <3>4. \A q \in Peer : (Ordered(q)' => thread'[q] = "new")
                              /\ (Announcing(q)' => Established(q)')
        BY <1>2, <2>2 DEF UserConnect, SerialInv, OneAttempt, Announcing, Established, Active
      <3> QED
        BY <1>2, <3>1, <3>3, <3>4 DEF UserConnect, SerialInv, OneAttempt
    <2>5. SendsValid'
      <3>1. \A id, q : NamesRegistered(id, q) => NamesRegistered(id, q)'
        BY <1>2 DEF UserConnect, NamesRegistered, Registered, Announcing, Established, Active
      <3> QED
        BY <1>1, <1>2, <2>1, <3>1, AppendElements DEF UserConnect, Put, SerialInv, SendsValid
    <2> QED
      BY <1>2, <2>4, <2>5, Frame DEF UserConnect, userVars, SerialInv
  <1>3. ASSUME NEW id \in DOMAIN known, NEW cmd \in Command, Issue(cmd), cmd.type # "CONNECT",
               cmd.type = "SEND_MESSAGE" => cmd.id = id /\ cmd.msg.peer = known[id]
        PROVE  SerialInv'
    <2>1. cmd.type = "SEND_MESSAGE" => NamesRegistered(cmd.id, cmd.msg.peer)
      BY <1>3 DEF SerialInv, KnownValid
    <2> QED
      BY <1>3, <2>1, PutKeepsInv DEF Issue
  <1>4. ASSUME NEW id \in DOMAIN known, UserSend(id) PROVE SerialInv'
    <2>1. PICK kind \in Kind : Issue([type |-> "SEND_MESSAGE", id |-> id,
                                      msg |-> [kind |-> kind, peer |-> known[id]]])
      BY <1>4 DEF UserSend
    <2>2. [type |-> "SEND_MESSAGE", id |-> id,
           msg |-> [kind |-> kind, peer |-> known[id]]] \in Command
      BY <1>1 DEF Command, Message, NetworkTypeOK, UserTypeOK
    <2> QED
      BY <1>3, <2>1, <2>2
  <1>5. ASSUME NEW id \in DOMAIN known, UserSetVersion(id) PROVE SerialInv'
    <2>1. PICK v \in Version : Issue([type |-> "SET_VERSION", id |-> id, version |-> v])
      BY <1>5 DEF UserSetVersion
    <2>2. [type |-> "SET_VERSION", id |-> id, version |-> v] \in Command
      BY <1>1 DEF Command, NetworkTypeOK, UserTypeOK
    <2> QED
      BY <1>3, <2>1, <2>2
  <1>6. ASSUME NEW id \in DOMAIN known, UserDisconnect(id) PROVE SerialInv'
    <2>1. [type |-> "DISCONNECT", id |-> id] \in Command
      BY <1>1 DEF Command, NetworkTypeOK, UserTypeOK
    <2> QED
      BY <1>3, <1>6, <2>1 DEF UserDisconnect
  <1>7. [type |-> "SHUTDOWN"] \in Command
    BY DEF Command
  <1>8. CASE UserShutdown
    BY <1>7, <1>8, PutKeepsInv DEF UserShutdown
  <1>9. CASE UserJoined
    BY <1>9, Frame DEF UserJoined, vars, SerialInv
  <1>10. ASSUME NEW type, TakeEvent(type)
         PROVE  /\ outQueue[1] \in Event /\ 1 \in DOMAIN outQueue
                /\ Head(outQueue) = outQueue[1]
                /\ outQueue[1].type = type
                /\ outQueue' \in Seq(Event)
                /\ DOMAIN outQueue' = 1..(Len(outQueue) - 1)
                /\ \A i \in DOMAIN outQueue' :
                     i + 1 \in DOMAIN outQueue /\ outQueue'[i] = outQueue[i + 1]
                /\ EventsValid'
    <2>1. /\ outQueue[1] \in Event /\ 1 \in DOMAIN outQueue
          /\ Head(outQueue) = outQueue[1]
          /\ outQueue[1].type = type
          /\ outQueue' \in Seq(Event)
          /\ DOMAIN outQueue' = 1..(Len(outQueue) - 1)
          /\ \A i \in DOMAIN outQueue' :
               i + 1 \in DOMAIN outQueue /\ outQueue'[i] = outQueue[i + 1]
      BY <1>1, <1>10, TailElements DEF TakeEvent
    <2>2. \A id, q : NamesRegistered(id, q) => NamesRegistered(id, q)'
      BY <1>10 DEF TakeEvent, NamesRegistered, Registered, Announcing, Established, Active
    <2>3. EventsValid'
      BY <2>1, <2>2 DEF SerialInv, EventsValid
    <2> QED
      BY <2>1, <2>3
  <1>11. ASSUME NEW type, TakeEvent(type),
                \A id \in DOMAIN known :
                  id \in DOMAIN known' \/ (type = "DISCONNECTED" /\ outQueue[1].id = id),
                type = "CONNECTED" => outQueue[1].id \in DOMAIN known'
         PROVE  EventsInOrder' /\ DictAnnounced'
    <2> DEFINE Told(id, n) == \/ id \in DOMAIN known
                              \/ \E j \in 1..n : /\ outQueue[j].type = "CONNECTED"
                                                 /\ outQueue[j].id = id
               ToldNext(id, n) == \/ id \in DOMAIN known'
                                  \/ \E j \in 1..n : /\ outQueue'[j].type = "CONNECTED"
                                                     /\ outQueue'[j].id = id
    <2>1. ASSUME NEW n \in 0..(Len(outQueue) - 1), NEW id, Told(id, n + 1),
                 \A j \in 1..(n + 1) : outQueue[j].type = "DISCONNECTED" => outQueue[j].id # id
          PROVE  /\ ToldNext(id, n)
                 /\ \A j \in 1..n : outQueue'[j].type = "DISCONNECTED" => outQueue'[j].id # id
      <3>1. Len(outQueue) \in Nat /\ n \in Nat /\ 1 \in 1..(n + 1)
        BY <1>1
      <3>2. \A j \in 1..n : j + 1 \in 1..(n + 1) /\ outQueue'[j] = outQueue[j + 1]
        BY <1>10, <1>11, <3>1
      <3>3. ASSUME id \in DOMAIN known PROVE ToldNext(id, n)
        BY <1>10, <1>11, <2>1, <3>1, <3>3
      <3>4. ASSUME \E j \in 1..(n + 1) : outQueue[j].type = "CONNECTED" /\ outQueue[j].id = id
            PROVE  ToldNext(id, n)
        <4>1. PICK j \in 1..(n + 1) : outQueue[j].type = "CONNECTED" /\ outQueue[j].id = id
          BY <3>4
        <4>2. CASE j = 1
          BY <1>10, <1>11, <4>1, <4>2
        <4>3. CASE j # 1
          <5>1. j - 1 \in 1..n /\ outQueue'[j - 1] = outQueue[j]
            BY <3>1, <3>2, <4>3
          <5> QED
            BY <4>1, <5>1
        <4> QED
          BY <4>2, <4>3
      <3>5. ToldNext(id, n)
        BY <2>1, <3>3, <3>4
      <3> QED
        BY <2>1, <3>2, <3>5
    <2>2. EventsInOrder'
      <3> SUFFICES ASSUME NEW i \in DOMAIN outQueue',
                          outQueue'[i].type \in {"MSG_RECEIVED", "DISCONNECTED"}
                   PROVE  /\ ToldNext(outQueue'[i].id, i - 1)
                          /\ \A j \in 1..(i - 1) : outQueue'[j].type = "DISCONNECTED"
                                                    => outQueue'[j].id # outQueue'[i].id
        BY DEF EventsInOrder
      <3>1. /\ i + 1 \in DOMAIN outQueue /\ outQueue'[i] = outQueue[i + 1]
            /\ i - 1 \in 0..(Len(outQueue) - 1) /\ (i + 1) - 1 = (i - 1) + 1
        BY <1>1, <1>10, <1>11
      <3>2. /\ Told(outQueue[i + 1].id, (i - 1) + 1)
            /\ \A j \in 1..((i - 1) + 1) : outQueue[j].type = "DISCONNECTED"
                                            => outQueue[j].id # outQueue[i + 1].id
        BY <3>1 DEF SerialInv, EventsInOrder
      <3> HIDE DEF Told, ToldNext
      <3> QED
        BY <2>1, <3>1, <3>2
    <2>3. DictAnnounced'
      <3>0. DOMAIN outQueue' = 1..(Len(outQueue) - 1) /\ UNCHANGED peers
        BY <1>10, <1>11 DEF TakeEvent
      <3> SUFFICES ASSUME NEW k \in DOMAIN peers
                   PROVE  /\ ToldNext(k, Len(outQueue) - 1)
                          /\ \A j \in 1..(Len(outQueue) - 1) :
                               outQueue'[j].type = "DISCONNECTED" => outQueue'[j].id # k
        BY <3>0 DEF DictAnnounced
      <3>1. /\ Len(outQueue) - 1 \in 0..(Len(outQueue) - 1)
            /\ (Len(outQueue) - 1) + 1 = Len(outQueue)
            /\ DOMAIN outQueue = 1..Len(outQueue)
        BY <1>1, <1>10, <1>11
      <3>2. /\ Told(k, Len(outQueue))
            /\ \A j \in 1..Len(outQueue) : outQueue[j].type = "DISCONNECTED" => outQueue[j].id # k
        BY <3>1 DEF SerialInv, DictAnnounced
      <3> HIDE DEF Told, ToldNext
      <3> QED
        BY <2>1, <3>1, <3>2
    <2> QED
      BY <2>2, <2>3
  <1>12. CASE UserConnected
    <2>1. TakeEvent("CONNECTED") /\ DOMAIN known' = DOMAIN known \cup {outQueue[1].id}
      BY <1>10, <1>12 DEF UserConnected
    <2>2. NamesRegistered(outQueue[1].id, outQueue[1].host)
      BY <1>10, <2>1 DEF SerialInv, EventsValid
    <2>3. KnownValid'
      <3>1. \A k \in DOMAIN known' : NamesRegistered(k, known'[k])
        BY <1>10, <1>12, <2>1, <2>2 DEF UserConnected, SerialInv, KnownValid
      <3> QED
        BY <2>1, <3>1 DEF TakeEvent, KnownValid, NamesRegistered, Registered, Announcing,
                          Established, Active
    <2> QED
      BY <1>10, <1>11, <1>12, <2>1, <2>3, Frame DEF UserConnected, TakeEvent, SerialInv
  <1>13. CASE UserRefused
    <2>1. TakeEvent("CONNECT_FAILED") /\ UNCHANGED <<known, cmdQueue>>
      BY <1>13 DEF UserRefused
    <2> QED
      BY <1>10, <1>11, <2>1, Frame DEF TakeEvent, SerialInv
  <1>14. CASE UserMessage
    <2>1. TakeEvent("MSG_RECEIVED") /\ UNCHANGED <<known, cmdQueue>>
      BY <1>14 DEF UserMessage
    <2> QED
      BY <1>10, <1>11, <2>1, Frame DEF TakeEvent, SerialInv
  <1>15. CASE UserDisconnected
    <2>1. /\ TakeEvent("DISCONNECTED") /\ UNCHANGED cmdQueue
          /\ DOMAIN known' = DOMAIN known \ {outQueue[1].id}
          /\ \A k \in DOMAIN known' : known'[k] = known[k]
      BY <1>10, <1>15 DEF UserDisconnected
    <2>2. KnownValid'
      BY <2>1 DEF TakeEvent, SerialInv, KnownValid, NamesRegistered, Registered, Announcing,
                  Established, Active
    <2>3. EventsInOrder' /\ DictAnnounced'
      BY <1>11, <2>1
    <2> QED
      BY <1>10, <2>1, <2>2, <2>3, Frame DEF TakeEvent, SerialInv
  <1>16. CASE UserKeyError
    <2>1. PICK type \in {"MSG_RECEIVED", "DISCONNECTED"} : TakeEvent(type)
      BY <1>16 DEF UserKeyError
    <2>2. outQueue[1].id \in DOMAIN known
      BY <1>10, <2>1 DEF SerialInv, EventsInOrder
    <2> QED
      BY <1>10, <1>16, <2>1, <2>2 DEF UserKeyError
  <1> QED
    BY <1>2, <1>4, <1>5, <1>6, <1>8, <1>9, <1>12, <1>13, <1>14, <1>15, <1>16
    DEF UserStep, UserTakeEvent

-----------------------------------------------------------------------------
(***************************************************************************)
(* The steps of the manager and of the threads that handle and send no     *)
(* notice: no connection becomes active, closed, announced or registered.  *)
(***************************************************************************)
(* References to registered connections outlive a step that leaves them in  *)
(* place, if every connection stays registered under its id.                *)
LEMMA ReferencesKept ==
  ASSUME SerialInv,
         \A q \in Peer : \A id : NamesRegistered(id, q) => NamesRegistered(id, q)'
  PROVE  /\ UNCHANGED known => KnownValid'
         /\ UNCHANGED outQueue => EventsValid'
         /\ UNCHANGED cmdQueue => SendsValid'
  <1>1. /\ \A k \in DOMAIN known : known[k] \in Peer
        /\ outQueue \in Seq(Event) /\ cmdQueue \in Seq(Command)
    BY DEF SerialInv, NetworkTypeOK, TypeOK, UserTypeOK
  <1>2. ASSUME UNCHANGED known PROVE KnownValid'
    BY <1>1, <1>2 DEF SerialInv, KnownValid
  <1>3. ASSUME UNCHANGED outQueue PROVE EventsValid'
    <2> SUFFICES ASSUME NEW i \in DOMAIN outQueue', NEW id, id = outQueue'[i].id, NEW q,
                        \/ /\ outQueue'[i].type \in {"CONNECTED", "DISCONNECTED"}
                           /\ q = outQueue'[i].host
                        \/ /\ outQueue'[i].type = "MSG_RECEIVED"
                           /\ q = outQueue'[i].msg.peer
                 PROVE  NamesRegistered(id, q)'
      BY DEF EventsValid, NamesRegistered, Registered, Announcing, Established, Active
    <2>1. i \in DOMAIN outQueue /\ outQueue'[i] = outQueue[i] /\ outQueue[i] \in Event
      BY <1>1, <1>3
    <2>2. q \in Peer
      BY <2>1, FieldTypes
    <2> QED
      BY <2>1, <2>2 DEF SerialInv, EventsValid
  <1>4. ASSUME UNCHANGED cmdQueue PROVE SendsValid'
    <2> SUFFICES ASSUME NEW i \in DOMAIN cmdQueue', cmdQueue'[i].type = "SEND_MESSAGE",
                        NEW id, id = cmdQueue'[i].id, NEW q, q = cmdQueue'[i].msg.peer
                 PROVE  NamesRegistered(id, q)'
      BY DEF SendsValid, NamesRegistered, Registered, Announcing, Established, Active
    <2>1. i \in DOMAIN cmdQueue /\ cmdQueue'[i] = cmdQueue[i] /\ cmdQueue[i] \in Command
      BY <1>1, <1>4
    <2>2. q \in Peer
      BY <2>1, FieldTypes
    <2> QED
      BY <2>1, <2>2 DEF SerialInv, SendsValid
  <1> QED
    BY <1>2, <1>3, <1>4

LEMMA QuietStep ==
  ASSUME SerialInv, UNCHANGED <<infoQueue, outQueue, peers, peerIdCounter, known>>,
         \A q \in Peer : /\ Active(q)' <=> Active(q)
                         /\ thread'[q] = "closed" <=> thread[q] = "closed"
                         /\ Registered(q) => peerId'[q] = peerId[q]
  PROVE  /\ \A q \in Peer : /\ Announcing(q)' <=> Announcing(q)
                            /\ Established(q)' <=> Established(q)
                            /\ Registered(q)' <=> Registered(q)
                            /\ \A id : NamesRegistered(id, q) => NamesRegistered(id, q)'
         /\ DictRegistered' /\ HoldsActivePeers' /\ NoticesInOrder' /\ PeersKeyedById'
         /\ KnownValid' /\ EventsValid' /\ DictAnnounced' /\ EventsInOrder'
  <1>1. /\ NetworkTypeOK /\ outQueue \in Seq(Event) /\ infoQueue \in Seq(Info)
        /\ \A k \in DOMAIN known : known[k] \in Peer
        /\ \A k \in DOMAIN peers : peers[k] \in Peer
    BY DEF SerialInv, NetworkTypeOK, TypeOK, UserTypeOK
  <1>2. /\ \A i \in DOMAIN infoQueue : infoQueue[i].peer \in Peer
        /\ \A i \in DOMAIN outQueue :
             /\ outQueue[i].type = "MSG_RECEIVED" => outQueue[i].msg.peer \in Peer
             /\ outQueue[i].type # "MSG_RECEIVED" => outQueue[i].host \in Peer
    <2>1. \A i \in DOMAIN infoQueue : infoQueue[i] \in Info
      BY <1>1
    <2>2. \A i \in DOMAIN outQueue : outQueue[i] \in Event
      BY <1>1
    <2> QED
      BY <2>1, <2>2, FieldTypes
  <1>3. \A q \in Peer : /\ Announcing(q)' <=> Announcing(q)
                        /\ Established(q)' <=> Established(q)
                        /\ Registered(q)' <=> Registered(q)
                        /\ \A id : NamesRegistered(id, q) => NamesRegistered(id, q)'
    BY DEF Announcing, Established, Registered, NamesRegistered
  <1>4. DictRegistered'
    BY <1>1, <1>3 DEF SerialInv, DictRegistered
  <1>5. HoldsActivePeers'
    BY <1>3 DEF SerialInv, HoldsActivePeers
  <1>6. NoticesInOrder'
    BY <1>2, <1>3 DEF SerialInv, NoticesInOrder
  <1>7. PeersKeyedById'
    BY <1>1 DEF SerialInv, PeersKeyedById, DictRegistered
  <1>8. KnownValid' /\ EventsValid'
    BY <1>3, ReferencesKept
  <1> QED
    BY <1>3, <1>4, <1>5, <1>6, <1>7, <1>8, Frame

(* Messages on their way keep their addressees. *)
LEMMA SendsAfterTake ==
  ASSUME SerialInv, NEW type, TakeCommand(type),
         \A q \in Peer : \A id : NamesRegistered(id, q) => NamesRegistered(id, q)'
  PROVE  SendsValid'
  <1>1. cmdQueue \in Seq(Command) /\ cmdQueue # <<>> /\ cmdQueue' = Tail(cmdQueue)
    BY DEF SerialInv, NetworkTypeOK, TypeOK, TakeCommand
  <1>2. \A i \in DOMAIN cmdQueue' : i + 1 \in DOMAIN cmdQueue /\ cmdQueue'[i] = cmdQueue[i + 1]
    BY <1>1, TailElements
  <1> SUFFICES ASSUME NEW i \in DOMAIN cmdQueue', cmdQueue'[i].type = "SEND_MESSAGE",
                      NEW id, id = cmdQueue'[i].id, NEW q, q = cmdQueue'[i].msg.peer
               PROVE  NamesRegistered(id, q)'
    BY DEF SendsValid, NamesRegistered, Registered, Announcing, Established, Active
  <1>3. cmdQueue[i + 1].msg.peer \in Peer
    <2>1. cmdQueue[i + 1] \in Command
      BY <1>1, <1>2
    <2> QED
      BY <1>2, <2>1, FieldTypes
  <1>4. NamesRegistered(id, q) /\ q \in Peer
    BY <1>2, <1>3 DEF SerialInv, SendsValid
  <1> QED
    BY <1>4

LEMMA CommandStepInv ==
  ASSUME SerialInv, NetworkTypeOK', HandleCommand, UNCHANGED userVars
  PROVE  SerialInv'
  <1> USE DEF mainVars, threadVars, senderVars, userVars, history
  <1>1. /\ NetworkTypeOK /\ cmdQueue \in Seq(Command) /\ thread \in [Peer -> ThreadPlace]
        /\ peerId \in [Peer -> Nat] /\ OneAttempt
    BY DEF SerialInv, NetworkTypeOK, TypeOK
  <1>2. ASSUME NEW type, TakeCommand(type)
        PROVE  /\ 1 \in DOMAIN cmdQueue /\ cmdQueue[1] = Head(cmdQueue)
               /\ Head(cmdQueue) \in Command /\ Head(cmdQueue).type = type
               /\ \A i \in DOMAIN cmdQueue' :
                    i + 1 \in DOMAIN cmdQueue /\ cmdQueue'[i] = cmdQueue[i + 1]
               /\ DOMAIN cmdQueue' = 1..(Len(cmdQueue) - 1) /\ Len(cmdQueue) \in Nat
    BY <1>1, <1>2, TailElements DEF TakeCommand
  <1>3. ASSUME NEW type, TakeCommand(type)
        PROVE  \A i, j \in DOMAIN cmdQueue' :
                 cmdQueue'[i].type = "CONNECT" /\ cmdQueue'[j].type = "CONNECT" => i = j
    <2> SUFFICES ASSUME NEW i \in DOMAIN cmdQueue', NEW j \in DOMAIN cmdQueue',
                        cmdQueue'[i].type = "CONNECT", cmdQueue'[j].type = "CONNECT"
                 PROVE  i = j
      OBVIOUS
    <2>1. i + 1 = j + 1
      BY <1>1, <1>2, <1>3 DEF OneAttempt
    <2>2. i \in Nat /\ j \in Nat
      BY <1>2, <1>3
    <2> QED
      BY <2>1, <2>2
  <1>4. ASSUME NEW type, TakeCommand(type),
               UNCHANGED <<outQueue, peers, peerIdCounter, infoQueue, thread, peerId, sender>>
        PROVE  RoutedToAddressee' /\ NeverKeyError' => SerialInv'
    <2>1. OneAttempt'
      BY <1>1, <1>3, <1>4, OrderedAfterTake
      DEF OneAttempt, Pending, Announcing, Established, Active
    <2>2. \A q \in Peer : \A id : NamesRegistered(id, q) => NamesRegistered(id, q)'
      BY <1>4 DEF NamesRegistered, Registered, Announcing, Established, Active
    <2>3. SendsValid'
      BY <1>4, <2>2, SendsAfterTake
    <2> QED
      BY <1>4, <2>1, <2>3, Frame DEF SerialInv
  <1>5. CASE CommandConnect
    <2> DEFINE p == Head(cmdQueue).host
    <2>1. TakeCommand("CONNECT") /\ p \in Peer
      BY <1>2, <1>5, FieldTypes DEF CommandConnect
    <2>2. /\ thread' = [thread EXCEPT ![p] = "connecting"]
          /\ peerId' = [peerId EXCEPT ![p] = peerIdCounter]
          /\ UNCHANGED <<outQueue, pc, cause, peers, peerIdCounter, infoQueue, sender,
                         sendQueue, wire>>
      BY <1>5 DEF CommandConnect
    <2>3. Ordered(p) /\ \A q \in Peer : ~Ordered(q)'
      BY <1>1, <2>1, OrderedAfterTake
    <2>4. thread[p] = "new" /\ ~Announcing(p)
      BY <1>1, <2>1, <2>3 DEF OneAttempt, Established, Active
    <2>5. \A q \in Peer : q # p => ~Pending(q) /\ thread'[q] = thread[q] /\ peerId'[q] = peerId[q]
      BY <1>1, <2>1, <2>2, <2>3 DEF OneAttempt, Pending
    <2>6. thread'[p] = "connecting" /\ peerId'[p] = peerIdCounter
      BY <1>1, <2>1, <2>2
    <2>7. \A q \in Peer : /\ Active(q)' <=> Active(q)
                          /\ thread'[q] = "closed" <=> thread[q] = "closed"
                          /\ Registered(q) => peerId'[q] = peerId[q]
      BY <2>4, <2>5, <2>6 DEF Active, Registered, Established
    <2> HIDE DEF p
    <2>8. \A q \in Peer : /\ Announcing(q)' <=> Announcing(q)
                          /\ Established(q)' <=> Established(q)
                          /\ Registered(q)' <=> Registered(q)
                          /\ \A id : NamesRegistered(id, q) => NamesRegistered(id, q)'
      BY <2>2, <2>7, QuietStep
    <2>9. OneAttempt'
      <3>1. \A q \in Peer : Pending(q)' => q = p
        BY <2>3, <2>5, <2>8 DEF Pending
      <3>2. \A i, j \in DOMAIN infoQueue' :
              infoQueue'[i].type = "CONNECTED" /\ infoQueue'[j].type = "CONNECTED" => i = j
        BY <1>1, <2>2 DEF OneAttempt
      <3> QED
        BY <1>1, <1>3, <2>1, <2>3, <2>8, <3>1, <3>2 DEF OneAttempt
    <2>10. IdsUnique'
      <3>1. \A q \in Peer : thread'[q] = "connecting" \/ Announcing(q)' => q = p
        BY <2>4, <2>5, <2>8 DEF Pending
      <3> QED
        BY <2>2, <2>6, <2>7, <2>8, <3>1 DEF SerialInv, IdsUnique
    <2>11. DisconnectedIsLast'
      BY <2>2, <2>7 DEF SerialInv, DisconnectedIsLast
    <2>12. SendsValid'
      BY <2>1, <2>8, SendsAfterTake
    <2> QED
      BY <2>2, <2>7, <2>9, <2>10, <2>11, <2>12, QuietStep, Frame DEF SerialInv
  <1>r. CASE CommandConnectRaises
    <2> DEFINE p == Head(cmdQueue).host
    <2>1. TakeCommand("CONNECT") /\ p \in Peer
      BY <1>2, <1>r, FieldTypes DEF CommandConnectRaises
    <2>2. /\ thread' = [thread EXCEPT ![p] = "vanished"]
          /\ cause' = "ThreadError"
          /\ UNCHANGED <<outQueue, peers, peerIdCounter, infoQueue, peerId, sender,
                         sendQueue, wire>>
      BY <1>r DEF CommandConnectRaises, LeaveMainLoop
    <2>3. Ordered(p) /\ \A q \in Peer : ~Ordered(q)'
      BY <1>1, <2>1, OrderedAfterTake
    <2>4. thread[p] = "new" /\ ~Announcing(p)
      BY <1>1, <2>1, <2>3 DEF OneAttempt, Established, Active
    <2>5. \A q \in Peer : q # p => ~Pending(q) /\ thread'[q] = thread[q]
      BY <1>1, <2>1, <2>2, <2>3 DEF OneAttempt, Pending
    <2>6. thread'[p] = "vanished"
      BY <1>1, <2>1, <2>2
    <2>7. \A q \in Peer : /\ Active(q)' <=> Active(q)
                          /\ thread'[q] = "closed" <=> thread[q] = "closed"
                          /\ Registered(q) => peerId'[q] = peerId[q]
      BY <2>2, <2>4, <2>5, <2>6 DEF Active, Registered, Established
    <2> HIDE DEF p
    <2>8. \A q \in Peer : /\ Announcing(q)' <=> Announcing(q)
                          /\ Established(q)' <=> Established(q)
                          /\ Registered(q)' <=> Registered(q)
                          /\ \A id : NamesRegistered(id, q) => NamesRegistered(id, q)'
      BY <2>2, <2>7, QuietStep
    <2>9. OneAttempt'
      <3>1. \A q \in Peer : ~Pending(q)'
        BY <2>3, <2>4, <2>5, <2>6, <2>8 DEF Pending
      <3>2. \A i, j \in DOMAIN infoQueue' :
              infoQueue'[i].type = "CONNECTED" /\ infoQueue'[j].type = "CONNECTED" => i = j
        BY <1>1, <2>2 DEF OneAttempt
      <3> QED
        BY <1>1, <1>3, <2>1, <2>3, <2>8, <3>1, <3>2 DEF OneAttempt
    <2>10. IdsUnique'
      <3>1. \A q \in Peer : thread'[q] # "connecting" /\ ~Announcing(q)'
        BY <2>4, <2>5, <2>6, <2>8 DEF Pending
      <3> QED
        BY <2>2, <2>7, <2>8, <3>1 DEF SerialInv, IdsUnique
    <2>11. DisconnectedIsLast'
      BY <2>2, <2>7 DEF SerialInv, DisconnectedIsLast
    <2>12. SendsValid'
      BY <2>1, <2>8, SendsAfterTake
    <2>13. NeverKeyError'
      BY <2>2 DEF NeverKeyError
    <2> QED
      BY <2>2, <2>7, <2>9, <2>10, <2>11, <2>12, <2>13, QuietStep, Frame DEF SerialInv
  <1>6. CASE CommandDisconnect
    BY <1>4, <1>6, Frame DEF CommandDisconnect
  <1>7. CASE CommandSendMessage
    <2> DEFINE cmd == Head(cmdQueue)
               p   == peers[cmd.id]
    <2>1. /\ TakeCommand("SEND_MESSAGE")
          /\ UNCHANGED <<outQueue, peers, peerIdCounter, infoQueue, thread, peerId, sender, wire>>
      BY <1>7 DEF CommandSendMessage
    <2>2. CASE CanSend(cmd.id)
      <3>1. sendQueue' = [sendQueue EXCEPT ![p] = Append(@, cmd.msg)] /\ UNCHANGED cause
        BY <1>7, <2>2 DEF CommandSendMessage
      <3>2. NamesRegistered(cmd.id, cmd.msg.peer) /\ cmd.msg \in Message /\ cmd.msg.peer \in Peer
        <4>1. NamesRegistered(cmd.id, cmd.msg.peer)
          BY <1>2, <2>1 DEF SerialInv, SendsValid
        <4>2. cmd \in Command /\ cmd.type = "SEND_MESSAGE"
          BY <1>2, <2>1
        <4> QED
          BY <4>1, <4>2, FieldTypes
      <3>3. p \in Peer /\ Registered(p) /\ peerId[p] = cmd.id
        BY <1>1, <2>2 DEF CanSend, SerialInv, PeersKeyedById, DictRegistered, NetworkTypeOK, TypeOK
      <3>4. cmd.msg.peer = p
        BY <3>2, <3>3 DEF NamesRegistered, SerialInv, IdsUnique
      <3> HIDE DEF cmd, p
      <3>5. sendQueue \in [Peer -> Seq(Message)] /\ sendQueue[p] \in Seq(Message)
        BY <1>1, <3>3 DEF NetworkTypeOK, TypeOK
      <3>6. \A i \in DOMAIN Append(sendQueue[p], cmd.msg) : Append(sendQueue[p], cmd.msg)[i].peer = p
        BY <3>2, <3>3, <3>4, <3>5, AppendElements DEF SerialInv, RoutedToAddressee
      <3>7. RoutedToAddressee'
        BY <2>1, <3>1, <3>3, <3>5, <3>6 DEF SerialInv, RoutedToAddressee
      <3> QED
        BY <1>4, <2>1, <3>1, <3>7, Frame
    <2>3. CASE ~CanSend(cmd.id)
      <3>1. cause' = "AttributeError" /\ UNCHANGED sendQueue
        BY <1>7, <2>3 DEF CommandSendMessage, LeaveMainLoop
      <3> QED
        BY <1>4, <2>1, <3>1, Frame DEF NeverKeyError
    <2> QED
      BY <2>2, <2>3
  <1>8. CASE CommandSetVersion
    BY <1>4, <1>8, Frame DEF CommandSetVersion
  <1>9. CASE CommandShutdown
    <2>1. cause' = "shutdown"
      BY <1>9 DEF CommandShutdown, LeaveMainLoop
    <2> QED
      BY <1>4, <1>9, <2>1, Frame DEF CommandShutdown, NeverKeyError
  <1> QED
    BY <1>5, <1>r, <1>6, <1>7, <1>8, <1>9 DEF HandleCommand

-----------------------------------------------------------------------------
(***************************************************************************)
(* The manager handles a notice.                                           *)
(***************************************************************************)

(* The notices that wait are still in order when the first one is taken,   *)
(* if those that wait for a connection in the dict still find it there.    *)
LEMMA NoticesAfterTake ==
  ASSUME SerialInv, NEW type, TakeInfo(type), UNCHANGED <<thread, sender>>,
         \A i \in DOMAIN infoQueue :
           /\ i # 1 /\ infoQueue[i].peer \in Range(peers)
           /\ infoQueue[i].type \in {"MSG_RECEIVED", "DISCONNECTED"}
           => infoQueue[i].peer \in Range(peers'),
         type = "CONNECTED" => Head(infoQueue).peer \in Range(peers')
  PROVE  NoticesInOrder' /\ DisconnectedIsLast'
  <1>1. infoQueue \in Seq(Info) /\ infoQueue # <<>> /\ infoQueue' = Tail(infoQueue)
    BY DEF SerialInv, NetworkTypeOK, TypeOK, TakeInfo
  <1>2. /\ DOMAIN infoQueue' = 1..(Len(infoQueue) - 1) /\ DOMAIN infoQueue = 1..Len(infoQueue)
        /\ Len(infoQueue) \in Nat /\ Len(infoQueue') = Len(infoQueue) - 1
        /\ \A i \in DOMAIN infoQueue' : /\ i + 1 \in DOMAIN infoQueue /\ i + 1 # 1
                                        /\ infoQueue'[i] = infoQueue[i + 1]
        /\ infoQueue[1] = Head(infoQueue) /\ infoQueue[1].type = type
    BY <1>1, TailElements DEF TakeInfo
  <1>3. NoticesInOrder'
    <2> SUFFICES ASSUME NEW i \in DOMAIN infoQueue',
                        infoQueue'[i].type \in {"MSG_RECEIVED", "DISCONNECTED"}
                 PROVE  /\ Established(infoQueue[i + 1].peer)
                        /\ infoQueue'[i].type = "DISCONNECTED"
                             => thread[infoQueue'[i].peer] = "closed"
                        /\ infoQueue'[i].type = "MSG_RECEIVED"
                             => infoQueue'[i].msg.peer = infoQueue'[i].peer
                        /\ \/ infoQueue'[i].peer \in Range(peers')
                           \/ \E j \in 1..(i - 1) : /\ infoQueue'[j].type = "CONNECTED"
                                                   /\ infoQueue'[j].peer = infoQueue'[i].peer
      BY <1>2 DEF NoticesInOrder, Established, Active
    <2>1. infoQueue[i + 1].type \in {"MSG_RECEIVED", "DISCONNECTED"} /\ i + 1 \in DOMAIN infoQueue
      BY <1>2
    <2>2. /\ Established(infoQueue[i + 1].peer)
          /\ infoQueue[i + 1].type = "DISCONNECTED" => thread[infoQueue[i + 1].peer] = "closed"
          /\ infoQueue[i + 1].type = "MSG_RECEIVED"
               => infoQueue[i + 1].msg.peer = infoQueue[i + 1].peer
          /\ \/ infoQueue[i + 1].peer \in Range(peers)
             \/ \E j \in 1..((i + 1) - 1) : /\ infoQueue[j].type = "CONNECTED"
                                            /\ infoQueue[j].peer = infoQueue[i + 1].peer
      BY <2>1 DEF SerialInv, NoticesInOrder
    <2>3. CASE infoQueue[i + 1].peer \in Range(peers)
      BY <1>2, <2>1, <2>2, <2>3
    <2>4. CASE \E j \in 1..((i + 1) - 1) : /\ infoQueue[j].type = "CONNECTED"
                                           /\ infoQueue[j].peer = infoQueue[i + 1].peer
      <3>1. PICK j \in 1..((i + 1) - 1) : /\ infoQueue[j].type = "CONNECTED"
                                          /\ infoQueue[j].peer = infoQueue[i + 1].peer
        BY <2>4
      <3>2. CASE j = 1
        BY <1>2, <2>2, <3>1, <3>2
      <3>3. CASE j # 1
        <4>1. /\ j - 1 \in 1..(i - 1) /\ j - 1 \in DOMAIN infoQueue'
              /\ infoQueue'[j - 1] = infoQueue[j]
          BY <1>1, <1>2, <3>3, TailElements
        <4> QED
          BY <1>2, <2>2, <3>1, <4>1
      <3> QED
        BY <3>2, <3>3
    <2> QED
      BY <2>2, <2>3, <2>4
  <1>4. DisconnectedIsLast'
    <2> SUFFICES ASSUME NEW i \in DOMAIN infoQueue', infoQueue'[i].type = "DISCONNECTED",
                        NEW j \in (i + 1)..Len(infoQueue')
                 PROVE  infoQueue'[j].peer # infoQueue'[i].peer
      BY DEF SerialInv, DisconnectedIsLast
    <2>1. /\ j \in DOMAIN infoQueue' /\ i + 1 \in DOMAIN infoQueue
          /\ j + 1 \in ((i + 1) + 1)..Len(infoQueue)
      BY <1>2
    <2> QED
      BY <1>2, <2>1 DEF SerialInv, DisconnectedIsLast
  <1> QED
    BY <1>3, <1>4

(* The events that wait are still in order when one is added for an id that *)
(* is in the dict.                                                          *)
LEMMA EventsAfterForward ==
  ASSUME SerialInv, NEW e \in Event, outQueue' = Append(outQueue, e), UNCHANGED known,
         \A q \in Peer : \A id : NamesRegistered(id, q) => NamesRegistered(id, q)',
         e.type \in {"CONNECTED", "DISCONNECTED"} =>
           \A id, q : id = e.id /\ q = e.host => NamesRegistered(id, q)',
         e.type = "MSG_RECEIVED" =>
           \A id, q : id = e.id /\ q = e.msg.peer => NamesRegistered(id, q)',
         e.type \in {"MSG_RECEIVED", "DISCONNECTED"} => e.id \in DOMAIN peers,
         \A k \in DOMAIN peers' : \/ k \in DOMAIN peers
                                  \/ /\ e.type = "CONNECTED" /\ e.id = k
                                     /\ \A i \in DOMAIN outQueue :
                                          outQueue[i].type = "DISCONNECTED" => outQueue[i].id # k,
         e.type = "DISCONNECTED" => e.id \notin DOMAIN peers'
  PROVE  EventsValid' /\ EventsInOrder' /\ DictAnnounced' /\ KnownValid'
  <1>1. outQueue \in Seq(Event) /\ \A k \in DOMAIN known : known[k] \in Peer
    BY DEF SerialInv, NetworkTypeOK, TypeOK, UserTypeOK
  <1>2. /\ Len(outQueue) \in Nat /\ DOMAIN outQueue = 1..Len(outQueue)
        /\ DOMAIN outQueue' = 1..(Len(outQueue) + 1)
        /\ \A i \in DOMAIN outQueue : outQueue'[i] = outQueue[i] /\ i \in DOMAIN outQueue'
        /\ outQueue'[Len(outQueue) + 1] = e
        /\ \A i \in DOMAIN outQueue' : i \in DOMAIN outQueue \/ i = Len(outQueue) + 1
    BY <1>1, AppendElements
  <1>3. KnownValid'
    BY <1>1 DEF SerialInv, KnownValid
  <1>4. EventsValid'
    <2> SUFFICES ASSUME NEW i \in DOMAIN outQueue', NEW id, id = outQueue'[i].id, NEW q,
                        \/ /\ outQueue'[i].type \in {"CONNECTED", "DISCONNECTED"}
                           /\ q = outQueue'[i].host
                        \/ /\ outQueue'[i].type = "MSG_RECEIVED"
                           /\ q = outQueue'[i].msg.peer
                 PROVE  NamesRegistered(id, q)'
      BY DEF EventsValid, NamesRegistered, Registered, Announcing, Established, Active
    <2>1. CASE i \in DOMAIN outQueue
      <3>1. outQueue[i] \in Event /\ outQueue'[i] = outQueue[i]
        BY <1>1, <1>2, <2>1
      <3>2. q \in Peer
        BY <3>1, FieldTypes
      <3>3. NamesRegistered(id, q)
        BY <2>1, <3>1 DEF SerialInv, EventsValid
      <3> QED
        BY <3>2, <3>3
    <2>2. CASE i = Len(outQueue) + 1
      BY <1>2, <2>2
    <2> QED
      BY <1>2, <2>1, <2>2
  <1>5. EventsInOrder'
    <2> SUFFICES ASSUME NEW i \in DOMAIN outQueue',
                        outQueue'[i].type \in {"MSG_RECEIVED", "DISCONNECTED"}
                 PROVE  /\ \/ outQueue'[i].id \in DOMAIN known
                           \/ \E j \in 1..(i - 1) : /\ outQueue'[j].type = "CONNECTED"
                                                   /\ outQueue'[j].id = outQueue'[i].id
                        /\ \A j \in 1..(i - 1) : outQueue'[j].type = "DISCONNECTED"
                                                  => outQueue'[j].id # outQueue'[i].id
      BY DEF EventsInOrder
    <2>1. \A j \in 1..(i - 1) : j \in DOMAIN outQueue /\ outQueue'[j] = outQueue[j]
      BY <1>2
    <2>2. CASE i \in DOMAIN outQueue
      BY <1>2, <2>1, <2>2 DEF SerialInv, EventsInOrder
    <2>3. CASE i = Len(outQueue) + 1
      <3>1. outQueue'[i] = e /\ e.id \in DOMAIN peers /\ 1..(i - 1) = DOMAIN outQueue
        BY <1>2, <2>3
      <3> QED
        BY <2>1, <3>1 DEF SerialInv, DictAnnounced
    <2> QED
      BY <1>2, <2>2, <2>3
  <1>6. DictAnnounced'
    <2> SUFFICES ASSUME NEW k \in DOMAIN peers'
                 PROVE  /\ \/ k \in DOMAIN known
                           \/ \E i \in DOMAIN outQueue' : /\ outQueue'[i].type = "CONNECTED"
                                                          /\ outQueue'[i].id = k
                        /\ \A i \in DOMAIN outQueue' :
                             outQueue'[i].type = "DISCONNECTED" => outQueue'[i].id # k
      BY DEF DictAnnounced
    <2>1. Len(outQueue) + 1 \in DOMAIN outQueue'
      BY <1>2
    <2>2. \/ k \in DOMAIN known
          \/ \E i \in DOMAIN outQueue' : /\ outQueue'[i].type = "CONNECTED"
                                         /\ outQueue'[i].id = k
      BY <1>2, <2>1 DEF SerialInv, DictAnnounced
    <2>3. \A i \in DOMAIN outQueue : outQueue[i].type = "DISCONNECTED" => outQueue[i].id # k
      BY DEF SerialInv, DictAnnounced
    <2> QED
      BY <1>2, <2>2, <2>3
  <1> QED
    BY <1>3, <1>4, <1>5, <1>6

LEMMA InfoStepInv ==
  ASSUME SerialInv, NetworkTypeOK', HandleInfo, UNCHANGED userVars
  PROVE  SerialInv'
  <1> USE DEF mainVars, threadVars, senderVars, userVars, history
  <1> DEFINE p == Head(infoQueue).peer
  <1>1. /\ NetworkTypeOK /\ OneAttempt /\ infoQueue \in Seq(Info)
        /\ peerId \in [Peer -> Nat] /\ peerIdCounter \in Nat
        /\ \A k \in DOMAIN peers : peers[k] \in Peer /\ k \in Nat
    BY DEF SerialInv, NetworkTypeOK, TypeOK
  <1>2. ASSUME NEW type, TakeInfo(type)
        PROVE  /\ 1 \in DOMAIN infoQueue /\ infoQueue[1] = Head(infoQueue)
               /\ Head(infoQueue) \in Info /\ Head(infoQueue).type = type /\ p \in Peer
               /\ \A i \in DOMAIN infoQueue : infoQueue[i].peer \in Peer
    <2>1. /\ 1 \in DOMAIN infoQueue /\ infoQueue[1] = Head(infoQueue)
          /\ Head(infoQueue) \in Info /\ Head(infoQueue).type = type
          /\ \A i \in DOMAIN infoQueue : infoQueue[i] \in Info
      BY <1>1, <1>2, TailElements DEF TakeInfo
    <2> QED
      BY <2>1, FieldTypes
  <1>3. ASSUME NEW type, TakeInfo(type), type # "CONNECTED",
               UNCHANGED <<cmdQueue, peerIdCounter, thread, peerId>>
        PROVE  /\ OneAttempt' /\ IdsUnique' /\ SendsValid'
               /\ \A q \in Peer : /\ Announcing(q)' <=> Announcing(q)
                                  /\ Registered(q)' <=> Registered(q)
               /\ \A q \in Peer : \A id : NamesRegistered(id, q) => NamesRegistered(id, q)'
    <2>1. \A q \in Peer : /\ Announcing(q)' <=> Announcing(q)
                          /\ Established(q)' <=> Established(q)
                          /\ Ordered(q)' <=> Ordered(q)
      BY <1>1, <1>3, AnnouncingAfterTake DEF Established, Active, Ordered
    <2>2. \A q \in Peer : Registered(q)' <=> Registered(q)
      BY <2>1 DEF Registered
    <2>3. \A q \in Peer : \A id : NamesRegistered(id, q) => NamesRegistered(id, q)'
      BY <1>3, <2>2 DEF NamesRegistered
    <2>4. \A i, j \in DOMAIN infoQueue' :
            infoQueue'[i].type = "CONNECTED" /\ infoQueue'[j].type = "CONNECTED" => i = j
      <3> SUFFICES ASSUME NEW i \in DOMAIN infoQueue', NEW j \in DOMAIN infoQueue',
                          infoQueue'[i].type = "CONNECTED", infoQueue'[j].type = "CONNECTED"
                   PROVE  i = j
        OBVIOUS
      <3>1. /\ i \in Nat /\ j \in Nat
            /\ i + 1 \in DOMAIN infoQueue /\ infoQueue[i + 1].type = "CONNECTED"
            /\ j + 1 \in DOMAIN infoQueue /\ infoQueue[j + 1].type = "CONNECTED"
        BY <1>1, <1>3, TailElements DEF TakeInfo
      <3>2. i + 1 = j + 1
        BY <1>1, <3>1 DEF OneAttempt
      <3> QED
        BY <3>1, <3>2
    <2>5. OneAttempt'
      BY <1>1, <1>3, <2>1, <2>4 DEF OneAttempt, Pending
    <2>6. IdsUnique'
      BY <1>3, <2>1, <2>2 DEF SerialInv, IdsUnique
    <2>7. SendsValid'
      BY <2>3, <1>3, ReferencesKept
    <2> QED
      BY <2>1, <2>2, <2>3, <2>5, <2>6, <2>7
  <1>4. ASSUME NEW type \in {"CONNECTED", "DISCONNECTED", "CONNECT_FAILED"},
               NEW q \in Peer, Forward(type, q)
        PROVE  \E e \in Event : /\ outQueue' = Append(outQueue, e)
                                /\ e.type = type /\ e.id = peerId[q] /\ e.host = q
    <2> DEFINE e == [type |-> type, id |-> peerId[q], host |-> q]
    <2>1. e \in Event /\ outQueue' = Append(outQueue, e)
      BY <1>1, <1>4 DEF Forward, Event
    <2> QED
      BY <2>1
  <1>5. CASE InfoConnected
    <2>1. /\ TakeInfo("CONNECTED") /\ Forward("CONNECTED", p)
          /\ peerIdCounter' = peerIdCounter + 1
          /\ DOMAIN peers' = DOMAIN peers \cup {peerIdCounter}
          /\ peers'[peerIdCounter] = p
          /\ \A k \in DOMAIN peers : k # peerIdCounter => peers'[k] = peers[k]
          /\ UNCHANGED <<cmdQueue, cause, thread, peerId, sender, sendQueue, wire, known>>
      BY <1>5 DEF InfoConnected, NextPeerId
    <2>2. /\ p \in Peer /\ Announcing(p)
          /\ \A q \in Peer : ~Announcing(q)'
          /\ \A i \in DOMAIN infoQueue' : infoQueue'[i].type # "CONNECTED"
      BY <1>1, <1>2, <2>1, AnnouncingAfterTake
    <2>3. Established(p) /\ peerId[p] = peerIdCounter
      BY <1>1, <2>2 DEF OneAttempt, SerialInv, IdsUnique
    <2>4. \A q \in Peer : ~Ordered(q) /\ thread[q] # "connecting" /\ (Announcing(q) => q = p)
      <3> SUFFICES ASSUME NEW q \in Peer, Pending(q)
                   PROVE  q = p /\ ~Ordered(q) /\ thread[q] # "connecting"
        BY DEF Pending
      <3>1. q = p
        BY <1>1, <2>2 DEF OneAttempt, Pending
      <3> QED
        BY <1>1, <2>2, <2>3, <3>1 DEF OneAttempt, Established, Active
    <2>5. \A q \in Peer : /\ Established(q)' <=> Established(q)
                          /\ Registered(q)' <=> Registered(q) \/ q = p
      BY <2>1, <2>2, <2>3, <2>4 DEF Established, Active, Registered
    <2>6. \A k \in DOMAIN peers : k < peerIdCounter /\ peers'[k] = peers[k]
      BY <1>1, <2>1 DEF SerialInv, DictRegistered, PeersKeyedById, IdsUnique
    <2> HIDE DEF p
    <2>7. OneAttempt'
      BY <1>1, <2>1, <2>2, <2>4 DEF OneAttempt, Pending, Ordered
    <2>8. IdsUnique'
      <3>1. \A q \in Peer : Registered(q)' => peerId[q] < peerIdCounter \/ q = p
        BY <2>5 DEF SerialInv, IdsUnique
      <3>2. \A q, r \in Peer : Registered(q)' /\ Registered(r)' /\ peerId[q] = peerId[r] => q = r
        BY <1>1, <2>3, <2>5, <3>1 DEF SerialInv, IdsUnique
      <3>3. \A q \in Peer : Registered(q)' => peerId[q] < peerIdCounter + 1
        BY <1>1, <2>3, <3>1
      <3> QED
        BY <2>1, <2>2, <2>4, <3>2, <3>3 DEF IdsUnique
    <2>9. DictRegistered' /\ PeersKeyedById'
      <3>1. DictRegistered'
        BY <1>1, <2>1, <2>2, <2>5, <2>6 DEF SerialInv, DictRegistered
      <3>2. PeersKeyedById'
        BY <2>1, <2>3, <2>6 DEF SerialInv, PeersKeyedById
      <3> QED
        BY <3>1, <3>2
    <2>10. HoldsActivePeers'
      <3> SUFFICES ASSUME NEW q \in Peer, Active(q)' PROVE q \in Range(peers')
        BY DEF HoldsActivePeers
      <3>1. q \in Range(peers) \/ q = p
        BY <2>1, <2>4 DEF SerialInv, HoldsActivePeers, Active
      <3> QED
        BY <2>1, <2>6, <3>1
    <2>11. NoticesInOrder' /\ DisconnectedIsLast'
      <3>1. Range(peers) \subseteq Range(peers') /\ p \in Range(peers')
        BY <2>1, <2>6
      <3> QED
        BY <2>1, <3>1, NoticesAfterTake DEF p
    <2>12. \A q \in Peer : \A id : NamesRegistered(id, q) => NamesRegistered(id, q)'
      BY <2>1, <2>5 DEF NamesRegistered
    <2>13. SendsValid'
      BY <2>12, <2>1, ReferencesKept
    <2>14. EventsValid' /\ EventsInOrder' /\ DictAnnounced' /\ KnownValid'
      <3>1. PICK e \in Event : /\ outQueue' = Append(outQueue, e) /\ e.type = "CONNECTED"
                               /\ e.id = peerIdCounter /\ e.host = p
        BY <1>4, <2>1, <2>2, <2>3
      <3>3. \A id, q : id = peerIdCounter /\ q = p => NamesRegistered(id, q)'
        BY <2>1, <2>2, <2>3, <2>5 DEF NamesRegistered
      <3>4. \A i \in DOMAIN outQueue :
              outQueue[i].type = "DISCONNECTED" => outQueue[i].id # peerIdCounter
        <4> SUFFICES ASSUME NEW i \in DOMAIN outQueue, outQueue[i].type = "DISCONNECTED"
                     PROVE  outQueue[i].id # peerIdCounter
          OBVIOUS
        <4>1. outQueue[i] \in Event
          BY <1>1 DEF NetworkTypeOK, TypeOK
        <4>2. outQueue[i].host \in Peer
          BY <4>1, FieldTypes
        <4>3. peerId[outQueue[i].host] = outQueue[i].id /\ Registered(outQueue[i].host)
          BY DEF SerialInv, EventsValid, NamesRegistered
        <4> QED
          BY <1>1, <4>2, <4>3 DEF SerialInv, IdsUnique
      <3> QED
        BY <2>1, <2>12, <3>1, <3>3, <3>4, EventsAfterForward
    <2> QED
      BY <2>1, <2>7, <2>8, <2>9, <2>10, <2>11, <2>13, <2>14, Frame DEF SerialInv
  <1>6. CASE InfoDisconnected
    <2>1. TakeInfo("DISCONNECTED") /\ p \in Peer
          /\ UNCHANGED <<cmdQueue, peerIdCounter, thread, peerId, sender, sendQueue, wire, known>>
      BY <1>2, <1>6 DEF InfoDisconnected
    <2>2. Established(p) /\ thread[p] = "closed" /\ p \in Range(peers)
      BY <1>2, <2>1 DEF SerialInv, NoticesInOrder
    <2>3. /\ peerId[p] \in DOMAIN peers /\ peers[peerId[p]] = p
          /\ \A k \in DOMAIN peers : k # peerId[p] => peers[k] # p
      BY <2>2 DEF SerialInv, PeersKeyedById
    <2>4. /\ DOMAIN peers' = DOMAIN peers \ {peerId[p]}
          /\ \A k \in DOMAIN peers' : peers'[k] = peers[k]
          /\ Forward("DISCONNECTED", p) /\ UNCHANGED cause
      BY <1>6, <2>3 DEF InfoDisconnected
    <2>5. Registered(p)
      BY <2>3 DEF SerialInv, DictRegistered
    <2>6. \A q : q \in Range(peers) /\ q # p => q \in Range(peers')
      BY <2>3, <2>4
    <2>7. \A i \in DOMAIN infoQueue : i # 1 => infoQueue[i].peer # p
      <3>1. \A i \in DOMAIN infoQueue : i # 1 => i \in (1 + 1)..Len(infoQueue)
        BY <1>1
      <3> QED
        BY <1>2, <2>1, <3>1 DEF SerialInv, DisconnectedIsLast
    <2>8. /\ OneAttempt' /\ IdsUnique' /\ SendsValid'
          /\ \A q \in Peer : /\ Announcing(q)' <=> Announcing(q)
                             /\ Registered(q)' <=> Registered(q)
          /\ \A q \in Peer : \A id : NamesRegistered(id, q) => NamesRegistered(id, q)'
      BY <1>3, <2>1
    <2> HIDE DEF p
    <2>9. DictRegistered' /\ PeersKeyedById'
      BY <1>1, <2>1, <2>4, <2>8 DEF SerialInv, DictRegistered, PeersKeyedById
    <2>10. HoldsActivePeers'
      BY <2>1, <2>2, <2>6, <2>8 DEF SerialInv, HoldsActivePeers, Active
    <2>11. NoticesInOrder' /\ DisconnectedIsLast'
      BY <2>1, <2>6, <2>7, NoticesAfterTake
    <2>12. EventsValid' /\ EventsInOrder' /\ DictAnnounced' /\ KnownValid'
      <3>1. PICK e \in Event : /\ outQueue' = Append(outQueue, e) /\ e.type = "DISCONNECTED"
                               /\ e.id = peerId[p] /\ e.host = p
        BY <1>4, <2>1, <2>4
      <3>2. NamesRegistered(peerId[p], p)
        BY <2>5 DEF NamesRegistered
      <3>3. \A id, q : id = e.id /\ q = e.host => NamesRegistered(id, q)'
        BY <2>1, <2>8, <3>1, <3>2
      <3> QED
        BY <2>1, <2>3, <2>4, <2>8, <3>1, <3>3, EventsAfterForward
    <2> QED
      BY <2>1, <2>4, <2>8, <2>9, <2>10, <2>11, <2>12, Frame DEF SerialInv
  <1>7. ASSUME NEW type, TakeInfo(type), type # "CONNECTED",
               UNCHANGED <<cmdQueue, cause, peers, peerIdCounter, thread, peerId, sender,
                           sendQueue, wire, known>>,
               EventsValid' /\ EventsInOrder' /\ DictAnnounced' /\ KnownValid'
        PROVE  SerialInv'
    <2>1. /\ OneAttempt' /\ IdsUnique' /\ SendsValid'
          /\ \A q \in Peer : /\ Announcing(q)' <=> Announcing(q)
                             /\ Registered(q)' <=> Registered(q)
      BY <1>3, <1>7
    <2>2. DictRegistered' /\ HoldsActivePeers'
      BY <1>1, <1>7, <2>1 DEF SerialInv, DictRegistered, HoldsActivePeers, Active
    <2>3. NoticesInOrder' /\ DisconnectedIsLast'
      BY <1>7, NoticesAfterTake
    <2> QED
      BY <1>7, <2>1, <2>2, <2>3, Frame DEF SerialInv
  <1>8. CASE InfoConnectFailed
    <2>1. /\ TakeInfo("CONNECT_FAILED") /\ p \in Peer /\ Forward("CONNECT_FAILED", p)
          /\ UNCHANGED <<cmdQueue, cause, peers, peerIdCounter, thread, peerId, sender,
                         sendQueue, wire, known>>
      BY <1>2, <1>8 DEF InfoConnectFailed
    <2>2. PICK e \in Event : outQueue' = Append(outQueue, e) /\ e.type = "CONNECT_FAILED"
      BY <1>4, <2>1
    <2>3. \A q \in Peer : \A id : NamesRegistered(id, q) => NamesRegistered(id, q)'
      BY <1>3, <2>1
    <2>4. EventsValid' /\ EventsInOrder' /\ DictAnnounced' /\ KnownValid'
      BY <2>1, <2>2, <2>3, EventsAfterForward
    <2> QED
      BY <1>7, <2>1, <2>4
  <1>9. CASE InfoMsgReceived
    <2> DEFINE e == [type |-> "MSG_RECEIVED", id |-> peerId[p], msg |-> Head(infoQueue).msg]
    <2>1. /\ TakeInfo("MSG_RECEIVED") /\ outQueue' = Append(outQueue, e)
          /\ UNCHANGED <<cmdQueue, cause, peers, peerIdCounter, thread, peerId, sender,
                         sendQueue, wire, known>>
      BY <1>9 DEF InfoMsgReceived
    <2>2. p \in Peer /\ p \in Range(peers) /\ Head(infoQueue).msg.peer = p
      BY <1>2, <2>1 DEF SerialInv, NoticesInOrder
    <2>3. peerId[p] \in DOMAIN peers /\ NamesRegistered(peerId[p], p)
      BY <2>2 DEF SerialInv, PeersKeyedById, DictRegistered, NamesRegistered
    <2>4. e \in Event
      <3>1. Head(infoQueue) \in Info /\ Head(infoQueue).type = "MSG_RECEIVED"
        BY <1>2, <2>1
      <3>2. Head(infoQueue).msg \in Message
        BY <3>1, FieldTypes
      <3> QED
        BY <1>1, <2>2, <3>2 DEF Event
    <2>5. \A q \in Peer : \A id : NamesRegistered(id, q) => NamesRegistered(id, q)'
      BY <1>3, <2>1
    <2>6. e.type = "MSG_RECEIVED" /\ e.id = peerId[p] /\ e.msg.peer = p
      BY <2>2
    <2> HIDE DEF e
    <2>7. EventsValid' /\ EventsInOrder' /\ DictAnnounced' /\ KnownValid'
      BY <2>1, <2>2, <2>3, <2>4, <2>5, <2>6, EventsAfterForward
    <2> QED
      BY <1>7, <2>1, <2>7
  <1> QED
    BY <1>5, <1>6, <1>8, <1>9 DEF HandleInfo

-----------------------------------------------------------------------------
(***************************************************************************)
(* The other steps of the threads.                                         *)
(***************************************************************************)

(* A thread moves on without a notice, staying active, or vanishes. *)
LEMMA QuietThreadInv ==
  ASSUME SerialInv, NetworkTypeOK', RoutedToAddressee',
         UNCHANGED <<cmdQueue, infoQueue, outQueue, cause, peers, peerIdCounter, peerId, known>>,
         \A q \in Peer : /\ \/ thread'[q] = thread[q]
                            \/ Active(q) /\ Active(q)'
                            \/ thread[q] = "connecting" /\ thread'[q] = "vanished"
                         /\ thread[q] = "closed" /\ sender[q] \in {"done", "unstarted"}
                              => sender'[q] \in {"done", "unstarted"}
  PROVE  SerialInv'
  <1>1. \A q \in Peer : /\ Active(q)' <=> Active(q)
                        /\ thread'[q] = "closed" <=> thread[q] = "closed"
                        /\ thread'[q] = "connecting" => thread[q] = "connecting"
                        /\ thread[q] = "new" => thread'[q] = "new"
    BY DEF Active
  <1>2. /\ \A q \in Peer : /\ Announcing(q)' <=> Announcing(q)
                           /\ Established(q)' <=> Established(q)
                           /\ Registered(q)' <=> Registered(q)
                           /\ \A id : NamesRegistered(id, q) => NamesRegistered(id, q)'
        /\ DictRegistered' /\ HoldsActivePeers' /\ NoticesInOrder' /\ PeersKeyedById'
        /\ KnownValid' /\ EventsValid' /\ DictAnnounced' /\ EventsInOrder'
    BY <1>1, QuietStep
  <1>3. OneAttempt'
    <2>1. \A q \in Peer : (Ordered(q)' <=> Ordered(q)) /\ (Pending(q)' => Pending(q))
      BY <1>1, <1>2 DEF Ordered, Pending
    <2> QED
      BY <1>1, <1>2, <2>1 DEF SerialInv, OneAttempt
  <1>4. IdsUnique'
    BY <1>1, <1>2 DEF SerialInv, IdsUnique
  <1>5. DisconnectedIsLast'
    BY <1>1 DEF SerialInv, DisconnectedIsLast
  <1>6. SendsValid'
    BY <1>2, ReferencesKept
  <1> QED
    BY <1>2, <1>3, <1>4, <1>5, <1>6, Frame DEF SerialInv

(* A thread moves on with a notice. *)
LEMMA NoticeInv ==
  ASSUME SerialInv, NetworkTypeOK',
         UNCHANGED <<cmdQueue, outQueue, cause, peers, peerIdCounter, peerId, known,
                     sender, sendQueue, wire>>,
         NEW p \in Peer, NEW place, Goto(p, place),
         NEW info \in Info, infoQueue' = Append(infoQueue, info), info.peer = p,
         \/ /\ thread[p] = "connecting" /\ info.type = "CONNECTED" /\ place = "announced"
         \/ /\ thread[p] = "connecting" /\ info.type = "CONNECT_FAILED" /\ place = "failed"
         \/ /\ thread[p] = "recv" /\ info.type = "MSG_RECEIVED" /\ place = "test"
            /\ info.msg.peer = p
         \/ /\ thread[p] = "joining" /\ info.type = "DISCONNECTED" /\ place = "closed"
            /\ SenderFinished(p)
  PROVE  SerialInv'
  <1>1. /\ NetworkTypeOK /\ OneAttempt /\ infoQueue \in Seq(Info) /\ outQueue \in Seq(Event)
        /\ cmdQueue \in Seq(Command) /\ thread \in [Peer -> ThreadPlace]
        /\ \A k \in DOMAIN known : known[k] \in Peer
        /\ \A k \in DOMAIN peers : peers[k] \in Peer
    BY DEF SerialInv, NetworkTypeOK, TypeOK, UserTypeOK
  <1>2. /\ Len(infoQueue) \in Nat /\ DOMAIN infoQueue = 1..Len(infoQueue)
        /\ DOMAIN infoQueue' = 1..(Len(infoQueue) + 1) /\ Len(infoQueue') = Len(infoQueue) + 1
        /\ \A i \in DOMAIN infoQueue : infoQueue'[i] = infoQueue[i]
        /\ infoQueue'[Len(infoQueue) + 1] = info
        /\ \A i \in DOMAIN infoQueue' : i \in DOMAIN infoQueue \/ i = Len(infoQueue) + 1
        /\ \A i \in DOMAIN infoQueue : infoQueue[i].peer \in Peer
    <2>1. \A i \in DOMAIN infoQueue : infoQueue[i] \in Info
      BY <1>1
    <2> QED
      BY <1>1, <2>1, AppendElements, FieldTypes
  <1>3. thread'[p] = place /\ \A q \in Peer : q # p => thread'[q] = thread[q]
    BY <1>1 DEF Goto
  <1>4. \A q \in Peer : Announcing(q)' <=> Announcing(q) \/ (info.type = "CONNECTED" /\ q = p)
    BY <1>1, AnnouncingAfterAppend
  <1>5. thread[p] = "connecting" => ~Announcing(p) /\ ~Established(p)
    BY <1>1 DEF OneAttempt, Established, Active
  <1>6. \A q \in Peer : /\ Established(q)' <=> Established(q) \/ (info.type = "CONNECTED" /\ q = p)
                        /\ Registered(q)' <=> Registered(q)
                        /\ thread[q] = "closed" => thread'[q] = "closed"
                        /\ thread'[q] = "connecting" => thread[q] = "connecting"
                        /\ thread[q] = "new" => thread'[q] = "new"
                        /\ Active(q)' => Active(q) \/ (info.type = "CONNECTED" /\ q = p)
    BY <1>3, <1>4, <1>5 DEF Established, Registered, Active
  <1>7. \A q \in Peer : \A id : NamesRegistered(id, q) => NamesRegistered(id, q)'
    BY <1>6 DEF NamesRegistered
  <1>8. OneAttempt'
    <2>1. \A q \in Peer : (Ordered(q)' <=> Ordered(q)) /\ (Pending(q)' => Pending(q))
      BY <1>4, <1>6 DEF Ordered, Pending
    <2>2. info.type = "CONNECTED" => \A i \in DOMAIN infoQueue : infoQueue[i].type # "CONNECTED"
      <3> SUFFICES ASSUME info.type = "CONNECTED", NEW i \in DOMAIN infoQueue,
                          infoQueue[i].type = "CONNECTED"
                   PROVE  FALSE
        OBVIOUS
      <3>1. Announcing(infoQueue[i].peer) /\ infoQueue[i].peer \in Peer
        BY <1>2 DEF Announcing
      <3>2. Pending(p) /\ Pending(infoQueue[i].peer)
        BY <3>1 DEF Pending
      <3>3. infoQueue[i].peer = p
        BY <1>1, <3>1, <3>2 DEF OneAttempt
      <3> QED
        BY <1>5, <3>1, <3>3
    <2>3. \A i, j \in DOMAIN infoQueue' :
            infoQueue'[i].type = "CONNECTED" /\ infoQueue'[j].type = "CONNECTED" => i = j
      BY <1>1, <1>2, <2>2 DEF OneAttempt
    <2>4. \A q \in Peer : Announcing(q)' => Established(q)'
      BY <1>1, <1>4, <1>6 DEF OneAttempt
    <2> QED
      BY <1>1, <1>6, <2>1, <2>3, <2>4 DEF OneAttempt
  <1>9. IdsUnique'
    BY <1>4, <1>6 DEF SerialInv, IdsUnique
  <1>10. DictRegistered' /\ HoldsActivePeers'
    BY <1>1, <1>4, <1>6 DEF SerialInv, DictRegistered, HoldsActivePeers
  <1>11. NoticesInOrder'
    <2> SUFFICES ASSUME NEW i \in DOMAIN infoQueue',
                        infoQueue'[i].type \in {"MSG_RECEIVED", "DISCONNECTED"},
                        NEW q, q = infoQueue'[i].peer
                 PROVE  /\ Established(q)'
                        /\ infoQueue'[i].type = "DISCONNECTED" => thread'[q] = "closed"
                        /\ infoQueue'[i].type = "MSG_RECEIVED" => infoQueue'[i].msg.peer = q
                        /\ \/ q \in Range(peers)
                           \/ \E j \in 1..(i - 1) : /\ infoQueue'[j].type = "CONNECTED"
                                                   /\ infoQueue'[j].peer = q
      BY DEF NoticesInOrder, Established, Active
    <2>1. \A j \in 1..(i - 1) : j \in DOMAIN infoQueue /\ infoQueue'[j] = infoQueue[j]
      BY <1>2
    <2>2. CASE i \in DOMAIN infoQueue
      <3>1. infoQueue'[i] = infoQueue[i] /\ q \in Peer
        BY <1>2, <2>2
      <3> QED
        BY <1>6, <2>1, <2>2, <3>1 DEF SerialInv, NoticesInOrder
    <2>3. CASE i = Len(infoQueue) + 1
      <3>1. infoQueue'[i] = info /\ q = p /\ 1..(i - 1) = DOMAIN infoQueue
        BY <1>2, <2>3
      <3>2. Active(p)
        BY <3>1 DEF Active
      <3>3. p \in Range(peers) \/ Announcing(p)
        BY <3>2 DEF SerialInv, HoldsActivePeers
      <3>4. /\ Established(p)'
            /\ info.type = "DISCONNECTED" => thread'[p] = "closed"
            /\ info.type = "MSG_RECEIVED" => info.msg.peer = p
        BY <1>3, <3>1 DEF Established, Active
      <3> QED
        BY <2>1, <3>1, <3>3, <3>4 DEF Announcing
    <2> QED
      BY <1>2, <2>2, <2>3
  <1>12. DisconnectedIsLast'
    <2>1. \A q \in Peer : thread'[q] = "closed" => sender[q] \in {"done", "unstarted"}
      BY <1>3 DEF SerialInv, DisconnectedIsLast, SenderFinished
    <2>2. \A i \in DOMAIN infoQueue : infoQueue[i].type = "DISCONNECTED" => infoQueue[i].peer # p
      <3> SUFFICES ASSUME NEW i \in DOMAIN infoQueue, infoQueue[i].type = "DISCONNECTED",
                          infoQueue[i].peer = p
                   PROVE  FALSE
        OBVIOUS
      <3> QED
        BY DEF SerialInv, NoticesInOrder
    <2> SUFFICES ASSUME NEW i \in DOMAIN infoQueue', infoQueue'[i].type = "DISCONNECTED",
                        NEW j \in (i + 1)..Len(infoQueue')
                 PROVE  infoQueue'[j].peer # infoQueue'[i].peer
      BY <2>1 DEF DisconnectedIsLast
    <2>3. i \in DOMAIN infoQueue /\ infoQueue'[i] = infoQueue[i]
      BY <1>2
    <2>4. CASE j \in DOMAIN infoQueue
      BY <1>2, <2>3, <2>4 DEF SerialInv, DisconnectedIsLast
    <2>5. CASE j = Len(infoQueue) + 1
      BY <1>2, <2>2, <2>3, <2>5
    <2> QED
      BY <1>2, <2>4, <2>5
  <1>13. KnownValid' /\ EventsValid' /\ SendsValid'
    BY <1>7, ReferencesKept
  <1> QED
    BY <1>8, <1>9, <1>10, <1>11, <1>12, <1>13, Frame DEF SerialInv

LEMMA PeerStepInv ==
  ASSUME SerialInv, NetworkTypeOK', NEW p \in Peer, PeerStep(p), UNCHANGED userVars
  PROVE  SerialInv'
  <1> USE DEF mainVars, threadVars, senderVars, userVars, history
  <1>1. NetworkTypeOK /\ thread \in [Peer -> ThreadPlace] /\ sender \in [Peer -> SenderPlace]
    BY DEF SerialInv, NetworkTypeOK, TypeOK
  <1>2. ASSUME NEW place, Goto(p, place), UNCHANGED <<sendQueue, wire>>,
               UNCHANGED <<cmdQueue, infoQueue, outQueue, cause, peers, peerIdCounter, peerId>>,
               sender' = sender \/ (thread[p] # "closed" /\ \A q \in Peer : q # p => sender'[q] = sender[q]),
               \/ /\ thread[p] \in {"announced", "test", "recv", "closing"}
                  /\ place \in {"test", "recv", "closing", "joining"}
               \/ thread[p] = "connecting" /\ place = "vanished"
        PROVE  SerialInv'
    <2>1. \A q \in Peer : /\ \/ thread'[q] = thread[q]
                             \/ Active(q) /\ Active(q)'
                             \/ thread[q] = "connecting" /\ thread'[q] = "vanished"
                          /\ thread[q] = "closed" /\ sender[q] \in {"done", "unstarted"}
                               => sender'[q] \in {"done", "unstarted"}
      BY <1>1, <1>2 DEF Goto, Active
    <2>2. RoutedToAddressee'
      BY <1>2, Frame
    <2> QED
      BY <1>2, <2>1, <2>2, QuietThreadInv
  <1>3. CASE ConnectOk(p)
    <2>1. [type |-> "CONNECTED", peer |-> p] \in Info
      BY DEF Info
    <2> QED
      BY <1>3, <2>1, NoticeInv DEF ConnectOk, At, Notify
  <1>4. CASE ConnectFail(p)
    <2>1. [type |-> "CONNECT_FAILED", peer |-> p] \in Info
      BY DEF Info
    <2> QED
      BY <1>4, <2>1, NoticeInv DEF ConnectFail, At, Notify
  <1>5. CASE PeerNameError(p)
    BY <1>2, <1>5 DEF PeerNameError, At
  <1>6. CASE StartSender(p)
    <2>1. /\ thread[p] = "announced" /\ \A q \in Peer : q # p => sender'[q] = sender[q]
          /\ \E place \in {"test", "closing"} : Goto(p, place)
      BY <1>1, <1>6 DEF StartSender, At
    <2> QED
      BY <1>2, <1>6, <2>1 DEF StartSender
  <1>7. CASE TestInterrupted(p)
    <2>1. thread[p] = "test" /\ \E place \in {"closing", "recv"} : Goto(p, place)
      BY <1>7 DEF TestInterrupted, At
    <2> QED
      BY <1>2, <1>7, <2>1 DEF TestInterrupted
  <1>8. CASE RecvMessage(p)
    <2>1. PICK kind \in Kind : infoQueue' = Append(infoQueue,
            [type |-> "MSG_RECEIVED", peer |-> p, msg |-> [kind |-> kind, peer |-> p]])
      BY <1>8 DEF RecvMessage
    <2> DEFINE info == [type |-> "MSG_RECEIVED", peer |-> p, msg |-> [kind |-> kind, peer |-> p]]
    <2>2. /\ info \in Info /\ info.type = "MSG_RECEIVED" /\ info.peer = p /\ info.msg.peer = p
          /\ infoQueue' = Append(infoQueue, info)
      BY <2>1 DEF Info, Message
    <2> HIDE DEF info
    <2> QED
      BY <1>8, <2>2, NoticeInv DEF RecvMessage, At
  <1>9. CASE RecvNothing(p)
    BY <1>2, <1>9 DEF RecvNothing, At
  <1>10. CASE RecvEnd(p)
    BY <1>2, <1>10 DEF RecvEnd, At
  <1>11. CASE CloseSocket(p)
    BY <1>2, <1>11 DEF CloseSocket, At
  <1>12. CASE RemovePeer(p)
    <2>1. [type |-> "DISCONNECTED", peer |-> p] \in Info
      BY DEF Info
    <2> QED
      BY <1>12, <2>1, NoticeInv DEF RemovePeer, At, Notify
  <1> QED
    BY <1>3, <1>4, <1>5, <1>6, <1>7, <1>8, <1>9, <1>10, <1>11, <1>12 DEF PeerStep

LEMMA SenderStepInv ==
  ASSUME SerialInv, NetworkTypeOK', NEW p \in Peer, SenderStep(p), UNCHANGED userVars
  PROVE  SerialInv'
  <1> USE DEF mainVars, threadVars, senderVars, userVars, history
  <1>1. /\ NetworkTypeOK /\ sender \in [Peer -> SenderPlace]
        /\ sendQueue \in [Peer -> Seq(Message)] /\ wire \in [Peer -> Seq(Message)]
    BY DEF SerialInv, NetworkTypeOK, TypeOK
  <1>2. /\ UNCHANGED <<cmdQueue, infoQueue, outQueue, cause, peers, peerIdCounter, peerId, known,
                       thread>>
        /\ sender[p] \in {"test", "get"}
        /\ \A q \in Peer : q # p => sender'[q] = sender[q]
    BY <1>1 DEF SenderStep, SenderTest, SenderTimeout, SenderWrite, EndSender, SenderAt
  <1>3. RoutedToAddressee'
    <2>1. CASE UNCHANGED <<sendQueue, wire>>
      BY <2>1, Frame
    <2>2. CASE SenderWrite(p)
      <3>1. /\ sendQueue[p] \in Seq(Message) /\ sendQueue[p] # <<>> /\ wire[p] \in Seq(Message)
            /\ sendQueue' = [sendQueue EXCEPT ![p] = Tail(sendQueue[p])]
            /\ \/ wire' = [wire EXCEPT ![p] = Append(wire[p], Head(sendQueue[p]))]
               \/ wire' = wire
        BY <1>1, <2>2 DEF SenderWrite
      <3>2. \A i \in DOMAIN sendQueue[p] : sendQueue[p][i].peer = p
        BY DEF SerialInv, RoutedToAddressee
      <3>3. \A i \in DOMAIN Tail(sendQueue[p]) : Tail(sendQueue[p])[i].peer = p
        <4> SUFFICES ASSUME NEW i \in DOMAIN Tail(sendQueue[p])
                     PROVE  Tail(sendQueue[p])[i].peer = p
          OBVIOUS
        <4>1. i + 1 \in DOMAIN sendQueue[p] /\ Tail(sendQueue[p])[i] = sendQueue[p][i + 1]
          BY <3>1, TailElements
        <4> QED
          BY <3>2, <4>1
      <3>4. Head(sendQueue[p]) \in Message /\ Head(sendQueue[p]).peer = p
        BY <3>1, <3>2, TailElements
      <3>5. \A i \in DOMAIN Append(wire[p], Head(sendQueue[p])) :
              Append(wire[p], Head(sendQueue[p]))[i].peer = p
        BY <3>1, <3>4, AppendElements DEF SerialInv, RoutedToAddressee
      <3>6. \A q \in Peer : \A i \in DOMAIN sendQueue'[q] : sendQueue'[q][i].peer = q
        BY <1>1, <3>1, <3>3 DEF SerialInv, RoutedToAddressee
      <3>7. \A q \in Peer : \A i \in DOMAIN wire'[q] : wire'[q][i].peer = q
        BY <1>1, <3>1, <3>5 DEF SerialInv, RoutedToAddressee
      <3> QED
        BY <3>6, <3>7 DEF RoutedToAddressee
    <2> QED
      BY <2>1, <2>2 DEF SenderStep, SenderTest, SenderTimeout
  <1> QED
    BY <1>2, <1>3, QuietThreadInv

-----------------------------------------------------------------------------
LEMMA InitInv == NetworkInit => SerialInv
  <1> SUFFICES ASSUME NetworkInit PROVE SerialInv
    OBVIOUS
  <1>1. NetworkTypeOK
    BY InitTypes
  <1>2. /\ DOMAIN cmdQueue = {} /\ DOMAIN infoQueue = {} /\ DOMAIN outQueue = {}
        /\ DOMAIN peers = {} /\ DOMAIN known = {} /\ cause = "none"
        /\ \A p \in Peer : thread[p] = "new" /\ DOMAIN sendQueue[p] = {} /\ DOMAIN wire[p] = {}
    BY DEF NetworkInit, Init, UserInit
  <1> QED
    BY <1>1, <1>2
    DEF SerialInv, OneAttempt, IdsUnique, DictRegistered, PeersKeyedById, HoldsActivePeers,
        NoticesInOrder, DisconnectedIsLast, KnownValid, EventsValid, SendsValid, DictAnnounced,
        EventsInOrder, RoutedToAddressee, NeverKeyError, Pending, Ordered, Announcing, Registered,
        Established, Active

LEMMA NextInv ==
  ASSUME SerialConnects, SerialInv, [NetworkNext]_allVars
  PROVE  SerialInv'
  <1>1. NetworkTypeOK'
    BY NextTypes DEF SerialInv
  <1>2. CASE UserStep
    BY <1>1, <1>2, UserStepInv
  <1>3. ASSUME ManagerStep, UNCHANGED userVars PROVE SerialInv'
    <2>1. CASE NoCommand \/ InfoTimeout \/ ProcessExit
      BY <1>1, <1>3, <2>1, Frame
      DEF NoCommand, InfoTimeout, ProcessExit, SerialInv, threadVars, senderVars, userVars, mainVars
    <2> QED
      BY <1>1, <1>3, <2>1, CommandStepInv, InfoStepInv DEF ManagerStep
  <1>4. CASE UNCHANGED allVars
    BY <1>1, <1>4, Frame
    DEF SerialInv, allVars, vars, mainVars, threadVars, senderVars, userVars
  <1> QED
    BY <1>1, <1>2, <1>3, <1>4, PeerStepInv, SenderStepInv DEF NetworkNext, NetworkStep

(* If no two connection attempts overlap, the ids and notices in flight     *)
(* agree with the dict of the network process in every reachable state.     *)
THEOREM SerialInvariant ==
  ASSUME SerialConnects
  PROVE  Spec => []SerialInv
  <1>1. NetworkInit => SerialInv
    BY InitInv
  <1>2. SerialInv /\ [NetworkNext]_allVars => SerialInv'
    BY NextInv
  <1> QED
    BY <1>1, <1>2, PTL DEF Spec

(* So a message never reaches another remote end than the one it is for;   *)
THEOREM MessagesReachAddressee ==
  ASSUME SerialConnects
  PROVE  Spec => []RoutedToAddressee
  <1>1. SerialInv => RoutedToAddressee
    BY DEF SerialInv
  <1> QED
    BY <1>1, SerialInvariant, PTL

(* neither process looks up an id in vain, the network process when it     *)
(* deletes a peer, its user when it takes an event;                         *)
THEOREM NoKeyError ==
  ASSUME SerialConnects
  PROVE  Spec => [](NeverKeyError /\ EventsInOrder)
  <1>1. SerialInv => NeverKeyError /\ EventsInOrder
    BY DEF SerialInv
  <1> QED
    BY <1>1, SerialInvariant, PTL

(* and every active connection can be found in the dict, under its id.     *)
THEOREM ActivePeersHeld ==
  ASSUME SerialConnects
  PROVE  Spec => [](PeersKeyedById /\ HoldsActivePeers)
  <1>1. SerialInv => PeersKeyedById /\ HoldsActivePeers
    BY DEF SerialInv
  <1> QED
    BY <1>1, SerialInvariant, PTL

LEMMA RemovedIsClosed ==
  ASSUME SerialInv, [NetworkNext]_allVars, NEW k \in DOMAIN peers,
         k \notin DOMAIN peers' \/ peers'[k] # peers[k]
  PROVE  thread[peers[k]] = "closed"
  <1> USE DEF mainVars, threadVars, senderVars
  <1>1. infoQueue \in Seq(Info) /\ \A j \in DOMAIN peers : peers[j] \in Peer /\ j \in Nat
    BY DEF SerialInv, NetworkTypeOK, TypeOK
  <1>2. InfoConnected \/ InfoDisconnected
    <2>1. ~UNCHANGED peers
      OBVIOUS
    <2>2. UserStep => UNCHANGED peers
      BY DEF UserStep, UserConnect, UserSend, UserSetVersion, UserDisconnect, Issue, UserShutdown,
             UserJoined, UserTakeEvent, UserConnected, UserRefused, UserMessage, UserDisconnected,
             UserKeyError, TakeEvent, vars
    <2>3. HandleCommand \/ NoCommand \/ InfoTimeout \/ ProcessExit => UNCHANGED peers
      BY DEF HandleCommand, CommandConnect, CommandConnectRaises, CommandDisconnect,
             CommandSendMessage, CommandSetVersion, CommandShutdown, NoCommand, InfoTimeout, ProcessExit
    <2>4. InfoConnectFailed \/ InfoMsgReceived => UNCHANGED peers
      BY DEF InfoConnectFailed, InfoMsgReceived
    <2>5. \A p \in Peer : PeerStep(p) \/ SenderStep(p) => UNCHANGED peers
      BY DEF PeerStep, ConnectOk, ConnectFail, PeerNameError, StartSender, TestInterrupted,
             RecvMessage, RecvNothing, RecvEnd, CloseSocket, RemovePeer, SenderStep, SenderTest,
             SenderTimeout, SenderWrite
    <2>6. UNCHANGED allVars => UNCHANGED peers
      BY DEF allVars, vars
    <2> QED
      BY <2>1, <2>2, <2>3, <2>4, <2>5, <2>6 DEF NetworkNext, NetworkStep, ManagerStep, HandleInfo
  <1>3. CASE InfoConnected
    <2>1. k < peerIdCounter
      BY <1>1 DEF SerialInv, PeersKeyedById, DictRegistered, IdsUnique
    <2>2. k \in DOMAIN peers' /\ peers'[k] = peers[k]
      BY <1>1, <1>3, <2>1 DEF InfoConnected, SerialInv, NetworkTypeOK, TypeOK
    <2> QED
      BY <2>2
  <1>4. CASE InfoDisconnected
    <2>1. /\ 1 \in DOMAIN infoQueue /\ infoQueue[1] = Head(infoQueue)
          /\ infoQueue[1].type = "DISCONNECTED"
      BY <1>1, <1>4, TailElements DEF InfoDisconnected, TakeInfo
    <2>2. thread[infoQueue[1].peer] = "closed" /\ infoQueue[1].peer \in Range(peers)
      BY <2>1 DEF SerialInv, NoticesInOrder
    <2>3. peerId[infoQueue[1].peer] \in DOMAIN peers
          /\ peers[peerId[infoQueue[1].peer]] = infoQueue[1].peer
      BY <2>2 DEF SerialInv, PeersKeyedById
    <2>4. k = peerId[infoQueue[1].peer]
      BY <1>4, <2>1, <2>3 DEF InfoDisconnected
    <2> QED
      BY <2>2, <2>3, <2>4
  <1> QED
    BY <1>2, <1>3, <1>4

(* No step takes a peer out of the dict before its thread has closed the    *)
(* connection.                                                              *)
THEOREM RemovedOnlyClosed ==
  ASSUME SerialConnects
  PROVE  Spec => OnlyClosedRemoved
  <1>1. SerialInv /\ [NetworkNext]_allVars =>
          [\A k \in DOMAIN peers :
             k \notin DOMAIN peers' \/ peers'[k] # peers[k] => thread[peers[k]] = "closed"]_allVars
    BY RemovedIsClosed
  <1> QED
    BY <1>1, SerialInvariant, PTL DEF Spec, OnlyClosedRemoved

HIDE DEF Range, Restrict

-----------------------------------------------------------------------------
(***************************************************************************)
(* What the user of the network process can rely on.  The end of a         *)
(* connection is the last it hears of it, whether or not attempts overlap: *)
(* the collision of ids cannot touch it.  While they do not overlap, the   *)
(* network process implements PeerService.                                 *)
(***************************************************************************)

-----------------------------------------------------------------------------
(***************************************************************************)
(* The inductive invariant.  That a DISCONNECTED notice is the last of its *)
(* connection needs to know that a thread which has sent it stays closed,  *)
(* and so that no command starts an attempt a second time.                 *)
(***************************************************************************)
AttemptsFresh ==
  \A i \in DOMAIN cmdQueue :
    cmdQueue[i].type = "CONNECT" =>
      /\ thread[cmdQueue[i].host] = "new"
      /\ \A j \in DOMAIN cmdQueue :
           cmdQueue[j].type = "CONNECT" /\ cmdQueue[j].host = cmdQueue[i].host => j = i

NoticeOfClosed ==
  \A i \in DOMAIN infoQueue :
    infoQueue[i].type = "DISCONNECTED" => thread[infoQueue[i].peer] = "closed"

ClosingInv ==
  /\ NetworkTypeOK
  /\ AttemptsFresh
  /\ NoticeOfClosed
  /\ DisconnectedIsLast

LEMMA ClosingInit == NetworkInit => ClosingInv
  <1> SUFFICES ASSUME NetworkInit PROVE ClosingInv
    OBVIOUS
  <1>1. DOMAIN cmdQueue = {} /\ DOMAIN infoQueue = {} /\ \A p \in Peer : thread[p] = "new"
    BY DEF NetworkInit, Init
  <1> QED
    BY <1>1, InitTypes DEF ClosingInv, AttemptsFresh, NoticeOfClosed, DisconnectedIsLast

-----------------------------------------------------------------------------
(***************************************************************************)
(* Commands, after each of the ways to change their queue.                 *)
(***************************************************************************)
LEMMA FreshKept ==
  ASSUME ClosingInv, UNCHANGED cmdQueue,
         \A q \in Peer : thread[q] = "new" => thread'[q] = "new"
  PROVE  AttemptsFresh'
  <1>1. cmdQueue \in Seq(Command)
    BY DEF ClosingInv, NetworkTypeOK, TypeOK
  <1>2. \A i \in DOMAIN cmdQueue : cmdQueue[i].type = "CONNECT" => cmdQueue[i].host \in Peer
    BY <1>1, FieldTypes
  <1> QED
    BY <1>2 DEF ClosingInv, AttemptsFresh

LEMMA FreshAfterPut ==
  ASSUME ClosingInv, UNCHANGED thread, NEW cmd \in Command, Put(cmd),
         cmd.type = "CONNECT" => thread[cmd.host] = "new" /\ ~Ordered(cmd.host)
  PROVE  AttemptsFresh'
  <1>1. cmdQueue \in Seq(Command)
    BY DEF ClosingInv, NetworkTypeOK, TypeOK
  <1>2. /\ DOMAIN cmdQueue' = 1..(Len(cmdQueue) + 1)
        /\ DOMAIN cmdQueue = 1..Len(cmdQueue) /\ Len(cmdQueue) \in Nat
        /\ \A i \in 1..Len(cmdQueue) : cmdQueue'[i] = cmdQueue[i]
        /\ cmdQueue'[Len(cmdQueue) + 1] = cmd
    BY <1>1, AppendElements DEF Put
  <1>3. \A i \in 1..(Len(cmdQueue) + 1) : i \in 1..Len(cmdQueue) \/ i = Len(cmdQueue) + 1
    BY <1>2
  <1> SUFFICES ASSUME NEW i \in DOMAIN cmdQueue', cmdQueue'[i].type = "CONNECT"
               PROVE  /\ thread[cmdQueue'[i].host] = "new"
                      /\ \A j \in DOMAIN cmdQueue' :
                           (/\ cmdQueue'[j].type = "CONNECT"
                            /\ cmdQueue'[j].host = cmdQueue'[i].host) => j = i
    BY DEF AttemptsFresh
  <1>4. thread[cmdQueue'[i].host] = "new"
    BY <1>2, <1>3 DEF ClosingInv, AttemptsFresh
  <1>5. ASSUME NEW j \in DOMAIN cmdQueue', cmdQueue'[j].type = "CONNECT",
               cmdQueue'[j].host = cmdQueue'[i].host
        PROVE  j = i
    <2>1. CASE i \in 1..Len(cmdQueue) /\ j \in 1..Len(cmdQueue)
      BY <1>2, <1>5, <2>1 DEF ClosingInv, AttemptsFresh
    <2>2. CASE ~(i \in 1..Len(cmdQueue)) \/ ~(j \in 1..Len(cmdQueue))
      BY <1>2, <1>3, <1>5, <2>2 DEF Ordered
    <2> QED
      BY <2>1, <2>2
  <1> QED
    BY <1>4, <1>5

LEMMA FreshAfterTake ==
  ASSUME ClosingInv, NEW type, TakeCommand(type),
         \A q \in Peer : \/ thread[q] = "new" => thread'[q] = "new"
                         \/ type = "CONNECT" /\ q = Head(cmdQueue).host
  PROVE  AttemptsFresh'
  <1>1. cmdQueue \in Seq(Command) /\ cmdQueue # <<>> /\ cmdQueue' = Tail(cmdQueue)
    BY DEF ClosingInv, NetworkTypeOK, TypeOK, TakeCommand
  <1>2. /\ \A i \in DOMAIN cmdQueue' :
             i \in Nat /\ i + 1 # 1 /\ i + 1 \in DOMAIN cmdQueue /\ cmdQueue'[i] = cmdQueue[i + 1]
        /\ 1 \in DOMAIN cmdQueue /\ Head(cmdQueue) = cmdQueue[1] /\ cmdQueue[1].type = type
    BY <1>1, TailElements DEF TakeCommand
  <1>3. \A i \in DOMAIN cmdQueue : cmdQueue[i].type = "CONNECT" => cmdQueue[i].host \in Peer
    BY <1>1, FieldTypes
  <1> SUFFICES ASSUME NEW i \in DOMAIN cmdQueue', cmdQueue'[i].type = "CONNECT"
               PROVE  /\ thread'[cmdQueue'[i].host] = "new"
                      /\ \A j \in DOMAIN cmdQueue' :
                           (/\ cmdQueue'[j].type = "CONNECT"
                            /\ cmdQueue'[j].host = cmdQueue'[i].host) => j = i
    BY DEF AttemptsFresh
  <1>4. type = "CONNECT" => cmdQueue'[i].host # Head(cmdQueue).host
    BY <1>2 DEF ClosingInv, AttemptsFresh
  <1>5. thread'[cmdQueue'[i].host] = "new"
    BY <1>2, <1>3, <1>4 DEF ClosingInv, AttemptsFresh
  <1>6. ASSUME NEW j \in DOMAIN cmdQueue', cmdQueue'[j].type = "CONNECT",
               cmdQueue'[j].host = cmdQueue'[i].host
        PROVE  j = i
    <2>1. j + 1 = i + 1
      BY <1>2, <1>6 DEF ClosingInv, AttemptsFresh
    <2> QED
      BY <1>2, <2>1
  <1> QED
    BY <1>5, <1>6

-----------------------------------------------------------------------------
(***************************************************************************)
(* Notices, while a closed connection stays closed and its send thread     *)
(* stopped.                                                                *)
(***************************************************************************)
Stopped(p) == sender[p] \in {"done", "unstarted"}

StaysClosed ==
  \A q \in Peer : /\ thread[q] = "closed" => thread'[q] = "closed"
                  /\ thread'[q] = "closed" => Stopped(q)'

LEMMA NoticesKept ==
  ASSUME ClosingInv, StaysClosed, UNCHANGED infoQueue
  PROVE  NoticeOfClosed' /\ DisconnectedIsLast'
  <1>1. infoQueue \in Seq(Info)
    BY DEF ClosingInv, NetworkTypeOK, TypeOK
  <1>2. \A i \in DOMAIN infoQueue : infoQueue[i].peer \in Peer
    BY <1>1, FieldTypes
  <1> QED
    BY <1>2 DEF ClosingInv, NoticeOfClosed, DisconnectedIsLast, StaysClosed, Stopped

LEMMA NoticesAfterTaking ==
  ASSUME ClosingInv, StaysClosed, NEW type, TakeInfo(type)
  PROVE  NoticeOfClosed' /\ DisconnectedIsLast'
  <1>1. infoQueue \in Seq(Info) /\ infoQueue # <<>> /\ infoQueue' = Tail(infoQueue)
    BY DEF ClosingInv, NetworkTypeOK, TypeOK, TakeInfo
  <1>2. /\ Len(infoQueue) \in Nat /\ Len(infoQueue') = Len(infoQueue) - 1
        /\ DOMAIN infoQueue = 1..Len(infoQueue) /\ DOMAIN infoQueue' = 1..(Len(infoQueue) - 1)
        /\ \A i \in DOMAIN infoQueue' : infoQueue'[i] = infoQueue[i + 1]
    BY <1>1, TailElements
  <1>3. \A i \in DOMAIN infoQueue : infoQueue[i].peer \in Peer
    BY <1>1, FieldTypes
  <1>4. \A i \in DOMAIN infoQueue' : i + 1 \in DOMAIN infoQueue
    BY <1>2
  <1>5. NoticeOfClosed'
    BY <1>2, <1>3, <1>4 DEF ClosingInv, NoticeOfClosed, StaysClosed
  <1>6. ASSUME NEW i \in DOMAIN infoQueue', infoQueue'[i].type = "DISCONNECTED",
               NEW j \in (i + 1)..Len(infoQueue')
        PROVE  infoQueue'[j].peer # infoQueue'[i].peer
    <2>1. j \in DOMAIN infoQueue' /\ j + 1 \in (i + 1 + 1)..Len(infoQueue)
      BY <1>2
    <2> QED
      BY <1>2, <1>4, <1>6, <2>1 DEF ClosingInv, DisconnectedIsLast
  <1> QED
    BY <1>5, <1>6 DEF DisconnectedIsLast, StaysClosed, Stopped

(* A thread that has not reported its end may still report. *)
LEMMA NoticesAfterNotify ==
  ASSUME ClosingInv, StaysClosed, NEW p \in Peer, thread[p] # "closed",
         NEW info \in Info, info.peer = p, infoQueue' = Append(infoQueue, info),
         info.type = "DISCONNECTED" => thread'[p] = "closed"
  PROVE  NoticeOfClosed' /\ DisconnectedIsLast'
  <1>1. infoQueue \in Seq(Info)
    BY DEF ClosingInv, NetworkTypeOK, TypeOK
  <1>2. /\ DOMAIN infoQueue' = 1..(Len(infoQueue) + 1) /\ Len(infoQueue') = Len(infoQueue) + 1
        /\ DOMAIN infoQueue = 1..Len(infoQueue) /\ Len(infoQueue) \in Nat
        /\ \A i \in 1..Len(infoQueue) : infoQueue'[i] = infoQueue[i]
        /\ infoQueue'[Len(infoQueue) + 1] = info
    BY <1>1, AppendElements
  <1>3. \A i \in 1..(Len(infoQueue) + 1) : i \in 1..Len(infoQueue) \/ i = Len(infoQueue) + 1
    BY <1>2
  <1>4. \A i \in DOMAIN infoQueue : infoQueue[i].peer \in Peer
    BY <1>1, FieldTypes
  <1>5. NoticeOfClosed'
    BY <1>2, <1>3, <1>4 DEF ClosingInv, NoticeOfClosed, StaysClosed
  <1>6. ASSUME NEW i \in DOMAIN infoQueue', infoQueue'[i].type = "DISCONNECTED",
               NEW j \in (i + 1)..Len(infoQueue')
        PROVE  infoQueue'[j].peer # infoQueue'[i].peer
    <2>1. i \in 1..Len(infoQueue) /\ infoQueue'[i] = infoQueue[i]
      BY <1>2
    <2>2. CASE j \in 1..Len(infoQueue)
      BY <1>2, <1>6, <2>1, <2>2 DEF ClosingInv, DisconnectedIsLast
    <2>3. CASE j = Len(infoQueue) + 1
      BY <1>2, <1>6, <2>1, <2>3 DEF ClosingInv, NoticeOfClosed
    <2>4. j \in 1..Len(infoQueue) \/ j = Len(infoQueue) + 1
      BY <1>2
    <2> QED
      BY <2>2, <2>3, <2>4
  <1> QED
    BY <1>5, <1>6 DEF DisconnectedIsLast, StaysClosed, Stopped

-----------------------------------------------------------------------------
(***************************************************************************)
(* The steps.                                                              *)
(***************************************************************************)
LEMMA Unmoved ==
  ASSUME ClosingInv, UNCHANGED <<thread, sender>>
  PROVE  StaysClosed
  BY DEF ClosingInv, DisconnectedIsLast, StaysClosed, Stopped

LEMMA ClosingUserStep ==
  ASSUME ClosingInv, UserStep
  PROVE  AttemptsFresh' /\ NoticeOfClosed' /\ DisconnectedIsLast'
  <1> USE DEF mainVars, threadVars, senderVars, userVars, vars
  <1>1. UNCHANGED <<thread, sender, infoQueue>>
    BY DEF UserStep, UserConnect, UserSend, UserSetVersion, UserDisconnect, Issue, UserShutdown,
           UserJoined, UserTakeEvent, UserConnected, UserRefused, UserMessage, UserDisconnected,
           UserKeyError, TakeEvent
  <1>2. NoticeOfClosed' /\ DisconnectedIsLast'
    BY <1>1, Unmoved, NoticesKept
  <1>3. ASSUME NEW p \in Peer, UserConnect(p) PROVE AttemptsFresh'
    <2>1. [type |-> "CONNECT", host |-> p] \in Command
      BY DEF Command
    <2> QED
      BY <1>1, <1>3, <2>1, FreshAfterPut DEF UserConnect
  <1>4. ASSUME NEW id \in DOMAIN known, UserSend(id) \/ UserSetVersion(id) \/ UserDisconnect(id)
        PROVE  AttemptsFresh'
    <2>1. id \in Nat /\ known[id] \in Peer
      BY DEF ClosingInv, NetworkTypeOK, UserTypeOK
    <2>2. PICK cmd \in Command : Put(cmd) /\ cmd.type # "CONNECT"
      <3>1. CASE UserSend(id)
        BY <2>1, <3>1 DEF UserSend, Issue, Command, Message
      <3>2. CASE UserSetVersion(id)
        BY <2>1, <3>2 DEF UserSetVersion, Issue, Command
      <3>3. CASE UserDisconnect(id)
        BY <2>1, <3>3 DEF UserDisconnect, Issue, Command
      <3> QED
        BY <1>4, <3>1, <3>2, <3>3
    <2> QED
      BY <1>1, <2>2, FreshAfterPut
  <1>5. CASE UserShutdown \/ UserKeyError
    <2>1. [type |-> "SHUTDOWN"] \in Command
      BY DEF Command
    <2> QED
      BY <1>1, <1>2, <1>5, <2>1, FreshAfterPut DEF UserShutdown, UserKeyError
  <1>6. CASE UserJoined \/ UserConnected \/ UserRefused \/ UserMessage \/ UserDisconnected
    <2>1. UNCHANGED cmdQueue
      BY <1>6 DEF UserJoined, UserConnected, UserRefused, UserMessage, UserDisconnected
    <2> QED
      BY <1>1, <1>2, <2>1, FreshKept
  <1> QED
    BY <1>2, <1>3, <1>4, <1>5, <1>6 DEF UserStep, UserTakeEvent

(* Commands and notices leave the threads alone, but for CMD_CONNECT, which *)
(* takes a thread that is new, whether it starts or not.                    *)
LEMMA ClosingManagerStep ==
  ASSUME ClosingInv, ManagerStep
  PROVE  AttemptsFresh' /\ NoticeOfClosed' /\ DisconnectedIsLast'
  <1> USE DEF mainVars, threadVars, senderVars
  <1>1. CASE CommandConnect \/ CommandConnectRaises
    <2>1. cmdQueue \in Seq(Command) /\ cmdQueue # <<>> /\ thread \in [Peer -> ThreadPlace]
      BY <1>1 DEF ClosingInv, NetworkTypeOK, TypeOK, CommandConnect, CommandConnectRaises,
                  TakeCommand
    <2>2. thread[Head(cmdQueue).host] = "new" /\ Head(cmdQueue).host \in Peer
      BY <1>1, <2>1, TailElements, FieldTypes
      DEF ClosingInv, AttemptsFresh, CommandConnect, CommandConnectRaises, TakeCommand
    <2>3. UNCHANGED <<sender, infoQueue>> /\ TakeCommand("CONNECT")
      BY <1>1 DEF CommandConnect, CommandConnectRaises
    <2>4. \A q \in Peer : IF q = Head(cmdQueue).host THEN thread'[q] \in {"connecting", "vanished"}
                          ELSE thread'[q] = thread[q]
      BY <1>1, <2>1 DEF CommandConnect, CommandConnectRaises
    <2>5. StaysClosed
      BY <2>2, <2>3, <2>4 DEF ClosingInv, DisconnectedIsLast, StaysClosed, Stopped
    <2> QED
      BY <2>3, <2>4, <2>5, FreshAfterTake, NoticesKept
  <1>2. CASE CommandDisconnect \/ CommandSendMessage \/ CommandSetVersion \/ CommandShutdown
    <2>1. UNCHANGED <<thread, sender, infoQueue>>
      BY <1>2 DEF CommandDisconnect, CommandSendMessage, CommandSetVersion, CommandShutdown
    <2>2. PICK type : TakeCommand(type)
      BY <1>2 DEF CommandDisconnect, CommandSendMessage, CommandSetVersion, CommandShutdown
    <2> QED
      BY <2>1, <2>2, Unmoved, FreshAfterTake, NoticesKept
  <1>3. CASE HandleInfo
    <2>1. UNCHANGED <<thread, sender, cmdQueue>>
      BY <1>3 DEF HandleInfo, InfoConnected, InfoDisconnected, InfoConnectFailed, InfoMsgReceived
    <2>2. PICK type : TakeInfo(type)
      BY <1>3 DEF HandleInfo, InfoConnected, InfoDisconnected, InfoConnectFailed, InfoMsgReceived
    <2> QED
      BY <2>1, <2>2, Unmoved, FreshKept, NoticesAfterTaking
  <1>4. CASE NoCommand \/ InfoTimeout \/ ProcessExit
    <2>1. UNCHANGED <<thread, sender, cmdQueue, infoQueue>>
      BY <1>4 DEF NoCommand, InfoTimeout, ProcessExit
    <2> QED
      BY <2>1, Unmoved, FreshKept, NoticesKept
  <1> QED
    BY <1>1, <1>2, <1>3, <1>4 DEF ManagerStep, HandleCommand

LEMMA ClosingPeerStep ==
  ASSUME ClosingInv, NEW p \in Peer, PeerStep(p)
  PROVE  AttemptsFresh' /\ NoticeOfClosed' /\ DisconnectedIsLast'
  <1> USE DEF mainVars, threadVars, senderVars, At, Goto
  <1>1. thread \in [Peer -> ThreadPlace] /\ sender \in [Peer -> SenderPlace]
    BY DEF ClosingInv, NetworkTypeOK, TypeOK
  <1>2. UNCHANGED cmdQueue /\ thread[p] \notin {"new", "closed"}
    BY DEF PeerStep, ConnectOk, ConnectFail, PeerNameError, StartSender, TestInterrupted,
           RecvMessage, RecvNothing, RecvEnd, CloseSocket, RemovePeer
  <1>3. PICK place : thread' = [thread EXCEPT ![p] = place]
    BY DEF PeerStep, ConnectOk, ConnectFail, PeerNameError, StartSender, TestInterrupted,
           RecvMessage, RecvNothing, RecvEnd, CloseSocket, RemovePeer
  <1>4. place = "closed" => RemovePeer(p)
    BY <1>1, <1>3 DEF PeerStep, ConnectOk, ConnectFail, PeerNameError, StartSender,
           TestInterrupted, RecvMessage, RecvNothing, RecvEnd, CloseSocket
  <1>5. \A q \in Peer : q # p => thread'[q] = thread[q] /\ sender'[q] = sender[q]
    BY <1>1, <1>3 DEF PeerStep, ConnectOk, ConnectFail, PeerNameError, StartSender,
           TestInterrupted, RecvMessage, RecvNothing, RecvEnd, CloseSocket, RemovePeer
  <1>6. thread'[p] = "closed" => Stopped(p)'
    <2>1. RemovePeer(p) => Stopped(p)'
      BY DEF RemovePeer, SenderFinished, Stopped
    <2> QED
      BY <1>1, <1>3, <1>4, <2>1
  <1>7. StaysClosed
    BY <1>2, <1>5, <1>6 DEF ClosingInv, DisconnectedIsLast, StaysClosed, Stopped
  <1>8. AttemptsFresh'
    BY <1>1, <1>2, <1>3, FreshKept
  <1>9. CASE ConnectOk(p) \/ ConnectFail(p) \/ RecvMessage(p) \/ RemovePeer(p)
    <2>1. PICK info \in Info : /\ info.peer = p
                               /\ infoQueue' = Append(infoQueue, info)
                               /\ info.type = "DISCONNECTED" => RemovePeer(p)
      <3>1. CASE ConnectOk(p)
        BY <3>1 DEF ConnectOk, Notify, Info
      <3>2. CASE ConnectFail(p)
        BY <3>2 DEF ConnectFail, Notify, Info
      <3>3. CASE RecvMessage(p)
        BY <3>3 DEF RecvMessage, Info, Message
      <3>4. CASE RemovePeer(p)
        BY <3>4 DEF RemovePeer, Notify, Info
      <3> QED
        BY <1>9, <3>1, <3>2, <3>3, <3>4
    <2>2. RemovePeer(p) => thread'[p] = "closed"
      BY <1>1 DEF RemovePeer
    <2> QED
      BY <1>2, <1>7, <1>8, <2>1, <2>2, NoticesAfterNotify
  <1>10. CASE \/ PeerNameError(p) \/ StartSender(p) \/ TestInterrupted(p)
              \/ RecvNothing(p) \/ RecvEnd(p) \/ CloseSocket(p)
    <2>1. UNCHANGED infoQueue
      BY <1>10 DEF PeerNameError, StartSender, TestInterrupted, RecvNothing, RecvEnd, CloseSocket
    <2> QED
      BY <1>7, <1>8, <2>1, NoticesKept
  <1> QED
    BY <1>9, <1>10 DEF PeerStep

(* A send thread that has stopped does not start again. *)
LEMMA ClosingSenderStep ==
  ASSUME ClosingInv, NEW p \in Peer, SenderStep(p)
  PROVE  AttemptsFresh' /\ NoticeOfClosed' /\ DisconnectedIsLast'
  <1> USE DEF mainVars, threadVars, senderVars, SenderAt, EndSender
  <1>1. sender \in [Peer -> SenderPlace]
    BY DEF ClosingInv, NetworkTypeOK, TypeOK
  <1>2. UNCHANGED <<thread, cmdQueue, infoQueue>> /\ sender[p] \in {"test", "get"}
    BY DEF SenderStep, SenderTest, SenderTimeout, SenderWrite
  <1>3. \A q \in Peer : q # p => sender'[q] = sender[q]
    BY <1>1 DEF SenderStep, SenderTest, SenderTimeout, SenderWrite
  <1>4. StaysClosed
    BY <1>2, <1>3 DEF ClosingInv, DisconnectedIsLast, StaysClosed, Stopped
  <1> QED
    BY <1>2, <1>4, FreshKept, NoticesKept

LEMMA ClosingNext ==
  ASSUME ClosingInv, [NetworkNext]_allVars
  PROVE  ClosingInv'
  <1>1. NetworkTypeOK'
    BY NextTypes DEF ClosingInv
  <1>2. CASE UNCHANGED allVars
    BY <1>1, <1>2, Unmoved, FreshKept, NoticesKept
    DEF ClosingInv, allVars, vars, threadVars, senderVars
  <1>3. CASE NetworkNext
    <2>1. AttemptsFresh' /\ NoticeOfClosed' /\ DisconnectedIsLast'
      BY <1>3, ClosingUserStep, ClosingManagerStep, ClosingPeerStep, ClosingSenderStep
      DEF NetworkNext, NetworkStep
    <2> QED
      BY <1>1, <2>1 DEF ClosingInv
  <1> QED
    BY <1>2, <1>3

(* Whether or not attempts overlap and ids collide: a connection that       *)
(* reports its end has stopped its send thread, in either order in which    *)
(* its two threads may end, and the network process hears nothing of it     *)
(* after that report.                                                       *)
THEOREM ReportsEndLast == Spec => []DisconnectedIsLast
  <1>1. NetworkInit => ClosingInv
    BY ClosingInit
  <1>2. ClosingInv /\ [NetworkNext]_allVars => ClosingInv'
    BY ClosingNext
  <1>3. ClosingInv => DisconnectedIsLast
    BY DEF ClosingInv
  <1> QED
    BY <1>1, <1>2, <1>3, PTL DEF Spec

-----------------------------------------------------------------------------
(***************************************************************************)
(* What SerialInv does not say: that the user is told of each connection,  *)
(* and of each attempt that failed, once only.                             *)
(***************************************************************************)
FailureAt(i) == infoQueue[i].type = "CONNECT_FAILED"
RefusalAt(i) == outQueue[i].type = "CONNECT_FAILED"
AnnounceAt(i) == outQueue[i].type = "CONNECTED"

(* An attempt that failed is on its way to the user, or has been reported.  *)
FailedOnce ==
  /\ \A p \in refused : thread[p] = "failed"
  /\ \A i \in DOMAIN infoQueue :
       FailureAt(i) =>
         /\ thread[infoQueue[i].peer] = "failed"
         /\ infoQueue[i].peer \notin refused
         /\ \A j \in DOMAIN outQueue : RefusalAt(j) => outQueue[j].host # infoQueue[i].peer
         /\ \A j \in DOMAIN infoQueue :
              FailureAt(j) /\ infoQueue[j].peer = infoQueue[i].peer => j = i
  /\ \A i \in DOMAIN outQueue :
       RefusalAt(i) =>
         /\ thread[outQueue[i].host] = "failed"
         /\ outQueue[i].host \notin refused
         /\ \A j \in DOMAIN outQueue :
              RefusalAt(j) /\ outQueue[j].host = outQueue[i].host => j = i

(* The id of a connection that is announced has not been announced before.  *)
AnnouncedOnce ==
  /\ \A id \in ended : id < peerIdCounter
  /\ \A i \in DOMAIN outQueue :
       AnnounceAt(i) =>
         /\ outQueue[i].id \notin DOMAIN known \cup ended
         /\ \A j \in DOMAIN outQueue :
              AnnounceAt(j) /\ outQueue[j].id = outQueue[i].id => j = i

ToldOnce == FailedOnce /\ AnnouncedOnce

LEMMA ToldInit == NetworkInit => ToldOnce
  <1> SUFFICES ASSUME NetworkInit PROVE ToldOnce
    OBVIOUS
  <1>1. DOMAIN infoQueue = {} /\ DOMAIN outQueue = {} /\ refused = {} /\ ended = {}
    BY DEF NetworkInit, Init, UserInit
  <1> QED
    BY <1>1 DEF ToldOnce, FailedOnce, AnnouncedOnce

-----------------------------------------------------------------------------
(***************************************************************************)
(* What the queues hold, and how it moves.                                 *)
(***************************************************************************)
LEMMA Elements ==
  ASSUME NetworkTypeOK
  PROVE  /\ infoQueue \in Seq(Info) /\ outQueue \in Seq(Event)
         /\ \A i \in DOMAIN infoQueue : infoQueue[i] \in Info /\ infoQueue[i].peer \in Peer
         /\ \A i \in DOMAIN outQueue :
              /\ outQueue[i] \in Event /\ outQueue[i].id \in Nat
              /\ outQueue[i].type # "MSG_RECEIVED" => outQueue[i].host \in Peer
  <1>1. infoQueue \in Seq(Info) /\ outQueue \in Seq(Event)
    BY DEF NetworkTypeOK, TypeOK
  <1>2. /\ \A i \in DOMAIN infoQueue : infoQueue[i] \in Info
        /\ \A i \in DOMAIN outQueue : outQueue[i] \in Event
    BY <1>1
  <1> QED
    BY <1>1, <1>2, FieldTypes

(* Behind the head of a queue, and before the element that is added last.   *)
LEMMA Behind ==
  ASSUME NEW S, NEW s \in Seq(S), s # <<>>, NEW t, t = Tail(s)
  PROVE  /\ 1 \in DOMAIN s /\ Head(s) = s[1]
         /\ \A i \in DOMAIN t : i + 1 \in DOMAIN s /\ t[i] = s[i + 1] /\ i + 1 # 1
         /\ \A i, j \in DOMAIN t : i + 1 = j + 1 => i = j
  BY TailElements

LEMMA Before ==
  ASSUME NEW S, NEW s \in Seq(S), NEW e \in S, NEW t, t = Append(s, e)
  PROVE  /\ Len(s) + 1 \in DOMAIN t /\ t[Len(s) + 1] = e /\ Len(s) + 1 \notin DOMAIN s
         /\ \A i \in DOMAIN t : \/ i \in DOMAIN s /\ t[i] = s[i]
                                \/ i = Len(s) + 1
  <1>1. DOMAIN s = 1..Len(s) /\ Len(s) \in Nat
    OBVIOUS
  <1> QED
    BY <1>1, AppendElements

(* A step that leaves the queues to the user alone. *)
LEMMA ToldKept ==
  ASSUME NetworkTypeOK, ToldOnce,
         UNCHANGED <<infoQueue, outQueue, known, history, peerIdCounter>>,
         \A p \in Peer : thread[p] = "failed" => thread'[p] = "failed"
  PROVE  ToldOnce'
  <1>1. UNCHANGED <<refused, ended>> /\ refused \subseteq Peer
    BY DEF history, NetworkTypeOK, UserTypeOK
  <1>2. FailedOnce'
    BY <1>1, Elements DEF ToldOnce, FailedOnce, FailureAt, RefusalAt
  <1>3. AnnouncedOnce'
    BY <1>1 DEF ToldOnce, AnnouncedOnce, AnnounceAt
  <1> QED
    BY <1>2, <1>3 DEF ToldOnce

-----------------------------------------------------------------------------
(***************************************************************************)
(* The steps of the user.                                                  *)
(***************************************************************************)
LEMMA TakeKeepsTold ==
  ASSUME SerialInv, ToldOnce, UserTakeEvent
  PROVE  ToldOnce'
  <1> USE DEF mainVars, threadVars, history
  <1>1. NetworkTypeOK /\ outQueue \in Seq(Event)
    BY Elements DEF SerialInv
  <1>2. /\ outQueue # <<>> /\ outQueue' = Tail(outQueue)
        /\ UNCHANGED <<infoQueue, thread, peerIdCounter>>
    BY DEF UserTakeEvent, UserConnected, UserRefused, UserMessage, UserDisconnected, UserKeyError,
           TakeEvent
  <1>3. /\ 1 \in DOMAIN outQueue /\ Head(outQueue) = outQueue[1]
        /\ \A i \in DOMAIN outQueue' :
             i + 1 \in DOMAIN outQueue /\ outQueue'[i] = outQueue[i + 1] /\ i + 1 # 1
        /\ \A i, j \in DOMAIN outQueue' : i + 1 = j + 1 => i = j
    BY <1>1, <1>2, Behind
  <1>4. \/ refused' = refused
        \/ RefusalAt(1) /\ refused' = refused \cup {outQueue[1].host}
    BY <1>3 DEF UserTakeEvent, UserConnected, UserRefused, UserMessage, UserDisconnected,
                UserKeyError, TakeEvent, RefusalAt
  <1>5. \/ UNCHANGED <<known, ended>>
        \/ /\ AnnounceAt(1) /\ ended' = ended
           /\ DOMAIN known' = DOMAIN known \cup {outQueue[1].id}
        \/ /\ outQueue[1].type = "DISCONNECTED" /\ outQueue[1].id \in DOMAIN known
           /\ DOMAIN known' \cup ended' = DOMAIN known \cup ended
           /\ ended' = ended \cup {outQueue[1].id}
    <2>1. UserConnected => /\ AnnounceAt(1) /\ ended' = ended
                           /\ DOMAIN known' = DOMAIN known \cup {outQueue[1].id}
      BY <1>3 DEF UserConnected, TakeEvent, AnnounceAt
    <2>2. UserDisconnected =>
            /\ outQueue[1].type = "DISCONNECTED" /\ outQueue[1].id \in DOMAIN known
            /\ DOMAIN known' = DOMAIN known \ {outQueue[1].id}
            /\ ended' = ended \cup {outQueue[1].id}
      BY <1>3 DEF UserDisconnected, TakeEvent, Restrict
    <2>3. UserRefused \/ UserMessage \/ UserKeyError => UNCHANGED <<known, ended>>
      BY DEF UserRefused, UserMessage, UserKeyError
    <2> QED
      BY <2>1, <2>2, <2>3 DEF UserTakeEvent
  <1>6. FailedOnce'
    <2>1. \A p \in refused' : thread'[p] = "failed"
      BY <1>2, <1>3, <1>4 DEF ToldOnce, FailedOnce
    <2>2. ASSUME NEW i \in DOMAIN infoQueue', FailureAt(i)'
          PROVE  /\ thread'[infoQueue'[i].peer] = "failed"
                 /\ infoQueue'[i].peer \notin refused'
                 /\ \A j \in DOMAIN outQueue' :
                      RefusalAt(j)' => outQueue'[j].host # infoQueue'[i].peer
                 /\ \A j \in DOMAIN infoQueue' :
                      FailureAt(j)' /\ infoQueue'[j].peer = infoQueue'[i].peer => j = i
      BY <1>2, <1>3, <1>4, <2>2 DEF ToldOnce, FailedOnce, FailureAt, RefusalAt
    <2>3. ASSUME NEW i \in DOMAIN outQueue', RefusalAt(i)'
          PROVE  /\ thread'[outQueue'[i].host] = "failed"
                 /\ outQueue'[i].host \notin refused'
                 /\ \A j \in DOMAIN outQueue' :
                      RefusalAt(j)' /\ outQueue'[j].host = outQueue'[i].host => j = i
      BY <1>2, <1>3, <1>4, <2>3 DEF ToldOnce, FailedOnce, RefusalAt
    <2> QED
      BY <2>1, <2>2, <2>3 DEF FailedOnce
  <1>7. AnnouncedOnce'
    <2>1. \A id \in ended' : id < peerIdCounter'
      <3>1. outQueue[1].type = "DISCONNECTED" => outQueue[1].id < peerIdCounter
        BY <1>1, <1>3, Elements
        DEF SerialInv, EventsValid, NamesRegistered, IdsUnique
      <3> QED
        BY <1>2, <1>5, <3>1 DEF ToldOnce, AnnouncedOnce
    <2>2. ASSUME NEW i \in DOMAIN outQueue', AnnounceAt(i)'
          PROVE  /\ outQueue'[i].id \notin DOMAIN known' \cup ended'
                 /\ \A j \in DOMAIN outQueue' :
                      AnnounceAt(j)' /\ outQueue'[j].id = outQueue'[i].id => j = i
      BY <1>3, <1>5, <2>2 DEF ToldOnce, AnnouncedOnce, AnnounceAt
    <2> QED
      BY <2>1, <2>2 DEF AnnouncedOnce
  <1> QED
    BY <1>6, <1>7 DEF ToldOnce

LEMMA UserKeepsTold ==
  ASSUME SerialInv, ToldOnce, UserStep
  PROVE  ToldOnce'
  <1> USE DEF mainVars, threadVars, userVars, vars
  <1>1. CASE UserTakeEvent
    BY <1>1, TakeKeepsTold
  <1>2. CASE ~UserTakeEvent
    <2>1. UNCHANGED <<infoQueue, outQueue, known, history, peerIdCounter, thread>>
      BY <1>2 DEF UserStep, UserConnect, UserSend, UserSetVersion, UserDisconnect, Issue,
                  UserShutdown, UserJoined
    <2> QED
      BY <2>1, ToldKept DEF SerialInv
  <1> QED
    BY <1>1, <1>2

-----------------------------------------------------------------------------
(***************************************************************************)
(* The steps of the network process.                                       *)
(***************************************************************************)
(* A notice is forwarded, or lost with the process.                         *)
LEMMA InfoKeepsTold ==
  ASSUME SerialInv, ToldOnce, HandleInfo, UNCHANGED userVars
  PROVE  ToldOnce'
  <1> USE DEF mainVars, threadVars, userVars, history
  <1>1. NetworkTypeOK /\ infoQueue \in Seq(Info) /\ outQueue \in Seq(Event)
        /\ peerIdCounter \in Nat /\ peerId \in [Peer -> Nat]
    BY Elements DEF SerialInv, NetworkTypeOK, TypeOK
  <1>2. /\ infoQueue # <<>> /\ infoQueue' = Tail(infoQueue)
        /\ UNCHANGED <<thread, refused, known, ended>>
    BY DEF HandleInfo, InfoConnected, InfoDisconnected, InfoConnectFailed, InfoMsgReceived,
           TakeInfo
  <1>3. /\ 1 \in DOMAIN infoQueue /\ Head(infoQueue) = infoQueue[1]
        /\ \A i \in DOMAIN infoQueue' :
             i + 1 \in DOMAIN infoQueue /\ infoQueue'[i] = infoQueue[i + 1] /\ i + 1 # 1
        /\ \A i, j \in DOMAIN infoQueue' : i + 1 = j + 1 => i = j
    BY <1>1, <1>2, Behind
  <1>4. infoQueue[1].peer \in Peer
        /\ (infoQueue[1].type = "MSG_RECEIVED" => infoQueue[1].msg \in Message)
    BY <1>1, <1>3, Elements, FieldTypes
  <1>5. CASE UNCHANGED outQueue
    <2>1. peerIdCounter' = peerIdCounter
      <3>1. \A e : Append(outQueue, e) # outQueue
        BY <1>1
      <3> QED
        BY <1>5, <3>1 DEF HandleInfo, InfoConnected, InfoDisconnected, InfoConnectFailed,
                          InfoMsgReceived, Forward
    <2>2. FailedOnce'
      BY <1>2, <1>3, <1>5 DEF ToldOnce, FailedOnce, FailureAt, RefusalAt
    <2>3. AnnouncedOnce'
      BY <1>2, <1>5, <2>1 DEF ToldOnce, AnnouncedOnce, AnnounceAt
    <2> QED
      BY <2>2, <2>3 DEF ToldOnce
  <1>6. ASSUME NEW e \in Event, outQueue' = Append(outQueue, e),
               e.type = "CONNECT_FAILED" => FailureAt(1) /\ e.host = infoQueue[1].peer,
               e.type = "CONNECTED" => /\ e.id = peerIdCounter
                                       /\ peerIdCounter' = peerIdCounter + 1,
               e.type # "CONNECTED" => peerIdCounter' = peerIdCounter
        PROVE  ToldOnce'
    <2> DEFINE n == Len(outQueue) + 1
    <2>1. /\ n \in DOMAIN outQueue' /\ outQueue'[n] = e /\ n \notin DOMAIN outQueue
          /\ \A i \in DOMAIN outQueue' : \/ i \in DOMAIN outQueue /\ outQueue'[i] = outQueue[i]
                                         \/ i = n
      BY <1>1, <1>6, Before
    <2> HIDE DEF n
    <2>2. \A i \in DOMAIN infoQueue :
            FailureAt(i) => \A j \in DOMAIN outQueue :
                              RefusalAt(j) => outQueue[j].host # infoQueue[i].peer
      BY DEF ToldOnce, FailedOnce
    <2>3. FailedOnce'
      <3>1. ASSUME NEW i \in DOMAIN infoQueue', FailureAt(i)'
            PROVE  /\ thread'[infoQueue'[i].peer] = "failed"
                   /\ infoQueue'[i].peer \notin refused'
                   /\ \A j \in DOMAIN outQueue' :
                        RefusalAt(j)' => outQueue'[j].host # infoQueue'[i].peer
                   /\ \A j \in DOMAIN infoQueue' :
                        FailureAt(j)' /\ infoQueue'[j].peer = infoQueue'[i].peer => j = i
        <4>1. FailureAt(i + 1) /\ i + 1 \in DOMAIN infoQueue /\ infoQueue'[i] = infoQueue[i + 1]
          BY <1>3, <3>1 DEF FailureAt
        <4>2. /\ thread'[infoQueue'[i].peer] = "failed"
              /\ infoQueue'[i].peer \notin refused'
          BY <1>2, <4>1 DEF ToldOnce, FailedOnce
        <4>3. ASSUME NEW j \in DOMAIN outQueue', RefusalAt(j)'
              PROVE  outQueue'[j].host # infoQueue'[i].peer
          <5>1. CASE j \in DOMAIN outQueue /\ outQueue'[j] = outQueue[j]
            BY <2>2, <4>1, <4>3, <5>1 DEF RefusalAt
          <5>2. CASE j = n
            <6>1. FailureAt(1) /\ outQueue'[j].host = infoQueue[1].peer
              BY <1>6, <2>1, <4>3, <5>2 DEF RefusalAt
            <6>2. infoQueue[1].peer # infoQueue[i + 1].peer
              BY <1>3, <4>1, <6>1 DEF ToldOnce, FailedOnce
            <6> QED
              BY <4>1, <6>1, <6>2
          <5> QED
            BY <2>1, <5>1, <5>2
        <4>4. \A j \in DOMAIN infoQueue' :
                FailureAt(j)' /\ infoQueue'[j].peer = infoQueue'[i].peer => j = i
          BY <1>3, <4>1 DEF ToldOnce, FailedOnce, FailureAt
        <4> QED
          BY <4>2, <4>3, <4>4
      <3>2. ASSUME NEW i \in DOMAIN outQueue', RefusalAt(i)'
            PROVE  /\ thread'[outQueue'[i].host] = "failed"
                   /\ outQueue'[i].host \notin refused'
                   /\ \A j \in DOMAIN outQueue' :
                        RefusalAt(j)' /\ outQueue'[j].host = outQueue'[i].host => j = i
        <4>1. CASE i = n
          <5>1. FailureAt(1) /\ outQueue'[i].host = infoQueue[1].peer
            BY <1>6, <2>1, <3>2, <4>1 DEF RefusalAt
          <5> QED
            BY <1>2, <1>3, <2>1, <2>2, <4>1, <5>1 DEF ToldOnce, FailedOnce, RefusalAt
        <4>2. CASE i \in DOMAIN outQueue /\ outQueue'[i] = outQueue[i]
          <5>1. RefusalAt(i)
            BY <3>2, <4>2 DEF RefusalAt
          <5>2. \A j \in DOMAIN outQueue' :
                  RefusalAt(j)' /\ outQueue'[j].host = outQueue'[i].host => j = i
            <6>1. e.type = "CONNECT_FAILED" => e.host # outQueue[i].host
              BY <1>3, <1>6, <2>2, <4>2, <5>1
            <6> QED
              BY <2>1, <4>2, <5>1, <6>1 DEF ToldOnce, FailedOnce, RefusalAt
          <5> QED
            BY <1>2, <4>2, <5>1, <5>2 DEF ToldOnce, FailedOnce
        <4> QED
          BY <2>1, <4>1, <4>2
      <3>3. \A p \in refused' : thread'[p] = "failed"
        BY <1>2 DEF ToldOnce, FailedOnce
      <3> QED
        BY <3>1, <3>2, <3>3 DEF FailedOnce
    <2>4. AnnouncedOnce'
      <3>1. /\ \A id \in ended : id # peerIdCounter /\ id \in Nat /\ id < peerIdCounter
            /\ \A id \in DOMAIN known : id # peerIdCounter
            /\ \A i \in DOMAIN outQueue : AnnounceAt(i) => outQueue[i].id # peerIdCounter
        <4>1. ended \subseteq Nat /\ \A id \in DOMAIN known : known[id] \in Peer
          BY <1>1 DEF NetworkTypeOK, UserTypeOK
        <4>2. \A i \in DOMAIN outQueue : AnnounceAt(i) => outQueue[i].host \in Peer
          BY <1>1, Elements DEF AnnounceAt
        <4>3. \A p \in Peer : Registered(p) => peerId[p] # peerIdCounter
          BY <1>1 DEF SerialInv, IdsUnique
        <4> QED
          BY <1>1, <4>1, <4>2, <4>3
          DEF SerialInv, KnownValid, EventsValid, NamesRegistered, ToldOnce, AnnouncedOnce,
              AnnounceAt
      <3>2. \A id \in ended' : id < peerIdCounter'
        BY <1>1, <1>2, <1>6, <3>1
      <3>3. ASSUME NEW i \in DOMAIN outQueue', AnnounceAt(i)'
            PROVE  /\ outQueue'[i].id \notin DOMAIN known' \cup ended'
                   /\ \A j \in DOMAIN outQueue' :
                        AnnounceAt(j)' /\ outQueue'[j].id = outQueue'[i].id => j = i
        BY <1>2, <1>6, <2>1, <3>1, <3>3 DEF ToldOnce, AnnouncedOnce, AnnounceAt
      <3> QED
        BY <3>2, <3>3 DEF AnnouncedOnce
    <2> QED
      BY <2>3, <2>4 DEF ToldOnce
  <1>7. CASE InfoConnected
    <2>1. peerId[infoQueue[1].peer] = peerIdCounter
      BY <1>3, <1>4, <1>7 DEF InfoConnected, TakeInfo, SerialInv, IdsUnique, Announcing
    <2>2. [type |-> "CONNECTED", id |-> peerIdCounter, host |-> infoQueue[1].peer] \in Event
      BY <1>1, <1>4 DEF Event
    <2> QED
      BY <1>3, <1>6, <1>7, <2>1, <2>2 DEF InfoConnected, Forward, NextPeerId
  <1>8. CASE InfoConnectFailed
    <2>1. [type |-> "CONNECT_FAILED", id |-> peerId[infoQueue[1].peer],
           host |-> infoQueue[1].peer] \in Event
      BY <1>1, <1>4 DEF Event
    <2> QED
      BY <1>3, <1>6, <1>8, <2>1 DEF InfoConnectFailed, TakeInfo, Forward, FailureAt
  <1>9. CASE InfoDisconnected
    <2>1. [type |-> "DISCONNECTED", id |-> peerId[infoQueue[1].peer],
           host |-> infoQueue[1].peer] \in Event
      BY <1>1, <1>4 DEF Event
    <2> QED
      BY <1>3, <1>5, <1>6, <1>9, <2>1 DEF InfoDisconnected, Forward
  <1>10. CASE InfoMsgReceived
    <2>1. [type |-> "MSG_RECEIVED", id |-> peerId[infoQueue[1].peer],
           msg |-> infoQueue[1].msg] \in Event
      BY <1>1, <1>3, <1>4, <1>10 DEF Event, InfoMsgReceived, TakeInfo
    <2> QED
      BY <1>3, <1>6, <1>10, <2>1 DEF InfoMsgReceived
  <1> QED
    BY <1>7, <1>8, <1>9, <1>10 DEF HandleInfo

LEMMA ManagerKeepsTold ==
  ASSUME SerialInv, ToldOnce, ManagerStep, UNCHANGED userVars
  PROVE  ToldOnce'
  <1> USE DEF mainVars, threadVars, userVars
  <1>1. CASE HandleInfo
    BY <1>1, InfoKeepsTold
  <1>2. CASE HandleCommand
    <2>1. UNCHANGED <<infoQueue, outQueue, known, history, peerIdCounter>>
      BY <1>2 DEF HandleCommand, CommandConnect, CommandConnectRaises, CommandDisconnect,
                  CommandSendMessage, CommandSetVersion, CommandShutdown
    <2>2. \A p \in Peer : thread[p] = "failed" => thread'[p] = "failed"
      <3>1. CASE CommandConnect \/ CommandConnectRaises
        <4>1. cmdQueue \in Seq(Command) /\ cmdQueue # <<>> /\ thread \in [Peer -> ThreadPlace]
          BY <3>1 DEF SerialInv, NetworkTypeOK, TypeOK, CommandConnect, CommandConnectRaises,
                      TakeCommand
        <4>2. thread[Head(cmdQueue).host] = "new"
          BY <3>1, <4>1, TailElements, FieldTypes
          DEF SerialInv, OneAttempt, Ordered, CommandConnect, CommandConnectRaises, TakeCommand
        <4> QED
          BY <3>1, <4>1, <4>2 DEF CommandConnect, CommandConnectRaises
      <3>2. CASE ~(CommandConnect \/ CommandConnectRaises)
        BY <1>2, <3>2 DEF HandleCommand, CommandDisconnect, CommandSendMessage,
                          CommandSetVersion, CommandShutdown
      <3> QED
        BY <3>1, <3>2
    <2> QED
      BY <2>1, <2>2, ToldKept DEF SerialInv
  <1>3. CASE NoCommand \/ InfoTimeout \/ ProcessExit
    <2>1. UNCHANGED <<infoQueue, outQueue, known, history, peerIdCounter, thread>>
      BY <1>3 DEF NoCommand, InfoTimeout, ProcessExit
    <2> QED
      BY <2>1, ToldKept DEF SerialInv
  <1> QED
    BY <1>1, <1>2, <1>3 DEF ManagerStep

(* An attempt fails once: its thread ends there. *)
LEMMA PeerKeepsTold ==
  ASSUME SerialInv, ToldOnce, NEW p \in Peer, PeerStep(p), UNCHANGED userVars
  PROVE  ToldOnce'
  <1> USE DEF mainVars, threadVars, userVars, history, At, Goto
  <1>1. NetworkTypeOK /\ infoQueue \in Seq(Info) /\ thread \in [Peer -> ThreadPlace]
    BY Elements DEF SerialInv, NetworkTypeOK, TypeOK
  <1>2. UNCHANGED <<outQueue, known, history, peerIdCounter>> /\ thread[p] # "failed"
    BY DEF PeerStep, ConnectOk, ConnectFail, PeerNameError, StartSender, TestInterrupted,
           RecvMessage, RecvNothing, RecvEnd, CloseSocket, RemovePeer
  <1>3. \A q \in Peer : thread[q] = "failed" => thread'[q] = "failed"
    BY <1>1, <1>2 DEF PeerStep, ConnectOk, ConnectFail, PeerNameError, StartSender,
       TestInterrupted, RecvMessage, RecvNothing, RecvEnd, CloseSocket, RemovePeer
  <1>4. CASE UNCHANGED infoQueue
    BY <1>1, <1>2, <1>3, <1>4, ToldKept
  <1>5. ASSUME NEW info \in Info, infoQueue' = Append(infoQueue, info), info.peer = p,
               info.type = "CONNECT_FAILED" => thread'[p] = "failed"
        PROVE  ToldOnce'
    <2> DEFINE n == Len(infoQueue) + 1
    <2>1. /\ n \in DOMAIN infoQueue' /\ infoQueue'[n] = info /\ n \notin DOMAIN infoQueue
          /\ \A i \in DOMAIN infoQueue' :
               \/ (i \in DOMAIN infoQueue /\ infoQueue'[i] = infoQueue[i])
               \/ i = n
      BY <1>1, <1>5, Before
    <2> HIDE DEF n
    <2>2. p \notin refused
      BY <1>2 DEF ToldOnce, FailedOnce
    <2>3. /\ \A i \in DOMAIN infoQueue : FailureAt(i) => infoQueue[i].peer # p
          /\ \A i \in DOMAIN outQueue : RefusalAt(i) => outQueue[i].host # p
      BY <1>2 DEF ToldOnce, FailedOnce
    <2>4. FailedOnce'
      <3>1. \A q \in refused' : thread'[q] = "failed"
        BY <1>1, <1>2, <1>3 DEF ToldOnce, FailedOnce, NetworkTypeOK, UserTypeOK
      <3>2. ASSUME NEW i \in DOMAIN infoQueue', FailureAt(i)'
            PROVE  /\ thread'[infoQueue'[i].peer] = "failed"
                   /\ infoQueue'[i].peer \notin refused'
                   /\ \A j \in DOMAIN outQueue' :
                        RefusalAt(j)' => outQueue'[j].host # infoQueue'[i].peer
                   /\ \A j \in DOMAIN infoQueue' :
                        FailureAt(j)' /\ infoQueue'[j].peer = infoQueue'[i].peer => j = i
        <4>1. CASE i = n
          BY <1>2, <1>5, <2>1, <2>2, <2>3, <3>2, <4>1 DEF FailureAt, RefusalAt
        <4>2. CASE i \in DOMAIN infoQueue /\ infoQueue'[i] = infoQueue[i]
          <5>1. FailureAt(i) /\ infoQueue[i].peer \in Peer /\ infoQueue[i].peer # p
            BY <1>1, <2>3, <3>2, <4>2, Elements DEF FailureAt
          <5>2. \A j \in DOMAIN infoQueue' :
                  FailureAt(j)' /\ infoQueue'[j].peer = infoQueue'[i].peer => j = i
            BY <1>5, <2>1, <4>2, <5>1 DEF ToldOnce, FailedOnce, FailureAt
          <5> QED
            BY <1>2, <1>3, <4>2, <5>1, <5>2 DEF ToldOnce, FailedOnce, RefusalAt
        <4> QED
          BY <2>1, <4>1, <4>2
      <3>3. ASSUME NEW i \in DOMAIN outQueue', RefusalAt(i)'
            PROVE  /\ thread'[outQueue'[i].host] = "failed"
                   /\ outQueue'[i].host \notin refused'
                   /\ \A j \in DOMAIN outQueue' :
                        RefusalAt(j)' /\ outQueue'[j].host = outQueue'[i].host => j = i
        <4>1. RefusalAt(i) /\ outQueue[i].host \in Peer
          BY <1>1, <1>2, <3>3, Elements DEF RefusalAt
        <4> QED
          BY <1>2, <1>3, <4>1 DEF ToldOnce, FailedOnce, RefusalAt
      <3> QED
        BY <3>1, <3>2, <3>3 DEF FailedOnce
    <2>5. AnnouncedOnce'
      BY <1>2 DEF ToldOnce, AnnouncedOnce, AnnounceAt
    <2> QED
      BY <2>4, <2>5 DEF ToldOnce
  <1>6. CASE ConnectOk(p)
    BY <1>5, <1>6 DEF ConnectOk, Notify, Info
  <1>7. CASE ConnectFail(p)
    <2>1. thread'[p] = "failed"
      BY <1>1, <1>7 DEF ConnectFail
    <2> QED
      BY <1>5, <1>7, <2>1 DEF ConnectFail, Notify, Info
  <1>8. CASE RecvMessage(p)
    <2>1. PICK kind \in Kind :
            infoQueue' = Append(infoQueue, [type |-> "MSG_RECEIVED", peer |-> p,
                                            msg |-> [kind |-> kind, peer |-> p]])
      BY <1>8 DEF RecvMessage
    <2>2. [type |-> "MSG_RECEIVED", peer |-> p, msg |-> [kind |-> kind, peer |-> p]] \in Info
      BY DEF Info, Message
    <2> QED
      BY <1>5, <2>1, <2>2
  <1>9. CASE RemovePeer(p)
    BY <1>5, <1>9 DEF RemovePeer, Notify, Info
  <1>10. CASE \/ PeerNameError(p) \/ StartSender(p) \/ TestInterrupted(p)
              \/ RecvNothing(p) \/ RecvEnd(p) \/ CloseSocket(p)
    BY <1>4, <1>10 DEF PeerNameError, StartSender, TestInterrupted, RecvNothing, RecvEnd,
                       CloseSocket
  <1> QED
    BY <1>6, <1>7, <1>8, <1>9, <1>10 DEF PeerStep

LEMMA NextKeepsTold ==
  ASSUME SerialInv, ToldOnce, [NetworkNext]_allVars
  PROVE  ToldOnce'
  <1> USE DEF mainVars, threadVars, userVars, vars
  <1>1. CASE UNCHANGED allVars
    BY <1>1, ToldKept DEF allVars, SerialInv
  <1>2. ASSUME NEW p \in Peer, SenderStep(p), UNCHANGED userVars PROVE ToldOnce'
    <2>1. UNCHANGED <<infoQueue, outQueue, peerIdCounter, thread>>
      BY <1>2 DEF SenderStep, SenderTest, SenderTimeout, SenderWrite
    <2> QED
      BY <1>2, <2>1, ToldKept DEF SerialInv
  <1> QED
    BY <1>1, <1>2, UserKeepsTold, ManagerKeepsTold, PeerKeepsTold DEF NetworkNext, NetworkStep

-----------------------------------------------------------------------------
(***************************************************************************)
(* The refinement: an event the user takes is a step of the service, and   *)
(* everything else is a stutter.                                           *)
(***************************************************************************)
LEMMA ServiceStart == NetworkInit => Service!ServiceInit
  BY DEF NetworkInit, UserInit, Service!ServiceInit

LEMMA EventIsService ==
  ASSUME SerialInv, ToldOnce, UserTakeEvent
  PROVE  [Service!ServiceNext]_(Service!serviceVars)
  <1> USE DEF history, Service!serviceVars
  <1>1. NetworkTypeOK /\ outQueue \in Seq(Event) /\ outQueue # <<>>
    BY Elements DEF SerialInv, UserTakeEvent, UserConnected, UserRefused, UserMessage,
                    UserDisconnected, UserKeyError, TakeEvent
  <1>2. 1 \in DOMAIN outQueue /\ Head(outQueue) = outQueue[1]
    BY <1>1, TailElements
  <1>3. \A k \in DOMAIN known : known[k] \in Peer
    BY <1>1 DEF NetworkTypeOK, UserTypeOK
  <1> DEFINE event == outQueue[1]
  <1>4. CASE UserConnected
    <2>1. AnnounceAt(1) /\ event.host \in Peer /\ NamesRegistered(event.id, event.host)
      BY <1>1, <1>2, <1>4, Elements
      DEF UserConnected, TakeEvent, AnnounceAt, SerialInv, EventsValid
    <2>2. event.id \notin DOMAIN known \cup ended
      BY <1>2, <2>1 DEF ToldOnce, AnnouncedOnce
    <2>3. event.host \notin refused
      BY <2>1 DEF ToldOnce, FailedOnce, NamesRegistered, Registered, Established, Active
    <2>4. \A k \in DOMAIN known : known[k] # event.host
      BY <2>1, <2>2 DEF SerialInv, KnownValid, NamesRegistered
    <2>5. Service!Announce(event.id, event.host)
      BY <1>2, <1>4, <2>2, <2>3, <2>4 DEF UserConnected, Service!Announce, Service!Range
    <2>6. event.id \in DOMAIN known' \ DOMAIN known
      BY <1>2, <1>4, <2>2 DEF UserConnected
    <2> QED
      BY <2>1, <2>5, <2>6 DEF Service!ServiceNext
  <1>5. CASE UserRefused
    <2>1. RefusalAt(1) /\ event.host \in Peer
      BY <1>1, <1>2, <1>5, Elements DEF UserRefused, TakeEvent, RefusalAt
    <2>2. thread[event.host] = "failed" /\ event.host \notin refused
      BY <1>2, <2>1 DEF ToldOnce, FailedOnce
    <2>3. \A k \in DOMAIN known : known[k] # event.host
      BY <2>2 DEF SerialInv, KnownValid, NamesRegistered, Registered, Established, Active
    <2>4. Service!Refuse(event.host)
      BY <1>2, <1>5, <2>2, <2>3 DEF UserRefused, Service!Refuse, Service!Range
    <2> QED
      BY <2>1, <2>4 DEF Service!ServiceNext
  <1>6. CASE UserMessage
    <2>1. /\ event.type = "MSG_RECEIVED" /\ event.msg.peer \in Peer
          /\ event.id \in DOMAIN known
      BY <1>1, <1>2, <1>6, FieldTypes DEF UserMessage, TakeEvent
    <2>2. NamesRegistered(event.id, event.msg.peer) /\ NamesRegistered(event.id, known[event.id])
      BY <1>2, <2>1 DEF SerialInv, EventsValid, KnownValid
    <2>3. event.msg.peer = known[event.id]
      BY <1>3, <2>1, <2>2 DEF SerialInv, IdsUnique, NamesRegistered
    <2>4. Service!Deliver(event.id)
      BY <1>2, <1>6, <2>1, <2>3 DEF UserMessage, Service!Deliver
    <2> QED
      BY <2>1, <2>4 DEF Service!ServiceNext
  <1>7. CASE UserDisconnected
    <2>1. event.id \in DOMAIN known /\ Service!End(event.id)
      BY <1>2, <1>7 DEF UserDisconnected, Service!End, Restrict, Service!Restrict
    <2> QED
      BY <2>1 DEF Service!ServiceNext
  <1>8. CASE UserKeyError
    BY <1>8 DEF UserKeyError
  <1> QED
    BY <1>4, <1>5, <1>6, <1>7, <1>8 DEF UserTakeEvent

LEMMA StepIsService ==
  ASSUME SerialInv, ToldOnce, [NetworkNext]_allVars
  PROVE  [Service!ServiceNext]_(Service!serviceVars)
  <1>1. CASE UserTakeEvent
    BY <1>1, EventIsService
  <1>2. CASE UNCHANGED <<known, history>>
    BY <1>2 DEF history, Service!serviceVars
  <1>3. UserTakeEvent \/ UNCHANGED <<known, history>>
    BY DEF NetworkNext, UserStep, UserConnect, UserSend, UserSetVersion, UserDisconnect, Issue,
           UserShutdown, UserJoined, allVars, userVars
  <1> QED
    BY <1>1, <1>2, <1>3

(* What the user has been told agrees with what is in flight. *)
THEOREM ToldInvariant ==
  ASSUME SerialConnects
  PROVE  Spec => [](SerialInv /\ ToldOnce)
  <1>1. NetworkInit => ToldOnce
    BY ToldInit
  <1>2. SerialInv /\ ToldOnce /\ [NetworkNext]_allVars => ToldOnce'
    BY NextKeepsTold
  <1> QED
    BY <1>1, <1>2, SerialInvariant, PTL DEF Spec

(* If no two connection attempts overlap, the network process keeps the     *)
(* promises of PeerService: an id is announced once and for one remote end, *)
(* messages and ends are reported under the id of the connection they       *)
(* belong to, and a connection or a failed attempt is reported once.        *)
THEOREM ServiceImplemented ==
  ASSUME SerialConnects
  PROVE  Spec => ImplementsService
  <1>1. NetworkInit => Service!ServiceInit
    BY ServiceStart
  <1>2. SerialInv /\ ToldOnce /\ [NetworkNext]_allVars
          => [Service!ServiceNext]_(Service!serviceVars)
    BY StepIsService
  <1> QED
    BY <1>1, <1>2, ToldInvariant, PTL
    DEF Spec, ImplementsService, Service!ServiceSpec
=============================================================================
