------------------------- MODULE PeerManager_proofs -------------------------
(***************************************************************************)
(* Lemmas about the network process alone, for the proofs about the        *)
(* modules that add the other end of its queues.                           *)
(***************************************************************************)
EXTENDS PeerManager, TLAPS

-----------------------------------------------------------------------------
(***************************************************************************)
(* Sequences: what Append and Tail do to the elements of a queue.          *)
(***************************************************************************)

(* Putting an element on a queue keeps what is there and adds it last. *)
LEMMA AppendElements ==
  ASSUME NEW S, NEW s \in Seq(S), NEW e \in S
  PROVE  /\ Append(s, e) \in Seq(S)
         /\ Len(Append(s, e)) = Len(s) + 1
         /\ DOMAIN Append(s, e) = 1..(Len(s) + 1)
         /\ \A i \in 1..Len(s) : Append(s, e)[i] = s[i]
         /\ Append(s, e)[Len(s) + 1] = e
  OBVIOUS

(* Taking the first element of a queue moves the others up by one. *)
LEMMA TailElements ==
  ASSUME NEW S, NEW s \in Seq(S), s # <<>>
  PROVE  /\ Tail(s) \in Seq(S)
         /\ Head(s) = s[1]
         /\ Head(s) \in S
         /\ 1 \in DOMAIN s
         /\ Len(Tail(s)) = Len(s) - 1
         /\ DOMAIN Tail(s) = 1..(Len(s) - 1)
         /\ \A i \in 1..(Len(s) - 1) : Tail(s)[i] = s[i + 1]
  OBVIOUS
-----------------------------------------------------------------------------
(***************************************************************************)
(* Type correctness: every step of the three kinds of threads keeps it.    *)
(***************************************************************************)
USE DEF Range, Restrict

LEMMA PeerManagerInitTypes == Init => TypeOK
  BY VersionAssumption, BoundAssumption
  DEF Init, TypeOK, ManagerPlace, Cause, ThreadPlace, SenderPlace

(* What the queues hold is well typed after each of the ways to change one. *)
LEMMA QueueTypes ==
  ASSUME TypeOK
  PROVE  /\ \A cmd \in Command : Append(cmdQueue, cmd) \in Seq(Command)
         /\ cmdQueue # <<>> =>
              Head(cmdQueue) \in Command /\ Tail(cmdQueue) \in Seq(Command)
         /\ \A e \in Event : Append(outQueue, e) \in Seq(Event)
         /\ outQueue # <<>> =>
              Head(outQueue) \in Event /\ Tail(outQueue) \in Seq(Event)
         /\ \A info \in Info : Append(infoQueue, info) \in Seq(Info)
         /\ infoQueue # <<>> =>
              Head(infoQueue) \in Info /\ Tail(infoQueue) \in Seq(Info)
  <1>1. cmdQueue \in Seq(Command) /\ outQueue \in Seq(Event) /\ infoQueue \in Seq(Info)
    BY DEF TypeOK
  <1>2. \A cmd \in Command : Append(cmdQueue, cmd) \in Seq(Command)
    BY <1>1, AppendElements
  <1>3. \A e \in Event : Append(outQueue, e) \in Seq(Event)
    BY <1>1, AppendElements
  <1>4. \A info \in Info : Append(infoQueue, info) \in Seq(Info)
    BY <1>1, AppendElements
  <1>5. cmdQueue # <<>> => Head(cmdQueue) \in Command /\ Tail(cmdQueue) \in Seq(Command)
    BY <1>1, TailElements
  <1>6. outQueue # <<>> => Head(outQueue) \in Event /\ Tail(outQueue) \in Seq(Event)
    BY <1>1, TailElements
  <1>7. infoQueue # <<>> => Head(infoQueue) \in Info /\ Tail(infoQueue) \in Seq(Info)
    BY <1>1, TailElements
  <1> QED
    BY <1>2, <1>3, <1>4, <1>5, <1>6, <1>7

(* The fields of what the queues hold. *)
LEMMA FieldTypes ==
  /\ \A cmd \in Command :
       /\ cmd.type = "CONNECT" => cmd.host \in Peer
       /\ cmd.type \in {"DISCONNECT", "SEND_MESSAGE", "SET_VERSION"} => cmd.id \in Nat
       /\ cmd.type = "SEND_MESSAGE" => cmd.msg \in Message /\ cmd.msg.peer \in Peer
       /\ cmd.type = "SET_VERSION" => cmd.version \in Version
  /\ \A info \in Info :
       /\ info.peer \in Peer
       /\ info.type = "MSG_RECEIVED" => info.msg \in Message /\ info.msg.peer \in Peer
  /\ \A e \in Event :
       /\ e.id \in Nat
       /\ e.type = "MSG_RECEIVED" => e.msg \in Message /\ e.msg.peer \in Peer
       /\ e.type # "MSG_RECEIVED" => e.host \in Peer
  <1>1. \A cmd \in Command :
       /\ cmd.type = "CONNECT" => cmd.host \in Peer
       /\ cmd.type \in {"DISCONNECT", "SEND_MESSAGE", "SET_VERSION"} => cmd.id \in Nat
       /\ cmd.type = "SEND_MESSAGE" => cmd.msg \in Message /\ cmd.msg.peer \in Peer
       /\ cmd.type = "SET_VERSION" => cmd.version \in Version
    BY DEF Command, Message
  <1>2. \A info \in Info :
       /\ info.peer \in Peer
       /\ info.type = "MSG_RECEIVED" => info.msg \in Message /\ info.msg.peer \in Peer
    BY DEF Info, Message
  <1>3. \A e \in Event :
       /\ e.id \in Nat
       /\ e.type = "MSG_RECEIVED" => e.msg \in Message /\ e.msg.peer \in Peer
       /\ e.type # "MSG_RECEIVED" => e.host \in Peer
    BY DEF Event, Message
  <1> QED
    BY <1>1, <1>2, <1>3

LEMMA ManagerStepTypes ==
  ASSUME TypeOK, ManagerStep
  PROVE  TypeOK'
  <1> USE DEF TypeOK, mainVars, threadVars, senderVars
  <1>1. ASSUME NEW type, TakeCommand(type)
        PROVE  /\ Head(cmdQueue) \in Command
               /\ Head(cmdQueue).type = type
               /\ cmdQueue' \in Seq(Command)
    BY <1>1, QueueTypes DEF TakeCommand
  <1>2. ASSUME NEW why \in Cause, LeaveMainLoop(why)
        PROVE  /\ pc' \in ManagerPlace
               /\ cause' \in Cause
               /\ interrupted' \in [Peer -> BOOLEAN]
    BY <1>2 DEF LeaveMainLoop, ManagerPlace
  <1>3. CASE CommandConnect
    <2>1. TakeCommand("CONNECT")
      BY <1>3 DEF CommandConnect
    <2>2. Head(cmdQueue) \in Command /\ Head(cmdQueue).type = "CONNECT" /\ cmdQueue' \in Seq(Command)
      BY <1>1, <2>1
    <2>3. Head(cmdQueue).host \in Peer
      BY <2>2, FieldTypes
    <2> QED
      BY <1>3, <2>2, <2>3 DEF CommandConnect, ThreadPlace
  <1>r. CASE CommandConnectRaises
    <2>1. TakeCommand("CONNECT") /\ LeaveMainLoop("ThreadError")
      BY <1>r DEF CommandConnectRaises
    <2>2. Head(cmdQueue) \in Command /\ Head(cmdQueue).type = "CONNECT" /\ cmdQueue' \in Seq(Command)
      BY <1>1, <2>1
    <2>3. Head(cmdQueue).host \in Peer
      BY <2>2, FieldTypes
    <2>4. pc' \in ManagerPlace /\ cause' \in Cause /\ interrupted' \in [Peer -> BOOLEAN]
      BY <1>2, <2>1 DEF Cause
    <2> QED
      BY <1>r, <2>2, <2>3, <2>4 DEF CommandConnectRaises, ThreadPlace
  <1>4. CASE CommandDisconnect
    <2>1. cmdQueue' \in Seq(Command)
      BY <1>1, <1>4 DEF CommandDisconnect
    <2> QED
      BY <1>4, <2>1 DEF CommandDisconnect
  <1>5. CASE CommandSendMessage
    <2>1. TakeCommand("SEND_MESSAGE")
      BY <1>5 DEF CommandSendMessage
    <2>2. Head(cmdQueue) \in Command /\ Head(cmdQueue).type = "SEND_MESSAGE" /\ cmdQueue' \in Seq(Command)
      BY <1>1, <2>1
    <2>3. Head(cmdQueue).msg \in Message
      BY <2>2, FieldTypes
    <2>4. CASE CanSend(Head(cmdQueue).id)
      <3>1. peers[Head(cmdQueue).id] \in Peer
        BY <2>4 DEF CanSend
      <3>2. Append(sendQueue[peers[Head(cmdQueue).id]], Head(cmdQueue).msg) \in Seq(Message)
        BY <2>3, <3>1, AppendElements
      <3>3. sendQueue' \in [Peer -> Seq(Message)]
        BY <1>5, <2>4, <3>2 DEF CommandSendMessage
      <3> QED
        BY <1>5, <2>2, <2>4, <3>3 DEF CommandSendMessage
    <2>5. CASE ~CanSend(Head(cmdQueue).id)
      <3>1. LeaveMainLoop("AttributeError") /\ UNCHANGED sendQueue
        BY <1>5, <2>5 DEF CommandSendMessage
      <3> QED
        BY <1>2, <1>5, <2>2, <3>1 DEF CommandSendMessage, Cause
    <2> QED
      BY <2>4, <2>5
  <1>6. CASE CommandSetVersion
    <2>1. TakeCommand("SET_VERSION")
      BY <1>6 DEF CommandSetVersion
    <2>2. Head(cmdQueue) \in Command /\ Head(cmdQueue).type = "SET_VERSION" /\ cmdQueue' \in Seq(Command)
      BY <1>1, <2>1
    <2>3. Head(cmdQueue).version \in Version
      BY <2>2, FieldTypes
    <2> QED
      BY <1>6, <2>2, <2>3 DEF CommandSetVersion
  <1>7. CASE CommandShutdown
    <2>1. cmdQueue' \in Seq(Command) /\ LeaveMainLoop("shutdown")
      BY <1>1, <1>7 DEF CommandShutdown
    <2> QED
      BY <1>2, <1>7, <2>1 DEF CommandShutdown, Cause
  <1>8. CASE NoCommand \/ InfoTimeout \/ ProcessExit
    BY <1>8 DEF NoCommand, InfoTimeout, ProcessExit, ManagerPlace
  <1>9. ASSUME NEW type, TakeInfo(type)
        PROVE  /\ Head(infoQueue) \in Info
               /\ Head(infoQueue).type = type
               /\ Head(infoQueue).peer \in Peer
               /\ type = "MSG_RECEIVED" => Head(infoQueue).msg \in Message
               /\ infoQueue' \in Seq(Info)
    <2>1. /\ Head(infoQueue) \in Info
          /\ Head(infoQueue).type = type
          /\ infoQueue' \in Seq(Info)
      BY <1>9, QueueTypes DEF TakeInfo
    <2> QED
      BY <2>1, FieldTypes
  <1>10. ASSUME NEW type \in {"CONNECTED", "DISCONNECTED", "CONNECT_FAILED"},
                NEW p \in Peer, Forward(type, p)
         PROVE  outQueue' \in Seq(Event)
    <2>1. [type |-> type, id |-> peerId[p], host |-> p] \in Event
      BY DEF Event
    <2> QED
      BY <1>10, <2>1, QueueTypes DEF Forward
  <1>11. CASE InfoConnected
    <2>1. Head(infoQueue).peer \in Peer /\ infoQueue' \in Seq(Info)
      BY <1>9, <1>11 DEF InfoConnected
    <2>2. outQueue' \in Seq(Event)
      BY <1>10, <1>11, <2>1 DEF InfoConnected
    <2>3. DOMAIN peers' \subseteq Nat /\ peers' \in [DOMAIN peers' -> Peer]
      BY <1>11, <2>1 DEF InfoConnected
    <2>4. peerIdCounter' \in Nat
      BY <1>11 DEF InfoConnected, NextPeerId
    <2> QED
      BY <1>11, <2>1, <2>2, <2>3, <2>4 DEF InfoConnected, ManagerPlace
  <1>12. CASE InfoDisconnected
    <2>1. Head(infoQueue).peer \in Peer /\ infoQueue' \in Seq(Info)
      BY <1>9, <1>12 DEF InfoDisconnected
    <2>2. CASE peerId[Head(infoQueue).peer] \in DOMAIN peers
      <3>1. outQueue' \in Seq(Event)
        BY <1>10, <1>12, <2>1, <2>2 DEF InfoDisconnected
      <3>2. DOMAIN peers' \subseteq Nat /\ peers' \in [DOMAIN peers' -> Peer]
        BY <1>12, <2>2 DEF InfoDisconnected
      <3> QED
        BY <1>12, <2>1, <2>2, <3>1, <3>2 DEF InfoDisconnected, ManagerPlace
    <2>3. CASE peerId[Head(infoQueue).peer] \notin DOMAIN peers
      <3>1. LeaveMainLoop("KeyError") /\ UNCHANGED <<peers, outQueue>>
        BY <1>12, <2>3 DEF InfoDisconnected
      <3> QED
        BY <1>2, <1>12, <2>1, <3>1 DEF InfoDisconnected, Cause
    <2> QED
      BY <2>2, <2>3
  <1>13. CASE InfoConnectFailed
    <2>1. Head(infoQueue).peer \in Peer /\ infoQueue' \in Seq(Info)
      BY <1>9, <1>13 DEF InfoConnectFailed
    <2>2. outQueue' \in Seq(Event)
      BY <1>10, <1>13, <2>1 DEF InfoConnectFailed
    <2> QED
      BY <1>13, <2>1, <2>2 DEF InfoConnectFailed, ManagerPlace
  <1>14. CASE InfoMsgReceived
    <2>1. /\ Head(infoQueue).peer \in Peer
          /\ Head(infoQueue).msg \in Message
          /\ infoQueue' \in Seq(Info)
      BY <1>9, <1>14 DEF InfoMsgReceived
    <2>2. [type |-> "MSG_RECEIVED", id |-> peerId[Head(infoQueue).peer],
           msg |-> Head(infoQueue).msg] \in Event
      BY <2>1 DEF Event
    <2>3. outQueue' \in Seq(Event)
      BY <1>14, <2>2, QueueTypes DEF InfoMsgReceived
    <2> QED
      BY <1>14, <2>1, <2>3 DEF InfoMsgReceived, ManagerPlace
  <1> QED
    BY <1>3, <1>r, <1>4, <1>5, <1>6, <1>7, <1>8, <1>11, <1>12, <1>13, <1>14
    DEF ManagerStep, HandleCommand, HandleInfo

LEMMA PeerStepTypes ==
  ASSUME TypeOK, NEW p \in Peer, PeerStep(p)
  PROVE  TypeOK'
  <1> USE DEF TypeOK, mainVars, threadVars, senderVars
  <1>1. ASSUME NEW place \in ThreadPlace, Goto(p, place)
        PROVE  thread' \in [Peer -> ThreadPlace]
    BY <1>1 DEF Goto
  <1>2. {"announced", "failed", "vanished", "test", "recv", "closing", "joining",
         "closed"} \subseteq ThreadPlace
    BY DEF ThreadPlace
  <1>3. ASSUME NEW type \in {"CONNECTED", "DISCONNECTED", "CONNECT_FAILED"}, Notify(type, p)
        PROVE  infoQueue' \in Seq(Info)
    <2>1. [type |-> type, peer |-> p] \in Info
      BY DEF Info
    <2> QED
      BY <1>3, <2>1, QueueTypes DEF Notify
  <1>4. CASE ConnectOk(p)
    BY <1>1, <1>2, <1>3, <1>4 DEF ConnectOk
  <1>5. CASE ConnectFail(p)
    BY <1>1, <1>2, <1>3, <1>5 DEF ConnectFail
  <1>6. CASE PeerNameError(p)
    BY <1>1, <1>2, <1>6 DEF PeerNameError
  <1>7. CASE StartSender(p)
    <2>1. thread' \in [Peer -> ThreadPlace]
      BY <1>1, <1>2, <1>7 DEF StartSender
    <2>2. sender' \in [Peer -> SenderPlace]
      BY <1>7 DEF StartSender, SenderPlace
    <2> QED
      BY <1>7, <2>1, <2>2 DEF StartSender
  <1>8. CASE TestInterrupted(p)
    <2>1. thread' \in [Peer -> ThreadPlace]
      BY <1>2, <1>8 DEF TestInterrupted, Goto
    <2> QED
      BY <1>8, <2>1 DEF TestInterrupted
  <1>9. CASE RecvMessage(p)
    <2>1. PICK kind \in Kind : infoQueue' = Append(infoQueue,
            [type |-> "MSG_RECEIVED", peer |-> p, msg |-> [kind |-> kind, peer |-> p]])
      BY <1>9 DEF RecvMessage
    <2>2. [type |-> "MSG_RECEIVED", peer |-> p, msg |-> [kind |-> kind, peer |-> p]] \in Info
      BY DEF Info, Message
    <2>3. infoQueue' \in Seq(Info)
      BY <2>1, <2>2, QueueTypes
    <2>4. received' \in [Peer -> 0..MaxReceived]
      BY <1>9, BoundAssumption DEF RecvMessage
    <2>5. thread' \in [Peer -> ThreadPlace]
      BY <1>1, <1>2, <1>9 DEF RecvMessage
    <2> QED
      BY <1>9, <2>3, <2>4, <2>5 DEF RecvMessage
  <1>10. CASE RecvNothing(p) \/ RecvEnd(p)
    BY <1>1, <1>2, <1>10 DEF RecvNothing, RecvEnd
  <1>11. CASE CloseSocket(p)
    BY <1>1, <1>2, <1>11 DEF CloseSocket
  <1>12. CASE RemovePeer(p)
    BY <1>1, <1>2, <1>3, <1>12 DEF RemovePeer
  <1> QED
    BY <1>4, <1>5, <1>6, <1>7, <1>8, <1>9, <1>10, <1>11, <1>12 DEF PeerStep

LEMMA SenderStepTypes ==
  ASSUME TypeOK, NEW p \in Peer, SenderStep(p)
  PROVE  TypeOK'
  <1> USE DEF TypeOK, mainVars, threadVars, senderVars
  <1>1. ASSUME EndSender(p)
        PROVE  sender' \in [Peer -> SenderPlace] /\ interrupted' \in [Peer -> BOOLEAN]
    BY <1>1 DEF EndSender, SenderPlace
  <1>2. CASE SenderTest(p)
    BY <1>1, <1>2 DEF SenderTest, SenderPlace
  <1>3. CASE SenderTimeout(p)
    BY <1>3 DEF SenderTimeout, SenderPlace
  <1>4. CASE SenderWrite(p)
    <2>1. /\ sendQueue[p] \in Seq(Message) /\ sendQueue[p] # <<>>
          /\ wire[p] \in Seq(Message)
      BY <1>4 DEF SenderWrite
    <2>2. Head(sendQueue[p]) \in Message /\ Tail(sendQueue[p]) \in Seq(Message)
      BY <2>1, TailElements
    <2>3. Append(wire[p], Head(sendQueue[p])) \in Seq(Message)
      BY <2>1, <2>2, AppendElements
    <2>4. sendQueue' \in [Peer -> Seq(Message)]
      BY <1>4, <2>2 DEF SenderWrite
    <2>5. wire' \in [Peer -> Seq(Message)]
      BY <1>4, <2>3 DEF SenderWrite
    <2>6. sender' \in [Peer -> SenderPlace] /\ interrupted' \in [Peer -> BOOLEAN]
      BY <1>1, <1>4 DEF SenderWrite, SenderPlace
    <2> QED
      BY <1>4, <2>4, <2>5, <2>6 DEF SenderWrite
  <1> QED
    BY <1>2, <1>3, <1>4 DEF SenderStep

LEMMA NetworkStepTypes ==
  ASSUME TypeOK, NetworkStep
  PROVE  TypeOK'
  BY ManagerStepTypes, PeerStepTypes, SenderStepTypes DEF NetworkStep
=============================================================================
