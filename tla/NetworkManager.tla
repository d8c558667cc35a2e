-------------------------- MODULE NetworkManager ---------------------------
(***************************************************************************)
(* The network process together with a process that uses it.               *)
(*                                                                         *)
(* The user is any program that calls the public methods of PeerManager    *)
(* the way src/bitcoin/node.py does: it keeps a map of the peers it has    *)
(* been told of, and names only peers of that map when it sends, sets a    *)
(* version or disconnects.  When it does so is left open.                  *)
(***************************************************************************)
EXTENDS PeerManager, FiniteSets

CONSTANTS SerialConnects, \* TRUE: no two connection attempts overlap
          CommandCount    \* bound: how many commands the user may have issued
                          \* after connect

ASSUME SerialAssumption   == SerialConnects \in BOOLEAN
ASSUME CommandsAssumption == CommandCount \subseteq Nat /\ 0 \in CommandCount

VARIABLES
  userPc,   \* "running", "joining" in shutdown(), "stopped" after it
  known,    \* Node.__peer_map, from ids to the remote ends
  commands, \* how many commands were issued, for the bound
  (* history: what the user has been told *)
  ended,    \* ids reported as disconnected
  refused,  \* remote ends reported as not reachable
  heard     \* remote ends whose messages were delivered

history  == <<ended, refused, heard>>
userVars == <<userPc, known, commands, history>>
allVars  == <<vars, userVars>>

UserTypeOK ==
  /\ userPc \in {"running", "joining", "stopped"}
  /\ DOMAIN known \subseteq Nat
  /\ known \in [DOMAIN known -> Peer]
  /\ commands \in CommandCount
  /\ ended \subseteq Nat
  /\ refused \subseteq Peer
  /\ heard \subseteq Peer

(* Type correctness of the network process and of its user. *)
NetworkTypeOK == TypeOK /\ UserTypeOK

UserInit ==
  /\ userPc = "running"
  /\ known = [i \in {} |-> i]
  /\ commands = 0
  /\ ended = {}
  /\ refused = {}
  /\ heard = {}

-----------------------------------------------------------------------------
(***************************************************************************)
(* The methods the user calls: each puts one command.                      *)
(***************************************************************************)
Ordered(p) == \E i \in DOMAIN cmdQueue :
                cmdQueue[i].type = "CONNECT" /\ cmdQueue[i].host = p

Announcing(p) == \E i \in DOMAIN infoQueue :
                   infoQueue[i].type = "CONNECTED" /\ infoQueue[i].peer = p

(* An attempt that has neither been registered nor failed. *)
Pending(p) == Ordered(p) \/ thread[p] = "connecting" \/ Announcing(p)

Put(cmd) == cmdQueue' = Append(cmdQueue, cmd)

UserConnect(p) ==
  /\ userPc = "running"
  /\ thread[p] = "new" /\ ~Ordered(p)
  /\ SerialConnects => \A q \in Peer : ~Pending(q)
  /\ Put([type |-> "CONNECT", host |-> p])
  /\ UNCHANGED <<outQueue, mainVars, infoQueue, threadVars, senderVars, userVars>>

Issue(cmd) ==
  /\ userPc = "running"
  /\ commands' = commands + 1
  /\ commands' \in CommandCount
  /\ Put(cmd)
  /\ UNCHANGED <<outQueue, mainVars, infoQueue, threadVars, senderVars, userPc,
                 known, history>>

UserSend(id) ==
  \E kind \in Kind :
    Issue([type |-> "SEND_MESSAGE", id |-> id,
           msg |-> [kind |-> kind, peer |-> known[id]]])

UserSetVersion(id) ==
  \E v \in Version : Issue([type |-> "SET_VERSION", id |-> id, version |-> v])

UserDisconnect(id) == Issue([type |-> "DISCONNECT", id |-> id])

(* shutdown() puts the last command and joins the process. *)
UserShutdown ==
  /\ userPc = "running"
  /\ Put([type |-> "SHUTDOWN"])
  /\ userPc' = "joining"
  /\ UNCHANGED <<outQueue, mainVars, infoQueue, threadVars, senderVars, known,
                 commands, history>>

UserJoined ==
  /\ userPc = "joining"
  /\ pc = "exited"
  /\ userPc' = "stopped"
  /\ UNCHANGED <<vars, known, commands, history>>

(***************************************************************************)
(* The user takes one event and keeps its map up to date.                  *)
(***************************************************************************)
TakeEvent(type) ==
  /\ userPc = "running"
  /\ outQueue # <<>>
  /\ Head(outQueue).type = type
  /\ outQueue' = Tail(outQueue)
  /\ UNCHANGED <<mainVars, infoQueue, threadVars, senderVars, commands>>

UserConnected ==
  /\ TakeEvent("CONNECTED")
  /\ LET event == Head(outQueue)
     IN  known' = [i \in DOMAIN known \cup {event.id} |->
                     IF i = event.id THEN event.host ELSE known[i]]
  /\ UNCHANGED <<cmdQueue, userPc, history>>

UserRefused ==
  /\ TakeEvent("CONNECT_FAILED")
  /\ refused' = refused \cup {Head(outQueue).host}
  /\ UNCHANGED <<cmdQueue, userPc, known, ended, heard>>

UserMessage ==
  /\ TakeEvent("MSG_RECEIVED")
  /\ Head(outQueue).id \in DOMAIN known
  /\ heard' = heard \cup {Head(outQueue).msg.peer}
  /\ UNCHANGED <<cmdQueue, userPc, known, ended, refused>>

UserDisconnected ==
  /\ TakeEvent("DISCONNECTED")
  /\ LET id == Head(outQueue).id
     IN  /\ id \in DOMAIN known
         /\ known' = Restrict(known, DOMAIN known \ {id})
         /\ ended' = ended \cup {id}
  /\ UNCHANGED <<cmdQueue, userPc, refused, heard>>

(* An id that is not in the map raises KeyError in the user, whose finally  *)
(* clause shuts the network process down.                                   *)
UserKeyError ==
  /\ TakeEvent("MSG_RECEIVED") \/ TakeEvent("DISCONNECTED")
  /\ Head(outQueue).id \notin DOMAIN known
  /\ Put([type |-> "SHUTDOWN"])
  /\ userPc' = "joining"
  /\ UNCHANGED <<known, history>>

UserTakeEvent ==
  \/ UserConnected
  \/ UserRefused
  \/ UserMessage
  \/ UserDisconnected
  \/ UserKeyError

UserStep ==
  \/ \E p \in Peer : UserConnect(p)
  \/ \E id \in DOMAIN known : UserSend(id) \/ UserSetVersion(id) \/ UserDisconnect(id)
  \/ UserShutdown
  \/ UserJoined
  \/ UserTakeEvent

NetworkInit == Init /\ UserInit

NetworkNext == UserStep \/ (NetworkStep /\ UNCHANGED userVars)

Spec == NetworkInit /\ [][NetworkNext]_allVars

(***************************************************************************)
(* Fairness.  Every thread runs when it can.  The non-blocking get on the  *)
(* command queue may miss a command that is still being written, but the   *)
(* feeder thread of the user writes it after a finite time: the command is *)
(* found if it is looked for again and again.  The user goes on taking     *)
(* events, and returns from join() when the process has ended.             *)
(***************************************************************************)
Fairness ==
  /\ WF_allVars(ManagerStep /\ UNCHANGED userVars)
  /\ SF_allVars(HandleCommand /\ UNCHANGED userVars)
  /\ \A p \in Peer : /\ WF_allVars(PeerStep(p) /\ UNCHANGED userVars)
                     /\ WF_allVars(SenderStep(p) /\ UNCHANGED userVars)
  /\ WF_allVars(UserTakeEvent)
  /\ WF_allVars(UserJoined)

FairSpec == Spec /\ Fairness

-----------------------------------------------------------------------------
(***************************************************************************)
(* Safety.                                                                 *)
(***************************************************************************)

(* A peer is in the dict under the id it was constructed with, although the *)
(* id is read when the attempt starts and the key when it is registered.    *)
PeersKeyedById == \A k \in DOMAIN peers : peerId[peers[k]] = k

(* What is queued at or written by a send thread was meant for its remote   *)
(* end: the id the user named still means the same connection when the      *)
(* command arrives.                                                         *)
RoutedToAddressee ==
  \A p \in Peer :
    /\ \A i \in DOMAIN sendQueue[p] : sendQueue[p][i].peer = p
    /\ \A i \in DOMAIN wire[p] : wire[p][i].peer = p

(* The network process never looks for an id to delete in vain. *)
NeverKeyError == cause # "KeyError"

(* Neither does its user: when a message or a disconnection is taken from   *)
(* the event queue, the id is that of a connection announced before it and  *)
(* not yet reported as ended.                                               *)
EventsInOrder ==
  \A i \in DOMAIN outQueue :
    outQueue[i].type \in {"MSG_RECEIVED", "DISCONNECTED"} =>
      /\ \/ outQueue[i].id \in DOMAIN known
         \/ \E j \in 1..(i - 1) :
              outQueue[j].type = "CONNECTED" /\ outQueue[j].id = outQueue[i].id
      /\ \A j \in 1..(i - 1) :
           outQueue[j].type = "DISCONNECTED" => outQueue[j].id # outQueue[i].id

(* A connection that reports its end has stopped its send thread, and its   *)
(* report is the last thing the manager hears of it.                        *)
DisconnectedIsLast ==
  /\ \A p \in Peer : thread[p] = "closed" => sender[p] \in {"done", "unstarted"}
  /\ \A i \in DOMAIN infoQueue :
       infoQueue[i].type = "DISCONNECTED" =>
         \A j \in (i + 1)..Len(infoQueue) : infoQueue[j].peer # infoQueue[i].peer

(* A connection that is up is in the dict, or about to be put there: else   *)
(* neither disconnect() nor shutdown() could end it.  The docstring of      *)
(* PeerManager: "Container which holds active peers".                       *)
Active(p) == thread[p] \in {"announced", "test", "recv", "closing", "joining"}

HoldsActivePeers ==
  \A p \in Peer : Active(p) => p \in Range(peers) \/ Announcing(p)

(* The dict loses a peer only once its thread has closed the connection. *)
OnlyClosedRemoved ==
  [][\A k \in DOMAIN peers :
       k \notin DOMAIN peers' \/ peers'[k] # peers[k] => thread[peers[k]] = "closed"]_allVars

(* A command for a peer that has shut down while the command was in transit *)
(* is passed over; it does not end the network process.                     *)
TransitTolerated ==
  [][cause = "none" /\ cause' = "AttributeError"
       => Head(cmdQueue).id \in DOMAIN peers]_allVars

(* The network process keeps the promises of PeerService. *)
Service == INSTANCE PeerService WITH open <- known

ImplementsService == Service!ServiceSpec

-----------------------------------------------------------------------------
(***************************************************************************)
(* The inductive strengthening of the safety properties, for connection    *)
(* attempts that do not overlap.                                           *)
(***************************************************************************)
Established(p) == Active(p) \/ thread[p] = "closed"

(* A connection whose CONNECTED notice the manager has handled. *)
Registered(p) == Established(p) /\ ~Announcing(p)

(* At most one attempt is on its way, and it is in one place. *)
OneAttempt ==
  /\ \A p, q \in Peer : Pending(p) /\ Pending(q) => p = q
  /\ \A p \in Peer :
       /\ Ordered(p) => thread[p] = "new"
       /\ Announcing(p) => Established(p)
  /\ \A i, j \in DOMAIN cmdQueue :
       cmdQueue[i].type = "CONNECT" /\ cmdQueue[j].type = "CONNECT" => i = j
  /\ \A i, j \in DOMAIN infoQueue :
       infoQueue[i].type = "CONNECTED" /\ infoQueue[j].type = "CONNECTED" => i = j

(* It has the id the counter will still have when it is registered; the ids *)
(* of the connections registered so far are smaller and different.          *)
IdsUnique ==
  /\ \A p \in Peer :
       /\ thread[p] = "connecting" \/ Announcing(p) => peerId[p] = peerIdCounter
       /\ Registered(p) => peerId[p] < peerIdCounter
  /\ \A p, q \in Peer :
       Registered(p) /\ Registered(q) /\ peerId[p] = peerId[q] => p = q

DictRegistered == \A k \in DOMAIN peers : Registered(peers[k])

(* A notice comes from an established connection, a DISCONNECTED notice     *)
(* from a closed one; the connection is in the dict or will be when its     *)
(* notice is handled.                                                       *)
NoticesInOrder ==
  \A i \in DOMAIN infoQueue :
    infoQueue[i].type \in {"MSG_RECEIVED", "DISCONNECTED"} =>
      /\ Established(infoQueue[i].peer)
      /\ infoQueue[i].type = "DISCONNECTED" => thread[infoQueue[i].peer] = "closed"
      /\ infoQueue[i].type = "MSG_RECEIVED" => infoQueue[i].msg.peer = infoQueue[i].peer
      /\ \/ infoQueue[i].peer \in Range(peers)
         \/ \E j \in 1..(i - 1) : /\ infoQueue[j].type = "CONNECTED"
                                 /\ infoQueue[j].peer = infoQueue[i].peer

(* What the user is told of, and names in a message, is a registered        *)
(* connection with the id it has.                                           *)
NamesRegistered(id, p) == Registered(p) /\ peerId[p] = id

KnownValid == \A k \in DOMAIN known : NamesRegistered(k, known[k])

EventsValid ==
  \A i \in DOMAIN outQueue :
    /\ outQueue[i].type \in {"CONNECTED", "DISCONNECTED"}
         => NamesRegistered(outQueue[i].id, outQueue[i].host)
    /\ outQueue[i].type = "MSG_RECEIVED"
         => NamesRegistered(outQueue[i].id, outQueue[i].msg.peer)

SendsValid ==
  \A i \in DOMAIN cmdQueue :
    cmdQueue[i].type = "SEND_MESSAGE"
      => NamesRegistered(cmdQueue[i].id, cmdQueue[i].msg.peer)

(* The user knows, or is about to be told, what is in the dict, and has not *)
(* been told that it has ended.                                             *)
DictAnnounced ==
  \A k \in DOMAIN peers :
    /\ \/ k \in DOMAIN known
       \/ \E i \in DOMAIN outQueue :
            outQueue[i].type = "CONNECTED" /\ outQueue[i].id = k
    /\ \A i \in DOMAIN outQueue :
         outQueue[i].type = "DISCONNECTED" => outQueue[i].id # k

(* While connection attempts do not overlap, every id and every notice in   *)
(* flight agrees with the dict of the network process: the invariant the    *)
(* safety properties follow from.                                           *)
SerialInv ==
  /\ NetworkTypeOK
  /\ OneAttempt
  /\ IdsUnique
  /\ DictRegistered
  /\ PeersKeyedById
  /\ HoldsActivePeers
  /\ NoticesInOrder
  /\ DisconnectedIsLast
  /\ KnownValid
  /\ EventsValid
  /\ SendsValid
  /\ DictAnnounced
  /\ EventsInOrder
  /\ RoutedToAddressee
  /\ NeverKeyError

-----------------------------------------------------------------------------
(***************************************************************************)
(* Liveness.                                                               *)
(***************************************************************************)

(* Shutdown comes back whatever the peer threads are doing, unless there    *)
(* are more events than the pipe holds, which the user no longer takes, or  *)
(* nobody takes what was logged.                                            *)
Jammed == userPc = "joining" /\ pc = "exiting" /\ ~Flushed

ShutdownReturns == userPc = "joining" ~> userPc = "stopped" \/ Jammed

(* The loss of the send thread is noticed: the connection is closed. *)
SenderLossEndsPeer ==
  \A p \in Peer : sender[p] = "done" ~> thread[p] = "closed" \/ pc = "exited"

(* A disconnect() is answered: the peer leaves the user's map. *)
DisconnectHeard ==
  \A id \in 1..Cardinality(Peer) :
    (\E i \in DOMAIN cmdQueue : cmdQueue[i].type = "DISCONNECT" /\ cmdQueue[i].id = id)
      ~> id \notin DOMAIN known \/ userPc # "running" \/ pc = "exited"

(* A connect() is answered, unless an exception comes before it is known    *)
(* that there is a connection.                                              *)
ConnectAnswered ==
  \A p \in Peer :
    Ordered(p) ~> \/ p \in Range(known) \cup refused
                  \/ thread[p] = "vanished"
                  \/ userPc # "running" \/ pc = "exited"
=============================================================================
