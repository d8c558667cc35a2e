-------------------------------- MODULE Link --------------------------------
(***************************************************************************)
(* A connection from end to end: the send thread of one PickCluster, the   *)
(* send loop of src/network/network.py, and the receive loop of another,   *)
(* MessageStream.  The other end may still be any program at all.          *)
(*                                                                         *)
(* send() may take a part of the message only; the loop then offers all of *)
(* it again.  What the other end reads in its place has the header, or a   *)
(* part of it, and then the message from its start: its checksum is wrong, *)
(* if nothing before it is.                                                *)
(***************************************************************************)
EXTENDS MessageStream

VARIABLES origin, \* what is at the other end: "any" program, or a "peer"
          queued  \* the messages put to the send thread of a peer

linkVars == <<vars, origin, queued>>

Message == [command : Command, size : FrameSize, flaw : {"none"}]

Garbled == {"length", "start", "crc"}

LinkInit ==
  /\ Init
  /\ origin \in {"any", "peer"}
  /\ queued = <<>>

AnySends == origin = "any" /\ RemoteSend /\ UNCHANGED <<origin, queued>>

-----------------------------------------------------------------------------
(* PeerSendThread.send(), called by the network process.                    *)
QueueMessage ==
  /\ origin = "peer"
  /\ Len(queued) < MaxSent
  /\ \E m \in Message : queued' = Append(queued, m)
  /\ UNCHANGED <<vars, origin>>

(* The next message goes out, behind those before it. *)
Writes(flaw) ==
  /\ origin = "peer"
  /\ ~closed
  /\ Len(sent) < Len(queued)
  /\ LET m == queued[Len(sent) + 1]
     IN  sent' = Append(sent, [command |-> m.command, size |-> m.size, flaw |-> flaw,
                               ends |-> Written + m.size])
  /\ UNCHANGED <<closed, received, consumed, flagVars, place, delivered, decodedAt,
                 origin, queued>>

InOrder == \A i \in DOMAIN sent : sent[i].flaw = "none"

WriteWhole == InOrder /\ Writes("none")

(* Part of a message, and the whole of it again: what follows is displaced. *)
WritePartly == \E flaw \in Garbled : Writes(flaw)

LinkNext ==
  \/ AnySends
  \/ QueueMessage
  \/ WriteWhole
  \/ WritePartly
  \/ /\ \/ RemoteClose
        \/ SetVersion
        \/ Interrupt
        \/ PeerStep
        \/ RecvError
     /\ UNCHANGED <<origin, queued>>

LinkSpec ==
  LinkInit /\ [][LinkNext]_linkVars /\ WF_linkVars(PeerStep /\ UNCHANGED <<origin, queued>>)

-----------------------------------------------------------------------------
(* The inductive invariant: the frames sent are those of the queue, in      *)
(* order, but for what partial writes have made of them.                    *)
SentFromQueue ==
  /\ Len(sent) <= Len(queued)
  /\ \A i \in DOMAIN sent : /\ sent[i].command = queued[i].command
                            /\ sent[i].size = queued[i].size

LinkInv ==
  /\ StreamInv
  /\ origin \in {"any", "peer"}
  /\ queued \in Seq(Message) /\ Len(queued) <= MaxSent
  /\ origin = "peer" => SentFromQueue

-----------------------------------------------------------------------------
Plain(frames) ==
  [i \in DOMAIN frames |-> [command |-> frames[i].command, size |-> frames[i].size,
                            flaw |-> frames[i].flaw]]

EndChannel ==
  INSTANCE MessageChannel WITH
    Message <- [command : Command, size : FrameSize, flaw : Flaw],
    sent <- IF origin = "peer" THEN queued ELSE Plain(sent),
    delivered <- Plain(delivered),
    open <- place # "ended"

(* From the queue of a send thread to the network process at the other end, *)
(* messages arrive in their order, each once, none left out and none but    *)
(* those queued, whatever send() takes at a time and however the bytes are  *)
(* cut into chunks: of a message sent in parts, and behind it, nothing is   *)
(* taken for one.                                                           *)
EndToEnd == EndChannel!Spec
=============================================================================
