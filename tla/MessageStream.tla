--------------------------- MODULE MessageStream ----------------------------
(***************************************************************************)
(* The receive loop of a connection, src/network/network.py, with the      *)
(* decoder it calls, src/bitcoin/bitcoin_codec.py: bytes arrive in chunks  *)
(* of any size, are kept in a buffer, and are taken out message by message.*)
(*                                                                         *)
(* A byte is its position in the stream: the buffer holds the bytes from   *)
(* consumed up to received.  A message is a frame that ends at a position, *)
(* and has at most one flaw, the first the decoder would come to.          *)
(***************************************************************************)
EXTENDS Naturals, Sequences

CONSTANTS Command,    \* the commands of the messages; "version" is one
          FrameSize,  \* the sizes of the frames, headers included
          HeaderSize, \* 24: start, command, length and checksum
          ChunkSize,  \* 4096: the most that recv() returns
          Version,    \* the versions of a connection, 0 before one is agreed
          MaxSent     \* bound: the frames the remote end sends

(* length: negative, or above the maximum.  command: twelve zero bytes.     *)
(* body: the decoder of the message reads past its end.                     *)
Flaw == {"none", "length", "start", "crc", "body", "command"}

ASSUME HeaderAssumption == HeaderSize \in Nat \ {0}
ASSUME FrameAssumption  == FrameSize \subseteq {n \in Nat : n >= HeaderSize}
ASSUME ChunkAssumption  == ChunkSize \in Nat \ {0}
ASSUME VersionAssumption == Version \subseteq Nat /\ 0 \in Version
ASSUME SentAssumption   == MaxSent \in Nat

VARIABLES
  sent,        \* the frames the remote end has sent
  closed,      \* it will send no more
  received,    \* how many bytes recv() has returned
  consumed,    \* how many of them have left the buffer
  version,     \* __version
  interrupted, \* __interrupted
  place,       \* "recv", "decode" in the inner loop, "ended"
  delivered,   \* the messages handed to the network process
  (* history *)
  decodedAt    \* the version of the last call of decode_message()

vars == <<sent, closed, received, consumed, version, interrupted, place,
          delivered, decodedAt>>
remoteVars == <<sent, closed>>
flagVars   == <<version, interrupted>>

Frame == [command : Command, size : FrameSize, flaw : Flaw, ends : Nat]

(* Type correctness of the stream and of the thread that reads it. *)
StreamTypeOK ==
  /\ sent \in Seq(Frame)
  /\ closed \in BOOLEAN
  /\ received \in Nat /\ consumed \in Nat
  /\ version \in Version /\ decodedAt \in Version
  /\ interrupted \in BOOLEAN
  /\ place \in {"recv", "decode", "ended"}
  /\ delivered \in Seq(Frame)

Init ==
  /\ sent = <<>>
  /\ closed = FALSE
  /\ received = 0 /\ consumed = 0
  /\ version = 0 /\ decodedAt = 0
  /\ interrupted = FALSE
  /\ place = "recv"
  /\ delivered = <<>>

Start(f) == f.ends - f.size

Written == IF sent = <<>> THEN 0 ELSE sent[Len(sent)].ends

-----------------------------------------------------------------------------
(* The remote end: it sends what it likes. *)
RemoteSend ==
  /\ ~closed
  /\ Len(sent) < MaxSent
  /\ \E c \in Command, n \in FrameSize, flaw \in Flaw :
       sent' = Append(sent, [command |-> c, size |-> n, flaw |-> flaw,
                             ends |-> Written + n])
  /\ UNCHANGED <<closed, received, consumed, flagVars, place, delivered, decodedAt>>

RemoteClose ==
  /\ ~closed
  /\ closed' = TRUE
  /\ UNCHANGED <<sent, received, consumed, flagVars, place, delivered, decodedAt>>

(* The network process and the send thread.  The node settles the version   *)
(* once; a version of 0 changes nothing.                                    *)
SetVersion ==
  /\ version = 0
  /\ version' \in Version \ {0}
  /\ UNCHANGED <<remoteVars, received, consumed, interrupted, place, delivered, decodedAt>>

Interrupt ==
  /\ interrupted' = TRUE
  /\ UNCHANGED <<remoteVars, received, consumed, version, place, delivered, decodedAt>>

-----------------------------------------------------------------------------
(***************************************************************************)
(* recv().  A timeout goes back to the test of the outer loop.  What was   *)
(* sent may be lost with the connection.                                   *)
(***************************************************************************)
Recv ==
  /\ place = "recv"
  /\ ~interrupted
  /\ \E n \in 1..ChunkSize :
       /\ received + n <= Written
       /\ received' = received + n
  /\ place' = "decode"
  /\ UNCHANGED <<remoteVars, consumed, flagVars, delivered, decodedAt>>

End ==
  /\ place' = "ended"
  /\ UNCHANGED <<remoteVars, received, consumed, flagVars, delivered>>

RecvEnd   == place = "recv" /\ closed /\ received = Written /\ End /\ UNCHANGED decodedAt
RecvError == place = "recv" /\ End /\ UNCHANGED decodedAt

(* Both loops test the flag; if it is set after the test, the step that     *)
(* follows has come before it.                                              *)
EndInterrupted ==
  /\ place \in {"recv", "decode"}
  /\ interrupted
  /\ End
  /\ UNCHANGED decodedAt

-----------------------------------------------------------------------------
(***************************************************************************)
(* decode_message() at the head of the buffer, its checks in their order:  *)
(* what is incomplete is left for the next chunk, and so is, while the     *)
(* version is 0, whatever is not a version message.                        *)
(***************************************************************************)
AtHead(i) == i \in DOMAIN sent /\ Start(sent[i]) = consumed

HeaderComplete == received - consumed >= HeaderSize

Complete(i) ==
  /\ AtHead(i)
  /\ sent[i].flaw # "length"
  /\ sent[i].ends <= received

Early(i) == version = 0 /\ sent[i].command # "version"

Sound_Mutant(i) == sent[i].flaw \in {"none", "crc"}

Sound(i) == sent[i].flaw = "none"

Decode ==
  /\ place = "decode"
  /\ ~interrupted
  /\ decodedAt' = version

(* None and the same buffer are returned. *)
Incomplete ==
  \/ ~HeaderComplete
  \/ \E i \in DOMAIN sent :
       AtHead(i) /\ sent[i].flaw # "length" /\ received < sent[i].ends

Kept(i) == Complete(i) /\ (Early(i) \/ sent[i].flaw = "crc")

DecodeNothing ==
  /\ Decode
  /\ Incomplete \/ \E i \in DOMAIN sent : Kept(i)
  /\ place' = "recv"
  /\ UNCHANGED <<remoteVars, received, consumed, flagVars, delivered>>

(* An exception ends the thread: DecodeError, DecoderEOF, or the None that  *)
(* is unpacked when the command is all zeros.                               *)
Raises(i) ==
  \/ AtHead(i) /\ HeaderComplete /\ sent[i].flaw = "length"
  \/ Complete(i) /\ ~Early(i) /\ sent[i].flaw \in {"start", "body", "command"}

DecodeRaises ==
  /\ Decode
  /\ \E i \in DOMAIN sent : Raises(i)
  /\ End

(* get_remaining_buf(): what is behind the message stays in the buffer. *)
Remaining_Mutant(i) == received

Remaining(i) == sent[i].ends

DecodeMessage_Mutant ==
  /\ Decode
  /\ \E i \in DOMAIN sent :
       /\ Complete(i) /\ ~Early(i) /\ Sound(i)
       /\ consumed' = Remaining(i)
       /\ delivered' = Append(delivered, sent[i])
  /\ place' = "recv"
  /\ UNCHANGED <<remoteVars, received, flagVars>>

DecodeMessage ==
  /\ Decode
  /\ \E i \in DOMAIN sent :
       /\ Complete(i) /\ ~Early(i) /\ Sound(i)
       /\ consumed' = Remaining(i)
       /\ delivered' = Append(delivered, sent[i])
  /\ UNCHANGED <<remoteVars, received, flagVars, place>>

PeerStep ==
  \/ Recv
  \/ RecvEnd
  \/ EndInterrupted
  \/ DecodeNothing
  \/ DecodeRaises
  \/ DecodeMessage

Next ==
  \/ RemoteSend
  \/ RemoteClose
  \/ SetVersion
  \/ Interrupt
  \/ PeerStep
  \/ RecvError

Spec == Init /\ [][Next]_vars

-----------------------------------------------------------------------------
(***************************************************************************)
(* Safety and liveness of the receive loop.                                *)
(***************************************************************************)
(* The buffer holds bytes that have been received, and nothing else. *)
InBounds == consumed <= received /\ received <= Written

Channel ==
  INSTANCE MessageChannel WITH Message <- Frame, open <- place # "ended"

(* Whatever the chunks, the messages delivered are the first of those sent, *)
(* in order, each once, none left out.                                      *)
ReceivesInOrder == Channel!Spec

(* A message with any flaw is the last the decoder comes to: either the     *)
(* connection ends there, or all that follows is held up behind it.         *)
NothingPastFlaw ==
  \A i \in DOMAIN sent : sent[i].flaw # "none" => Len(delivered) < i

(* When the thread waits for bytes, no message is complete at the head of   *)
(* the buffer but one whose checksum is wrong, or one that came too early   *)
(* for the version of the last call.                                        *)
DrainedBeforeRecv ==
  place = "recv" =>
    \A i \in DOMAIN sent :
      Complete(i) => \/ sent[i].flaw = "crc"
                     \/ decodedAt = 0 /\ sent[i].command # "version"

(* A message that came too early is not looked at when the version is set,  *)
(* but with the next chunk: then it, and all that is complete before it, is *)
(* delivered, unless the connection ends.                                   *)
Deliverable(i) ==
  /\ i \in DOMAIN sent
  /\ sent[i].ends <= received
  /\ \A j \in 1..i : sent[j].flaw = "none"
  /\ version # 0

DeliveredOnNextChunk ==
  \A i \in 1..MaxSent :
    Deliverable(i) /\ received < Written ~> Len(delivered) >= i \/ place = "ended"

(* The inductive invariant: the frames follow one another, the messages     *)
(* delivered are the first of them, and the buffer starts where they end.   *)
Contiguous ==
  \A i \in DOMAIN sent :
    Start(sent[i]) = IF i = 1 THEN 0 ELSE sent[i - 1].ends

Ordered == \A i, j \in DOMAIN sent : i < j => sent[i].ends <= Start(sent[j])

Prefix ==
  /\ Len(delivered) <= Len(sent)
  /\ \A i \in 1..Len(delivered) : delivered[i] = sent[i] /\ sent[i].flaw = "none"

Aligned ==
  consumed = IF delivered = <<>> THEN 0 ELSE sent[Len(delivered)].ends

(* All of it together: what the safety properties follow from. *)
StreamInv ==
  /\ StreamTypeOK
  /\ InBounds
  /\ Contiguous
  /\ Ordered
  /\ Prefix
  /\ Aligned
  /\ DrainedBeforeRecv
=============================================================================
