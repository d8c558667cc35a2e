----------------------------- MODULE Link_proofs ----------------------------
(***************************************************************************)
(* Proofs about the receive loop and about a connection from end to end,   *)
(* for any frames, chunks, versions and partial writes: what is delivered  *)
(* is a prefix of what was sent, and what the network process at the other *)
(* end takes is the first of what was put to the send thread.              *)
(***************************************************************************)
EXTENDS Link, SequenceTheorems, TLAPS

-----------------------------------------------------------------------------
(***************************************************************************)
(* The receive loop.                                                       *)
(***************************************************************************)
(* What the type says of one frame. *)
LEMMA FrameFacts ==
  ASSUME StreamTypeOK
  PROVE  /\ Len(sent) \in Nat /\ DOMAIN sent = 1..Len(sent)
         /\ Len(delivered) \in Nat
         /\ \A i \in 1..Len(sent) :
              /\ sent[i] \in Frame
              /\ sent[i].ends \in Nat
              /\ sent[i].size \in Nat /\ sent[i].size >= HeaderSize /\ sent[i].size > 0
         /\ received \in Nat /\ consumed \in Nat
         /\ HeaderSize \in Nat /\ HeaderSize > 0
  <1>1. sent \in Seq(Frame) /\ delivered \in Seq(Frame)
    BY DEF StreamTypeOK
  <1>2. Len(sent) \in Nat /\ DOMAIN sent = 1..Len(sent) /\ Len(delivered) \in Nat
    BY <1>1, LenProperties
  <1>3. HeaderSize \in Nat /\ HeaderSize > 0
    BY HeaderAssumption
  <1>4. \A i \in 1..Len(sent) : sent[i] \in Frame
    BY <1>1, ElementOfSeq
  <1>5. \A i \in 1..Len(sent) :
          /\ sent[i].ends \in Nat
          /\ sent[i].size \in Nat /\ sent[i].size >= HeaderSize /\ sent[i].size > 0
    <2>1. \A n \in FrameSize : n \in Nat /\ n >= HeaderSize /\ n > 0
      BY <1>3, FrameAssumption
    <2>2. \A i \in 1..Len(sent) : sent[i].ends \in Nat /\ sent[i].size \in FrameSize
      BY <1>4 DEF Frame
    <2> QED
      BY <2>1, <2>2
  <1> QED
    BY <1>2, <1>3, <1>4, <1>5 DEF StreamTypeOK

(* The frame at the head of the buffer is the first not delivered. *)
LEMMA HeadIsNext ==
  ASSUME StreamInv, NEW i \in DOMAIN sent, AtHead(i)
  PROVE  i = Len(delivered) + 1
  <1> DEFINE n == Len(delivered)
             N == Len(sent)
  <1>1. /\ N \in Nat /\ DOMAIN sent = 1..N /\ n \in Nat
        /\ \A k \in 1..N : /\ sent[k].ends \in Nat
                           /\ sent[k].size \in Nat /\ sent[k].size > 0
        /\ consumed \in Nat
    BY FrameFacts DEF StreamInv
  <1>2. n <= N
    BY DEF StreamInv, Prefix
  <1>3. i \in 1..N /\ sent[i].ends - sent[i].size = consumed
    BY <1>1 DEF AtHead, Start
  <1>4. \A j, k \in 1..N : j < k => sent[j].ends <= sent[k].ends - sent[k].size
    BY <1>1 DEF StreamInv, Ordered, Start
  <1>5. \A k \in 1..N :
          sent[k].ends - sent[k].size = IF k = 1 THEN 0 ELSE sent[k - 1].ends
    BY <1>1 DEF StreamInv, Contiguous, Start
  <1>6. consumed = IF n = 0 THEN 0 ELSE sent[n].ends
    <2>1. delivered = <<>> <=> n = 0
      BY EmptySeq, LenProperties DEF StreamInv, StreamTypeOK
    <2> QED
      BY <2>1 DEF StreamInv, Aligned
  <1> HIDE DEF n, N
  <1>7. CASE i < n + 1
    <2>1. n \in 1..N /\ consumed = sent[n].ends
      BY <1>1, <1>2, <1>3, <1>6, <1>7
    <2>2. i < n \/ i = n
      BY <1>1, <1>3, <1>7
    <2>3. i < n => sent[i].ends <= sent[n].ends - sent[n].size
      BY <1>3, <1>4, <2>1
    <2> QED
      BY <1>1, <1>3, <2>1, <2>2, <2>3
  <1>8. CASE i > n + 1
    <2>1. n + 1 \in 1..N /\ n + 1 < i
      BY <1>1, <1>3, <1>8
    <2>2. sent[n + 1].ends <= consumed
      BY <1>3, <1>4, <2>1
    <2>3. sent[n + 1].ends - sent[n + 1].size = consumed
      <3>1. sent[n + 1].ends - sent[n + 1].size
              = IF n + 1 = 1 THEN 0 ELSE sent[(n + 1) - 1].ends
        BY <1>5, <2>1
      <3>2. (n + 1) - 1 = n /\ (n + 1 = 1 <=> n = 0)
        BY <1>1
      <3> QED
        BY <1>6, <3>1, <3>2
    <2> QED
      BY <1>1, <2>1, <2>2, <2>3
  <1> QED
    BY <1>1, <1>3, <1>7, <1>8 DEF n

LEMMA StreamInvInit == Init => StreamInv
  <1> SUFFICES ASSUME Init PROVE StreamInv
    OBVIOUS
  <1>1. /\ sent = <<>> /\ delivered = <<>> /\ Len(sent) = 0 /\ Len(delivered) = 0
        /\ DOMAIN sent = {}
    BY DEF Init
  <1>2. StreamTypeOK
    <2>1. <<>> \in Seq(Frame)
      OBVIOUS
    <2>2. 0 \in Version
      BY VersionAssumption
    <2> QED
      BY <1>1, <2>1, <2>2 DEF Init, StreamTypeOK
  <1>3. InBounds /\ Aligned
    BY <1>1 DEF Init, InBounds, Written, Aligned
  <1>4. Contiguous /\ Ordered /\ DrainedBeforeRecv
    BY <1>1 DEF Contiguous, Ordered, DrainedBeforeRecv
  <1>5. Prefix
    BY <1>1 DEF Prefix
  <1> QED
    BY <1>2, <1>3, <1>4, <1>5 DEF StreamInv

LEMMA RemoteSendStep ==
  ASSUME StreamInv, RemoteSend
  PROVE  StreamInv'
  <1> DEFINE N == Len(sent)
  <1>1. PICK c \in Command, n \in FrameSize, flaw \in Flaw :
          sent' = Append(sent, [command |-> c, size |-> n, flaw |-> flaw,
                                ends |-> Written + n])
    BY DEF RemoteSend
  <1> DEFINE f == [command |-> c, size |-> n, flaw |-> flaw, ends |-> Written + n]
  <1>2. /\ N \in Nat /\ DOMAIN sent = 1..N /\ Len(delivered) \in Nat
        /\ \A k \in 1..N : /\ sent[k].ends \in Nat
                           /\ sent[k].size \in Nat /\ sent[k].size > 0
        /\ consumed \in Nat /\ received \in Nat
        /\ sent \in Seq(Frame)
    BY FrameFacts DEF StreamInv, StreamTypeOK
  <1>3. n \in Nat /\ n > 0
    BY FrameAssumption, HeaderAssumption
  <1>4. Written = IF N = 0 THEN 0 ELSE sent[N].ends
    BY <1>2, EmptySeq, LenProperties DEF Written
  <1>5. Written \in Nat
    BY <1>2, <1>4
  <1>6. f \in Frame /\ f.ends = Written + n /\ Start(f) = Written
    BY <1>3, <1>5 DEF Frame, Start
  <1>7. /\ sent' \in Seq(Frame) /\ Len(sent') = N + 1 /\ DOMAIN sent' = 1..(N + 1)
        /\ \A k \in 1..N : sent'[k] = sent[k]
        /\ sent'[N + 1] = f
    <2>1. Append(sent, f) \in Seq(Frame)
      BY <1>2, <1>6, AppendProperties
    <2> QED
      BY <1>1, <1>2, <1>6, <2>1, AppendProperties, LenProperties
  <1>8. UNCHANGED <<closed, received, consumed, version, interrupted, place, delivered, decodedAt>>
    BY DEF RemoteSend, flagVars
  <1> HIDE DEF N, f
  <1>9. StreamTypeOK'
    BY <1>7, <1>8 DEF StreamInv, StreamTypeOK
  <1>10. Written' = Written + n
    <2>1. sent' # <<>>
      BY <1>2, <1>7, EmptySeq
    <2> QED
      BY <1>6, <1>7, <2>1 DEF Written
  <1>11. InBounds'
    BY <1>2, <1>3, <1>5, <1>8, <1>10 DEF StreamInv, InBounds
  <1>12. \A k \in 1..N : Start(sent'[k]) = Start(sent[k])
    BY <1>7 DEF Start
  <1>13. Contiguous'
    <2> SUFFICES ASSUME NEW i \in 1..(N + 1)
                 PROVE  Start(sent'[i]) = IF i = 1 THEN 0 ELSE sent'[i - 1].ends
      BY <1>7 DEF Contiguous, Start
    <2>1. CASE i = N + 1
      <3>1. Start(sent'[i]) = IF N = 0 THEN 0 ELSE sent[N].ends
        BY <1>4, <1>6, <1>7, <2>1
      <3>2. N # 0 => sent'[i - 1] = sent[N]
        BY <1>2, <1>7, <2>1
      <3> QED
        BY <1>2, <2>1, <3>1, <3>2
    <2>2. CASE i \in 1..N
      <3>1. Start(sent[i]) = IF i = 1 THEN 0 ELSE sent[i - 1].ends
        BY <1>2, <2>2 DEF StreamInv, Contiguous
      <3>2. i # 1 => sent'[i - 1] = sent[i - 1]
        <4>1. i # 1 => i - 1 \in 1..N
          BY <1>2, <2>2
        <4> QED
          BY <1>7, <4>1
      <3> QED
        BY <1>12, <2>2, <3>1, <3>2
    <2> QED
      BY <1>2, <2>1, <2>2
  <1>14. \A i \in 1..N : sent[i].ends <= Written
    <2> SUFFICES ASSUME NEW i \in 1..N PROVE sent[i].ends <= Written
      OBVIOUS
    <2>1. i = N \/ i < N
      BY <1>2
    <2>2. N \in 1..N /\ Written = sent[N].ends
      BY <1>2, <1>4
    <2>3. i < N => sent[i].ends <= sent[N].ends - sent[N].size
      BY <1>2, <2>2 DEF StreamInv, Ordered, Start
    <2> QED
      BY <1>2, <2>1, <2>2, <2>3
  <1>15. Ordered'
    <2> SUFFICES ASSUME NEW i \in 1..(N + 1), NEW j \in 1..(N + 1), i < j
                 PROVE  sent'[i].ends <= Start(sent'[j])
      BY <1>7 DEF Ordered, Start
    <2>1. i \in 1..N
      BY <1>2
    <2>2. CASE j = N + 1
      BY <1>6, <1>7, <1>14, <2>1, <2>2
    <2>3. CASE j \in 1..N
      <3>1. sent[i].ends <= Start(sent[j])
        BY <1>2, <2>1, <2>3 DEF StreamInv, Ordered
      <3> QED
        BY <1>7, <1>12, <2>1, <2>3, <3>1
    <2> QED
      BY <1>2, <2>2, <2>3
  <1>16. Len(delivered) <= N /\ \A i \in 1..Len(delivered) :
           i \in 1..N /\ delivered[i] = sent[i] /\ sent[i].flaw = "none"
    <2>1. Len(delivered) <= N
      BY DEF StreamInv, Prefix, N
    <2> QED
      BY <1>2, <2>1 DEF StreamInv, Prefix
  <1>17. Prefix'
    BY <1>2, <1>7, <1>8, <1>16 DEF Prefix
  <1>18. Aligned'
    <2>1. delivered # <<>> => Len(delivered) \in 1..N
      BY <1>2, <1>16, EmptySeq, LenProperties DEF StreamInv, StreamTypeOK
    <2> QED
      BY <1>7, <1>8, <2>1 DEF StreamInv, Aligned
  <1>19. DrainedBeforeRecv'
    <2> SUFFICES ASSUME place = "recv", NEW i \in 1..(N + 1), Complete(i)'
                 PROVE  sent'[i].flaw = "crc" \/ (decodedAt = 0 /\ sent'[i].command # "version")
      BY <1>7, <1>8 DEF DrainedBeforeRecv
    <2>1. sent'[i].ends <= received
      BY <1>8 DEF Complete
    <2>2. i # N + 1
      BY <1>2, <1>3, <1>5, <1>6, <1>7, <2>1 DEF StreamInv, InBounds
    <2>3. i \in 1..N /\ sent'[i] = sent[i]
      BY <1>2, <1>7, <2>2
    <2>4. Complete(i)
      BY <1>2, <1>8, <2>1, <2>3 DEF Complete, AtHead, Start
    <2> QED
      BY <1>2, <2>3, <2>4 DEF StreamInv, DrainedBeforeRecv
  <1> QED
    BY <1>9, <1>11, <1>13, <1>15, <1>17, <1>18, <1>19 DEF StreamInv

LEMMA RecvStep ==
  ASSUME StreamInv, Recv
  PROVE  StreamInv'
  <1>1. PICK n \in 1..ChunkSize : received + n <= Written /\ received' = received + n
    BY DEF Recv
  <1>2. /\ place' = "decode"
        /\ UNCHANGED <<sent, closed, consumed, version, interrupted, delivered, decodedAt>>
    BY DEF Recv, remoteVars, flagVars
  <1>3. n \in Nat /\ received \in Nat /\ consumed \in Nat
    BY ChunkAssumption, FrameFacts DEF StreamInv
  <1>4. StreamTypeOK'
    BY <1>1, <1>2, <1>3 DEF StreamInv, StreamTypeOK
  <1>5. Written' = Written
    BY <1>2 DEF Written
  <1>6. InBounds'
    BY <1>1, <1>2, <1>3, <1>5 DEF StreamInv, InBounds
  <1>7. Contiguous' /\ Ordered' /\ Prefix' /\ Aligned'
    BY <1>2 DEF StreamInv, Contiguous, Ordered, Prefix, Aligned, Start
  <1>8. DrainedBeforeRecv'
    BY <1>2 DEF DrainedBeforeRecv
  <1> QED
    BY <1>4, <1>6, <1>7, <1>8 DEF StreamInv

(* Back to recv(): the head of the buffer is incomplete, or is kept.       *)
LEMMA DecodeNothingStep ==
  ASSUME StreamInv, DecodeNothing
  PROVE  StreamInv'
  <1>1. /\ place' = "recv" /\ decodedAt' = version
        /\ UNCHANGED <<sent, closed, received, consumed, version, interrupted, delivered>>
    BY DEF DecodeNothing, Decode, remoteVars, flagVars
  <1>2. StreamTypeOK'
    BY <1>1 DEF StreamInv, StreamTypeOK
  <1>3. InBounds' /\ Contiguous' /\ Ordered' /\ Prefix' /\ Aligned'
    BY <1>1 DEF StreamInv, InBounds, Written, Contiguous, Ordered, Prefix, Aligned, Start
  <1>4. ASSUME NEW i \in DOMAIN sent, Complete(i)
        PROVE  sent[i].flaw = "crc" \/ (version = 0 /\ sent[i].command # "version")
    <2>1. AtHead(i) /\ sent[i].ends <= received /\ sent[i].ends - sent[i].size = consumed
      BY <1>4 DEF Complete, AtHead, Start
    <2>2. HeaderComplete
      <3>1. /\ sent[i].ends \in Nat /\ sent[i].size \in Nat /\ sent[i].size >= HeaderSize
            /\ received \in Nat /\ consumed \in Nat /\ HeaderSize \in Nat
        BY FrameFacts DEF StreamInv
      <3> QED
        BY <2>1, <3>1 DEF HeaderComplete
    <2>3. ASSUME NEW k \in DOMAIN sent, AtHead(k) PROVE k = i
      BY <2>1, <2>3, HeadIsNext
    <2>4. ASSUME NEW k \in DOMAIN sent, AtHead(k), received < sent[k].ends PROVE FALSE
      <3>1. k = i
        BY <2>3, <2>4
      <3>2. sent[i].ends \in Nat /\ received \in Nat
        BY FrameFacts DEF StreamInv
      <3> QED
        BY <2>1, <2>4, <3>1, <3>2
    <2>5. PICK k \in DOMAIN sent : Kept(k)
      BY <2>2, <2>4 DEF DecodeNothing, Incomplete
    <2>6. k = i
      BY <2>3, <2>5 DEF Kept, Complete
    <2> QED
      BY <2>5, <2>6 DEF Kept, Early
  <1>5. DrainedBeforeRecv'
    <2>1. \A i : Complete(i)' <=> Complete(i)
      BY <1>1 DEF Complete, AtHead, Start
    <2> QED
      BY <1>1, <1>4, <2>1 DEF DrainedBeforeRecv
  <1> QED
    BY <1>2, <1>3, <1>5 DEF StreamInv

(* What DecodeMessage takes is the first message not delivered.            *)
LEMMA DecodeMessageTakes ==
  ASSUME StreamInv, DecodeMessage
  PROVE  LET i == Len(delivered) + 1
         IN  /\ i \in 1..Len(sent)
             /\ sent[i].flaw = "none" /\ sent[i].ends <= received
             /\ consumed' = sent[i].ends
             /\ delivered' = Append(delivered, sent[i])
             /\ place = "decode" /\ place' = "decode"
  <1>1. PICK i \in DOMAIN sent :
          /\ Complete(i) /\ Sound(i)
          /\ consumed' = sent[i].ends
          /\ delivered' = Append(delivered, sent[i])
    BY DEF DecodeMessage, Remaining
  <1>2. i = Len(delivered) + 1
    BY <1>1, HeadIsNext DEF Complete
  <1>3. i \in 1..Len(sent)
    BY FrameFacts DEF StreamInv
  <1>4. sent[i].flaw = "none" /\ sent[i].ends <= received
    BY <1>1 DEF Complete, Sound
  <1>5. place = "decode" /\ place' = "decode"
    BY DEF DecodeMessage, Decode
  <1> QED
    BY <1>1, <1>2, <1>3, <1>4, <1>5

LEMMA DecodeMessageStep ==
  ASSUME StreamInv, DecodeMessage
  PROVE  StreamInv'
  <1> DEFINE i == Len(delivered) + 1
  <1>1. /\ i \in 1..Len(sent)
        /\ sent[i].flaw = "none" /\ sent[i].ends <= received
        /\ consumed' = sent[i].ends
        /\ delivered' = Append(delivered, sent[i])
        /\ place' = "decode"
    BY DecodeMessageTakes
  <1>2. /\ decodedAt' = version
        /\ UNCHANGED <<sent, closed, received, version, interrupted>>
    BY DEF DecodeMessage, Decode, remoteVars, flagVars
  <1>3. /\ sent[i] \in Frame /\ sent[i].ends \in Nat /\ delivered \in Seq(Frame)
        /\ Len(delivered) \in Nat /\ received \in Nat
    BY <1>1, FrameFacts DEF StreamInv, StreamTypeOK
  <1>4. /\ delivered' \in Seq(Frame) /\ Len(delivered') = i
        /\ \A k \in 1..Len(delivered) : delivered'[k] = delivered[k]
        /\ delivered'[i] = sent[i]
    BY <1>1, <1>3, AppendProperties
  <1>5. StreamTypeOK'
    BY <1>1, <1>2, <1>3, <1>4 DEF StreamInv, StreamTypeOK
  <1>6. InBounds'
    BY <1>1, <1>2 DEF StreamInv, InBounds, Written
  <1>7. Contiguous' /\ Ordered'
    BY <1>2 DEF StreamInv, Contiguous, Ordered, Start
  <1>8. Prefix'
    <2>1. i <= Len(sent)
      BY <1>1
    <2>2. \A k \in 1..i : delivered'[k] = sent[k] /\ sent[k].flaw = "none"
      <3> SUFFICES ASSUME NEW k \in 1..i
                   PROVE  delivered'[k] = sent[k] /\ sent[k].flaw = "none"
        OBVIOUS
      <3>1. k = i \/ k \in 1..Len(delivered)
        BY <1>3
      <3>2. k \in 1..Len(delivered) => delivered[k] = sent[k] /\ sent[k].flaw = "none"
        BY DEF StreamInv, Prefix
      <3> QED
        BY <1>1, <1>4, <3>1, <3>2
    <2> QED
      BY <1>2, <1>4, <2>1, <2>2 DEF Prefix
  <1>9. Aligned'
    <2>1. delivered' # <<>>
      BY <1>3, <1>4, EmptySeq
    <2> QED
      BY <1>1, <1>2, <1>4, <2>1 DEF Aligned
  <1>10. DrainedBeforeRecv'
    BY <1>1 DEF DrainedBeforeRecv
  <1> QED
    BY <1>5, <1>6, <1>7, <1>8, <1>9, <1>10 DEF StreamInv

(* The steps that leave the stream and the buffer alone.                   *)
LEMMA QuietStep ==
  ASSUME StreamInv,
         \/ RemoteClose \/ SetVersion \/ Interrupt
         \/ RecvEnd \/ RecvError \/ EndInterrupted \/ DecodeRaises
         \/ UNCHANGED vars
  PROVE  StreamInv'
  <1>1. /\ UNCHANGED <<sent, received, consumed, delivered>>
        /\ closed' \in BOOLEAN /\ interrupted' \in BOOLEAN
        /\ version' \in Version /\ decodedAt' \in Version
        /\ place' \in {"recv", "decode", "ended"}
        /\ place' = "recv" => place = "recv" /\ decodedAt' = decodedAt
    BY DEF RemoteClose, SetVersion, Interrupt, RecvEnd, RecvError, EndInterrupted,
           DecodeRaises, Decode, End, vars, remoteVars, flagVars, StreamInv, StreamTypeOK
  <1>2. StreamTypeOK'
    BY <1>1 DEF StreamInv, StreamTypeOK
  <1>3. InBounds' /\ Contiguous' /\ Ordered' /\ Prefix' /\ Aligned'
    BY <1>1 DEF StreamInv, InBounds, Written, Contiguous, Ordered, Prefix, Aligned, Start
  <1>4. DrainedBeforeRecv'
    <2>1. \A i : Complete(i)' <=> Complete(i)
      BY <1>1 DEF Complete, AtHead, Start
    <2> QED
      BY <1>1, <2>1 DEF StreamInv, DrainedBeforeRecv
  <1> QED
    BY <1>2, <1>3, <1>4 DEF StreamInv

LEMMA StreamInvNext == StreamInv /\ [Next]_vars => StreamInv'
  BY RemoteSendStep, RecvStep, DecodeNothingStep, DecodeMessageStep, QuietStep
     DEF Next, PeerStep

-----------------------------------------------------------------------------
(* The frames delivered are the first of those sent, and the buffer starts *)
(* where they end, whatever the sizes of frames and chunks.                *)
THEOREM StreamInvariant == Spec => []StreamInv
  BY StreamInvInit, StreamInvNext, PTL DEF Spec

(* The inner loop leaves nothing in the buffer that could be delivered at  *)
(* the version it last saw.                                                *)
THEOREM BufferDrained == Spec => []DrainedBeforeRecv
  BY StreamInvariant, PTL DEF StreamInv

(* Nothing behind a message the decoder does not take is delivered.        *)
THEOREM StopsAtFlaw == Spec => []NothingPastFlaw
  <1>1. StreamInv => NothingPastFlaw
    <2> SUFFICES ASSUME StreamInv, NEW i \in DOMAIN sent, sent[i].flaw # "none"
                 PROVE  Len(delivered) < i
      BY DEF NothingPastFlaw
    <2>1. i \in Nat /\ i >= 1 /\ Len(delivered) \in Nat
      BY FrameFacts DEF StreamInv
    <2>2. i \notin 1..Len(delivered)
      BY DEF StreamInv, Prefix
    <2> QED
      BY <2>1, <2>2
  <1> QED
    BY StreamInvariant, <1>1, PTL

(* The receive loop implements the channel: messages in order, each once,  *)
(* none left out.                                                          *)
THEOREM StreamImplementsChannel == Spec => ReceivesInOrder
  <1>1. Init => Channel!Init
    BY DEF Init, Channel!Init
  <1>2. StreamInv /\ StreamInv' /\ [Next]_vars => [Channel!Next]_(Channel!vars)
    <2> SUFFICES ASSUME StreamInv, StreamInv', [Next]_vars
                 PROVE  Channel!Next \/ UNCHANGED Channel!vars
      OBVIOUS
    <2>1. CASE RemoteSend
      <3>1. UNCHANGED <<delivered, place>>
        BY <2>1 DEF RemoteSend
      <3>2. /\ Len(sent') = Len(sent) + 1
            /\ sent'[Len(sent) + 1] \in Frame
            /\ sent' = Append(sent, sent'[Len(sent) + 1])
        <4>1. PICK f : sent' = Append(sent, f)
          BY <2>1 DEF RemoteSend
        <4>2. sent \in Seq(Frame) /\ sent' \in Seq(Frame) /\ Len(sent) \in Nat
          BY FrameFacts DEF StreamInv, StreamTypeOK
        <4>3. Len(sent') = Len(sent) + 1 /\ sent'[Len(sent) + 1] = f
          BY <4>1, <4>2
        <4>4. sent'[Len(sent) + 1] \in Frame
          BY <4>2, <4>3, ElementOfSeq
        <4> QED
          BY <4>1, <4>3, <4>4
      <3>3. Channel!Send
        BY <3>1, <3>2 DEF Channel!Send
      <3> QED
        BY <3>3 DEF Channel!Next
    <2>2. CASE DecodeMessage
      <3>1. /\ place # "ended" /\ place' = place
            /\ Len(delivered) + 1 \in 1..Len(sent)
            /\ delivered' = Append(delivered, sent[Len(delivered) + 1])
        BY <2>2, DecodeMessageTakes
      <3>2. sent' = sent
        BY <2>2 DEF DecodeMessage, remoteVars
      <3>3. Len(delivered) < Len(sent)
        BY <3>1, FrameFacts DEF StreamInv
      <3>4. Channel!Deliver
        BY <3>1, <3>2, <3>3 DEF Channel!Deliver
      <3> QED
        BY <3>4 DEF Channel!Next
    <2>3. CASE RecvEnd \/ RecvError \/ EndInterrupted \/ DecodeRaises
      <3>1. place # "ended" /\ place' = "ended" /\ UNCHANGED <<sent, delivered>>
        BY <2>3 DEF RecvEnd, RecvError, EndInterrupted, DecodeRaises, Decode, End, remoteVars
      <3>2. Channel!End
        BY <3>1 DEF Channel!End
      <3> QED
        BY <3>2 DEF Channel!Next
    <2>4. CASE RemoteClose \/ SetVersion \/ Interrupt \/ UNCHANGED vars
      <3>1. UNCHANGED <<sent, delivered, place>>
        BY <2>4 DEF RemoteClose, SetVersion, Interrupt, vars, remoteVars
      <3> QED
        BY <3>1 DEF Channel!vars
    <2>5. CASE Recv \/ DecodeNothing
      <3>1. UNCHANGED <<sent, delivered>> /\ place # "ended" /\ place' # "ended"
        BY <2>5 DEF Recv, DecodeNothing, Decode, remoteVars
      <3> QED
        BY <3>1 DEF Channel!vars
    <2> QED
      BY <2>1, <2>2, <2>3, <2>4, <2>5 DEF Next, PeerStep
  <1> QED
    BY StreamInvariant, <1>1, <1>2, PTL DEF Spec, ReceivesInOrder, Channel!Spec

-----------------------------------------------------------------------------
(***************************************************************************)
(* The send loop on the other side of it.                                  *)
(***************************************************************************)

(* A frame without its place in the stream. *)
PlainFrame(f) == [command |-> f.command, size |-> f.size, flaw |-> f.flaw]

PlainSet == [command : Command, size : FrameSize, flaw : Flaw]

LEMMA PlainElements ==
  ASSUME NEW s \in Seq(Frame)
  PROVE  /\ Plain(s) \in Seq(PlainSet) /\ Len(Plain(s)) = Len(s)
         /\ \A i \in 1..Len(s) : Plain(s)[i] = PlainFrame(s[i])
  <1>1. Len(s) \in Nat /\ DOMAIN s = 1..Len(s)
    BY LenProperties
  <1>2. Plain(s) = [i \in 1..Len(s) |-> PlainFrame(s[i])]
    BY <1>1 DEF Plain, PlainFrame
  <1>3. \A i \in 1..Len(s) : PlainFrame(s[i]) \in PlainSet
    <2> SUFFICES ASSUME NEW i \in 1..Len(s) PROVE PlainFrame(s[i]) \in PlainSet
      OBVIOUS
    <2>1. s[i] \in Frame
      BY ElementOfSeq
    <2> QED
      BY <2>1 DEF PlainFrame, PlainSet, Frame
  <1>4. Plain(s) \in [1..Len(s) -> PlainSet]
    BY <1>2, <1>3
  <1>5. Plain(s) \in Seq(PlainSet)
    BY <1>1, <1>4, SeqDef
  <1>6. Len(Plain(s)) = Len(s)
    <2>1. DOMAIN Plain(s) = 1..Len(s) /\ DOMAIN Plain(s) = 1..Len(Plain(s))
          /\ Len(Plain(s)) \in Nat
      BY <1>4, <1>5, LenProperties
    <2> QED
      BY <1>1, <2>1
  <1> QED
    BY <1>2, <1>5, <1>6

LEMMA PlainAppend ==
  ASSUME NEW s \in Seq(Frame), NEW f \in Frame
  PROVE  Plain(Append(s, f)) = Append(Plain(s), PlainFrame(f))
  <1> DEFINE t == Append(s, f)
             u == Append(Plain(s), PlainFrame(f))
  <1>1. /\ t \in Seq(Frame) /\ Len(t) = Len(s) + 1 /\ Len(s) \in Nat
        /\ \A i \in 1..Len(s) : t[i] = s[i]
        /\ t[Len(s) + 1] = f
    BY AppendProperties, LenProperties
  <1>2. PlainFrame(f) \in PlainSet
    BY DEF PlainFrame, PlainSet, Frame
  <1>3. /\ Plain(s) \in Seq(PlainSet) /\ Len(Plain(s)) = Len(s)
        /\ \A i \in 1..Len(s) : Plain(s)[i] = PlainFrame(s[i])
    BY PlainElements
  <1>4. /\ u \in Seq(PlainSet) /\ Len(u) = Len(s) + 1
        /\ \A i \in 1..Len(s) : u[i] = Plain(s)[i]
        /\ u[Len(s) + 1] = PlainFrame(f)
    BY <1>2, <1>3, AppendProperties
  <1> HIDE DEF t, u
  <1>5. /\ Plain(t) \in Seq(PlainSet) /\ Len(Plain(t)) = Len(s) + 1
        /\ \A i \in 1..(Len(s) + 1) : Plain(t)[i] = PlainFrame(t[i])
    BY <1>1, PlainElements
  <1>6. ASSUME NEW i \in 1..(Len(s) + 1) PROVE Plain(t)[i] = u[i]
    <2>1. i \in 1..Len(s) \/ i = Len(s) + 1
      BY <1>1
    <2> QED
      BY <1>1, <1>3, <1>4, <1>5, <2>1
  <1>7. Plain(t) = u
    BY <1>4, <1>5, <1>6, SeqEqual
  <1> QED
    BY <1>7 DEF t, u

-----------------------------------------------------------------------------
(* A send thread is a remote end as MessageStream allows any: its writes    *)
(* are among the steps there are.                                           *)
LEMMA WritesAreSends ==
  ASSUME LinkInv, NEW flaw \in Flaw, Writes(flaw)
  PROVE  /\ RemoteSend
         /\ Len(sent) + 1 <= Len(queued)
         /\ \E n \in Nat :
              sent' = Append(sent, [command |-> queued[Len(sent) + 1].command,
                                    size |-> queued[Len(sent) + 1].size,
                                    flaw |-> flaw, ends |-> n])
  <1> DEFINE m == queued[Len(sent) + 1]
  <1>1. /\ Len(sent) \in Nat /\ Len(queued) \in Nat /\ MaxSent \in Nat
        /\ queued \in Seq(Message) /\ Len(queued) <= MaxSent
        /\ Len(sent) < Len(queued) /\ ~closed
    BY FrameFacts, LenProperties, SentAssumption DEF LinkInv, StreamInv, Writes
  <1>2. m \in Message
    BY <1>1, ElementOfSeq
  <1>3. m.command \in Command /\ m.size \in FrameSize /\ m.size \in Nat
    BY <1>2, FrameAssumption DEF Message
  <1>4. sent' = Append(sent, [command |-> m.command, size |-> m.size, flaw |-> flaw,
                              ends |-> Written + m.size])
    BY DEF Writes
  <1>5. Written \in Nat
    <2>1. sent \in Seq(Frame) /\ (sent # <<>> => Len(sent) \in 1..Len(sent))
      BY EmptySeq DEF LinkInv, StreamInv, StreamTypeOK
    <2> QED
      BY <2>1, FrameFacts DEF LinkInv, StreamInv, Written
  <1>6. UNCHANGED <<closed, received, consumed, flagVars, place, delivered, decodedAt>>
    BY DEF Writes
  <1> HIDE DEF m
  <1>7. RemoteSend
    BY <1>1, <1>3, <1>4, <1>6 DEF RemoteSend
  <1>8. Len(sent) + 1 <= Len(queued)
    BY <1>1
  <1>9. Written + m.size \in Nat
    BY <1>3, <1>5
  <1> QED
    BY <1>4, <1>7, <1>8, <1>9 DEF m

LEMMA LinkStepIsStreamStep ==
  ASSUME LinkInv, [LinkNext]_linkVars
  PROVE  [Next]_vars
  <1>1. CASE AnySends
    BY <1>1 DEF AnySends, Next
  <1>2. CASE QueueMessage
    BY <1>2 DEF QueueMessage
  <1>3. CASE WriteWhole \/ WritePartly
    <2>1. PICK flaw \in Flaw : Writes(flaw)
      BY <1>3 DEF WriteWhole, WritePartly, Garbled, Flaw
    <2> QED
      BY <2>1, WritesAreSends DEF Next
  <1>4. CASE UNCHANGED linkVars
    BY <1>4 DEF linkVars
  <1> QED
    BY <1>1, <1>2, <1>3, <1>4 DEF LinkNext, Next

LEMMA LinkInvInit == LinkInit => LinkInv
  <1> SUFFICES ASSUME LinkInit PROVE LinkInv
    OBVIOUS
  <1>1. StreamInv
    BY StreamInvInit DEF LinkInit
  <1>2. sent = <<>> /\ queued = <<>> /\ Len(sent) = 0 /\ Len(queued) = 0 /\ DOMAIN sent = {}
    BY DEF LinkInit, Init
  <1>3. queued \in Seq(Message) /\ Len(queued) <= MaxSent
    BY <1>2, SentAssumption
  <1>4. SentFromQueue
    BY <1>2 DEF SentFromQueue
  <1> QED
    BY <1>1, <1>3, <1>4 DEF LinkInit, LinkInv

LEMMA LinkInvNext == LinkInv /\ [LinkNext]_linkVars => LinkInv'
  <1> SUFFICES ASSUME LinkInv, [LinkNext]_linkVars PROVE LinkInv'
    OBVIOUS
  <1>1. StreamInv'
    BY LinkStepIsStreamStep, StreamInvNext DEF LinkInv
  <1>2. origin' = origin
    BY DEF LinkNext, AnySends, QueueMessage, WriteWhole, WritePartly, Writes, linkVars
  <1>3. /\ Len(sent) \in Nat /\ DOMAIN sent = 1..Len(sent) /\ sent \in Seq(Frame)
        /\ queued \in Seq(Message) /\ Len(queued) \in Nat
    BY FrameFacts, LenProperties DEF LinkInv, StreamInv, StreamTypeOK
  <1>4. CASE QueueMessage
    <2>1. PICK m \in Message : queued' = Append(queued, m)
      BY <1>4 DEF QueueMessage
    <2>2. Len(queued) < MaxSent /\ sent' = sent
      BY <1>4 DEF QueueMessage, vars
    <2>3. /\ queued' \in Seq(Message) /\ Len(queued') = Len(queued) + 1
          /\ \A i \in 1..Len(queued) : queued'[i] = queued[i]
      BY <1>3, <2>1, AppendProperties
    <2>4. Len(queued') <= MaxSent
      BY <1>3, <2>2, <2>3, SentAssumption
    <2>5. origin = "peer" => SentFromQueue'
      <3>1. SUFFICES ASSUME SentFromQueue PROVE SentFromQueue'
        BY DEF LinkInv
      <3>2. \A i \in DOMAIN sent : i \in 1..Len(queued)
        BY <1>3, <3>1 DEF SentFromQueue
      <3> QED
        BY <1>3, <2>2, <2>3, <3>1, <3>2 DEF SentFromQueue
    <2> QED
      BY <1>1, <1>2, <2>3, <2>4, <2>5 DEF LinkInv
  <1>5. CASE WriteWhole \/ WritePartly
    <2>1. PICK flaw \in Flaw : Writes(flaw)
      BY <1>5 DEF WriteWhole, WritePartly, Garbled, Flaw
    <2>2. PICK n \in Nat :
            sent' = Append(sent, [command |-> queued[Len(sent) + 1].command,
                                  size |-> queued[Len(sent) + 1].size,
                                  flaw |-> flaw, ends |-> n])
      BY <2>1, WritesAreSends
    <2>3. queued' = queued /\ origin = "peer" /\ Len(sent) + 1 <= Len(queued)
      BY <2>1, WritesAreSends DEF Writes
    <2> DEFINE f == [command |-> queued[Len(sent) + 1].command,
                     size |-> queued[Len(sent) + 1].size, flaw |-> flaw, ends |-> n]
    <2>4. /\ sent' = Append(sent, f)
          /\ f.command = queued[Len(sent) + 1].command
          /\ f.size = queued[Len(sent) + 1].size
      BY <2>2
    <2> HIDE DEF f
    <2>5. sent' \in Seq(Frame)
      BY <1>1 DEF StreamInv, StreamTypeOK
    <2>6. /\ Len(sent') = Len(sent) + 1 /\ DOMAIN sent' = 1..(Len(sent) + 1)
          /\ \A i \in 1..Len(sent) : sent'[i] = sent[i]
          /\ sent'[Len(sent) + 1] = f
      BY <1>3, <2>4, <2>5, LenProperties
    <2>7. SentFromQueue
      BY <2>3 DEF LinkInv
    <2>8. SentFromQueue'
      <3>1. ASSUME NEW i \in 1..(Len(sent) + 1)
            PROVE  /\ sent'[i].command = queued[i].command
                   /\ sent'[i].size = queued[i].size
        <4>1. i \in 1..Len(sent) \/ i = Len(sent) + 1
          BY <1>3
        <4> QED
          BY <1>3, <2>4, <2>6, <2>7, <4>1 DEF SentFromQueue
      <3> QED
        BY <2>3, <2>6, <3>1 DEF SentFromQueue
    <2> QED
      BY <1>1, <1>2, <2>3, <2>8 DEF LinkInv
  <1>6. CASE UNCHANGED <<sent, queued>>
    BY <1>1, <1>2, <1>6 DEF LinkInv, SentFromQueue
  <1>7. CASE AnySends
    <2>1. origin = "any" /\ queued' = queued
      BY <1>7 DEF AnySends
    <2> QED
      BY <1>1, <1>2, <2>1 DEF LinkInv
  <1>8. ASSUME ~QueueMessage, ~WriteWhole, ~WritePartly, ~AnySends
        PROVE  UNCHANGED <<sent, queued>>
    BY <1>8 DEF LinkNext, linkVars, vars, remoteVars, RemoteClose, SetVersion, Interrupt,
                PeerStep, Recv, RecvEnd, RecvError, EndInterrupted, DecodeNothing,
                DecodeRaises, DecodeMessage, Decode, End
  <1> QED
    BY <1>4, <1>5, <1>6, <1>7, <1>8

-----------------------------------------------------------------------------
(* With a send thread of the program at the other end, a connection behaves *)
(* as MessageStream has it: what is proved of any remote end holds.         *)
THEOREM LinkIsStream == LinkSpec => Spec
  <1>1. LinkInit => Init
    BY DEF LinkInit
  <1>2. LinkInv /\ [LinkNext]_linkVars => [Next]_vars
    BY LinkStepIsStreamStep
  <1> QED
    BY LinkInvInit, LinkInvNext, <1>1, <1>2, PTL DEF Spec, LinkSpec

(* From the queue of a send thread to the network process at the other end, *)
(* messages arrive in their order, each once, none left out and none but    *)
(* those queued, whatever send() takes at a time and however the bytes are  *)
(* cut into chunks.                                                         *)
THEOREM LinkDeliversQueue == LinkSpec => EndToEnd
  <1> DEFINE S == IF origin = "peer" THEN queued ELSE Plain(sent)
             E == Plain(delivered)
  <1>1. LinkInit => EndChannel!Init
    <2>1. Plain(<<>>) = <<>>
      BY DEF Plain
    <2> QED
      BY <2>1 DEF LinkInit, Init, EndChannel!Init
  <1>2. ASSUME LinkInv, LinkInv', [LinkNext]_linkVars
        PROVE  EndChannel!Next \/ UNCHANGED EndChannel!vars
    <2>1. /\ StreamInv /\ sent \in Seq(Frame) /\ delivered \in Seq(Frame)
          /\ sent' \in Seq(Frame) /\ delivered' \in Seq(Frame)
          /\ queued \in Seq(Message) /\ queued' \in Seq(Message)
          /\ Len(sent) \in Nat /\ Len(queued) \in Nat /\ Len(delivered) \in Nat
          /\ DOMAIN sent = 1..Len(sent)
      BY <1>2, FrameFacts, LenProperties DEF LinkInv, StreamInv, StreamTypeOK
    <2>2. CASE AnySends
      <3>1. /\ origin = "any" /\ origin' = "any"
            /\ UNCHANGED <<delivered, place>>
        BY <2>2 DEF AnySends, RemoteSend
      <3>2. PICK f : sent' = Append(sent, f)
        BY <2>2 DEF AnySends, RemoteSend
      <3>3. f \in Frame
        <4>1. Len(sent') = Len(sent) + 1 /\ sent'[Len(sent) + 1] = f
          BY <2>1, <3>2
        <4> QED
          BY <2>1, <4>1, ElementOfSeq
      <3>4. S' = Append(S, PlainFrame(f)) /\ S = Plain(sent)
        BY <2>1, <3>1, <3>2, <3>3, PlainAppend
      <3>5. PlainFrame(f) \in PlainSet /\ S \in Seq(PlainSet)
        BY <2>1, <3>3, <3>4, PlainElements DEF PlainFrame, PlainSet, Frame
      <3> HIDE DEF S
      <3>6. Len(S') = Len(S) + 1 /\ S'[Len(S) + 1] = PlainFrame(f)
        BY <3>4, <3>5, AppendProperties
      <3>7. EndChannel!Send
        BY <3>1, <3>4, <3>5, <3>6 DEF EndChannel!Send, S, PlainSet
      <3> QED
        BY <3>7 DEF EndChannel!Next
    <2>3. CASE QueueMessage
      <3>1. /\ origin = "peer" /\ origin' = "peer" /\ UNCHANGED <<delivered, place>>
        BY <2>3 DEF QueueMessage, vars
      <3>2. PICK m \in Message : queued' = Append(queued, m)
        BY <2>3 DEF QueueMessage
      <3>3. Len(queued') = Len(queued) + 1 /\ queued'[Len(queued) + 1] = m
        BY <2>1, <3>2, AppendProperties
      <3>4. m \in PlainSet
        BY <3>2 DEF Message, PlainSet, Flaw
      <3>5. EndChannel!Send
        BY <3>1, <3>2, <3>3, <3>4 DEF EndChannel!Send, PlainSet
      <3> QED
        BY <3>5 DEF EndChannel!Next
    <2>4. CASE WriteWhole \/ WritePartly
      <3>1. origin = "peer" /\ UNCHANGED <<origin, queued, delivered, place>>
        BY <2>4 DEF WriteWhole, WritePartly, Writes
      <3> QED
        BY <3>1 DEF EndChannel!vars
    <2>5. CASE DecodeMessage /\ UNCHANGED <<origin, queued>>
      <3> DEFINE i == Len(delivered) + 1
      <3>1. /\ i \in 1..Len(sent) /\ sent[i].flaw = "none"
            /\ delivered' = Append(delivered, sent[i])
            /\ place # "ended" /\ place' = place
        BY <2>1, <2>5, DecodeMessageTakes
      <3>2. sent' = sent /\ S' = S
        BY <2>5 DEF DecodeMessage, remoteVars
      <3>3. sent[i] \in Frame
        BY <2>1, <3>1, ElementOfSeq
      <3>4. E' = Append(E, PlainFrame(sent[i])) /\ Len(E) = Len(delivered)
        BY <2>1, <3>1, <3>3, PlainAppend, PlainElements
      <3>5. i <= Len(S) /\ S[i] = PlainFrame(sent[i])
        <4>1. CASE origin = "peer"
          <5>1. SentFromQueue /\ S = queued
            BY <1>2, <4>1 DEF LinkInv
          <5>2. i \in 1..Len(queued)
            BY <2>1, <3>1, <5>1 DEF SentFromQueue
          <5>3. queued[i] \in Message
            BY <2>1, <5>2, ElementOfSeq
          <5>4. queued[i] = PlainFrame(queued[i]) /\ queued[i].flaw = "none"
            BY <5>3 DEF Message, PlainFrame
          <5>5. sent[i].command = queued[i].command /\ sent[i].size = queued[i].size
            BY <2>1, <3>1, <5>1 DEF SentFromQueue
          <5> HIDE DEF i, S
          <5>6. PlainFrame(queued[i]) = PlainFrame(sent[i])
            BY <3>1, <5>4, <5>5 DEF PlainFrame
          <5>7. i <= Len(queued)
            BY <5>2
          <5> QED
            BY <5>1, <5>4, <5>6, <5>7
        <4>2. CASE origin # "peer"
          BY <2>1, <3>1, <4>2, PlainElements
        <4> QED
          BY <4>1, <4>2
      <3> HIDE DEF S, E
      <3>6. Len(E) < Len(S) /\ E' = Append(E, S[Len(E) + 1])
        <4>1. Len(S) \in Nat
          <5>1. S \in Seq(Message) \/ S \in Seq(PlainSet)
            BY <2>1, PlainElements DEF S
          <5> QED
            BY <5>1, LenProperties
        <4> QED
          BY <2>1, <3>4, <3>5, <4>1
      <3>7. EndChannel!Deliver
        BY <3>1, <3>2, <3>6 DEF EndChannel!Deliver, S, E
      <3> QED
        BY <3>7 DEF EndChannel!Next
    <2>6. CASE /\ RecvEnd \/ RecvError \/ EndInterrupted \/ DecodeRaises
               /\ UNCHANGED <<origin, queued>>
      <3>1. /\ place # "ended" /\ place' = "ended"
            /\ UNCHANGED <<sent, delivered, origin, queued>>
        BY <2>6 DEF RecvEnd, RecvError, EndInterrupted, DecodeRaises, Decode, End, remoteVars
      <3>2. EndChannel!End
        BY <3>1 DEF EndChannel!End
      <3> QED
        BY <3>2 DEF EndChannel!Next
    <2>7. CASE /\ RemoteClose \/ SetVersion \/ Interrupt \/ UNCHANGED vars
               /\ UNCHANGED <<origin, queued>>
      <3>1. UNCHANGED <<sent, delivered, place, origin, queued>>
        BY <2>7 DEF RemoteClose, SetVersion, Interrupt, vars, remoteVars
      <3> QED
        BY <3>1 DEF EndChannel!vars
    <2>8. CASE (Recv \/ DecodeNothing) /\ UNCHANGED <<origin, queued>>
      <3>1. UNCHANGED <<sent, delivered, origin, queued>> /\ place # "ended" /\ place' # "ended"
        BY <2>8 DEF Recv, DecodeNothing, Decode, remoteVars
      <3> QED
        BY <3>1 DEF EndChannel!vars
    <2> QED
      BY <1>2, <2>2, <2>3, <2>4, <2>5, <2>6, <2>7, <2>8 DEF LinkNext, linkVars, PeerStep
  <1>3. LinkInv /\ LinkInv' /\ [LinkNext]_linkVars => [EndChannel!Next]_(EndChannel!vars)
    BY <1>2
  <1> QED
    BY LinkInvInit, LinkInvNext, <1>1, <1>3, PTL DEF EndToEnd, EndChannel!Spec, LinkSpec
=============================================================================
