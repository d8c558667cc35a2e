--------------------------- MODULE MessageChannel ---------------------------
(***************************************************************************)
(* What the receiving side of a connection promises: messages arrive in    *)
(* the order in which they were sent, each once, none left out, until the  *)
(* connection ends.  A message that is never taken holds up the rest.      *)
(***************************************************************************)
EXTENDS Sequences, Naturals

CONSTANT Message

VARIABLES sent,      \* the messages the remote end has sent
          delivered, \* the messages handed on
          open       \* FALSE once the connection has ended

vars == <<sent, delivered, open>>

Init ==
  /\ sent = <<>>
  /\ delivered = <<>>
  /\ open = TRUE

(* A message is any member of Message, which need not be a finite set.      *)
Send ==
  /\ Len(sent') = Len(sent) + 1
  /\ sent'[Len(sent) + 1] \in Message
  /\ sent' = Append(sent, sent'[Len(sent) + 1])
  /\ UNCHANGED <<delivered, open>>

Deliver ==
  /\ open
  /\ Len(delivered) < Len(sent)
  /\ delivered' = Append(delivered, sent[Len(delivered) + 1])
  /\ UNCHANGED <<sent, open>>

End ==
  /\ open
  /\ open' = FALSE
  /\ UNCHANGED <<sent, delivered>>

Next == Send \/ Deliver \/ End

Spec == Init /\ [][Next]_vars
=============================================================================
