---------------------------- MODULE PeerService ----------------------------
(***************************************************************************)
(* What the network process promises to the process that uses it: every    *)
(* connection is announced under an id of its own, messages are reported   *)
(* under the id of the connection they arrived on and only while it is     *)
(* open, and its end is reported once.  The state is what the user of the  *)
(* service has been told so far.                                           *)
(***************************************************************************)
EXTENDS Naturals, Functions

CONSTANT Peer

VARIABLES
  open,     \* the open connections, from ids to remote ends
  ended,    \* the ids of connections reported as disconnected
  refused,  \* the remote ends reported as not reachable
  heard     \* the remote ends whose messages were delivered

serviceVars == <<open, ended, refused, heard>>

ServiceInit ==
  /\ open = [i \in {} |-> i]
  /\ ended = {}
  /\ refused = {}
  /\ heard = {}

(* An id is used for one connection; a remote end has one at a time. *)
Announce(id, p) ==
  /\ id \notin DOMAIN open \cup ended
  /\ p \notin Range(open) \cup refused
  /\ open' = [i \in DOMAIN open \cup {id} |-> IF i = id THEN p ELSE open[i]]
  /\ UNCHANGED <<ended, refused, heard>>

Refuse(p) ==
  /\ p \notin Range(open) \cup refused
  /\ refused' = refused \cup {p}
  /\ UNCHANGED <<open, ended, heard>>

Deliver(id) ==
  /\ id \in DOMAIN open
  /\ heard' = heard \cup {open[id]}
  /\ UNCHANGED <<open, ended, refused>>

End(id) ==
  /\ id \in DOMAIN open
  /\ open' = Restrict(open, DOMAIN open \ {id})
  /\ ended' = ended \cup {id}
  /\ UNCHANGED <<refused, heard>>

(* The ids are numbers; the one announced is the one that is new. *)
ServiceNext ==
  \/ \E id \in DOMAIN open' \ DOMAIN open, p \in Peer : Announce(id, p)
  \/ \E p \in Peer : Refuse(p)
  \/ \E id \in DOMAIN open : Deliver(id) \/ End(id)

ServiceSpec == ServiceInit /\ [][ServiceNext]_serviceVars
=============================================================================
