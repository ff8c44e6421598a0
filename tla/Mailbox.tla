------------------------------- MODULE Mailbox -------------------------------
(***************************************************************************)
(* What the hub's Redis queues promise about a message, whatever instance  *)
(* it is for: once accepted it is kept until it has been handed to a       *)
(* connection of its recipient or deliberately discarded, and neither a    *)
(* crash nor a replay is visible at this level.                            *)
(***************************************************************************)
CONSTANT Messages

VARIABLES
  accepted,   \* messages pushMessage() has pushed
  stored,     \* messages that are in some Redis list
  handed,     \* messages given to a flush's ws.send or put in a get_messages reply
  discarded   \* messages dropped by the depth cap or by an administrator

vars == <<accepted, stored, handed, discarded>>

Init == accepted = {} /\ stored = {} /\ handed = {} /\ discarded = {}

Accept(m) ==
  /\ m \notin accepted
  /\ accepted' = accepted \cup {m}
  /\ stored' = stored \cup {m}
  /\ UNCHANGED <<handed, discarded>>

(* A message may be handed over again: delivery is at least once.          *)
Hand(m) ==
  /\ m \in accepted
  /\ handed' = handed \cup {m}
  /\ UNCHANGED <<accepted, stored, discarded>>

Settle(m) ==
  /\ m \in handed
  /\ stored' = stored \ {m}
  /\ UNCHANGED <<accepted, handed, discarded>>

Discard(S) ==
  /\ stored' = stored \ S
  /\ discarded' = discarded \cup S
  /\ UNCHANGED <<accepted, handed>>

Next ==
  \/ \E m \in Messages : Accept(m) \/ Hand(m) \/ Settle(m)
  \/ \E S \in SUBSET stored : Discard(S)

Spec == Init /\ [][Next]_vars

-----------------------------------------------------------------------------
TypeOK ==
  /\ accepted \subseteq Messages
  /\ stored \subseteq accepted
  /\ handed \subseteq accepted
  /\ discarded \subseteq accepted

(* An accepted message is stored, has been handed over, or was discarded.  *)
NothingLost == accepted \subseteq stored \cup handed \cup discarded
=============================================================================
