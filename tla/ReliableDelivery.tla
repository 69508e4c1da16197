-------------------------- MODULE ReliableDelivery ---------------------------
(***************************************************************************)
(* What the outbox promises, without queues, sessions or messages: an      *)
(* operation is accepted from the application, later delivered to the HQ,  *)
(* and settled - never sent again - only after that.  Nothing is undone.   *)
(***************************************************************************)
CONSTANT Op

VARIABLES accepted, delivered, settled

vars == <<accepted, delivered, settled>>

Init == accepted = {} /\ delivered = {} /\ settled = {}

Accept(o) ==
    /\ o \notin accepted
    /\ accepted' = accepted \cup {o}
    /\ UNCHANGED <<delivered, settled>>

Deliver(ops) ==
    /\ ops \subseteq accepted
    /\ delivered' = delivered \cup ops
    /\ UNCHANGED <<accepted, settled>>

Settle(ops) ==
    /\ ops \subseteq delivered
    /\ settled' = settled \cup ops
    /\ UNCHANGED <<accepted, delivered>>

Next ==
    \/ \E o \in Op : Accept(o)
    \/ \E ops \in SUBSET Op : Deliver(ops) \/ Settle(ops)

Spec == Init /\ [][Next]_vars

=============================================================================
