---------------------------- MODULE EventDelivery ---------------------------
(***************************************************************************)
(* What the outbox promises (ADR-0051): an event that was committed is     *)
(* handed to its consumers before it counts as delivered, or is given up   *)
(* openly; either fate is final.                                           *)
(***************************************************************************)
EXTENDS Integers

CONSTANT MaxEvents   \* bound on the events of a behaviour

VARIABLES
    committed,  \* number of events committed so far; ids are 1..committed
    handed,     \* events that reached every consumer at least once
    delivered,
    abandoned

deliveryVars == <<committed, handed, delivered, abandoned>>

Owed == (1..committed) \ (delivered \cup abandoned)

InitDelivery ==
    /\ committed = 0
    /\ handed = {}
    /\ delivered = {}
    /\ abandoned = {}

(* A transaction commits one or more events.                               *)
CommitEvents ==
    /\ committed' \in committed..MaxEvents
    /\ UNCHANGED <<handed, delivered, abandoned>>

HandOver(e) ==
    /\ e \in Owed
    /\ handed' = handed \cup {e}
    /\ UNCHANGED <<committed, delivered, abandoned>>

Deliver(e) ==
    /\ e \in Owed \cap handed
    /\ delivered' = delivered \cup {e}
    /\ UNCHANGED <<committed, handed, abandoned>>

Abandon(e) ==
    /\ e \in Owed
    /\ abandoned' = abandoned \cup {e}
    /\ UNCHANGED <<committed, handed, delivered>>

NextDelivery ==
    \/ CommitEvents
    \/ \E e \in 1..MaxEvents : HandOver(e) \/ Deliver(e) \/ Abandon(e)

(* Safety: no event counts as delivered before its consumers had it, and   *)
(* delivered and given up are final and exclude each other.                *)
DeliverySafety == InitDelivery /\ [][NextDelivery]_deliveryVars

DeliverySpec ==
    /\ DeliverySafety
    /\ \A e \in 1..MaxEvents : WF_deliveryVars(Deliver(e) \/ Abandon(e))
=============================================================================
