------------------------------ MODULE Payments ------------------------------
(***************************************************************************)
(* Membership orders and what they grant.  A gateway's callbacks and the   *)
(* operator confirm an order (MarkPaid, then fulfillOrder), the operator   *)
(* cancels or refunds it (handleOSOrderReversal), assigns tiers by hand    *)
(* (SetTier) and ends subscriptions.  Requests run at once, each statement *)
(* or transaction is one step, and any of them may fail.                   *)
(*                                                                         *)
(* A subscription is kept while it is active; the rows of ended ones are   *)
(* never read again.  No caller gives StartSubscription a period end, so   *)
(* the expiry of lapsed periods has nothing to act on and is left out.     *)
(***************************************************************************)
EXTENDS Naturals

CONSTANTS
    Orders,       \* membership orders that may be opened
    Members,      \* members, one per address
    Tiers,        \* slugs of paid tiers
    TierPaid,     \* the tier UpgradeByEmail gives
    Buyer,        \* order -> member
    TierSlug,     \* order -> tier
    Callers,      \* requests that may be in progress at once
    MaxFaults,    \* bound: statements that fail
    MaxCrashes    \* bound: ends of the process

TierFree == "free"

ASSUME PaymentConstants ==
    /\ TierPaid \in Tiers
    /\ TierFree \notin Tiers
    /\ Buyer \in [Orders -> Members]
    /\ TierSlug \in [Orders -> Tiers]
    /\ {"operator", "stripe", "nobody"} \cap Orders = {}
    /\ MaxFaults \in Nat /\ MaxCrashes \in Nat

VARIABLES
    status,       \* payment_orders.status
    tier,         \* members.tier, which decides what a reader may see
    sub,          \* the member's active subscription
    call,         \* what a request is doing
    fulfilled,    \* history: fulfilments of an order
    torn,         \* history: members left between two statements
    disturbed,    \* history: orders whose reversal met a confirmation, or
                  \* lost a statement
    faults, crashes

faultVars == <<faults, crashes>>
grants    == <<tier, sub, fulfilled, torn>>
vars      == <<status, grants, call, disturbed, faultVars>>

(* A subscription: its tier and, for the properties, what started it: the  *)
(* fulfilment of an order, the operator, or an upgrade by Stripe's webhook.*)
NoSub    == [tier |-> TierFree, by |-> "nobody"]
Statuses == {"none", "pending", "paid", "canceled", "refunded", "failed"}

(* The steps of a request on an order, and of one on a member.             *)
Idle     == [pc |-> "idle"]
Confirming(o, r, p) == [pc |-> p, order |-> o, route |-> r]
Reversing(o, to, was, p) == [pc |-> p, order |-> o, to |-> to, wasPaid |-> was]
Granting(m, t, p) == [pc |-> p, member |-> m, tier |-> t]

(* Only Stripe's webhook goes on when an order cannot be paid.             *)
Routes       == {"stripe webhook", "other"}
Reversals    == {"canceled", "refunded"}
ReversalPcs  == {"resolve", "write", "revoke"}
GrantPcs     == {"upgrade", "start", "comp"}

Calls ==
    {Idle}
    \cup [pc: {"lookup", "fulfil"}, order: Orders, route: Routes]
    \cup [pc: ReversalPcs, order: Orders, to: Reversals, wasPaid: BOOLEAN]
    \cup [pc: GrantPcs, member: Members, tier: Tiers]
    \cup [pc: {"sync"}, member: Members, tier: Tiers \cup {TierFree}]

Init ==
    /\ status = [o \in Orders |-> "none"]
    /\ tier = [m \in Members |-> TierFree]
    /\ sub = [m \in Members |-> NoSub]
    /\ call = [c \in Callers |-> Idle]
    /\ fulfilled = [o \in Orders |-> 0]
    /\ torn = {}
    /\ disturbed = {}
    /\ faults = 0
    /\ crashes = 0

Fault ==
    /\ faults < MaxFaults
    /\ faults' = faults + 1
    /\ UNCHANGED crashes

Goes(c, next) == call' = [call EXCEPT ![c] = next]

BeingReversed(o) ==
    \E c \in Callers : call[c].pc \in ReversalPcs /\ call[c].order = o

BeingFulfilled(o) ==
    \E c \in Callers : call[c].pc = "fulfil" /\ call[c].order = o

-----------------------------------------------------------------------------
(* The members store.                                                      *)

(* StartSubscription: one transaction supersedes the active subscription,  *)
(* inserts the new one and sets the tier column.                           *)
StartSubscription(m, t, by) ==
    /\ sub' = [sub EXCEPT ![m] = [tier |-> t, by |-> by]]
    /\ tier' = [tier EXCEPT ![m] = t]
    /\ torn' = torn \ {m}

(* CancelSubscription: whatever order the active one was bought with.      *)
CancelSubscription(m) ==
    /\ sub' = [sub EXCEPT ![m] = NoSub]
    /\ tier' = [tier EXCEPT ![m] = TierFree]
    /\ torn' = torn \ {m}

-----------------------------------------------------------------------------
(* Confirmation of an order.                                               *)

(* Checkout: Create.                                                       *)
Create(o) ==
    /\ status[o] = "none"
    /\ status' = [status EXCEPT ![o] = "pending"]
    /\ UNCHANGED <<grants, call, disturbed, faultVars>>

(* The predicate of an earlier version: any order that is not paid.        *)
PayableUnlessPaid(s) == s \notin {"none", "paid"}

(* The status predicate of MarkPaid's UPDATE.                              *)
Payable(s) == s \in {"pending", "failed"}

(* What a confirmation does when MarkPaid returned an error other than     *)
(* ErrAlreadyPaid: Stripe's webhook upgrades the buyer by address.         *)
Unpaid(o, r) ==
    IF r = "stripe webhook" THEN Granting(Buyer[o], TierPaid, "upgrade") ELSE Idle

(* A callback, a return page or the operator calls MarkPaid, as often as   *)
(* it likes: the conditional UPDATE takes the order or finds no row.  A    *)
(* read that fails behind the UPDATE is an error too.                      *)
MarkPaid(c, o, r) ==
    /\ call[c] = Idle
    /\ status[o] # "none"
    /\ \/ /\ Payable(status[o])
          /\ status' = [status EXCEPT ![o] = "paid"]
          /\ disturbed' = IF BeingReversed(o) THEN disturbed \cup {o}
                                              ELSE disturbed
          /\ \/ /\ Goes(c, Confirming(o, r, "fulfil"))
                /\ UNCHANGED faultVars
             \/ Fault /\ Goes(c, Unpaid(o, r))
       \/ /\ ~Payable(status[o])
          /\ Goes(c, Confirming(o, r, "lookup"))
          /\ UNCHANGED <<status, disturbed, faultVars>>
       \/ /\ Fault
          /\ Goes(c, Unpaid(o, r))
          /\ UNCHANGED <<status, disturbed>>
    /\ UNCHANGED grants

(* MarkPaid reads the order again to tell ErrAlreadyPaid from              *)
(* ErrNotPayable.                                                          *)
LookUp(c) ==
    /\ call[c].pc = "lookup"
    /\ \/ /\ Goes(c, IF status[call[c].order] = "paid" THEN Idle
                     ELSE Unpaid(call[c].order, call[c].route))
          /\ UNCHANGED faultVars
       \/ Fault /\ Goes(c, Unpaid(call[c].order, call[c].route))
    /\ UNCHANGED <<status, grants, disturbed>>

(* fulfillOrder.  Its error is logged or reported; nothing tries again.    *)
Fulfil(c) ==
    /\ call[c].pc = "fulfil"
    /\ LET o == call[c].order IN
       \/ /\ StartSubscription(Buyer[o], TierSlug[o], o)
          /\ fulfilled' = [fulfilled EXCEPT ![o] = @ + 1]
          /\ UNCHANGED faultVars
       \/ Fault /\ UNCHANGED grants
    /\ Goes(c, Idle)
    /\ UNCHANGED <<status, disturbed>>

(* Stripe's webhook for a session that names no order of this site.        *)
PaymentLink(c, m) ==
    /\ call[c] = Idle
    /\ Goes(c, Granting(m, TierPaid, "upgrade"))
    /\ UNCHANGED <<status, grants, disturbed, faultVars>>

(* UpgradeByEmailToTier: first the tier column ...                         *)
Upgrade(c) ==
    /\ call[c].pc = "upgrade"
    /\ \/ /\ tier' = [tier EXCEPT ![call[c].member] = call[c].tier]
          /\ Goes(c, [call[c] EXCEPT !.pc = "start"])
          /\ UNCHANGED faultVars
       \/ Fault /\ Goes(c, Idle) /\ UNCHANGED tier
    /\ UNCHANGED <<status, sub, fulfilled, torn, disturbed>>

(* ... then the subscription, whose error is ignored.                      *)
StartPaid(c) ==
    /\ call[c].pc = "start"
    /\ \/ /\ StartSubscription(call[c].member, call[c].tier, "stripe")
          /\ UNCHANGED faultVars
       \/ /\ Fault
          /\ torn' = torn \cup {call[c].member}
          /\ UNCHANGED <<tier, sub>>
    /\ Goes(c, Idle)
    /\ UNCHANGED <<status, fulfilled, disturbed>>

-----------------------------------------------------------------------------
(* Reversal of an order.                                                   *)

(* orderTransitions, as far as a reversal asks for it.                     *)
Allowed(from, to) ==
    \/ from \in {"pending", "failed"} /\ to = "canceled"
    \/ from = "paid" /\ to \in {"canceled", "refunded"}

(* handleOSOrderReversal notes whether the order was paid; a failed read   *)
(* counts as no.                                                           *)
Reverse(c, o, to) ==
    /\ call[c] = Idle
    /\ status[o] # "none"
    /\ \/ /\ Goes(c, Reversing(o, to, status[o] = "paid", "resolve"))
          /\ disturbed' = IF BeingFulfilled(o) THEN disturbed \cup {o}
                                               ELSE disturbed
          /\ UNCHANGED faultVars
       \/ /\ Fault
          /\ Goes(c, Reversing(o, to, FALSE, "resolve"))
          /\ disturbed' = disturbed \cup {o}
    /\ UNCHANGED <<status, grants>>

(* A reversal that revokes only refunds.                                   *)
RevokeRefundsOnly(k) ==
    IF k.wasPaid /\ k.to = "refunded" THEN [k EXCEPT !.pc = "revoke"] ELSE Idle

(* What follows SetStatus.                                                 *)
AfterSetStatus(k) ==
    IF k.wasPaid THEN [k EXCEPT !.pc = "revoke"] ELSE Idle

(* SetStatus reads the status, by itself, and decides.                     *)
Resolve(c) ==
    /\ call[c].pc = "resolve"
    /\ LET k == call[c]
           s == status[k.order] IN
       \/ /\ Goes(c, IF s = k.to THEN AfterSetStatus(k)
                     ELSE IF Allowed(s, k.to) THEN [k EXCEPT !.pc = "write"]
                     ELSE Idle)
          /\ UNCHANGED faultVars
       \/ Fault /\ Goes(c, Idle)
    /\ UNCHANGED <<status, grants, disturbed>>

(* Its UPDATE looks at nothing but the id.                                 *)
Write(c) ==
    /\ call[c].pc = "write"
    /\ \/ /\ status' = [status EXCEPT ![call[c].order] = call[c].to]
          /\ Goes(c, AfterSetStatus(call[c]))
          /\ UNCHANGED faultVars
       \/ Fault /\ Goes(c, Idle) /\ UNCHANGED status
    /\ UNCHANGED <<grants, disturbed>>

(* revokeOrderFulfilment; its error is logged.                             *)
Revoke(c) ==
    /\ call[c].pc = "revoke"
    /\ \/ /\ CancelSubscription(Buyer[call[c].order])
          /\ UNCHANGED <<disturbed, faultVars>>
       \/ /\ Fault
          /\ disturbed' = disturbed \cup {call[c].order}
          /\ UNCHANGED <<tier, sub, torn>>
    /\ Goes(c, Idle)
    /\ UNCHANGED <<status, fulfilled>>

-----------------------------------------------------------------------------
(* The operator's hand on a member, and Stripe's.                          *)

(* SetTier: first the tier column ...                                      *)
SetTier(c, m, t) ==
    /\ call[c] = Idle
    /\ tier' = [tier EXCEPT ![m] = t]
    /\ Goes(c, Granting(m, t, "sync"))
    /\ UNCHANGED <<status, sub, fulfilled, torn, disturbed, faultVars>>

(* A SetTier that trusts any active subscription.                          *)
SyncIfNone(c) ==
    /\ call[c].pc = "sync"
    /\ call[c].tier # TierFree
    /\ Goes(c, IF sub[call[c].member] # NoSub THEN Idle
               ELSE [call[c] EXCEPT !.pc = "comp"])
    /\ UNCHANGED <<status, grants, disturbed, faultVars>>

(* ... then syncSubscriptionForTier, whose error is ignored.  A failed     *)
(* read of the subscription counts as none.                                *)
SyncPaid(c) ==
    /\ call[c].pc = "sync"
    /\ call[c].tier # TierFree
    /\ \/ /\ Goes(c, IF sub[call[c].member].tier = call[c].tier THEN Idle
                     ELSE [call[c] EXCEPT !.pc = "comp"])
          /\ UNCHANGED faultVars
       \/ Fault /\ Goes(c, [call[c] EXCEPT !.pc = "comp"])
    /\ UNCHANGED <<status, grants, disturbed>>

SyncFree(c) ==
    /\ call[c].pc = "sync"
    /\ call[c].tier = TierFree
    /\ \/ CancelSubscription(call[c].member) /\ UNCHANGED faultVars
       \/ /\ Fault
          /\ torn' = torn \cup {call[c].member}
          /\ UNCHANGED <<tier, sub>>
    /\ Goes(c, Idle)
    /\ UNCHANGED <<status, fulfilled, disturbed>>

StartComp(c) ==
    /\ call[c].pc = "comp"
    /\ \/ /\ StartSubscription(call[c].member, call[c].tier, "operator")
          /\ UNCHANGED faultVars
       \/ /\ Fault
          /\ torn' = torn \cup {call[c].member}
          /\ UNCHANGED <<tier, sub>>
    /\ Goes(c, Idle)
    /\ UNCHANGED <<status, fulfilled, disturbed>>

(* An immediate cancellation from the console, or a subscription that      *)
(* ended at Stripe: CancelSubscription and nothing else.                   *)
EndSubscription(m) ==
    /\ CancelSubscription(m)
    /\ UNCHANGED <<status, call, fulfilled, disturbed, faultVars>>

(* The process ends; every request is gone where it stood.                 *)
Crash ==
    /\ crashes < MaxCrashes
    /\ crashes' = crashes + 1
    /\ torn' = torn \cup {m \in Members : \E c \in Callers :
                   call[c].pc \in {"start", "sync", "comp"} /\ call[c].member = m}
    /\ disturbed' = disturbed \cup {o \in Orders : BeingReversed(o)}
    /\ call' = [c \in Callers |-> Idle]
    /\ UNCHANGED <<status, tier, sub, fulfilled, faults>>

Next ==
    \/ \E o \in Orders : Create(o)
    \/ \E c \in Callers, o \in Orders :
          \/ \E r \in Routes : MarkPaid(c, o, r)
          \/ \E to \in Reversals : Reverse(c, o, to)
    \/ \E c \in Callers, m \in Members :
          \/ PaymentLink(c, m)
          \/ \E t \in Tiers \cup {TierFree} : SetTier(c, m, t)
    \/ \E c \in Callers :
          \/ LookUp(c) \/ Fulfil(c) \/ Upgrade(c) \/ StartPaid(c)
          \/ Resolve(c) \/ Write(c) \/ Revoke(c)
          \/ SyncPaid(c) \/ SyncFree(c) \/ StartComp(c)
    \/ \E m \in Members : EndSubscription(m)
    \/ Crash

Spec == Init /\ [][Next]_vars

-----------------------------------------------------------------------------
(* What the store and the handlers promise.                                *)

TypeOK ==
    /\ status \in [Orders -> Statuses]
    /\ tier \in [Members -> Tiers \cup {TierFree}]
    /\ sub \in [Members -> [tier: Tiers, by: Orders \cup {"operator", "stripe"}]
                              \cup {NoSub}]
    /\ call \in [Callers -> Calls]
    /\ fulfilled \in [Orders -> Nat]
    /\ torn \subseteq Members
    /\ disturbed \subseteq Orders
    /\ faults \in 0..MaxFaults
    /\ crashes \in 0..MaxCrashes

(* However many callbacks, return pages and operators confirm an order,    *)
(* and whatever reversals and failures come between, it is fulfilled at    *)
(* most once (payments.go: "never charge/upgrade/email twice").            *)
FulfilledOnce == \A o \in Orders : fulfilled[o] <= 1

Between(m) ==
    \E c \in Callers :
        call[c].pc \in {"start", "sync", "comp"} /\ call[c].member = m

(* The tier column, the only thing a paywall reads, names the tier of the  *)
(* active subscription, whoever assigned, bought, revoked or ended at the  *)
(* same time; it may differ only while a request stands between its two    *)
(* statements, or was cut off there (members.go: "Assigning a tier keeps   *)
(* the member's subscription record in sync").                             *)
TierFollowsSubscription ==
    \A m \in Members : tier[m] = sub[m].tier \/ Between(m) \/ m \in torn

(* An undisturbed reversal takes back, for good, the subscription that the *)
(* order's fulfilment started (handleOSOrderReversal: "then reverse        *)
(* whatever it granted").  Two things are outside of it, and there the     *)
(* code does leave the buyer with goods: a reversal that met a             *)
(* confirmation of the same order or lost a statement (disturbed), and the *)
(* new subscription, by "stripe", that Stripe's webhook starts when its    *)
(* event for a reversed order falls through to UpgradeByEmail (Unpaid).    *)
ReversalTakesBack ==
    \A o \in Orders :
        status[o] \in Reversals /\ ~BeingReversed(o) /\ o \notin disturbed
            => sub[Buyer[o]].by # o
=============================================================================
