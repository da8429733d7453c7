--------------------------- MODULE PaymentsProofs ---------------------------
(***************************************************************************)
(* Machine-checked facts about Payments, for any orders, members, tiers    *)
(* and number of requests at once: an order is fulfilled at most once, the *)
(* tier column follows the subscription, and an undisturbed reversal takes *)
(* back what the order bought.                                             *)
(***************************************************************************)
EXTENDS Payments, TLAPS

ConfirmCalls  == [pc: {"lookup", "fulfil"}, order: Orders, route: Routes]
ReversalCalls == [pc: ReversalPcs, order: Orders, to: Reversals, wasPaid: BOOLEAN]
GrantCalls    == [pc: GrantPcs, member: Members, tier: Tiers]
SyncCalls     == [pc: {"sync"}, member: Members, tier: Tiers \cup {TierFree}]

(* What a request knows follows from the step it is at.                    *)
LEMMA CallShapes ==
    ASSUME TypeOK, NEW c \in Callers
    PROVE  /\ call[c] \in Calls
           /\ call[c].pc \in {"lookup", "fulfil"} => call[c] \in ConfirmCalls
           /\ call[c].pc \in ReversalPcs => call[c] \in ReversalCalls
           /\ call[c].pc \in GrantPcs => call[c] \in GrantCalls
           /\ call[c].pc = "sync" => call[c] \in SyncCalls
  <1>1. call[c] \in Calls
    BY DEF TypeOK
  <1>2. \/ call[c] = Idle \/ call[c] \in ConfirmCalls
        \/ call[c] \in ReversalCalls \/ call[c] \in GrantCalls
        \/ call[c] \in SyncCalls
    BY <1>1 DEF Calls, ConfirmCalls, ReversalCalls, GrantCalls, SyncCalls
  <1> QED
    BY <1>1, <1>2 DEF Idle, ConfirmCalls, ReversalCalls, GrantCalls,
        SyncCalls, ReversalPcs, GrantPcs

(* The forms of a request.                                                 *)
LEMMA CallForms ==
    /\ Idle \in Calls
    /\ \A o \in Orders, r \in Routes, p \in {"lookup", "fulfil"} :
          Confirming(o, r, p) \in ConfirmCalls
    /\ \A o \in Orders, to \in Reversals, w \in BOOLEAN, p \in ReversalPcs :
          Reversing(o, to, w, p) \in ReversalCalls
    /\ \A m \in Members, t \in Tiers, p \in GrantPcs :
          Granting(m, t, p) \in GrantCalls
    /\ \A m \in Members, t \in Tiers \cup {TierFree} :
          Granting(m, t, "sync") \in SyncCalls
    /\ \A k \in ReversalCalls, p \in ReversalPcs : [k EXCEPT !.pc = p] \in ReversalCalls
    /\ \A k \in GrantCalls, p \in GrantPcs : [k EXCEPT !.pc = p] \in GrantCalls
    /\ \A k \in SyncCalls, p \in GrantPcs :
          k.tier \in Tiers => [k EXCEPT !.pc = p] \in GrantCalls
    /\ ConfirmCalls \subseteq Calls
    /\ ReversalCalls \subseteq Calls
    /\ GrantCalls \subseteq Calls
    /\ SyncCalls \subseteq Calls
  BY DEF Calls, ConfirmCalls, ReversalCalls, GrantCalls, SyncCalls, Idle,
      Confirming, Reversing, Granting

(* Where a confirmation that could not pay goes.                           *)
LEMMA UnpaidForm ==
    ASSUME NEW o \in Orders, NEW r
    PROVE  Unpaid(o, r) \in {Idle} \cup
               [pc: {"upgrade"}, member: Members, tier: Tiers]
  BY PaymentConstants DEF Unpaid, Granting

-----------------------------------------------------------------------------
(* Types.                                                                  *)

Subs == [tier: Tiers, by: Orders \cup {"operator", "stripe"}] \cup {NoSub}

LEMMA StoreTypes ==
    ASSUME TypeOK, NEW m \in Members,
           \/ \E t \in Tiers, by \in Orders \cup {"operator", "stripe"} :
                 StartSubscription(m, t, by)
           \/ CancelSubscription(m)
    PROVE  /\ tier' \in [Members -> Tiers \cup {TierFree}]
           /\ sub' \in [Members -> Subs]
           /\ torn' \subseteq Members
  <1>1. CASE CancelSubscription(m)
    BY <1>1 DEF TypeOK, CancelSubscription, Subs
  <1>2. ASSUME NEW t \in Tiers, NEW by \in Orders \cup {"operator", "stripe"},
               StartSubscription(m, t, by)
        PROVE  /\ tier' \in [Members -> Tiers \cup {TierFree}]
               /\ sub' \in [Members -> Subs]
               /\ torn' \subseteq Members
    BY <1>2 DEF TypeOK, StartSubscription, Subs
  <1> QED
    BY <1>1, <1>2

LEMMA FaultTypes == ASSUME TypeOK, Fault
                    PROVE  faults' \in 0..MaxFaults /\ crashes' \in 0..MaxCrashes
  BY PaymentConstants DEF TypeOK, Fault

LEMMA GoesTypes == ASSUME TypeOK, NEW c \in Callers, NEW k \in Calls, Goes(c, k)
                   PROVE  call' \in [Callers -> Calls]
  BY DEF TypeOK, Goes

LEMMA TypeInit == Init => TypeOK
  BY PaymentConstants, CallForms DEF Init, TypeOK, Statuses

LEMMA TypeStep == TypeOK /\ [Next]_vars => TypeOK'
  <1> SUFFICES ASSUME TypeOK, [Next]_vars PROVE TypeOK'
    OBVIOUS
  <1> USE PaymentConstants, CallForms
  <1>1. ASSUME NEW o \in Orders, Create(o) PROVE TypeOK'
    BY <1>1 DEF Create, TypeOK, Statuses, grants, faultVars
  <1>2. ASSUME NEW c \in Callers, NEW o \in Orders, NEW r \in Routes, MarkPaid(c, o, r)
        PROVE  TypeOK'
    <2>1. Unpaid(o, r) \in Calls
      BY UnpaidForm DEF GrantCalls, GrantPcs
    <2>2. call' \in [Callers -> Calls]
      BY <1>2, <2>1, GoesTypes DEF MarkPaid
    <2>3. faults' \in 0..MaxFaults /\ crashes' \in 0..MaxCrashes
      BY <1>2, FaultTypes DEF MarkPaid, faultVars, TypeOK
    <2>4. status' \in [Orders -> Statuses] /\ disturbed' \subseteq Orders
      BY <1>2 DEF MarkPaid, TypeOK, Statuses
    <2> QED
      BY <1>2, <2>2, <2>3, <2>4 DEF MarkPaid, TypeOK, grants
  <1>3. ASSUME NEW c \in Callers, NEW o \in Orders, NEW to \in Reversals, Reverse(c, o, to)
        PROVE  TypeOK'
    <2>1. call' \in [Callers -> Calls]
      <3>1. (status[o] = "paid") \in BOOLEAN
        OBVIOUS
      <3> QED
        BY <1>3, <3>1, GoesTypes DEF Reverse, ReversalPcs
    <2>2. faults' \in 0..MaxFaults /\ crashes' \in 0..MaxCrashes
      BY <1>3, FaultTypes DEF Reverse, faultVars, TypeOK
    <2> QED
      BY <1>3, <2>1, <2>2 DEF Reverse, TypeOK, grants
  <1>4. ASSUME NEW c \in Callers, NEW m \in Members, PaymentLink(c, m) PROVE TypeOK'
    <2>1. Granting(m, TierPaid, "upgrade") \in Calls
      BY DEF GrantPcs
    <2>2. call' \in [Callers -> Calls]
      BY <1>4, <2>1, GoesTypes DEF PaymentLink
    <2> QED
      BY <1>4, <2>2 DEF PaymentLink, TypeOK, grants, faultVars
  <1>5. ASSUME NEW c \in Callers, NEW m \in Members, NEW t \in Tiers \cup {TierFree},
               SetTier(c, m, t)
        PROVE  TypeOK'
    <2>1. Granting(m, t, "sync") \in Calls
      OBVIOUS
    <2>2. call' \in [Callers -> Calls]
      BY <1>5, <2>1, GoesTypes DEF SetTier
    <2> QED
      BY <1>5, <2>2 DEF SetTier, TypeOK, faultVars
  <1>6. ASSUME NEW c \in Callers, LookUp(c) PROVE TypeOK'
    <2>1. Unpaid(call[c].order, call[c].route) \in Calls
      BY <1>6, CallShapes, UnpaidForm DEF LookUp, ConfirmCalls, GrantCalls, GrantPcs
    <2>2. call' \in [Callers -> Calls]
      BY <1>6, <2>1, GoesTypes DEF LookUp
    <2>3. faults' \in 0..MaxFaults /\ crashes' \in 0..MaxCrashes
      BY <1>6, FaultTypes DEF LookUp, faultVars, TypeOK
    <2> QED
      BY <1>6, <2>2, <2>3 DEF LookUp, TypeOK, grants
  <1>7. ASSUME NEW c \in Callers, Fulfil(c) PROVE TypeOK'
    <2>1. call[c].order \in Orders
      BY <1>7, CallShapes DEF Fulfil, ConfirmCalls
    <2>2. /\ tier' \in [Members -> Tiers \cup {TierFree}]
          /\ sub' \in [Members -> Subs]
          /\ torn' \subseteq Members
      <3>1. CASE UNCHANGED grants
        BY <3>1 DEF grants, TypeOK, Subs
      <3>2. CASE StartSubscription(Buyer[call[c].order], TierSlug[call[c].order], call[c].order)
        BY <3>2, <2>1, StoreTypes
      <3> QED
        BY <1>7, <3>1, <3>2 DEF Fulfil
    <2>3. fulfilled' \in [Orders -> Nat]
      BY <1>7, <2>1 DEF Fulfil, TypeOK, grants
    <2>4. faults' \in 0..MaxFaults /\ crashes' \in 0..MaxCrashes
      BY <1>7, FaultTypes DEF Fulfil, faultVars, TypeOK
    <2>5. call' \in [Callers -> Calls]
      BY <1>7, GoesTypes DEF Fulfil
    <2> QED
      BY <1>7, <2>2, <2>3, <2>4, <2>5 DEF Fulfil, TypeOK, Subs
  <1>8. ASSUME NEW c \in Callers, Upgrade(c) PROVE TypeOK'
    <2>1. call[c] \in GrantCalls
      BY <1>8, CallShapes DEF Upgrade, GrantPcs
    <2>2. [call[c] EXCEPT !.pc = "start"] \in Calls
      BY <2>1 DEF GrantPcs
    <2>3. call' \in [Callers -> Calls]
      BY <1>8, <2>2, GoesTypes DEF Upgrade
    <2>4. faults' \in 0..MaxFaults /\ crashes' \in 0..MaxCrashes
      BY <1>8, FaultTypes DEF Upgrade, faultVars, TypeOK
    <2>5. tier' \in [Members -> Tiers \cup {TierFree}]
      BY <1>8, <2>1 DEF Upgrade, TypeOK, GrantCalls
    <2> QED
      BY <1>8, <2>3, <2>4, <2>5 DEF Upgrade, TypeOK
  <1>9. ASSUME NEW c \in Callers, StartPaid(c) \/ StartComp(c) PROVE TypeOK'
    <2>1. call[c] \in GrantCalls
      BY <1>9, CallShapes DEF StartPaid, StartComp, GrantPcs
    <2>2. /\ tier' \in [Members -> Tiers \cup {TierFree}]
          /\ sub' \in [Members -> Subs]
          /\ torn' \subseteq Members
      <3>1. CASE torn' = torn \cup {call[c].member} /\ UNCHANGED <<tier, sub>>
        BY <2>1, <3>1 DEF TypeOK, Subs, GrantCalls
      <3>2. CASE \E by \in {"operator", "stripe"} :
                    StartSubscription(call[c].member, call[c].tier, by)
        BY <2>1, <3>2, StoreTypes DEF GrantCalls
      <3> QED
        BY <1>9, <3>1, <3>2 DEF StartPaid, StartComp
    <2>3. call' \in [Callers -> Calls]
      BY <1>9, GoesTypes DEF StartPaid, StartComp
    <2>4. faults' \in 0..MaxFaults /\ crashes' \in 0..MaxCrashes
      BY <1>9, FaultTypes DEF StartPaid, StartComp, faultVars, TypeOK
    <2> QED
      BY <1>9, <2>2, <2>3, <2>4 DEF StartPaid, StartComp, TypeOK, Subs
  <1>10. ASSUME NEW c \in Callers, Resolve(c) \/ Write(c) PROVE TypeOK'
    <2>1. call[c] \in ReversalCalls
      BY <1>10, CallShapes DEF Resolve, Write, ReversalPcs
    <2>2. /\ AfterSetStatus(call[c]) \in Calls
          /\ [call[c] EXCEPT !.pc = "write"] \in Calls
      BY <2>1 DEF AfterSetStatus, ReversalPcs
    <2>3. call' \in [Callers -> Calls]
      BY <1>10, <2>2, GoesTypes DEF Resolve, Write
    <2>4. faults' \in 0..MaxFaults /\ crashes' \in 0..MaxCrashes
      BY <1>10, FaultTypes DEF Resolve, Write, faultVars, TypeOK
    <2>5. status' \in [Orders -> Statuses]
      BY <1>10, <2>1 DEF Resolve, Write, TypeOK, ReversalCalls, Reversals, Statuses
    <2> QED
      BY <1>10, <2>3, <2>4, <2>5 DEF Resolve, Write, TypeOK, grants
  <1>11. ASSUME NEW c \in Callers, Revoke(c) PROVE TypeOK'
    <2>1. call[c] \in ReversalCalls
      BY <1>11, CallShapes DEF Revoke, ReversalPcs
    <2>2. /\ tier' \in [Members -> Tiers \cup {TierFree}]
          /\ sub' \in [Members -> Subs]
          /\ torn' \subseteq Members
      <3>1. CASE UNCHANGED <<tier, sub, torn>>
        BY <3>1 DEF TypeOK, Subs
      <3>2. CASE CancelSubscription(Buyer[call[c].order])
        BY <2>1, <3>2, StoreTypes DEF ReversalCalls
      <3> QED
        BY <1>11, <3>1, <3>2 DEF Revoke
    <2>3. call' \in [Callers -> Calls]
      BY <1>11, GoesTypes DEF Revoke
    <2>4. faults' \in 0..MaxFaults /\ crashes' \in 0..MaxCrashes
      BY <1>11, FaultTypes DEF Revoke, faultVars, TypeOK
    <2>5. disturbed' \subseteq Orders
      BY <1>11, <2>1 DEF Revoke, TypeOK, ReversalCalls
    <2> QED
      BY <1>11, <2>2, <2>3, <2>4, <2>5 DEF Revoke, TypeOK, Subs
  <1>12. ASSUME NEW c \in Callers, SyncPaid(c) PROVE TypeOK'
    <2>1. [call[c] EXCEPT !.pc = "comp"] \in Calls
      <3>1. call[c] \in SyncCalls /\ call[c].tier \in Tiers
        BY <1>12, CallShapes DEF SyncPaid, SyncCalls
      <3> QED
        BY <3>1 DEF GrantPcs
    <2>2. call' \in [Callers -> Calls]
      BY <1>12, <2>1, GoesTypes DEF SyncPaid
    <2>3. faults' \in 0..MaxFaults /\ crashes' \in 0..MaxCrashes
      BY <1>12, FaultTypes DEF SyncPaid, faultVars, TypeOK
    <2> QED
      BY <1>12, <2>2, <2>3 DEF SyncPaid, TypeOK, grants
  <1>13. ASSUME NEW c \in Callers, SyncFree(c) PROVE TypeOK'
    <2>1. call[c] \in SyncCalls
      BY <1>13, CallShapes DEF SyncFree
    <2>2. /\ tier' \in [Members -> Tiers \cup {TierFree}]
          /\ sub' \in [Members -> Subs]
          /\ torn' \subseteq Members
      <3>1. CASE torn' = torn \cup {call[c].member} /\ UNCHANGED <<tier, sub>>
        BY <2>1, <3>1 DEF TypeOK, Subs, SyncCalls
      <3>2. CASE CancelSubscription(call[c].member)
        BY <2>1, <3>2, StoreTypes DEF SyncCalls
      <3> QED
        BY <1>13, <3>1, <3>2 DEF SyncFree
    <2>3. call' \in [Callers -> Calls]
      BY <1>13, GoesTypes DEF SyncFree
    <2>4. faults' \in 0..MaxFaults /\ crashes' \in 0..MaxCrashes
      BY <1>13, FaultTypes DEF SyncFree, faultVars, TypeOK
    <2> QED
      BY <1>13, <2>2, <2>3, <2>4 DEF SyncFree, TypeOK, Subs
  <1>14. ASSUME NEW m \in Members, EndSubscription(m) PROVE TypeOK'
    BY <1>14, StoreTypes DEF EndSubscription, TypeOK, Subs, faultVars
  <1>15. ASSUME Crash PROVE TypeOK'
    BY <1>15 DEF Crash, TypeOK, BeingReversed
  <1>16. CASE UNCHANGED vars
    BY <1>16 DEF vars, grants, faultVars, TypeOK, Calls
  <1> QED
    BY <1>1, <1>2, <1>3, <1>4, <1>5, <1>6, <1>7, <1>8, <1>9, <1>10, <1>11,
       <1>12, <1>13, <1>14, <1>15, <1>16 DEF Next

(* Every state of an order, a member and a request has its type.           *)
THEOREM TypeCorrect == Spec => []TypeOK
  BY TypeInit, TypeStep, PTL DEF Spec

-----------------------------------------------------------------------------
(* Fulfilled once.                                                         *)

Open == {"none", "pending", "failed"}

(* Who is to fulfil an order is alone with it, the order has left the      *)
(* states it could be paid from, and it has not been fulfilled.            *)
OneFulfils ==
    /\ \A o \in Orders : BeingFulfilled(o) \/ status[o] \in Open => fulfilled[o] = 0
    /\ \A o \in Orders : BeingFulfilled(o) => status[o] \notin Open
    /\ \A c, d \in Callers :
          call[c].pc = "fulfil" /\ call[d].pc = "fulfil"
          /\ call[c].order = call[d].order => c = d

OnceInv == TypeOK /\ OneFulfils /\ FulfilledOnce

LEMMA OthersStay ==
    ASSUME TypeOK, NEW c \in Callers, NEW k, Goes(c, k)
    PROVE  call'[c] = k /\ \A d \in Callers \ {c} : call'[d] = call[d]
  BY DEF TypeOK, Goes

(* Only a successful MarkPaid makes a request one that is to fulfil, only  *)
(* Fulfil fulfils, and no order returns to where it can be paid.           *)
LEMMA QuietStep ==
    ASSUME TypeOK, [Next]_vars,
           ~ \E c \in Callers : Fulfil(c),
           ~ \E c \in Callers, o \in Orders, r \in Routes :
                MarkPaid(c, o, r) /\ Payable(status[o])
    PROVE  /\ \A d \in Callers : call'[d].pc = "fulfil" => call'[d] = call[d]
           /\ fulfilled' = fulfilled
           /\ \A o \in Orders : status'[o] \in Open => status[o] \in Open
           /\ \A o \in Orders : status[o] \notin Open => status'[o] \notin Open
  <1> DEFINE Quiet == \A d \in Callers : call'[d].pc = "fulfil" => call'[d] = call[d]
             Settled == /\ fulfilled' = fulfilled
                        /\ \A o \in Orders : status'[o] \in Open => status[o] \in Open
                        /\ \A o \in Orders : status[o] \notin Open => status'[o] \notin Open
  <1> SUFFICES Quiet /\ Settled
    OBVIOUS
  <1> USE PaymentConstants
  <1>1. ASSUME NEW o \in Orders, Create(o) PROVE Quiet /\ Settled
    BY <1>1 DEF Create, TypeOK, grants, Open
  <1>2. ASSUME NEW c \in Callers, NEW o \in Orders, NEW r \in Routes, MarkPaid(c, o, r)
        PROVE  Quiet /\ Settled
    <2>1. PICK k : Goes(c, k) /\ (k = Unpaid(o, r) \/ k = Confirming(o, r, "lookup"))
      BY <1>2 DEF MarkPaid
    <2>2. k.pc # "fulfil"
      BY <2>1, UnpaidForm DEF Confirming, Idle
    <2>3. Quiet
      BY <2>1, <2>2, OthersStay
    <2> QED
      BY <1>2, <2>3 DEF MarkPaid, grants
  <1>3. ASSUME NEW c \in Callers, NEW o \in Orders, NEW to \in Reversals, Reverse(c, o, to)
        PROVE  Quiet /\ Settled
    <2>1. PICK k : Goes(c, k) /\ k.pc = "resolve"
      BY <1>3 DEF Reverse, Reversing
    <2> QED
      BY <1>3, <2>1, OthersStay DEF Reverse, grants
  <1>4. ASSUME NEW c \in Callers, NEW m \in Members, PaymentLink(c, m)
        PROVE  Quiet /\ Settled
    BY <1>4, OthersStay DEF PaymentLink, Granting, grants
  <1>5. ASSUME NEW c \in Callers, NEW m \in Members, NEW t \in Tiers \cup {TierFree},
               SetTier(c, m, t)
        PROVE  Quiet /\ Settled
    BY <1>5, OthersStay DEF SetTier, Granting
  <1>6. ASSUME NEW c \in Callers, LookUp(c) PROVE Quiet /\ Settled
    <2>1. PICK k : Goes(c, k) /\ (k = Idle \/ k = Unpaid(call[c].order, call[c].route))
      BY <1>6 DEF LookUp
    <2>2. k.pc # "fulfil"
      BY <1>6, <2>1, CallShapes, UnpaidForm DEF LookUp, ConfirmCalls, Idle
    <2> QED
      BY <1>6, <2>1, <2>2, OthersStay DEF LookUp, grants
  <1>7. ASSUME NEW c \in Callers, Upgrade(c) PROVE Quiet /\ Settled
    <2>1. call[c] \in GrantCalls
      BY <1>7, CallShapes DEF Upgrade, GrantPcs
    <2>2. PICK k : Goes(c, k) /\ (k = Idle \/ k = [call[c] EXCEPT !.pc = "start"])
      BY <1>7 DEF Upgrade
    <2>3. k.pc # "fulfil"
      BY <2>1, <2>2 DEF Idle, GrantCalls
    <2> QED
      BY <1>7, <2>2, <2>3, OthersStay DEF Upgrade
  <1>8. ASSUME NEW c \in Callers,
               StartPaid(c) \/ StartComp(c) \/ SyncFree(c) \/ Revoke(c)
        PROVE  Quiet /\ Settled
    <2>1. Goes(c, Idle) /\ UNCHANGED <<status, fulfilled>>
      BY <1>8 DEF StartPaid, StartComp, SyncFree, Revoke
    <2> QED
      BY <2>1, OthersStay DEF Idle
  <1>9. ASSUME NEW c \in Callers, Resolve(c) \/ Write(c) PROVE Quiet /\ Settled
    <2>1. call[c] \in ReversalCalls
      BY <1>9, CallShapes DEF Resolve, Write, ReversalPcs
    <2>2. PICK k : Goes(c, k) /\ k \in {Idle, [call[c] EXCEPT !.pc = "write"],
                                        AfterSetStatus(call[c])}
      BY <1>9 DEF Resolve, Write
    <2>3. k.pc # "fulfil"
      BY <2>1, <2>2 DEF Idle, AfterSetStatus, ReversalCalls
    <2>4. Quiet
      BY <2>2, <2>3, OthersStay
    <2>5. Settled
      BY <1>9, <2>1 DEF Resolve, Write, grants, TypeOK, Open, ReversalCalls, Reversals
    <2> QED
      BY <2>4, <2>5
  <1>10. ASSUME NEW c \in Callers, SyncPaid(c) PROVE Quiet /\ Settled
    <2>1. call[c] \in SyncCalls
      BY <1>10, CallShapes DEF SyncPaid
    <2>2. PICK k : Goes(c, k) /\ (k = Idle \/ k = [call[c] EXCEPT !.pc = "comp"])
      BY <1>10 DEF SyncPaid
    <2>3. k.pc # "fulfil"
      BY <2>1, <2>2 DEF Idle, SyncCalls
    <2> QED
      BY <1>10, <2>2, <2>3, OthersStay DEF SyncPaid, grants
  <1>11. ASSUME NEW m \in Members, EndSubscription(m) PROVE Quiet /\ Settled
    BY <1>11 DEF EndSubscription
  <1>12. ASSUME Crash PROVE Quiet /\ Settled
    BY <1>12 DEF Crash, Idle
  <1>13. CASE UNCHANGED vars
    BY <1>13 DEF vars, grants
  <1> QED
    BY <1>1, <1>2, <1>3, <1>4, <1>5, <1>6, <1>7, <1>8, <1>9, <1>10, <1>11,
       <1>12, <1>13 DEF Next

LEMMA OnceInit == Init => OnceInv
  BY TypeInit DEF Init, OnceInv, OneFulfils, FulfilledOnce, BeingFulfilled, Idle, Open

LEMMA OnceStep == OnceInv /\ [Next]_vars => OnceInv'
  <1> SUFFICES ASSUME OnceInv, [Next]_vars PROVE (OneFulfils /\ FulfilledOnce)'
    BY TypeStep DEF OnceInv
  <1>1. CASE \E c \in Callers : Fulfil(c)
    <2>1. PICK c \in Callers : Fulfil(c)
      BY <1>1
    <2>2. PICK n \in Orders :
              /\ call[c].pc = "fulfil" /\ call[c].order = n
              /\ fulfilled[n] = 0 /\ status[n] \notin Open
      BY <2>1, CallShapes DEF Fulfil, OnceInv, ConfirmCalls, OneFulfils, BeingFulfilled
    <2>3. /\ call'[c] = Idle /\ \A d \in Callers \ {c} : call'[d] = call[d]
      BY <2>1, OthersStay DEF Fulfil, OnceInv
    <2>4. \/ fulfilled' = fulfilled
          \/ fulfilled' = [fulfilled EXCEPT ![n] = 1]
      BY <2>1, <2>2 DEF Fulfil, grants
    <2>5. status' = status
      BY <2>1 DEF Fulfil
    <2>6. ~BeingFulfilled(n)'
      BY <2>2, <2>3 DEF BeingFulfilled, Idle, OnceInv, OneFulfils
    <2>7. \A o \in Orders : BeingFulfilled(o)' => BeingFulfilled(o)
      BY <2>3 DEF BeingFulfilled, Idle
    <2>8. fulfilled \in [Orders -> Nat]
      BY DEF OnceInv, TypeOK
    <2>9. FulfilledOnce'
      BY <2>2, <2>4, <2>8 DEF OnceInv, FulfilledOnce
    <2>10. \A o \in Orders : (BeingFulfilled(o) \/ status[o] \in Open => fulfilled[o] = 0)'
      BY <2>2, <2>4, <2>5, <2>6, <2>7, <2>8 DEF OnceInv, OneFulfils
    <2>11. \A o \in Orders : (BeingFulfilled(o) => status[o] \notin Open)'
      BY <2>5, <2>7 DEF OnceInv, OneFulfils
    <2>12. \A d, e \in Callers :
              call'[d].pc = "fulfil" /\ call'[e].pc = "fulfil"
              /\ call'[d].order = call'[e].order => d = e
      BY <2>3 DEF Idle, OnceInv, OneFulfils
    <2> QED
      BY <2>9, <2>10, <2>11, <2>12 DEF OneFulfils
  <1>2. CASE \E c \in Callers, o \in Orders, r \in Routes :
                MarkPaid(c, o, r) /\ Payable(status[o])
    <2>1. PICK c \in Callers, o \in Orders, r \in Routes :
              MarkPaid(c, o, r) /\ Payable(status[o])
      BY <1>2
    <2>2. fulfilled' = fulfilled /\ fulfilled[o] = 0 /\ ~BeingFulfilled(o)
      BY <2>1 DEF MarkPaid, grants, OnceInv, OneFulfils, Payable, Open
    <2>3. PICK k : Goes(c, k) /\ (k = Confirming(o, r, "fulfil") \/ k = Unpaid(o, r))
      BY <2>1 DEF MarkPaid
    <2>4. /\ call'[c] = k /\ \A d \in Callers \ {c} : call'[d] = call[d]
      BY <2>3, OthersStay DEF OnceInv
    <2>5. k.pc = "fulfil" => k = Confirming(o, r, "fulfil") /\ k.order = o
      BY <2>3, UnpaidForm DEF Confirming, Idle
    <2>6. \/ status' = [status EXCEPT ![o] = "paid"]
          \/ status' = status /\ k.pc # "fulfil"
      <3>1. CASE status' = [status EXCEPT ![o] = "paid"]
        BY <3>1
      <3>2. CASE Goes(c, Unpaid(o, r)) /\ status' = status
        <4>1. k = Unpaid(o, r)
          BY <3>2, <2>4, OthersStay DEF OnceInv
        <4> QED
          BY <3>2, <4>1, UnpaidForm DEF Idle
      <3> QED
        BY <2>1, <3>1, <3>2 DEF MarkPaid
    <2>7. \A p \in Orders \ {o} : BeingFulfilled(p)' => BeingFulfilled(p)
      BY <2>4, <2>5 DEF BeingFulfilled
    <2>8. \A p \in Orders \ {o} : status'[p] = status[p]
      BY <2>6 DEF OnceInv, TypeOK
    <2>9. BeingFulfilled(o)' => status'[o] = "paid"
      <3>1. ASSUME k.pc # "fulfil" PROVE ~BeingFulfilled(o)'
        BY <2>2, <2>4, <3>1 DEF BeingFulfilled
      <3> QED
        BY <2>6, <3>1 DEF OnceInv, TypeOK
    <2>10. \A p \in Orders : (BeingFulfilled(p) \/ status[p] \in Open => fulfilled[p] = 0)'
      BY <2>2, <2>7, <2>8 DEF OnceInv, OneFulfils
    <2>11. \A p \in Orders : (BeingFulfilled(p) => status[p] \notin Open)'
      BY <2>7, <2>8, <2>9 DEF OnceInv, OneFulfils, Open
    <2>12. \A d, e \in Callers :
              call'[d].pc = "fulfil" /\ call'[e].pc = "fulfil"
              /\ call'[d].order = call'[e].order => d = e
      BY <2>2, <2>4, <2>5 DEF OnceInv, OneFulfils, BeingFulfilled
    <2> QED
      BY <2>2, <2>10, <2>11, <2>12 DEF OneFulfils, OnceInv, FulfilledOnce
  <1>3. CASE /\ ~ \E c \in Callers : Fulfil(c)
             /\ ~ \E c \in Callers, o \in Orders, r \in Routes :
                     MarkPaid(c, o, r) /\ Payable(status[o])
    <2>1. /\ \A d \in Callers : call'[d].pc = "fulfil" => call'[d] = call[d]
          /\ fulfilled' = fulfilled
          /\ \A o \in Orders : status'[o] \in Open => status[o] \in Open
          /\ \A o \in Orders : status[o] \notin Open => status'[o] \notin Open
      BY <1>3, QuietStep DEF OnceInv
    <2>2. \A o \in Orders : BeingFulfilled(o)' => BeingFulfilled(o)
      BY <2>1 DEF BeingFulfilled
    <2> QED
      BY <2>1, <2>2 DEF OnceInv, OneFulfils, FulfilledOnce
  <1> QED
    BY <1>1, <1>2, <1>3

(* MarkPaid's conditional UPDATE lets one confirmation through, for ever:  *)
(* no interleaving of callbacks, reversals, failures and crashes fulfils   *)
(* an order twice.                                                         *)
THEOREM FulfilsOnce == Spec => []FulfilledOnce
  <1>1. OnceInv => FulfilledOnce
    BY DEF OnceInv
  <1> QED
    BY OnceInit, OnceStep, <1>1, PTL DEF Spec

-----------------------------------------------------------------------------
(* The tier column follows the subscription.                               *)

Halfway(c, m, t) ==
    /\ call[c].pc \in {"start", "sync", "comp"}
    /\ call[c].member = m
    /\ call[c].tier = t

(* A column that differs was written by a request that is still on its way *)
(* to the subscription: every transaction in between would have aligned    *)
(* the two.  SetTier may stop there when it finds the subscription it      *)
(* wants, and the column is then either its own or another's.              *)
WriterStillThere ==
    \A m \in Members :
        \/ tier[m] = sub[m].tier
        \/ m \in torn
        \/ \E c \in Callers : Halfway(c, m, tier[m])

TierInv == TypeOK /\ WriterStillThere

(* A transaction of the store aligns the two.                              *)
LEMMA StoreAligns ==
    ASSUME TypeOK, NEW m \in Members,
           \/ \E t, by : StartSubscription(m, t, by)
           \/ CancelSubscription(m)
    PROVE  /\ tier'[m] = sub'[m].tier
           /\ \A n \in Members \ {m} : /\ tier'[n] = tier[n] /\ sub'[n] = sub[n]
                                       /\ n \in torn => n \in torn'
  BY DEF TypeOK, StartSubscription, CancelSubscription, NoSub

(* What a step of one request on one member may do.                        *)
LEMMA OneMember ==
    ASSUME TierInv, NEW c \in Callers, NEW m \in Members, NEW k, Goes(c, k),
           call[c].pc \in {"start", "sync", "comp"} => call[c].member = m,
           \/ tier'[m] = sub'[m].tier
           \/ m \in torn'
           \/ k.pc \in {"start", "sync", "comp"} /\ k.member = m /\ k.tier = tier'[m],
           \A n \in Members \ {m} : /\ tier'[n] = tier[n] /\ sub'[n] = sub[n]
                                    /\ n \in torn => n \in torn'
    PROVE  WriterStillThere'
  <1>1. call'[c] = k /\ \A d \in Callers \ {c} : call'[d] = call[d]
    BY OthersStay DEF TierInv
  <1>2. \A n \in Members \ {m}, d \in Callers :
            Halfway(d, n, tier[n]) => d # c /\ Halfway(d, n, tier[n])'
    BY <1>1 DEF Halfway
  <1>3. \A n \in Members \ {m} :
            \/ tier'[n] = sub'[n].tier
            \/ n \in torn'
            \/ \E d \in Callers : Halfway(d, n, tier[n])'
    BY <1>2 DEF TierInv, WriterStillThere
  <1>4. \/ tier'[m] = sub'[m].tier
        \/ m \in torn'
        \/ Halfway(c, m, tier[m])'
    BY <1>1 DEF Halfway
  <1> QED
    BY <1>3, <1>4 DEF WriterStillThere

(* A step of a request that stays out of the members store and was not     *)
(* halfway.                                                                *)
LEMMA NoMember ==
    ASSUME TierInv, NEW c \in Callers, NEW k, Goes(c, k),
           call[c].pc \notin {"start", "sync", "comp"},
           UNCHANGED <<tier, sub, torn>>
    PROVE  WriterStillThere'
  <1>1. call'[c] = k /\ \A d \in Callers \ {c} : call'[d] = call[d]
    BY OthersStay DEF TierInv
  <1>2. \A n \in Members, d \in Callers :
            Halfway(d, n, tier[n]) => Halfway(d, n, tier[n])'
    BY <1>1 DEF Halfway
  <1> QED
    BY <1>2 DEF TierInv, WriterStillThere

LEMMA TierStep == TierInv /\ [Next]_vars => TierInv'
  <1> SUFFICES ASSUME TierInv, [Next]_vars PROVE WriterStillThere'
    BY TypeStep DEF TierInv
  <1> USE PaymentConstants
  <1>0. TypeOK
    BY DEF TierInv
  <1>1. ASSUME NEW o \in Orders, Create(o) PROVE WriterStillThere'
    BY <1>1 DEF Create, grants, TierInv, WriterStillThere, Halfway
  <1>2. ASSUME NEW c \in Callers, NEW o \in Orders, NEW r \in Routes, MarkPaid(c, o, r)
        PROVE  WriterStillThere'
    BY <1>2, NoMember DEF MarkPaid, grants, Idle
  <1>3. ASSUME NEW c \in Callers, NEW o \in Orders, NEW to \in Reversals, Reverse(c, o, to)
        PROVE  WriterStillThere'
    <2>1. PICK k : Goes(c, k)
      BY <1>3 DEF Reverse
    <2> QED
      BY <1>3, <2>1, NoMember DEF Reverse, grants, Idle
  <1>4. ASSUME NEW c \in Callers, NEW m \in Members, PaymentLink(c, m)
        PROVE  WriterStillThere'
    BY <1>4, NoMember DEF PaymentLink, grants, Idle
  <1>5. ASSUME NEW c \in Callers, NEW m \in Members, NEW t \in Tiers \cup {TierFree},
               SetTier(c, m, t)
        PROVE  WriterStillThere'
    <2>1. tier'[m] = t /\ \A n \in Members \ {m} : tier'[n] = tier[n]
      BY <1>5, <1>0 DEF SetTier, TypeOK
    <2>2. sub' = sub /\ torn' = torn /\ call[c] = Idle /\ Goes(c, Granting(m, t, "sync"))
      BY <1>5 DEF SetTier
    <2> QED
      BY <2>1, <2>2, OneMember DEF Granting, Idle
  <1>6. ASSUME NEW c \in Callers, LookUp(c) PROVE WriterStillThere'
    BY <1>6, NoMember DEF LookUp, grants
  <1>7. ASSUME NEW c \in Callers, Fulfil(c) PROVE WriterStillThere'
    <2>1. call[c].order \in Orders /\ call[c].pc = "fulfil" /\ Goes(c, Idle)
      BY <1>7, <1>0, CallShapes DEF Fulfil, ConfirmCalls
    <2>2. CASE UNCHANGED grants
      BY <2>1, <2>2, NoMember DEF grants
    <2>3. CASE StartSubscription(Buyer[call[c].order], TierSlug[call[c].order], call[c].order)
      <3>1. PICK m \in Members : \E t, by : StartSubscription(m, t, by)
        BY <2>1, <2>3
      <3>2. /\ tier'[m] = sub'[m].tier
            /\ \A n \in Members \ {m} : /\ tier'[n] = tier[n] /\ sub'[n] = sub[n]
                                        /\ n \in torn => n \in torn'
        BY <3>1, <1>0, StoreAligns
      <3> QED
        BY <2>1, <3>2, OneMember
    <2> QED
      BY <1>7, <2>2, <2>3 DEF Fulfil
  <1>8. ASSUME NEW c \in Callers, Upgrade(c) PROVE WriterStillThere'
    <2>1. call[c] \in GrantCalls /\ call[c].pc = "upgrade"
      BY <1>8, <1>0, CallShapes DEF Upgrade, GrantPcs
    <2>2. CASE Goes(c, Idle) /\ UNCHANGED <<tier, sub, torn>>
      BY <2>1, <2>2, NoMember
    <2>3. CASE /\ tier' = [tier EXCEPT ![call[c].member] = call[c].tier]
               /\ Goes(c, [call[c] EXCEPT !.pc = "start"])
               /\ UNCHANGED <<sub, torn>>
      <3>0. PICK k : k = [call[c] EXCEPT !.pc = "start"]
        OBVIOUS
      <3>1. PICK m \in Members, t \in Tiers : call[c].member = m /\ call[c].tier = t
        BY <2>1 DEF GrantCalls
      <3>2. k.pc = "start" /\ k.member = m /\ k.tier = t
        BY <2>1, <3>0, <3>1 DEF GrantCalls
      <3>3. tier'[m] = t /\ \A n \in Members \ {m} : tier'[n] = tier[n]
        BY <1>0, <2>3, <3>1 DEF TypeOK
      <3> QED
        BY <2>1, <2>3, <3>0, <3>1, <3>2, <3>3, OneMember
    <2> QED
      BY <1>8, <2>2, <2>3 DEF Upgrade
  <1>9. ASSUME NEW c \in Callers, StartPaid(c) \/ StartComp(c) \/ SyncFree(c)
        PROVE  WriterStillThere'
    <2>1. PICK m \in Members : call[c].member = m
      BY <1>9, <1>0, CallShapes DEF StartPaid, StartComp, SyncFree, GrantPcs,
          GrantCalls, SyncCalls
    <2>2. Goes(c, Idle)
      BY <1>9 DEF StartPaid, StartComp, SyncFree
    <2>3. CASE torn' = torn \cup {m} /\ UNCHANGED <<tier, sub>>
      BY <2>1, <2>2, <2>3, OneMember
    <2>4. CASE (\E t, by : StartSubscription(m, t, by)) \/ CancelSubscription(m)
      <3>1. /\ tier'[m] = sub'[m].tier
            /\ \A n \in Members \ {m} : /\ tier'[n] = tier[n] /\ sub'[n] = sub[n]
                                        /\ n \in torn => n \in torn'
        BY <2>4, <1>0, StoreAligns
      <3> QED
        BY <2>1, <2>2, <3>1, OneMember
    <2> QED
      BY <1>9, <2>1, <2>3, <2>4 DEF StartPaid, StartComp, SyncFree
  <1>10. ASSUME NEW c \in Callers, Resolve(c) \/ Write(c) PROVE WriterStillThere'
    <2>1. PICK k : Goes(c, k)
      BY <1>10 DEF Resolve, Write
    <2> QED
      BY <1>10, <2>1, NoMember DEF Resolve, Write, grants
  <1>11. ASSUME NEW c \in Callers, Revoke(c) PROVE WriterStillThere'
    <2>1. call[c].order \in Orders /\ call[c].pc = "revoke" /\ Goes(c, Idle)
      BY <1>11, <1>0, CallShapes DEF Revoke, ReversalCalls, ReversalPcs
    <2>2. CASE UNCHANGED <<tier, sub, torn>>
      BY <2>1, <2>2, NoMember
    <2>3. CASE CancelSubscription(Buyer[call[c].order])
      <3>1. PICK m \in Members : CancelSubscription(m)
        BY <2>1, <2>3
      <3>2. /\ tier'[m] = sub'[m].tier
            /\ \A n \in Members \ {m} : /\ tier'[n] = tier[n] /\ sub'[n] = sub[n]
                                        /\ n \in torn => n \in torn'
        BY <3>1, <1>0, StoreAligns
      <3> QED
        BY <2>1, <3>2, OneMember
    <2> QED
      BY <1>11, <2>2, <2>3 DEF Revoke
  <1>12. ASSUME NEW c \in Callers, SyncPaid(c) PROVE WriterStillThere'
    <2>1. call[c] \in SyncCalls /\ UNCHANGED <<tier, sub, torn>>
      BY <1>12, <1>0, CallShapes DEF SyncPaid, grants
    <2>2. PICK m \in Members, t \in Tiers \cup {TierFree} :
              call[c].member = m /\ call[c].tier = t /\ call[c].pc = "sync"
      BY <2>1 DEF SyncCalls
    <2>3. CASE Goes(c, Idle) /\ sub[m].tier = t
      <3>1. \/ tier[m] = sub[m].tier
            \/ m \in torn
            \/ \E d \in Callers \ {c} : Halfway(d, m, tier[m])
        BY <2>2, <2>3 DEF TierInv, WriterStillThere, Halfway
      <3>2. CASE tier[m] = sub[m].tier \/ m \in torn
        BY <2>1, <2>2, <2>3, <3>2, OneMember
      <3>3. CASE \E d \in Callers \ {c} : Halfway(d, m, tier[m])
        <4>1. \A d \in Callers \ {c} : call'[d] = call[d]
          BY <2>3, <1>0, OthersStay
        <4>2. \E d \in Callers : Halfway(d, m, tier[m])'
          BY <2>1, <3>3, <4>1 DEF Halfway
        <4>3. \A n \in Members \ {m} : \A d \in Callers :
                  Halfway(d, n, tier[n]) => Halfway(d, n, tier[n])'
          BY <2>1, <2>2, <4>1 DEF Halfway
        <4> QED
          BY <2>1, <4>2, <4>3 DEF TierInv, WriterStillThere
      <3> QED
        BY <3>1, <3>2, <3>3
    <2>4. CASE Goes(c, [call[c] EXCEPT !.pc = "comp"])
      <3>1. PICK k : k = [call[c] EXCEPT !.pc = "comp"]
        OBVIOUS
      <3>2. k.pc = "comp" /\ k.member = m /\ k.tier = t
        BY <2>1, <2>2, <3>1 DEF SyncCalls
      <3>3. call'[c] = k /\ \A d \in Callers \ {c} : call'[d] = call[d]
        BY <2>4, <3>1, <1>0, OthersStay
      <3>4. \A n \in Members, d \in Callers :
                Halfway(d, n, tier[n]) => Halfway(d, n, tier[n])'
        BY <2>1, <2>2, <3>2, <3>3 DEF Halfway
      <3> QED
        BY <2>1, <3>4 DEF TierInv, WriterStillThere
    <2> QED
      BY <1>12, <2>2, <2>3, <2>4 DEF SyncPaid
  <1>13. ASSUME NEW m \in Members, EndSubscription(m) PROVE WriterStillThere'
    <2>1. /\ tier'[m] = sub'[m].tier
          /\ \A n \in Members \ {m} : /\ tier'[n] = tier[n] /\ sub'[n] = sub[n]
                                      /\ n \in torn => n \in torn'
      BY <1>13, <1>0, StoreAligns DEF EndSubscription
    <2>2. call' = call
      BY <1>13 DEF EndSubscription
    <2>3. \A n \in Members \ {m} : \A d \in Callers :
              Halfway(d, n, tier[n]) => Halfway(d, n, tier[n])'
      BY <2>1, <2>2 DEF Halfway
    <2> QED
      BY <2>1, <2>3 DEF TierInv, WriterStillThere
  <1>14. ASSUME Crash PROVE WriterStillThere'
    <2>1. \A n \in Members : (\E d \in Callers : Halfway(d, n, tier[n])) => n \in torn'
      BY <1>14 DEF Crash, Halfway
    <2> QED
      BY <1>14, <2>1 DEF Crash, TierInv, WriterStillThere
  <1>15. CASE UNCHANGED vars
    BY <1>15 DEF vars, grants, TierInv, WriterStillThere, Halfway
  <1> QED
    BY <1>1, <1>2, <1>3, <1>4, <1>5, <1>6, <1>7, <1>8, <1>9, <1>10, <1>11,
       <1>12, <1>13, <1>14, <1>15 DEF Next

(* The tier column names the tier of the active subscription except while, *)
(* or after, a request was stopped between writing the one and the other.  *)
THEOREM TierFollows == Spec => []TierFollowsSubscription
  <1>1. Init => TierInv
    BY TypeInit DEF Init, TierInv, WriterStillThere, NoSub
  <1>2. TierInv => TierFollowsSubscription
    BY DEF TierInv, WriterStillThere, Halfway, TierFollowsSubscription, Between
  <1> QED
    BY <1>1, TierStep, <1>2, PTL DEF Spec

-----------------------------------------------------------------------------
(* A reversed order grants nothing.                                        *)

(* Of an order whose reversal was not disturbed: a reversal and a          *)
(* fulfilment do not meet, a reversal that noted "not paid" is right as    *)
(* long as it lasts, and what a reversed order bought is about to be       *)
(* revoked.                                                                *)
Undisturbed ==
    \A o \in Orders \ disturbed :
        /\ ~(BeingReversed(o) /\ BeingFulfilled(o))
        /\ BeingFulfilled(o) => status[o] \notin Reversals
        /\ \A c \in Callers :
              call[c].pc \in ReversalPcs /\ call[c].order = o /\ ~call[c].wasPaid
                  => status[o] # "paid"
        /\ status[o] \in Reversals /\ sub[Buyer[o]].by = o
              => \E c \in Callers : call[c].pc = "revoke" /\ call[c].order = o

(* What a member holds by an order, the order was fulfilled for.           *)
HeldWasFulfilled ==
    \A o \in Orders : sub[Buyer[o]].by = o => fulfilled[o] > 0

RevInv == OnceInv /\ HeldWasFulfilled /\ Undisturbed

OrderPcs == ReversalPcs \cup {"fulfil"}

(* A step of requests that have nothing to do with the orders they are at, *)
(* which may end subscriptions and start some that no order bought.        *)
LEMMA Aside ==
    ASSUME RevInv,
           \A d \in Callers :
               \/ call'[d] = call[d]
               \/ call[d].pc \notin OrderPcs /\ call'[d].pc \notin OrderPcs,
           UNCHANGED <<status, fulfilled, disturbed>>,
           \A m \in Members : sub'[m] = sub[m] \/ sub'[m].by \notin Orders
    PROVE  HeldWasFulfilled' /\ Undisturbed'
  <1>1. \A o \in Orders : sub'[Buyer[o]].by = o => sub[Buyer[o]].by = o
    BY PaymentConstants
  <1>2. \A o \in Orders : /\ BeingReversed(o)' => BeingReversed(o)
                          /\ BeingFulfilled(o)' => BeingFulfilled(o)
    BY DEF BeingReversed, BeingFulfilled, OrderPcs
  <1>3. \A d \in Callers : call'[d].pc \in ReversalPcs => call'[d] = call[d]
    BY DEF OrderPcs
  <1>4. \A d \in Callers : call[d].pc = "revoke" => call'[d] = call[d]
    BY DEF OrderPcs, ReversalPcs
  <1>5. HeldWasFulfilled'
    BY <1>1 DEF RevInv, HeldWasFulfilled
  <1>6. ASSUME NEW o \in Orders \ disturbed
        PROVE  /\ ~(BeingReversed(o)' /\ BeingFulfilled(o)')
               /\ BeingFulfilled(o)' => status[o] \notin Reversals
               /\ \A c \in Callers :
                     call'[c].pc \in ReversalPcs /\ call'[c].order = o /\ ~call'[c].wasPaid
                         => status[o] # "paid"
    BY <1>2, <1>3 DEF RevInv, Undisturbed
  <1>7. ASSUME NEW o \in Orders \ disturbed, status[o] \in Reversals,
               sub'[Buyer[o]].by = o
        PROVE  \E c \in Callers : call'[c].pc = "revoke" /\ call'[c].order = o
    <2>1. PICK c \in Callers : call[c].pc = "revoke" /\ call[c].order = o
      BY <1>1, <1>7 DEF RevInv, Undisturbed
    <2> QED
      BY <1>4, <2>1
  <1> QED
    BY <1>5, <1>6, <1>7 DEF Undisturbed

LEMMA StartsByNoOrder ==
    ASSUME TypeOK, NEW m, NEW t, NEW by \in {"operator", "stripe"},
           StartSubscription(m, t, by) \/ CancelSubscription(m) \/ UNCHANGED sub
    PROVE  \A n \in Members : sub'[n] = sub[n] \/ sub'[n].by \notin Orders
  BY PaymentConstants DEF TypeOK, StartSubscription, CancelSubscription, NoSub

LEMMA RevCreate ==
    ASSUME RevInv, NEW o \in Orders, Create(o) PROVE HeldWasFulfilled' /\ Undisturbed'
  <1>1. /\ call' = call /\ sub' = sub /\ fulfilled' = fulfilled /\ disturbed' = disturbed
        /\ \A p \in Orders : status'[p] = status[p] \/ status'[p] = "pending"
    BY DEF Create, grants, RevInv, OnceInv, TypeOK
  <1>2. \A p \in Orders : /\ BeingReversed(p)' <=> BeingReversed(p)
                          /\ BeingFulfilled(p)' <=> BeingFulfilled(p)
    BY <1>1 DEF BeingReversed, BeingFulfilled
  <1> QED
    BY <1>1, <1>2 DEF RevInv, HeldWasFulfilled, Undisturbed, Reversals

LEMMA RevPaid ==
    ASSUME RevInv, NEW c \in Callers, NEW o \in Orders, NEW r \in Routes,
           call[c] = Idle, Payable(status[o]), NEW k, Goes(c, k),
           k = Confirming(o, r, "fulfil") \/ k = Unpaid(o, r),
           status' = [status EXCEPT ![o] = "paid"],
           disturbed' = IF BeingReversed(o) THEN disturbed \cup {o} ELSE disturbed,
           UNCHANGED grants
    PROVE  HeldWasFulfilled' /\ Undisturbed'
  <1>1. call'[c] = k /\ \A d \in Callers \ {c} : call'[d] = call[d]
    BY OthersStay DEF RevInv, OnceInv
  <1>2. /\ call'[c].pc \notin ReversalPcs
        /\ call'[c].pc = "fulfil" => call'[c].order = o
        /\ call[c].pc = "idle"
    BY <1>1, UnpaidForm DEF Confirming, Idle, ReversalPcs
  <1>3. \A p \in Orders : BeingReversed(p)' => BeingReversed(p)
    BY <1>1, <1>2 DEF BeingReversed, ReversalPcs
  <1>4. \A p \in Orders \ {o} : BeingFulfilled(p)' => BeingFulfilled(p)
    BY <1>1, <1>2 DEF BeingFulfilled
  <1>5. /\ status'[o] = "paid" /\ \A p \in Orders \ {o} : status'[p] = status[p]
        /\ sub' = sub /\ fulfilled' = fulfilled
    BY DEF grants, RevInv, OnceInv, TypeOK
  <1>6. HeldWasFulfilled'
    BY <1>5 DEF RevInv, HeldWasFulfilled
  <1>7. \A d \in Callers : call'[d].pc \in ReversalPcs => call'[d] = call[d]
    BY <1>1, <1>2 DEF ReversalPcs
  <1>8. \A d \in Callers : call[d].pc = "revoke" => call'[d] = call[d]
    BY <1>1, <1>2
  <1>9. disturbed \subseteq disturbed'
    OBVIOUS
  <1>10. ASSUME NEW p \in Orders \ {o}, p \notin disturbed'
        PROVE  /\ ~(BeingReversed(p)' /\ BeingFulfilled(p)')
               /\ BeingFulfilled(p)' => status'[p] \notin Reversals
               /\ \A d \in Callers :
                     call'[d].pc \in ReversalPcs /\ call'[d].order = p /\ ~call'[d].wasPaid
                         => status'[p] # "paid"
               /\ status'[p] \in Reversals /\ sub'[Buyer[p]].by = p
                     => \E d \in Callers : call'[d].pc = "revoke" /\ call'[d].order = p
    BY <1>3, <1>4, <1>5, <1>7, <1>8, <1>9, <1>10 DEF RevInv, Undisturbed
  <1>11. ASSUME o \notin disturbed'
        PROVE  /\ ~BeingReversed(o)'
               /\ status'[o] \notin Reversals
               /\ \A d \in Callers : ~(call'[d].pc \in ReversalPcs /\ call'[d].order = o)
    <2>1. ~BeingReversed(o)
      BY <1>11
    <2> QED
      BY <2>1, <1>3, <1>5 DEF BeingReversed, Reversals
  <1> QED
    BY <1>6, <1>10, <1>11 DEF Undisturbed

LEMMA RevFulfil ==
    ASSUME RevInv, NEW c \in Callers, Fulfil(c) PROVE HeldWasFulfilled' /\ Undisturbed'
  <1>1. PICK n \in Orders : call[c].pc = "fulfil" /\ call[c].order = n
    BY CallShapes DEF Fulfil, RevInv, OnceInv, ConfirmCalls
  <1>2. call'[c] = Idle /\ \A d \in Callers \ {c} : call'[d] = call[d]
    BY OthersStay DEF Fulfil, RevInv, OnceInv
  <1>3. status' = status /\ disturbed' = disturbed
    BY DEF Fulfil
  <1>4. /\ \A p \in Orders : fulfilled[p] > 0 => fulfilled'[p] > 0
        /\ \A p \in Orders \ {n} : sub'[Buyer[p]].by = p => sub[Buyer[p]].by = p
        /\ sub'[Buyer[n]].by = n => sub[Buyer[n]].by = n \/ fulfilled'[n] > 0
    <2>1. CASE UNCHANGED grants
      BY <2>1 DEF grants
    <2>2. CASE /\ StartSubscription(Buyer[n], TierSlug[n], n)
               /\ fulfilled' = [fulfilled EXCEPT ![n] = @ + 1]
      BY <2>2, PaymentConstants DEF StartSubscription, RevInv, OnceInv, TypeOK
    <2> QED
      BY <1>1, <2>1, <2>2 DEF Fulfil
  <1>5. HeldWasFulfilled'
    BY <1>4 DEF RevInv, HeldWasFulfilled
  <1>6. \A p \in Orders : /\ BeingReversed(p)' => BeingReversed(p)
                          /\ BeingFulfilled(p)' => BeingFulfilled(p)
    BY <1>2 DEF BeingReversed, BeingFulfilled, Idle, ReversalPcs
  <1>7. \A d \in Callers : call'[d].pc \in ReversalPcs => call'[d] = call[d]
    BY <1>2 DEF ReversalPcs, Idle
  <1>8. \A d \in Callers : call[d].pc = "revoke" => call'[d] = call[d]
    BY <1>1, <1>2
  <1>9. ASSUME NEW p \in Orders \ disturbed
        PROVE  /\ ~(BeingReversed(p)' /\ BeingFulfilled(p)')
               /\ BeingFulfilled(p)' => status[p] \notin Reversals
               /\ \A d \in Callers :
                     call'[d].pc \in ReversalPcs /\ call'[d].order = p /\ ~call'[d].wasPaid
                         => status[p] # "paid"
    BY <1>6, <1>7 DEF RevInv, Undisturbed
  <1>10. ASSUME NEW p \in Orders \ disturbed, status[p] \in Reversals, sub'[Buyer[p]].by = p
        PROVE  \E d \in Callers : call'[d].pc = "revoke" /\ call'[d].order = p
    <2>1. p # n
      BY <1>1, <1>10 DEF RevInv, Undisturbed, BeingFulfilled
    <2>2. PICK d \in Callers : call[d].pc = "revoke" /\ call[d].order = p
      BY <1>4, <1>10, <2>1 DEF RevInv, Undisturbed
    <2> QED
      BY <1>8, <2>2
  <1> QED
    BY <1>3, <1>5, <1>9, <1>10 DEF Undisturbed

LEMMA RevReverse ==
    ASSUME RevInv, NEW c \in Callers, NEW o \in Orders, NEW to \in Reversals,
           Reverse(c, o, to)
    PROVE  HeldWasFulfilled' /\ Undisturbed'
  <1>1. PICK w \in BOOLEAN : /\ Goes(c, Reversing(o, to, w, "resolve"))
                             /\ w \/ status[o] # "paid" \/ o \in disturbed'
    BY DEF Reverse
  <1>2. /\ call'[c] = Reversing(o, to, w, "resolve")
        /\ \A d \in Callers \ {c} : call'[d] = call[d]
    BY <1>1, OthersStay DEF RevInv, OnceInv
  <1>3. /\ call'[c].pc = "resolve" /\ call'[c].order = o /\ call'[c].wasPaid = w
        /\ call[c].pc = "idle"
    BY <1>2 DEF Reversing, Idle, Reverse
  <1>4. UNCHANGED <<status, sub, fulfilled>>
    BY DEF Reverse, grants
  <1>5. disturbed \subseteq disturbed' /\ (BeingFulfilled(o) => o \in disturbed')
    BY DEF Reverse
  <1>6. HeldWasFulfilled'
    BY <1>4 DEF RevInv, HeldWasFulfilled
  <1>7. \A p \in Orders : BeingFulfilled(p)' => BeingFulfilled(p)
    BY <1>2, <1>3 DEF BeingFulfilled
  <1>8. \A p \in Orders \ {o} : BeingReversed(p)' => BeingReversed(p)
    BY <1>2, <1>3 DEF BeingReversed
  <1>9. \A d \in Callers : call[d].pc = "revoke" => call'[d] = call[d]
    BY <1>2, <1>3
  <1>10. ASSUME NEW p \in Orders, p \notin disturbed'
        PROVE  /\ ~(BeingReversed(p)' /\ BeingFulfilled(p)')
               /\ BeingFulfilled(p)' => status[p] \notin Reversals
    BY <1>5, <1>7, <1>8, <1>10 DEF RevInv, Undisturbed
  <1>11. ASSUME NEW p \in Orders, p \notin disturbed', NEW d \in Callers,
               call'[d].pc \in ReversalPcs, call'[d].order = p, ~call'[d].wasPaid
        PROVE  status[p] # "paid"
    <2>1. CASE d = c
      BY <1>1, <1>3, <1>11, <2>1
    <2>2. CASE d # c
      BY <1>2, <1>5, <1>11, <2>2 DEF RevInv, Undisturbed
    <2> QED
      BY <2>1, <2>2
  <1>12. ASSUME NEW p \in Orders, p \notin disturbed', status[p] \in Reversals,
               sub[Buyer[p]].by = p
        PROVE  \E d \in Callers : call'[d].pc = "revoke" /\ call'[d].order = p
    <2>1. PICK d \in Callers : call[d].pc = "revoke" /\ call[d].order = p
      BY <1>5, <1>12 DEF RevInv, Undisturbed
    <2> QED
      BY <1>9, <2>1
  <1> QED
    BY <1>4, <1>6, <1>10, <1>11, <1>12 DEF Undisturbed

(* SetStatus: the order is read, or written by a request whose next step   *)
(* is to revoke if it had found the order paid.                            *)
LEMMA RevSetStatus ==
    ASSUME RevInv, NEW c \in Callers, Resolve(c) \/ Write(c)
    PROVE  HeldWasFulfilled' /\ Undisturbed'
  <1>1. /\ call[c] \in ReversalCalls /\ call[c].pc \in {"resolve", "write"}
        /\ UNCHANGED <<sub, fulfilled, disturbed>>
    BY CallShapes DEF Resolve, Write, ReversalPcs, RevInv, OnceInv, grants
  <1>2. PICK n \in Orders, w \in BOOLEAN : call[c].order = n /\ call[c].wasPaid = w
    BY <1>1 DEF ReversalCalls
  <1>3. \A d \in Callers \ {c} : call'[d] = call[d]
    <2>1. PICK k : Goes(c, k)
      BY DEF Resolve, Write
    <2> QED
      BY <2>1, OthersStay DEF RevInv, OnceInv
  <1>4. \/ call'[c].pc = "idle"
        \/ /\ call'[c].pc \in ReversalPcs
           /\ call'[c].order = n /\ call'[c].wasPaid = w
    <2>1. PICK k : Goes(c, k) /\ k \in {Idle, [call[c] EXCEPT !.pc = "write"],
                                        [call[c] EXCEPT !.pc = "revoke"]}
      BY DEF Resolve, Write, AfterSetStatus
    <2>2. call'[c] = k
      BY <2>1, OthersStay DEF RevInv, OnceInv
    <2> QED
      BY <1>1, <1>2, <2>1, <2>2 DEF Idle, ReversalCalls, ReversalPcs
  <1>5. \/ status' = status
        \/ /\ status'[n] \in Reversals
           /\ \A p \in Orders \ {n} : status'[p] = status[p]
           /\ w => call'[c].pc = "revoke" /\ call'[c].order = n
    <2>1. CASE Resolve(c)
      BY <2>1 DEF Resolve
    <2>2. CASE Write(c) /\ Goes(c, AfterSetStatus(call[c]))
                        /\ status' = [status EXCEPT ![call[c].order] = call[c].to]
      <3>1. call'[c] = AfterSetStatus(call[c])
        BY <2>2, OthersStay DEF RevInv, OnceInv
      <3>2. w => call'[c].pc = "revoke" /\ call'[c].order = n
        BY <1>1, <1>2, <3>1 DEF AfterSetStatus, ReversalCalls
      <3> QED
        BY <1>1, <1>2, <2>2, <3>2 DEF ReversalCalls, RevInv, OnceInv, TypeOK
    <2> QED
      BY <2>1, <2>2 DEF Write
  <1>6. HeldWasFulfilled'
    BY <1>1 DEF RevInv, HeldWasFulfilled
  <1>7. \A p \in Orders : /\ BeingReversed(p)' => BeingReversed(p)
                          /\ BeingFulfilled(p)' => BeingFulfilled(p)
    BY <1>1, <1>2, <1>3, <1>4 DEF BeingReversed, BeingFulfilled, ReversalPcs
  <1>8. BeingReversed(n)
    BY <1>1, <1>2 DEF BeingReversed, ReversalPcs
  <1>9. ASSUME NEW p \in Orders \ disturbed
        PROVE  /\ ~(BeingReversed(p)' /\ BeingFulfilled(p)')
               /\ BeingFulfilled(p)' => status'[p] \notin Reversals
    BY <1>5, <1>7, <1>8 DEF RevInv, Undisturbed
  <1>10. ASSUME NEW p \in Orders \ disturbed, NEW d \in Callers,
               call'[d].pc \in ReversalPcs, call'[d].order = p, ~call'[d].wasPaid
        PROVE  status'[p] # "paid"
    <2>1. PICK e \in Callers : /\ call[e].pc \in ReversalPcs
                               /\ call[e].order = p /\ ~call[e].wasPaid
      <3>1. CASE d = c
        BY <1>1, <1>2, <1>4, <1>10, <3>1 DEF ReversalPcs
      <3>2. CASE d # c
        BY <1>3, <1>10, <3>2
      <3> QED
        BY <3>1, <3>2
    <2> QED
      BY <1>5, <1>10, <2>1 DEF RevInv, Undisturbed, Reversals
  <1>11. ASSUME NEW p \in Orders \ disturbed, status'[p] \in Reversals, sub[Buyer[p]].by = p
        PROVE  \E d \in Callers : call'[d].pc = "revoke" /\ call'[d].order = p
    <2>1. CASE status[p] \in Reversals
      <3>1. PICK d \in Callers : call[d].pc = "revoke" /\ call[d].order = p
        BY <1>11, <2>1 DEF RevInv, Undisturbed
      <3> QED
        BY <1>1, <1>3, <3>1
    <2>2. CASE status[p] \notin Reversals
      <3>1. p = n /\ (w => call'[c].pc = "revoke" /\ call'[c].order = n)
        BY <1>5, <1>11, <2>2
      <3>2. fulfilled[n] > 0
        BY <1>11, <3>1 DEF RevInv, HeldWasFulfilled
      <3>3. status[n] \notin Open
        BY <3>2 DEF RevInv, OnceInv, OneFulfils
      <3>4. status[n] = "paid"
        BY <2>2, <3>1, <3>3 DEF RevInv, OnceInv, TypeOK, Statuses, Open, Reversals
      <3>5. w
        BY <1>1, <1>2, <1>11, <3>1, <3>4 DEF RevInv, Undisturbed, ReversalPcs
      <3> QED
        BY <3>1, <3>5
    <2> QED
      BY <2>1, <2>2
  <1> QED
    BY <1>1, <1>6, <1>9, <1>10, <1>11 DEF Undisturbed

LEMMA RevRevoke ==
    ASSUME RevInv, NEW c \in Callers, Revoke(c) PROVE HeldWasFulfilled' /\ Undisturbed'
  <1>1. PICK n \in Orders : call[c].pc = "revoke" /\ call[c].order = n
    BY CallShapes DEF Revoke, RevInv, OnceInv, ReversalCalls, ReversalPcs
  <1>2. call'[c] = Idle /\ \A d \in Callers \ {c} : call'[d] = call[d]
    BY OthersStay DEF Revoke, RevInv, OnceInv
  <1>3. UNCHANGED <<status, fulfilled>>
    BY DEF Revoke
  <1>4. \/ disturbed' = disturbed /\ sub'[Buyer[n]].by # n
        \/ disturbed' = disturbed \cup {n}
    BY <1>1, PaymentConstants DEF Revoke, CancelSubscription, RevInv, OnceInv, TypeOK, NoSub
  <1>5. \A p \in Orders : sub'[Buyer[p]].by = p => sub[Buyer[p]].by = p
    BY <1>1, PaymentConstants DEF Revoke, CancelSubscription, RevInv, OnceInv, TypeOK, NoSub
  <1>6. HeldWasFulfilled'
    BY <1>3, <1>5 DEF RevInv, HeldWasFulfilled
  <1>7. \A p \in Orders : /\ BeingReversed(p)' => BeingReversed(p)
                          /\ BeingFulfilled(p)' => BeingFulfilled(p)
    BY <1>2 DEF BeingReversed, BeingFulfilled, Idle, ReversalPcs
  <1>8. \A d \in Callers : call'[d].pc \in ReversalPcs => call'[d] = call[d]
    BY <1>2 DEF ReversalPcs, Idle
  <1>9. ASSUME NEW p \in Orders, p \notin disturbed'
        PROVE  /\ ~(BeingReversed(p)' /\ BeingFulfilled(p)')
               /\ BeingFulfilled(p)' => status[p] \notin Reversals
               /\ \A d \in Callers :
                     call'[d].pc \in ReversalPcs /\ call'[d].order = p /\ ~call'[d].wasPaid
                         => status[p] # "paid"
    BY <1>4, <1>7, <1>8, <1>9 DEF RevInv, Undisturbed
  <1>10. ASSUME NEW p \in Orders, p \notin disturbed', status[p] \in Reversals,
               sub'[Buyer[p]].by = p
        PROVE  \E d \in Callers : call'[d].pc = "revoke" /\ call'[d].order = p
    <2>1. p # n
      BY <1>4, <1>10
    <2>2. PICK d \in Callers : call[d].pc = "revoke" /\ call[d].order = p
      BY <1>4, <1>5, <1>10 DEF RevInv, Undisturbed
    <2> QED
      BY <1>1, <1>2, <2>1, <2>2
  <1> QED
    BY <1>3, <1>6, <1>9, <1>10 DEF Undisturbed

LEMMA RevCrash == ASSUME RevInv, Crash PROVE HeldWasFulfilled' /\ Undisturbed'
  <1>1. /\ \A d \in Callers : call'[d] = Idle
        /\ UNCHANGED <<status, sub, fulfilled>>
        /\ disturbed' = disturbed \cup {o \in Orders : BeingReversed(o)}
    BY DEF Crash
  <1>2. \A p \in Orders : ~BeingReversed(p)' /\ ~BeingFulfilled(p)'
    BY <1>1 DEF BeingReversed, BeingFulfilled, Idle, ReversalPcs
  <1>3. \A p \in Orders : p \notin disturbed' =>
            ~(status[p] \in Reversals /\ sub[Buyer[p]].by = p)
    BY <1>1 DEF RevInv, Undisturbed, BeingReversed, ReversalPcs
  <1>4. \A d \in Callers : call'[d].pc \notin ReversalPcs
    BY <1>1 DEF Idle, ReversalPcs
  <1> QED
    BY <1>1, <1>2, <1>3, <1>4 DEF RevInv, HeldWasFulfilled, Undisturbed

LEMMA RevStep == RevInv /\ [Next]_vars => RevInv'
  <1> SUFFICES ASSUME RevInv, [Next]_vars PROVE HeldWasFulfilled' /\ Undisturbed'
    BY OnceStep DEF RevInv
  <1> USE PaymentConstants
  <1>0. TypeOK
    BY DEF RevInv, OnceInv
  <1>1. ASSUME NEW o \in Orders, Create(o) PROVE HeldWasFulfilled' /\ Undisturbed'
    BY <1>1, RevCreate
  <1>2. ASSUME NEW c \in Callers, NEW o \in Orders, NEW r \in Routes, MarkPaid(c, o, r)
        PROVE  HeldWasFulfilled' /\ Undisturbed'
    <2>1. ASSUME Payable(status[o]), status' = [status EXCEPT ![o] = "paid"],
                 disturbed' = IF BeingReversed(o) THEN disturbed \cup {o} ELSE disturbed,
                 NEW k, Goes(c, k), k = Confirming(o, r, "fulfil") \/ k = Unpaid(o, r)
          PROVE  HeldWasFulfilled' /\ Undisturbed'
      BY <1>2, <2>1, RevPaid DEF MarkPaid
    <2>2. ASSUME NEW k, Goes(c, k), k = Unpaid(o, r) \/ k = Confirming(o, r, "lookup"),
                 UNCHANGED <<status, disturbed>>
          PROVE  HeldWasFulfilled' /\ Undisturbed'
      <3>1. k.pc \notin OrderPcs /\ call[c].pc \notin OrderPcs
        BY <1>2, <2>2, UnpaidForm DEF MarkPaid, Confirming, Idle, OrderPcs, ReversalPcs
      <3>2. call'[c] = k /\ \A d \in Callers \ {c} : call'[d] = call[d]
        BY <1>0, <2>2, OthersStay
      <3> QED
        BY <1>2, <2>2, <3>1, <3>2, Aside DEF MarkPaid, grants
    <2> QED
      BY <1>2, <2>1, <2>2 DEF MarkPaid
  <1>3. ASSUME NEW c \in Callers, NEW o \in Orders, NEW to \in Reversals, Reverse(c, o, to)
        PROVE  HeldWasFulfilled' /\ Undisturbed'
    BY <1>3, RevReverse
  <1>4. ASSUME NEW c \in Callers, NEW m \in Members,
               \/ PaymentLink(c, m)
               \/ \E t \in Tiers \cup {TierFree} : SetTier(c, m, t)
        PROVE  HeldWasFulfilled' /\ Undisturbed'
    <2>0. PICK t \in Tiers \cup {TierFree}, p \in {"upgrade", "sync"} :
              Goes(c, Granting(m, t, p))
      BY <1>4 DEF PaymentLink, SetTier
    <2>1. PICK k : Goes(c, k) /\ k.pc \notin OrderPcs
      BY <2>0 DEF Granting, OrderPcs, ReversalPcs
    <2>2. call'[c] = k /\ \A d \in Callers \ {c} : call'[d] = call[d]
      BY <1>0, <2>1, OthersStay
    <2>3. call[c].pc \notin OrderPcs
      BY <1>4 DEF PaymentLink, SetTier, Idle, OrderPcs, ReversalPcs
    <2>4. UNCHANGED <<status, fulfilled, disturbed, sub>>
      BY <1>4 DEF PaymentLink, SetTier, grants
    <2> QED
      BY <2>1, <2>2, <2>3, <2>4, Aside
  <1>5. ASSUME NEW c \in Callers, LookUp(c) PROVE HeldWasFulfilled' /\ Undisturbed'
    <2>1. PICK k : Goes(c, k) /\ (k = Idle \/ k = Unpaid(call[c].order, call[c].route))
      BY <1>5 DEF LookUp
    <2>2. k.pc \notin OrderPcs /\ call[c].pc \notin OrderPcs
      BY <1>0, <1>5, <2>1, CallShapes, UnpaidForm
         DEF LookUp, ConfirmCalls, Idle, OrderPcs, ReversalPcs
    <2>3. call'[c] = k /\ \A d \in Callers \ {c} : call'[d] = call[d]
      BY <1>0, <2>1, OthersStay
    <2> QED
      BY <1>5, <2>2, <2>3, Aside DEF LookUp, grants
  <1>6. ASSUME NEW c \in Callers, Fulfil(c) PROVE HeldWasFulfilled' /\ Undisturbed'
    BY <1>6, RevFulfil
  <1>7. ASSUME NEW c \in Callers, Upgrade(c) \/ SyncPaid(c)
        PROVE  HeldWasFulfilled' /\ Undisturbed'
    <2>1. call[c] \in GrantCalls \cup SyncCalls /\ call[c].pc \notin OrderPcs
      BY <1>0, <1>7, CallShapes DEF Upgrade, SyncPaid, GrantPcs, OrderPcs, ReversalPcs
    <2>2. PICK k : Goes(c, k) /\ k \in {Idle, [call[c] EXCEPT !.pc = "start"],
                                        [call[c] EXCEPT !.pc = "comp"]}
      BY <1>7 DEF Upgrade, SyncPaid
    <2>3. k.pc \notin OrderPcs
      BY <2>1, <2>2 DEF Idle, GrantCalls, SyncCalls, OrderPcs, ReversalPcs
    <2>4. call'[c] = k /\ \A d \in Callers \ {c} : call'[d] = call[d]
      BY <1>0, <2>2, OthersStay
    <2>5. UNCHANGED <<status, fulfilled, disturbed, sub>>
      BY <1>7 DEF Upgrade, SyncPaid, grants
    <2> QED
      BY <2>1, <2>3, <2>4, <2>5, Aside
  <1>8. ASSUME NEW c \in Callers, StartPaid(c) \/ StartComp(c) \/ SyncFree(c)
        PROVE  HeldWasFulfilled' /\ Undisturbed'
    <2>1. call'[c] = Idle /\ \A d \in Callers \ {c} : call'[d] = call[d]
      BY <1>0, <1>8, OthersStay DEF StartPaid, StartComp, SyncFree
    <2>2. call[c].pc \notin OrderPcs /\ call'[c].pc \notin OrderPcs
      BY <1>8, <2>1 DEF StartPaid, StartComp, SyncFree, Idle, OrderPcs, ReversalPcs
    <2>3. \A n \in Members : sub'[n] = sub[n] \/ sub'[n].by \notin Orders
      BY <1>0, <1>8, StartsByNoOrder DEF StartPaid, StartComp, SyncFree
    <2>4. UNCHANGED <<status, fulfilled, disturbed>>
      BY <1>8 DEF StartPaid, StartComp, SyncFree
    <2> QED
      BY <2>1, <2>2, <2>3, <2>4, Aside
  <1>9. ASSUME NEW c \in Callers, Resolve(c) \/ Write(c)
        PROVE  HeldWasFulfilled' /\ Undisturbed'
    BY <1>9, RevSetStatus
  <1>10. ASSUME NEW c \in Callers, Revoke(c) PROVE HeldWasFulfilled' /\ Undisturbed'
    BY <1>10, RevRevoke
  <1>11. ASSUME NEW m \in Members, EndSubscription(m)
         PROVE  HeldWasFulfilled' /\ Undisturbed'
    <2>1. \A n \in Members : sub'[n] = sub[n] \/ sub'[n].by \notin Orders
      BY <1>0, <1>11, StartsByNoOrder DEF EndSubscription
    <2> QED
      BY <1>11, <2>1, Aside DEF EndSubscription
  <1>12. ASSUME Crash PROVE HeldWasFulfilled' /\ Undisturbed'
    BY <1>12, RevCrash
  <1>13. CASE UNCHANGED vars
    BY <1>13, Aside DEF vars, grants
  <1> QED
    BY <1>1, <1>2, <1>3, <1>4, <1>5, <1>6, <1>7, <1>8, <1>9, <1>10, <1>11,
       <1>12, <1>13 DEF Next

(* When the reversal of an order is over, its buyer no longer has the      *)
(* subscription that the order's fulfilment started, unless a confirmation *)
(* of the order met the reversal or one of its statements was lost         *)
(* (handleOSOrderReversal, revokeOrderFulfilment).  A subscription that    *)
(* Stripe's webhook starts afterwards is another one.                      *)
THEOREM ReversalRevokes == Spec => []ReversalTakesBack
  <1>1. Init => RevInv
    <2>1. Init => HeldWasFulfilled /\ Undisturbed
      BY PaymentConstants DEF Init, HeldWasFulfilled, Undisturbed, BeingReversed,
          BeingFulfilled, Idle, NoSub, ReversalPcs, Reversals
    <2> QED
      BY <2>1, OnceInit DEF RevInv
  <1>2. RevInv => ReversalTakesBack
    BY DEF RevInv, Undisturbed, ReversalTakesBack, BeingReversed, ReversalPcs
  <1> QED
    BY <1>1, RevStep, <1>2, PTL DEF Spec
=============================================================================
