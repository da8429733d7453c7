----------------------------- MODULE MCPayments -----------------------------
(* A model-checking instance of Payments: one buyer, two orders for two     *)
(* tiers.                                                                   *)
EXTENDS Payments, TLC

CONSTANTS c1, c2

MCCallers == {c1, c2}
Symmetry  == Permutations(MCCallers)

SameBuyer == [o \in Orders |-> "m"]
TwoTiers  == [o \in Orders |-> IF o = "o1" THEN "paid" ELSE "gold"]
=============================================================================
