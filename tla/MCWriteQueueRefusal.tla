------------------------- MODULE MCWriteQueueRefusal -------------------------
(* A model-checking instance of WriteQueueRefusal.                          *)
EXTENDS WriteQueueRefusal, TLC

CONSTANTS w1, w2

MCWorkers == {w1, w2}
Symmetry  == Permutations(MCWorkers)

Edits == {[op |-> "insert", slug |-> "a", kind |-> "draft"],
          [op |-> "update", slug |-> "a", kind |-> "published"],
          [op |-> "delete", slug |-> "a", kind |-> "published"]}
==============================================================================
