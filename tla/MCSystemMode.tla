---------------------------- MODULE MCSystemMode ----------------------------
(***************************************************************************)
(* Instances of SystemMode for TLC.  The escalation thresholds are those   *)
(* of DefaultRules scaled down: one windowed fault counts to 2, so both    *)
(* sides of a threshold and its reset are met, and the others fire at 1.   *)
(***************************************************************************)
EXTENDS SystemMode, TLC

MCThreshold == [f \in Faults |-> IF f = "wal.write" THEN 2 ELSE 1]

MCSymmetry == Permutations(Operators)
=============================================================================
