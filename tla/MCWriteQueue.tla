---------------------------- MODULE MCWriteQueue ----------------------------
(* A model-checking instance of WriteQueue.                                *)
EXTENDS WriteQueue

Asked == [op: {"insert", "other"}, slug: {"a"}, kind: {"published"}]
=============================================================================
