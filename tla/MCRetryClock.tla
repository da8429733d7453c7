---------------------------- MODULE MCRetryClock ----------------------------
(* Model-checking instances of RetryClock.                                 *)
EXTENDS RetryClock
=============================================================================
