---------------------------- MODULE MCOutboxRelay ---------------------------
(* Model-checking instances of OutboxRelay.                                *)
EXTENDS OutboxRelay
=============================================================================
