--------------------------- MODULE MCScheduledMail ---------------------------
(* Small instances of ScheduledMail.                                       *)
EXTENDS ScheduledMail, TLC
==============================================================================
