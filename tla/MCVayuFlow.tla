----------------------------- MODULE MCVayuFlow -----------------------------
(* Small instances of VayuFlow.                                            *)
EXTENDS VayuFlow, TLC

Doc(t, w, x) == [trigger |-> t, writes |-> w, text |-> x]

(* An event flow and a scheduled one.                                      *)
MCDocuments == {Doc("e", 1, 1), Doc("schedule", 1, 1)}

(* Two texts of one event flow.                                            *)
TwoTexts == {Doc("e", 1, 1), Doc("e", 1, 2)}
=============================================================================
