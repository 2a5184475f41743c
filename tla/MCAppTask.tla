------------------------------- MODULE MCAppTask -------------------------------
(* Instances of AppTask for TLC. *)
EXTENDS AppTask

CONSTANTS create, a1, a2

FreeText == {"freetext"}
TwoApprovers == {a1, a2}
=============================================================================
