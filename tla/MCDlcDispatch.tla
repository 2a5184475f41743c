----------------------------- MODULE MCDlcDispatch -----------------------------
(* Instances of DlcDispatch for TLC. *)
EXTENDS DlcDispatch, TLC

CONSTANTS r1, r2

TwoRequests == {r1, r2}
=============================================================================
