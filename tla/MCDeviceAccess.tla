---------------------------- MODULE MCDeviceAccess ----------------------------
(* Instances of DeviceAccess for TLC. *)
EXTENDS DeviceAccess, TLC

CONSTANTS admin, u, v, s1, s2, t1

ThreeAccounts == {admin, u, v}
OneAdmin == {admin}
TwoShares == {s1, s2}
OneTransfer == {t1}

Symmetry == Permutations({u, v}) \cup Permutations(TwoShares)
=============================================================================
