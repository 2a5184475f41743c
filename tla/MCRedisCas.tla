------------------------------ MODULE MCRedisCas ------------------------------
(* Instances of RedisCas for TLC. *)
EXTENDS RedisCas, TLC

CONSTANTS w1, w2

TwoWriters == {w1, w2}
=============================================================================
