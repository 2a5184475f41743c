----------------------------- MODULE MCVoiceSocket -----------------------------
(* Instances of VoiceSocket for TLC. *)
EXTENDS VoiceSocket, TLC

CONSTANTS h1, h2

TwoHandlers == {h1, h2}

Case(n, limit, inRedis, ofTickets, ofConnections) ==
    [slots |-> n, rate |-> limit, redis |-> inRedis,
     issues |-> ofTickets, connects |-> ofConnections]

\* one ticket and the limiter in its two ways, the second with a slot for one
\* handler; two tickets and slots for both
MCSettings == {
    Case(2, 1, TRUE, 1, 4), Case(1, 2, FALSE, 1, 3), Case(2, 2, FALSE, 2, 2)}
=============================================================================
