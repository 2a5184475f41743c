-------------------------- MODULE MCDeviceDelivery --------------------------
(* Instances of DeviceDelivery for TLC. *)
EXTENDS DeviceDelivery, TLC

CONSTANTS t1, t2

OneTask == {t1}
TwoTasks == {t1, t2}

Case(T, faults, n) == [tasks |-> T, faults |-> faults, recoveries |-> n]

\* one task under the faults of the link, with time that passes or with a crash
\* and requeues that break off, or under those three; a batch of two tasks into
\* a link that may break
Links == {"breaks", "ackfail", "rehello", "silence"}
OneUnderFaultsOrBatch ==
    {Case({t}, Links \cup {"delay"}, 1) : t \in Task}
      \cup {Case({t}, Links \cup {"crash", "torn"}, 1) : t \in Task}
      \cup {Case({t}, {"ackfail", "delay", "crash", "torn"}, 1) : t \in Task}
      \cup {Case(TwoTasks, {"breaks", "torn"}, 0)}

Returning == {Case({t1}, {"ackfail", "delay", "crash", "torn", "expiry"}, 1)}
OnlyDelay == {Case({t1}, {"delay"}, 1)}

Symmetry == Permutations(Task)
=============================================================================
