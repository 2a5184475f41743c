---------------------------- MODULE MCWorkflowLedger ----------------------------
(* Instances of WorkflowLedger for TLC. *)
EXTENDS WorkflowLedger, TLC

CONSTANTS t1, t2, p1, p2

TwoThreads == {t1, t2}
TwoProcesses == {p1, p2}
Apart == (t1 :> p1) @@ (t2 :> p2)
Together == (t1 :> p1) @@ (t2 :> p1)

Ready == <<"created", "planned", "simulated", "ready_to_dispatch">>
Running == Ready \o <<"dispatched", "in_progress">>

Reg == [kind |-> "register", arg |-> "created"]
Adv(s) == [kind |-> "advance", arg |-> s]
Mot(f) == [kind |-> "motion", arg |-> f]

MCScenario == {
    [start |-> <<>>, ops |-> {Reg, Adv("planned")}, procs |-> Apart],
    [start |-> Ready, ops |-> {Adv("dispatched"), Mot("accepted")}, procs |-> Apart],
    [start |-> Ready, ops |-> {Adv("dispatched"), Adv("planned")},
     procs |-> Together],
    [start |-> Running, ops |-> {Mot("done"), Mot("failed")}, procs |-> Apart]}
=============================================================================
