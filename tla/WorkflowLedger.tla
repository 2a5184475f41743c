----------------------------- MODULE WorkflowLedger -----------------------------
(***************************************************************************)
(* The workflow of one task under several threads and processes:           *)
(* WorkflowOrchestrator.register and advance under the Redis lock of the   *)
(* task, the process's RLock and the cache behind it, and record_motion_   *)
(* event, which advances under the lock but appends its own events without *)
(* it.  The ledger is RedisLedgerStore: the ids, the list of the task and  *)
(* the list of the device are written by separate commands.                *)
(*                                                                         *)
(* A thread performs one operation.  A command may fail, or take effect    *)
(* and lose its reply; redis-py then sends it again (retry_on_timeout).    *)
(* The lock's key has a TTL that may run out under its owner.              *)
(*                                                                         *)
(* A replay goes through the events in the order of their time stamps; a   *)
(* stamp is taken when the event is made, before it is appended.  The      *)
(* reads behind one _current_state are one read here: a state read later   *)
(* than the number of events is cached under a number that is out of date  *)
(* by then.                                                                *)
(***************************************************************************)
EXTENDS Naturals, Sequences, SequencesExt, TaskWorkflow

CONSTANTS
    Thread,      \* threads, each performing one operation
    Proc,        \* processes
    Scenario,    \* where a run begins: the statuses of the events the task
                 \* already has, the operations the threads may perform and
                 \* the process of each
    MaxFaults,   \* bound: commands that fail or are sent twice, and crashes
    MaxLapses    \* bound: locks that run out

CONSTANT None

Kinds == {"register", "advance", "motion"}

\* register has no argument, advance a state; a motion_event has a phase the
\* workflow follows ("rejected" takes no lock and is in AppTask)
ArgsOf(kind) ==
    CASE kind = "register" -> {"created"}
      [] kind = "advance" -> TaskState
      [] kind = "motion" -> Phase \ {"rejected"}

ASSUME WorkflowLedgerAssumption ==
    /\ None \notin Thread
    /\ \A s \in Scenario : /\ s.start \in Seq(TaskState) /\ s.procs \in [Thread -> Proc]
                            /\ \A o \in s.ops : o.kind \in Kinds /\ o.arg \in ArgsOf(o.kind)
    /\ MaxFaults \in Nat /\ MaxLapses \in Nat

VARIABLES
    op,        \* op[t]: what t was called to do and in which process
    pc,        \* pc[t]: where it stands
    result,    \* result[t]: how its register or advance ended; "raised": the
               \* motion_event itself could not be appended
    key,       \* owner of the lock's key in Redis, by its nonce
    nonces,    \* nonces[p]: the nonce process p holds for the task
    rlock,     \* rlock[p]: thread inside the process's RLock
    making,    \* making[t]: event being appended
    tasklist,  \* the list of the task
    devlist,   \* events in the list of the device, whose order nothing reads
    cache,     \* cache[p]: [n, state] or None
    clock,     \* stamps given out
    resent, lapsed, faults, lapses

lockVars == <<key, nonces, rlock>>
ledgerVars == <<tasklist, devlist>>
countVars == <<resent, lapsed, faults, lapses>>
vars == <<op, pc, result, lockVars, making, ledgerVars, cache, clock, countVars>>

Event(status, ends, t, n) ==
    [status |-> status, ends |-> ends, by |-> t, stamp |-> n]

\* the calls of the threads in scenario s
Calls(s) ==
    /\ op \in [Thread -> {[kind |-> o.kind, arg |-> o.arg, proc |-> s.procs[t]] :
                            o \in s.ops, t \in Thread}]
    /\ \A t \in Thread : op[t].proc = s.procs[t]

Init ==
    /\ \E s \in Scenario :
         /\ Calls(s)
         /\ tasklist = [i \in DOMAIN s.start |-> Event(s.start[i], FALSE, None, i)]
    /\ pc = [t \in Thread |-> "start"]
    /\ result = [t \in Thread |-> "none"]
    /\ key = None
    /\ nonces = [p \in Proc |-> None]
    /\ rlock = [p \in Proc |-> None]
    /\ making = [t \in Thread |-> None]
    /\ devlist = ToSet(tasklist)
    /\ cache = [p \in Proc |-> None]
    /\ clock = Len(tasklist)
    /\ resent = FALSE /\ lapsed = FALSE
    /\ faults = 0 /\ lapses = 0
-----------------------------------------------------------------------------
(* Replaying.                                                              *)

\* the events whose status is a state of the workflow
Stateful(events) == {e \in events : e.status \in TaskState}

\* the last of _sorted_events
Latest(events) == CHOOSE e \in events : \A f \in events : f.stamp =< e.stamp

\* _current_state: "the most recent workflow-relevant state", for events some
\* of which are Stateful
Replay(events) == Latest(Stateful(events)).status

\* events_for_task
Events == ToSet(tasklist)

\* mutant: the cache is never out of date
CachedForever(p) == cache[p] # None

\* What _current_state answers.  A cached state is used when the number of
\* events is the one it was replayed from.
Cached(p) == cache[p] # None /\ cache[p].n = Len(tasklist)

\* An unknown task, or one without a state, raises and is not cached.
HasState == Stateful(Events) # {}

Known(p) == IF Cached(p) THEN cache[p].state ELSE Replay(Events)
Filled(p) == [cache EXCEPT ![p] =
                IF HasState THEN [n |-> Len(tasklist), state |-> Known(p)] ELSE @]
-----------------------------------------------------------------------------
(* The lock.                                                               *)

\* how a command ends, as the caller sees it
Outcomes == {"ok"} \cup IF faults < MaxFaults THEN {"failed", "lost", "again"} ELSE {}
Ran(o) == o # "failed"
Counted(o) == IF o = "ok" THEN faults ELSE faults + 1

Goto(t, place) == pc' = [pc EXCEPT ![t] = place]

\* the register or advance of t is over; a motion_event goes on
Over(t) == IF op[t].kind = "motion" THEN "motion" ELSE "done"

Ended(t, r) ==
    /\ result' = [result EXCEPT ![t] = r]
    /\ Goto(t, Over(t))

\* mutant: takes a lock that is held
AcquireAnyway(t) ==
    /\ pc[t] = "start"
    /\ key' = t
    /\ nonces' = [nonces EXCEPT ![op[t].proc] = t]
    /\ Goto(t, "locked")
    /\ UNCHANGED <<op, result, rlock, making, ledgerVars, cache, clock, countVars>>

\* SET NX EX; not acquired: refused.  Sent twice, the second finds the key of
\* the first, and the lock belongs to nobody.
Acquire(t) ==
    /\ pc[t] = "start"
    /\ \E o \in Outcomes :
         /\ key' = IF Ran(o) /\ key = None THEN t ELSE key
         /\ IF o = "ok" /\ key = None
            THEN /\ nonces' = [nonces EXCEPT ![op[t].proc] = t]
                 /\ Goto(t, "locked")
                 /\ UNCHANGED result
            ELSE Ended(t, IF o \in {"ok", "again"} THEN "refused" ELSE "error")
                 /\ UNCHANGED nonces
         /\ faults' = Counted(o)
    /\ UNCHANGED <<op, rlock, making, ledgerVars, cache, clock, resent, lapsed, lapses>>

\* with self._lock
Enter(t) ==
    /\ pc[t] = "locked" /\ rlock[op[t].proc] = None
    /\ rlock' = [rlock EXCEPT ![op[t].proc] = t]
    /\ Goto(t, "read")
    /\ UNCHANGED <<op, result, key, nonces, making, ledgerVars, cache, clock,
                   countVars>>

\* the nonce the process remembers is the one in the key
Owns(p) == key = nonces[p]

\* release: whatever nonce the process holds is popped, and the key deleted
\* if it holds that nonce; an exception leaves the key to its TTL
Release(t) ==
    /\ pc[t] = "release"
    /\ \E o \in Outcomes :
         /\ key' = IF nonces[op[t].proc] # None /\ Owns(op[t].proc) /\ Ran(o)
                   THEN None ELSE key
         /\ faults' = Counted(o)
    /\ nonces' = [nonces EXCEPT ![op[t].proc] = None]
    /\ Goto(t, Over(t))
    /\ UNCHANGED <<op, result, rlock, making, ledgerVars, cache, clock, resent,
                   lapsed, lapses>>

\* the TTL runs out; lapsed: under a thread that was still at work
Lapse ==
    /\ key # None /\ lapses < MaxLapses
    /\ key' = None
    /\ lapses' = lapses + 1
    /\ lapsed' = (lapsed \/ pc[key] \in {"locked", "read", "append", "device",
                                         "answer", "release"})
    /\ UNCHANGED <<op, pc, result, nonces, rlock, making, ledgerVars, cache,
                   clock, resent, faults>>
-----------------------------------------------------------------------------
(* register, advance.                                                      *)

\* _append_advance_event; task_terminal for the four ends
AdvanceEvent(t, target) ==
    Event(EventStatus(target), target \in {"terminal", "completed", "failed", "cancelled"},
          t, clock + 1)

WantedTarget(t) == IF op[t].kind = "motion" THEN Target(op[t].arg) ELSE op[t].arg

\* mutant: a refusal keeps the RLock
LeaveLocked(t, r) ==
    /\ result' = [result EXCEPT ![t] = r]
    /\ rlock' = IF r = "refused" THEN rlock ELSE [rlock EXCEPT ![op[t].proc] = None]
    /\ Goto(t, "release")

Leave(t, r) ==
    /\ result' = [result EXCEPT ![t] = r]
    /\ rlock' = [rlock EXCEPT ![op[t].proc] = None]
    /\ Goto(t, "release")

\* mutant: a transition is not looked up
MayAppendAny(t) ==
    IF op[t].kind = "register" THEN tasklist = <<>> ELSE HasState

MayAppend(t) ==
    IF op[t].kind = "register" THEN tasklist = <<>>
    ELSE HasState /\ WantedTarget(t) \in ValidTransitions[Known(op[t].proc)]

\* The events are read and the event to append is made, or the call refused:
\* a registered task, an unknown one, a transition that is not allowed.
Read(t) ==
    LET p == op[t].proc
        new == IF op[t].kind = "register" THEN Event("created", FALSE, t, clock + 1)
               ELSE AdvanceEvent(t, WantedTarget(t)) IN
    /\ pc[t] = "read"
    /\ cache' = IF op[t].kind = "register" THEN cache ELSE Filled(p)
    /\ IF MayAppend(t)
       THEN /\ making' = [making EXCEPT ![t] = new]
            /\ clock' = clock + 1
            /\ Goto(t, "append")
            /\ UNCHANGED <<result, rlock>>
       ELSE Leave(t, "refused") /\ UNCHANGED <<making, clock>>
    /\ UNCHANGED <<op, key, nonces, ledgerVars, countVars>>

\* _current_state of the caller's answer
Answer(t) ==
    /\ pc[t] = "answer"
    /\ cache' = Filled(op[t].proc)
    /\ Leave(t, "ok")
    /\ UNCHANGED <<op, key, nonces, making, ledgerVars, clock, countVars>>
-----------------------------------------------------------------------------
(* append_event.                                                           *)

Locked(t) == pc[t] \in {"append", "device"}

\* what follows an append that raised: an advance raises, record_motion_event
\* as well, without the fallback
Raised(t) ==
    IF Locked(t) THEN Leave(t, "error")
    ELSE Goto(t, "done") /\ result' = [result EXCEPT ![t] = "raised"] /\ UNCHANGED rlock

\* SADD of the id and RPUSH to the task's list.  A SADD sent twice reports a
\* duplicate and nothing is appended; a RPUSH sent twice appends twice.
Append1(t) ==
    /\ pc[t] \in {"append", "mappend"}
    /\ \/ \E n \in (IF faults < MaxFaults THEN {1, 2} ELSE {1}) :
            /\ tasklist' = tasklist \o [i \in 1..n |-> making[t]]
            /\ faults' = faults + n - 1
            /\ resent' = (resent \/ n = 2)
            /\ Goto(t, IF pc[t] = "append" THEN "device" ELSE "mdevice")
            /\ UNCHANGED <<result, rlock>>
       \/ /\ faults < MaxFaults /\ faults' = faults + 1
          /\ Raised(t)
          /\ tasklist' \in {tasklist, Append(tasklist, making[t])}
          /\ UNCHANGED resent
    /\ UNCHANGED <<op, key, nonces, making, devlist, cache, clock, lapsed, lapses>>

\* mutant: no fallback
AfterAppendAlways(t) == IF pc[t] = "device" THEN "answer" ELSE "done"

\* what an append that returned is followed by: the answer of an advance, or
\* in record_motion_event the fallback task_terminal of an end that did not
\* advance
AfterAppend(t) ==
    IF pc[t] = "device" THEN "answer"
    ELSE IF making[t].ends \/ op[t].arg \notin TerminalPhase \/ result[t] = "ok"
    THEN "done" ELSE "fallback"

\* RPUSH to the device's list
Append2(t) ==
    /\ pc[t] \in {"device", "mdevice"}
    /\ \/ /\ devlist' = devlist \cup {making[t]}
          /\ Goto(t, AfterAppend(t))
          /\ UNCHANGED <<result, rlock, faults>>
       \/ /\ faults < MaxFaults /\ faults' = faults + 1
          /\ Raised(t)
          /\ devlist' \in {devlist, devlist \cup {making[t]}}
    /\ UNCHANGED <<op, key, nonces, making, tasklist, cache, clock, resent,
                   lapsed, lapses>>
-----------------------------------------------------------------------------
(* record_motion_event behind the advance, which swallows what it raised.  *)

Make(t, ends) ==
    /\ making' = [making EXCEPT ![t] = Event(op[t].arg, ends, t, clock + 1)]
    /\ clock' = clock + 1
    /\ Goto(t, "mappend")
    /\ UNCHANGED <<op, result, lockVars, ledgerVars, cache, countVars>>

Motion(t) == pc[t] = "motion" /\ Make(t, FALSE)

Fallback(t) == pc[t] = "fallback" /\ Make(t, TRUE)
-----------------------------------------------------------------------------
\* a process dies: its memory is gone, the key stays until its TTL
Crash(p) ==
    LET dead == {t \in Thread : op[t].proc = p /\ pc[t] \notin {"start", "done"}} IN
    /\ faults < MaxFaults /\ dead # {}
    /\ faults' = faults + 1
    /\ pc' = [t \in Thread |-> IF t \in dead THEN "dead" ELSE pc[t]]
    /\ nonces' = [nonces EXCEPT ![p] = None]
    /\ rlock' = [rlock EXCEPT ![p] = None]
    /\ cache' = [cache EXCEPT ![p] = None]
    /\ UNCHANGED <<op, result, key, making, ledgerVars, clock, resent, lapsed, lapses>>

Step(t) ==
    \/ Acquire(t) \/ Enter(t) \/ Read(t) \/ Append1(t) \/ Append2(t)
    \/ Answer(t) \/ Release(t) \/ Motion(t) \/ Fallback(t)

Next ==
    \/ \E t \in Thread : Step(t)
    \/ \E p \in Proc : Crash(p)
    \/ Lapse

Spec == Init /\ [][Next]_vars

\* Threads are scheduled, and Redis expires keys.
FairSpec == Spec /\ (\A t \in Thread : WF_vars(Step(t))) /\ WF_vars(Lapse)
-----------------------------------------------------------------------------
(* Properties.                                                             *)

Places == {"start", "locked", "read", "append", "device", "answer", "release",
           "motion", "mappend", "mdevice", "fallback", "done", "dead"}
EventType == [status : TaskState \cup Phase, ends : BOOLEAN,
              by : Thread \cup {None}, stamp : Nat]

TypeOK ==
    /\ \A t \in Thread : /\ op[t].kind \in Kinds /\ op[t].arg \in ArgsOf(op[t].kind)
                          /\ op[t].proc \in Proc
    /\ pc \in [Thread -> Places]
    /\ result \in [Thread -> {"none", "ok", "refused", "error", "raised"}]
    /\ key \in Thread \cup {None}
    /\ nonces \in [Proc -> Thread \cup {None}]
    /\ rlock \in [Proc -> Thread \cup {None}]
    /\ making \in [Thread -> EventType \cup {None}]
    /\ tasklist \in Seq(EventType) /\ devlist \subseteq EventType
    /\ cache \in [Proc -> [n : Nat, state : TaskState] \cup {None}]
    /\ clock \in Nat
    /\ {resent, lapsed} \subseteq BOOLEAN

\* inside the lock of the task
Inside(t) == pc[t] \in {"locked", "read", "append", "device", "answer", "release"}

\* lock.py:1-6: one register or advance of a task at a time, in all processes,
\* while no lock ran out under its owner.
MutualExclusion ==
    ~lapsed => \A t, u \in Thread : Inside(t) /\ Inside(u) => t = u

\* Only valid transitions are appended (orchestrator.py:1): replaying the
\* ledger, every event of a register or an advance follows a state that
\* allows it, as long as no lock ran out, nothing was sent twice and no
\* motion_event was appended next to it without the lock.
AllowedAt(e, events) ==
    LET before == {f \in events : f.stamp < e.stamp} IN
    IF e.status = "created" THEN before = {}
    ELSE \E target \in ValidTransitions[Replay(before)] : EventStatus(target) = e.status

TransitionsValid ==
    ~lapsed /\ ~resent /\ (\A t \in Thread : op[t].kind # "motion")
        => \A e \in Events : e.by # None => AllowedAt(e, Events)

\* What a call leaves in both lists of the ledger: events of its own with this
\* status.
Left(t, status) == {e \in Events \cap devlist : e.by = t /\ e.status = status}

AdvancedTo(t) ==
    IF op[t].kind = "register" THEN "created" ELSE EventStatus(WantedTarget(t))

\* A register or advance that returned has its event in both lists.  A
\* record_motion_event that returned has its motion_event in both, and if the
\* phase ends the task a task_terminal as well: the advance's own, or the
\* fallback's (task_events.py:61-71) when the advance was refused or raised.
\* All that whatever was lost, sent twice or ran out.  A record_motion_event
\* that raised because its own appends did is the caller's to repeat.
ReturnedMeansRecorded ==
    \A t \in Thread :
      /\ result[t] = "ok" => Left(t, AdvancedTo(t)) # {}
      /\ op[t].kind = "motion" /\ pc[t] = "done" /\ result[t] # "raised" =>
           /\ \E e \in Left(t, op[t].arg) : ~e.ends
           /\ op[t].arg \in TerminalPhase =>
                \E e \in Events \cap devlist : e.by = t /\ e.ends

\* The cache never answers with a state the ledger has left: a state cached
\* for the present number of events is the one a replay yields, also when
\* events of other processes arrive out of the order of their stamps.
CacheAgrees ==
    \A p \in Proc : Cached(p) => cache[p].state = Replay(Events)

\* The variables have their types, and the caches agree with the ledger.
Consistent == TypeOK /\ CacheAgrees

\* Every operation ends: nobody waits for the lock of a task, and neither a
\* refusal nor a command that raises keeps the RLock from the process's other
\* threads.
OperationsEnd ==
    \A t \in Thread : pc[t] # "start" ~> pc[t] \in {"done", "dead"}
=============================================================================
