------------------------------ MODULE DlcDispatch ------------------------------
(***************************************************************************)
(* POST /dlc/tasks/dispatch for one device: the claim of the               *)
(* Idempotency-Key in the process's dictionary (l1) and in Redis (store),  *)
(* building the payload, the busy check and the enqueue under the device's *)
(* asyncio lock, and the release of the claim by every request that fails. *)
(*                                                                         *)
(* The handlers are coroutines of the single worker.  claim and release    *)
(* are called without an await, so each is one step; the steps of          *)
(* dispatch_task are separated by its awaits.  A command sent to Redis may *)
(* fail, or take effect and lose its reply; the client then sends it again *)
(* (retry_on_timeout) and the caller sees the second reply or, when the    *)
(* resends fail too, an exception.                                         *)
(*                                                                         *)
(* One device and one key: requests with other keys meet these only at the *)
(* device's lock, where a request without a key stands for them.           *)
(***************************************************************************)
EXTENDS Naturals, FiniteSets

CONSTANTS
    Request,      \* the HTTP requests
    MaxFaults,    \* bound: Redis commands that fail or lose their reply
    MaxExpiries,  \* bound: claims that run out
    MaxCrashes    \* bound: deaths of the worker

CONSTANT None

ASSUME DlcDispatchAssumption ==
    /\ None \notin Request
    /\ MaxFaults \in Nat /\ MaxExpiries \in Nat /\ MaxCrashes \in Nat

VARIABLES
    config,    \* is_production_runtime; has the process a Redis client for the
               \* claims (without a URL, or in the cooldown after it could not
               \* connect, it has none); do the clients send a request_id (the
               \* MCP server does not)
    keyed,     \* requests that carry the Idempotency-Key
    pc,        \* pc[r]: where the handler of r stands
    answer,    \* answer[r]: the status r was answered with
    l1, store, \* who holds the key in the process and in Redis
    lock,      \* holder of the device's asyncio lock
    task,      \* task[r]: status of the row of the task made for r
    queue,     \* queue[r]: entries of r's task in the device's pending list
    pushes,    \* pushes[r]: entries ever pushed for r
    leftover,  \* a claim may have stayed behind: a reply lost, a release failed
    late,      \* requests that raised after their push
    faults, expiries, crashes  \* expiries: claims that ran out altogether

keyVars == <<l1, store>>
taskVars == <<task, queue, pushes>>
countVars == <<leftover, late, faults, expiries, crashes>>
vars == <<config, keyed, pc, answer, keyVars, lock, taskVars, countVars>>

Places == {"new", "build", "lock", "check", "create", "push", "mark",
           "deliver", "done", "dead"}
Kept == {"sent", "queued", "queued_no_delivery"}
Answers == Kept \cup {"none", "duplicate", "unavailable", "failed", "error",
                      "rejected", "waiting_approval"}
Statuses == {"none", "created", "queued", "dispatched", "ended", "expired"}
Active == {"queued", "dispatched"}

Init ==
    /\ config \in [production: BOOLEAN, redis: BOOLEAN, named: BOOLEAN]
    /\ keyed \in SUBSET Request
    /\ pc = [r \in Request |-> "new"]
    /\ answer = [r \in Request |-> "none"]
    /\ l1 = None /\ store = None /\ lock = None
    /\ task = [r \in Request |-> "none"]
    /\ queue = [r \in Request |-> 0]
    /\ pushes = [r \in Request |-> 0]
    /\ leftover = FALSE /\ late = {}
    /\ faults = 0 /\ expiries = 0 /\ crashes = 0

\* mutant: any value matches
AnyValue(r, s) == TRUE

\* what the claim of r stores: its request_id, or "1" when that is empty
SameValue(r, s) == r = s \/ ~config.named

\* how a Redis command ends: [ran] it took effect, [reply] an answer came
\* back, [again] it was sent a second time
Outcomes ==
    {[ran |-> TRUE, reply |-> TRUE, again |-> FALSE]} \cup
    IF faults < MaxFaults
    THEN {[ran |-> FALSE, reply |-> FALSE, again |-> FALSE],
          [ran |-> TRUE, reply |-> FALSE, again |-> FALSE],
          [ran |-> TRUE, reply |-> TRUE, again |-> TRUE]}
    ELSE {}
Counted(o) == IF o.reply /\ ~o.again THEN faults ELSE faults + 1
-----------------------------------------------------------------------------
(* The claim.                                                              *)

Answered(r, a) ==
    /\ pc' = [pc EXCEPT ![r] = "done"]
    /\ answer' = [answer EXCEPT ![r] = a]

GoOn(r, place) ==
    /\ pc' = [pc EXCEPT ![r] = place]
    /\ UNCHANGED answer

\* a request without the header is not deduplicated
ClaimNothing(r) ==
    /\ pc[r] = "new" /\ r \notin keyed
    /\ GoOn(r, "build")
    /\ UNCHANGED <<config, keyed, keyVars, lock, taskVars, countVars>>

\* _l1_claim finds an entry that has not expired
ClaimInL1(r) ==
    /\ pc[r] = "new" /\ r \in keyed
    /\ l1 # None
    /\ Answered(r, "duplicate")
    /\ UNCHANGED <<config, keyed, keyVars, lock, taskVars, countVars>>

\* mutant: production goes on as well
ClaimWithoutStoreAlways(r) == GoOn(r, "build") /\ l1' = None

\* No answer from Redis: production gives the key back and answers 503, any
\* other runtime goes on with the entry of the process.
ClaimWithoutStore(r) ==
    IF config.production
    THEN Answered(r, "unavailable") /\ l1' = None
    ELSE GoOn(r, "build") /\ l1' = r

ClaimUnconfigured(r) ==
    /\ pc[r] = "new" /\ r \in keyed
    /\ l1 = None /\ ~config.redis
    /\ ClaimWithoutStore(r)
    /\ UNCHANGED <<config, keyed, store, lock, taskVars, countVars>>

\* SET NX EX; sent twice, the second finds the key of the first
Claim(r) ==
    /\ pc[r] = "new" /\ r \in keyed
    /\ l1 = None /\ config.redis
    /\ \E o \in Outcomes :
         /\ store' = IF o.ran /\ store = None THEN r ELSE store
         /\ faults' = Counted(o)
         /\ leftover' = (leftover \/ (store' # store /\ (o.again \/ ~o.reply)))
         /\ IF ~o.reply THEN ClaimWithoutStore(r)
            ELSE IF store = None /\ ~o.again THEN GoOn(r, "build") /\ l1' = r
            ELSE Answered(r, "duplicate") /\ l1' = None
    /\ UNCHANGED <<config, keyed, lock, taskVars, late, expiries, crashes>>

\* mutant: only the entry of the process is released
ReleaseL1Only(r) ==
    /\ l1' = IF l1 = r THEN None ELSE l1
    /\ UNCHANGED <<store, leftover, faults>>
-----------------------------------------------------------------------------
(* The work.                                                               *)

\* release_idempotency_key: compare and delete, first in the process, then in
\* Redis; an exception there leaves the key to its TTL
Release(r) ==
    IF r \notin keyed THEN UNCHANGED <<keyVars, leftover, faults>>
    ELSE /\ l1' = IF l1 # None /\ SameValue(l1, r) THEN None ELSE l1
         /\ IF ~config.redis THEN UNCHANGED <<store, leftover, faults>>
            ELSE \E o \in Outcomes :
                   /\ store' = IF o.ran /\ store # None /\ SameValue(store, r)
                               THEN None ELSE store
                   /\ leftover' = (leftover \/ ~o.ran)
                   /\ faults' = Counted(o)

\* build_dispatch_payload, with its own awaits
Build(r) ==
    /\ pc[r] = "build"
    /\ \/ GoOn(r, "lock") /\ UNCHANGED <<keyVars, leftover, faults>>
       \/ \E a \in {"failed", "error"} : Answered(r, a) /\ Release(r)
    /\ UNCHANGED <<config, keyed, lock, taskVars, late, expiries, crashes>>

\* mutant: a lock of each request's own
AcquireOwn(r) ==
    /\ pc[r] = "lock"
    /\ lock' = r
    /\ GoOn(r, "check")
    /\ UNCHANGED <<config, keyed, keyVars, taskVars, countVars>>

\* async with _get_lock(device_id)
Acquire(r) ==
    /\ pc[r] = "lock" /\ lock = None
    /\ lock' = r
    /\ GoOn(r, "check")
    /\ UNCHANGED <<config, keyed, keyVars, taskVars, countVars>>

\* mutant: a rejected dispatch returns without leaving the lock
GiveUpLocked(r, a) ==
    /\ UNCHANGED lock
    /\ Answered(r, a)
    /\ Release(r)

\* the request leaves dispatch_task and its lock without an accepted task
GiveUp(r, a) ==
    /\ lock' = None
    /\ Answered(r, a)
    /\ Release(r)

\* Entries over an hour old; the claims they were pushed under ran out long
\* before.
OverAge == {r \in Request : /\ queue[r] > 0
                             /\ r \in keyed => store # r /\ l1 # r}

\* expire_stale_queued: the old entries leave the queue, and their rows are
\* closed unless they are no longer queued
Expire(old) ==
    /\ queue' = [r \in Request |-> IF r \in old THEN 0 ELSE queue[r]]
    /\ task' = [r \in Request |-> IF r \in old /\ task[r] = "queued"
                                  THEN "expired" ELSE task[r]]

Busy(t) == \E r \in Request : t[r] \in Active

\* active_tasks_for_device in a thread
Check(r) ==
    /\ pc[r] = "check"
    /\ \E old \in {{}} \cup {{e} : e \in OverAge} : Expire(old)
    /\ IF Busy(task') THEN GiveUp(r, "rejected")
       ELSE GoOn(r, "create") /\ UNCHANGED <<lock, keyVars, leftover, faults>>
    /\ UNCHANGED <<config, keyed, pushes, late, expiries, crashes>>

\* create_and_route_task up to the enqueue: the task may be refused, or has
\* to wait for an approval, which this entrance does not queue
Create(r) ==
    /\ pc[r] = "create"
    /\ \/ /\ task' = [task EXCEPT ![r] = "created"]
          /\ \/ GoOn(r, "push") /\ UNCHANGED <<lock, keyVars, leftover, faults>>
             \/ GiveUp(r, "waiting_approval")
       \/ GiveUp(r, "failed") /\ UNCHANGED task
    /\ UNCHANGED <<config, keyed, queue, pushes, late, expiries, crashes>>

\* enqueue_pending_task: the RPUSH, perhaps sent twice
Push(r) ==
    /\ pc[r] = "push"
    /\ \E o \in Outcomes :
         LET n == IF ~o.ran THEN 0 ELSE IF o.again THEN 2 ELSE 1 IN
         /\ o.reply
         /\ queue' = [queue EXCEPT ![r] = @ + n]
         /\ pushes' = [pushes EXCEPT ![r] = @ + n]
         /\ faults' = Counted(o)
    /\ GoOn(r, "mark")
    /\ UNCHANGED <<config, keyed, keyVars, lock, task, leftover, late, expiries,
                   crashes>>

\* enqueue_pending_task: the row, then pending_count over all queues.  The
\* row is set to queued whatever a drain has made of the task meanwhile.
Mark(r) ==
    /\ pc[r] = "mark"
    /\ task' = [task EXCEPT ![r] = "queued"]
    /\ GoOn(r, "deliver")
    /\ UNCHANGED <<config, keyed, keyVars, lock, queue, pushes, countVars>>

\* A command of the check, of the creation, of the enqueue or of
\* pending_count raises; the handler releases the key and the exception
\* passes.  Behind the RPUSH the entry stays in the queue.
Raise(r) ==
    /\ pc[r] \in {"check", "create", "push", "mark"}
    /\ faults < MaxFaults
    /\ lock' = None
    /\ Answered(r, "error")
    /\ Release(r)
    /\ \/ UNCHANGED taskVars
       \/ /\ pc[r] = "push"
          /\ queue' = [queue EXCEPT ![r] = @ + 1]
          /\ pushes' = [pushes EXCEPT ![r] = @ + 1]
          /\ UNCHANGED task
       \/ /\ pc[r] = "mark"
          /\ task' = [task EXCEPT ![r] = "queued"]
          /\ UNCHANGED <<queue, pushes>>
    /\ late' = IF pushes'[r] > 0 THEN late \cup {r} ELSE late
    /\ UNCHANGED <<config, keyed, expiries, crashes>>

\* try_deliver_and_classify never raises; the claim is kept
Deliver(r) ==
    /\ pc[r] = "deliver"
    /\ \E a \in Kept :
         /\ a = "sent" => queue[r] = 0
         /\ Answered(r, a)
    /\ lock' = None
    /\ UNCHANGED <<config, keyed, keyVars, taskVars, countVars>>

Handle(r) ==
    \/ ClaimNothing(r) \/ ClaimInL1(r) \/ ClaimUnconfigured(r) \/ Claim(r)
    \/ Build(r) \/ Acquire(r) \/ Check(r) \/ Create(r) \/ Push(r) \/ Mark(r)
    \/ Raise(r) \/ Deliver(r)
-----------------------------------------------------------------------------
(* The surroundings.                                                       *)

\* A drain sends an entry to the device (module DeviceDelivery; in which order
\* makes no difference to the claims, the lock and the rows).
Drain(r) ==
    /\ queue[r] > 0
    /\ queue' = [queue EXCEPT ![r] = @ - 1]
    /\ task' = [task EXCEPT ![r] = "dispatched"]
    /\ UNCHANGED <<config, keyed, pc, answer, keyVars, lock, pushes, countVars>>

\* the device reports the end of a drawing
End(r) ==
    /\ task[r] = "dispatched"
    /\ task' = [task EXCEPT ![r] = "ended"]
    /\ UNCHANGED <<config, keyed, pc, answer, keyVars, lock, queue, pushes,
                   countVars>>

\* The entry of the process runs out, or is dropped because there are too many
\* (_l1_sweep); the key in Redis, set after it with the same TTL, runs out
\* later.
L1Expires ==
    /\ l1 # None /\ expiries < MaxExpiries
    /\ l1' = None
    /\ expiries' = IF config.production /\ store = l1 THEN expiries ELSE expiries + 1
    /\ UNCHANGED <<config, keyed, pc, answer, store, lock, taskVars, leftover,
                   late, faults, crashes>>

StoreExpires ==
    /\ store # None /\ l1 # store /\ expiries < MaxExpiries
    /\ store' = None
    /\ expiries' = expiries + 1
    /\ UNCHANGED <<config, keyed, pc, answer, l1, lock, taskVars, leftover,
                   late, faults, crashes>>

\* the worker dies and starts again: what it held in memory is gone
Crash ==
    /\ crashes < MaxCrashes
    /\ crashes' = crashes + 1
    /\ pc' = [r \in Request |-> IF pc[r] \in {"new", "done"} THEN pc[r] ELSE "dead"]
    /\ l1' = None /\ lock' = None
    /\ UNCHANGED <<config, keyed, answer, store, taskVars, leftover, late,
                   faults, expiries>>

Settled == \A r \in Request : pc[r] \in {"done", "dead"}

Next ==
    \/ \E r \in Request : Handle(r) \/ Drain(r) \/ End(r)
    \/ L1Expires \/ StoreExpires \/ Crash

Spec == Init /\ [][Next]_vars

\* A handler the loop has started is resumed again and again.
FairSpec == Spec /\ \A r \in Request : WF_vars(Handle(r))
-----------------------------------------------------------------------------
(* Properties.                                                             *)

TypeOK ==
    /\ config \in [production: BOOLEAN, redis: BOOLEAN, named: BOOLEAN]
    /\ keyed \subseteq Request /\ late \subseteq Request
    /\ pc \in [Request -> Places]
    /\ answer \in [Request -> Answers]
    /\ {l1, store} \subseteq keyed \cup {None}
    /\ lock \in Request \cup {None}
    /\ task \in [Request -> Statuses]
    /\ {queue, pushes} \subseteq [Request -> Nat]
    /\ leftover \in BOOLEAN
    /\ {faults, expiries, crashes} \subseteq Nat

\* A repeated Idempotency-Key does not dispatch twice (routes.py:202), as
\* long as the claim is in force: it has not run out, and the worker has not
\* died with a claim only it knew of.  A request that raised behind its push
\* has given the key back, as if its "command never reached the device queue"
\* (routes.py:238), and is left out: see late.
DispatchedOnce ==
    expiries = 0 /\ (crashes = 0 \/ config.production)
        => Cardinality({r \in keyed \ late : pushes[r] > 0}) =< 1

\* Requests that fail leave the key free for a retry (idempotency.py:5-7):
\* when every request with the key has ended and none was accepted, no claim
\* is left, except by a reply or a release that Redis lost.
FailureStaysRetryable ==
    ~leftover /\ (\A r \in keyed : pc[r] \in {"new", "done"} /\ answer[r] \notin Kept)
        => l1 = None /\ store = None

\* A step of one request never removes or replaces the claim of another
\* (idempotency.py:171-174); a claim goes with its holder or by its TTL.  This
\* takes clients that send a request_id: without one all claims hold the same
\* value, and a release gives back whichever it finds.
OthersClaimKept ==
    [][config.named =>
         /\ store # None /\ store' # store =>
              \A r \in Request \ {store} : pc'[r] = pc[r]
         /\ l1 # None /\ l1' # l1 /\ crashes' = crashes =>
              \A r \in Request \ {l1} : pc'[r] = pc[r]]_vars

\* The busy check and the enqueue are made one by the lock: of the tasks that
\* were queued here once, by requests that got as far as recording it, one
\* at most is active.
OneActive ==
    Cardinality({r \in Request : /\ task[r] \in Active /\ pushes[r] = 1
                                 /\ r \notin late /\ pc[r] # "dead"}) =< 1

\* The variables have their types, and the device is not given two tasks.
Consistent == TypeOK /\ OneActive

\* Every request that was started is answered, unless the worker dies: no
\* path leaves the device's lock behind.
RequestsAnswered ==
    \A r \in Request : pc[r] # "new" ~> pc[r] \in {"done", "dead"}
=============================================================================
