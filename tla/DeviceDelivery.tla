---------------------------- MODULE DeviceDelivery ----------------------------
(***************************************************************************)
(* Delivery of motion tasks to one plotter: the pending and processing     *)
(* lists and the task rows in Redis, the device's WebSocket sessions, the  *)
(* coroutines that drain the queue into a session, and the two reapers.    *)
(*                                                                         *)
(* The server is one event loop.  A loop step runs from one await to the   *)
(* next; the awaits are the frame being sent (a coroutine holds a popped   *)
(* batch meanwhile) and the calls run in asyncio.to_thread (enqueue, stale *)
(* recovery, expiry), whose Redis commands interleave with everything,     *)
(* also with the two halves of a pop.  Row updates are atomic, which       *)
(* module RedisCas justifies.                                              *)
(*                                                                         *)
(* Lists, sessions and rows of different devices are disjoint, so one      *)
(* device is modelled.                                                     *)
(***************************************************************************)
EXTENDS Integers, TaskLists

CONSTANTS
    Task,
    MaxTaskRetries,  \* MAX_TASK_RETRIES (3 in the code)
    PopLimit,        \* limit of pop_pending_tasks (16 in the code)
    MaxSessions,     \* bound: sessions the device opens
    Scenario         \* the cases: [tasks, faults, recoveries]

(***************************************************************************)
(* A scenario is a set of tasks that are enqueued, the faults of the       *)
(* environment that may happen, and a bound on the entries that the stale  *)
(* reaper moves back.  The faults: breaks: a connection dies unnoticed;    *)
(* ackfail: hello_ack cannot be sent; rehello: a second hello on the same  *)
(* connection; silence: no heartbeat for 90 s on a live connection; delay: *)
(* 120 s pass; expiry: an hour passes; crash: the process dies, once;      *)
(* torn: Redis fails inside a requeue.                                     *)
(***************************************************************************)
Fault ==
    {"breaks", "ackfail", "rehello", "silence", "delay", "expiry", "crash", "torn"}

ASSUME DeliveryAssumption ==
    /\ MaxTaskRetries \in Nat
    /\ PopLimit \in Nat \ {0}
    /\ MaxSessions \in Nat
    /\ \A e \in Scenario :
          e.tasks \subseteq Task /\ e.faults \subseteq Fault /\ e.recoveries \in Nat

VARIABLES
    pending, processing,  \* the Redis lists, head = LEFT
    row,                  \* the task rows
    dropped,              \* tasks given up on: abandoned or expired
    age,                  \* age[t]: of the task's `_enqueued_at`
    api,                  \* api[t]: where the request that enqueues t stands
    nsess,                \* sessions opened so far; sessions are 1 .. nsess
    sock,                 \* sock[s]: the websocket of session s
    inflight,             \* inflight[s]: DeviceSession.inflight_tasks
    reg,                  \* the session in the registry, 0 if none
    quiet,                \* is reg's last_seen older than the zombie timeout
    link,                 \* link[w]: state of websocket w
    handler, cur,         \* device_ws coroutine of w, and its `session`
    drain,                \* the drain_pending_tasks coroutines
    reaper,               \* the stale-processing loop
    dev,                  \* dev[t]: what became of t's frames at the device
    recoveries,
    torn,                 \* tasks that a requeue took out and did not push
    crashed,              \* did the process die
    env                   \* the scenario

storeVars == <<pending, processing, row, dropped>>
sessVars == <<nsess, sock, inflight, reg, quiet>>
wsVars == <<link, handler, cur>>
boundVars == <<recoveries, torn, crashed, env>>
vars == <<storeVars, age, api, sessVars, wsVars, drain, reaper, dev, boundVars>>

Session == 1 .. MaxSessions

\* An entry is the serialized task: its id, and the `_dispatch_gen` that a
\* popped task object carries and a requeued entry therefore has (-1: absent).
Entry == [task: Task, gen: Int]

Status == {"created", "queued", "dispatching", "dispatched", "running",
           "done", "dead_letter", "expired"}
\* started: age of processing_started_at against the stale timeout (120 s)
Row == [status: Status, gen: Nat, retry: Nat,
        started: {"none", "fresh", "stale"}]

\* the request: RPUSH done, row marked, draining, and its dispatchStatus
Api == {"idle", "pushed", "marked", "drain", "sent", "unsent"}

\* no frame; only frames into a dead link; got one; finished the drawing; got
\* another frame after it had finished
Dev == {"none", "lost", "got", "done", "again"}

\* coroutines that may be draining: the hello handler of a websocket, the
\* stale reaper, a request that has just enqueued
HelloDrain(w) == <<"hello", w>>
ReaperDrain == <<"reaper", 0>>
ApiDrain == <<"api", 0>>
Drainer == {HelloDrain(w) : w \in Session} \cup {ReaperDrain, ApiDrain}
Idle == [pc |-> "idle", s |-> 0, batch |-> <<>>]
StartedOn(s) == [pc |-> "pop", s |-> s, batch |-> <<>>]
Asleep == [pc |-> "sleep", todo |-> <<>>, moved |-> FALSE]

NewRow == [status |-> "created", gen |-> 0, retry |-> 0, started |-> "none"]

\* The loop does one thing at a time: a pop between its two halves holds it.
\* Every loop action has this guard; what threads do has not.
LoopFree == \A d \in Drainer : drain[d].pc # "claim"

Init ==
    /\ pending = <<>> /\ processing = <<>> /\ dropped = {}
    /\ row = [t \in Task |-> NewRow]
    /\ age = [t \in Task |-> "new"]
    /\ api = [t \in Task |-> "idle"]
    /\ nsess = 0 /\ reg = 0 /\ quiet = FALSE
    /\ sock = [s \in Session |-> 0]
    /\ inflight = [s \in Session |-> <<>>]
    /\ link = [w \in Session |-> "none"]
    /\ handler = [w \in Session |-> "none"]
    /\ cur = [w \in Session |-> 0]
    /\ drain = [d \in Drainer |-> Idle]
    /\ reaper = Asleep
    /\ dev = [t \in Task |-> "none"]
    /\ recoveries = 0 /\ torn = {} /\ crashed = FALSE
    /\ env \in Scenario
-----------------------------------------------------------------------------
(* Requests: dispatch_or_enqueue, and expiry when the device is asked for. *)

\* enqueue_pending_task in a thread, first command: RPUSH
EnqueuePush(t) ==
    /\ t \in env.tasks
    /\ api[t] = "idle"
    /\ pending' = Append(pending, [task |-> t, gen |-> -1])
    /\ api' = [api EXCEPT ![t] = "pushed"]
    /\ UNCHANGED <<processing, row, dropped, age, sessVars, wsVars, drain,
                   reaper, dev, boundVars>>

\* enqueue_pending_task, second command: the row becomes "queued"
EnqueueMark(t) ==
    /\ api[t] = "pushed"
    /\ row' = [row EXCEPT ![t].status = "queued"]
    /\ api' = [api EXCEPT ![t] = "marked"]
    /\ UNCHANGED <<pending, processing, dropped, age, sessVars, wsVars, drain,
                   reaper, dev, boundVars>>

\* try_deliver_pending: drain into the registered session, if there is one.
\* (Bound: one request drains at a time.)
ApiDeliver(t) ==
    /\ LoopFree
    /\ api[t] = "marked"
    /\ drain[ApiDrain] = Idle
    /\ IF reg = 0
       THEN /\ api' = [api EXCEPT ![t] = "unsent"]
            /\ UNCHANGED drain
       ELSE /\ api' = [api EXCEPT ![t] = "drain"]
            /\ drain' = [drain EXCEPT ![ApiDrain] = StartedOn(reg)]
    /\ UNCHANGED <<storeVars, age, sessVars, wsVars, reaper, dev, boundVars>>

\* the drain of the request returned: its dispatchStatus
Answered(d, verdict) ==
    [t \in Task |-> IF d = ApiDrain /\ api[t] = "drain" THEN verdict
                                                        ELSE api[t]]

\* expire_stale_queued in a thread: an over-age entry leaves the queue; its
\* row becomes "expired" if it was still queued
ExpireQueued(t) ==
    /\ age[t] = "over"
    /\ \E i \in At(pending, t) :
          pending' = RemoveFirstEqual(pending, pending[i])
    /\ row' = IF row[t].status = "queued"
              THEN [row EXCEPT ![t].status = "expired"] ELSE row
    /\ dropped' = dropped \cup {t}
    /\ UNCHANGED <<processing, age, api, sessVars, wsVars, drain, reaper, dev,
                   boundVars>>
-----------------------------------------------------------------------------
(* The drain loop: drain_pending_tasks and dispatch_task_to_session.       *)

\* pop_pending_tasks, first half: LMOVE up to PopLimit entries.  An empty
\* queue ends the drain; a hello handler then goes on to read messages.
DrainPop(d) ==
    /\ LoopFree
    /\ drain[d].pc = "pop"
    /\ LET taken == Taken(pending, PopLimit)
       IN  /\ pending' = AfterTake(pending, PopLimit)
           /\ processing' = MovedOnto(processing, taken)
           /\ IF taken = <<>>
              THEN /\ drain' = [drain EXCEPT ![d] = Idle]
                   /\ handler' = [w \in Session |->
                                    IF d = HelloDrain(w) THEN "loop"
                                                         ELSE handler[w]]
                   /\ cur' = [w \in Session |->
                                IF d = HelloDrain(w) THEN drain[d].s ELSE cur[w]]
                   /\ api' = Answered(d, "sent")
              ELSE /\ drain' = [drain EXCEPT ![d].pc = "claim",
                                             ![d].batch = taken]
                   /\ UNCHANGED <<handler, cur, api>>
    /\ UNCHANGED <<row, dropped, age, sessVars, link, reaper, dev, boundVars>>

\* second half: the rows become "dispatching", the task objects get the
\* dispatch generation of their row.  The loop does nothing in between.
DrainClaim(d) ==
    /\ drain[d].pc = "claim"
    /\ row' = [t \in Task |-> IF InList(drain[d].batch, t)
                 THEN [row[t] EXCEPT !.status = "dispatching",
                                     !.started = "fresh"]
                 ELSE row[t]]
    /\ drain' = [drain EXCEPT
                   ![d].pc = "send",
                   ![d].batch = [k \in DOMAIN @ |->
                     [task |-> @[k].task, gen |-> row[@[k].task].gen]]]
    /\ UNCHANGED <<pending, processing, dropped, age, api, sessVars, wsVars,
                   reaper, dev, boundVars>>

\* the frame of t reached the device, or went into the buffer of a dead link
Received(t) == [dev EXCEPT ![t] = CASE @ \in {"none", "lost", "got"} -> "got"
                                    [] OTHER -> "again"]
Vanished(t) == [dev EXCEPT ![t] = IF @ = "none" THEN "lost" ELSE @]

\* session.send_json returned
SendOk(d) ==
    /\ LoopFree
    /\ drain[d].pc = "send"
    /\ LET t == Head(drain[d].batch).task
           l == link[sock[drain[d].s]]
       IN  /\ l \in {"up", "dead"}
           /\ dev' = IF l = "up" THEN Received(t) ELSE Vanished(t)
    /\ drain' = [drain EXCEPT ![d].pc = "mark"]
    /\ UNCHANGED <<storeVars, age, api, sessVars, wsVars, reaper, boundVars>>

\* dict assignment: a task already there keeps its place
Marked(s, o) ==
    IF InList(inflight[s], o.task)
    THEN [i \in DOMAIN inflight[s] |->
            IF inflight[s][i].task = o.task THEN o ELSE inflight[s][i]]
    ELSE Append(inflight[s], o)

\* the coroutine resumes: session.mark_task_dispatched, the row, next task
MarkDispatched(d) ==
    /\ LoopFree
    /\ drain[d].pc = "mark"
    /\ LET o == Head(drain[d].batch)
           s == drain[d].s
           rest == Tail(drain[d].batch)
       IN  /\ inflight' = [inflight EXCEPT ![s] = Marked(s, o)]
           /\ row' = [row EXCEPT ![o.task].status = "dispatched"]
           /\ drain' = [drain EXCEPT
                          ![d].pc = IF rest = <<>> THEN "pop" ELSE "send",
                          ![d].batch = rest]
    /\ UNCHANGED <<pending, processing, dropped, age, api, nsess, sock, reg,
                   quiet, wsVars, reaper, dev, boundVars>>

(***************************************************************************)
(* requeue_pending_tasks: take the tasks out of processing, push them all  *)
(* to the front of pending in their order, set their rows to "queued".  It *)
(* runs on the loop; of the threads' commands only an expiry between the   *)
(* push and the row updates could tell it from one step.  When Redis fails *)
(* after the k-th removal, the k tasks are in neither list.                *)
(***************************************************************************)
Queued(r, T) ==
    [t \in Task |-> IF InList(T, t)
                    THEN [r[t] EXCEPT !.status = "queued", !.started = "none"]
                    ELSE r[t]]

TakenOut(st, T) == [st EXCEPT !.processing = RemoveTasks(@, T)]

\* mutant: pushes tasks[1:]
RequeueTail(st, T) ==
    [TakenOut(st, T) EXCEPT !.pending = SubSeq(T, 2, Len(T)) \o @,
                            !.row = Queued(@, T)]

Requeue(st, T) ==
    [TakenOut(st, T) EXCEPT !.pending = T \o @, !.row = Queued(@, T)]

(***************************************************************************)
(* requeue_session_outstanding on the tasks T: count a retry for each, and *)
(* abandon those beyond the limit (out of processing, "dead_letter"); the  *)
(* others are requeued together.                                           *)
(***************************************************************************)
OverLimit(st, T) ==
    {i \in DOMAIN T : st.row[T[i].task].retry + Rank(At(T, T[i].task), i)
                        > MaxTaskRetries}

Kept(st, T) == Pick(T, DOMAIN T \ OverLimit(st, T))

Counted(r, T) ==
    [t \in Task |-> [r[t] EXCEPT !.retry = @ + Cardinality(At(T, t))]]

Abandoned(st, T) ==
    LET gone == {t \in TasksOf(T) : InList(st.processing, t)}
    IN  [TakenOut(st, T) EXCEPT
           !.row = [t \in Task |-> IF t \in gone
                      THEN [@[t] EXCEPT !.status = "dead_letter",
                                        !.started = "none"]
                      ELSE @[t]],
           !.dropped = @ \cup TasksOf(T)]

CountedAndAbandoned(st, T) ==
    Abandoned([st EXCEPT !.row = Counted(@, T)], Pick(T, OverLimit(st, T)))

RequeueOutstanding(st, T) == Requeue(CountedAndAbandoned(st, T), Kept(st, T))

\* the same, broken off after k removals, and what was taken out by then
BrokenOff(st, T, k) ==
    TakenOut(CountedAndAbandoned(st, T), SubSeq(Kept(st, T), 1, k))
Missing(st, T, k) == TasksOf(SubSeq(Kept(st, T), 1, k))
Breaks(st, T) == 0 .. Len(Kept(st, T))

Store == [pending |-> pending, processing |-> processing, row |-> row,
          dropped |-> dropped]
StoreBecomes(st) ==
    /\ pending' = st.pending
    /\ processing' = st.processing
    /\ row' = st.row
    /\ dropped' = st.dropped

\* take_outstanding_tasks empties the in-flight tasks of s
Emptied(s) == [inflight EXCEPT ![s] = <<>>]

\* mutant: whatever websocket the registered session has
UnregisterAny(w) == reg' = 0 /\ quiet' = FALSE

\* registry.unregister(device_id, websocket w)
Unregister(w) ==
    IF reg # 0 /\ sock[reg] = w THEN reg' = 0 /\ quiet' = FALSE
                                ELSE UNCHANGED <<reg, quiet>>

\* the tasks that dispatch_task_to_session puts back when its frame fails:
\* what the session holds and the task at hand (the mutant: the whole batch,
\* whose rest the drain loop puts back as well)
FailedAll(d) == inflight[drain[d].s] \o drain[d].batch
Failed(d) == Append(inflight[drain[d].s], Head(drain[d].batch))

\* send_json raised: unregister, requeue what the session holds and the task
\* at hand, then the rest of the batch; the drain reports False.  A hello
\* handler then leaves its loop: its finally finds nothing more to requeue.
SendFail(d) ==
    /\ LoopFree
    /\ drain[d].pc = "send"
    /\ LET s == drain[d].s
           w == sock[s]
           rest == Tail(drain[d].batch)
       IN  /\ link[w] \in {"dead", "closed"}
           /\ StoreBecomes(RequeueOutstanding(
                             RequeueOutstanding(Store, Failed(d)), rest))
           /\ inflight' = Emptied(s)
           /\ Unregister(w)
           /\ IF d = HelloDrain(w)
              THEN /\ handler' = [handler EXCEPT ![w] = "end"]
                   /\ link' = [link EXCEPT ![w] = "closed"]
              ELSE UNCHANGED <<handler, link>>
    /\ drain' = [drain EXCEPT ![d] = Idle]
    /\ api' = Answered(d, "unsent")
    /\ UNCHANGED <<age, nsess, sock, cur, reaper, dev, boundVars>>

\* the session of an earlier hello on the same connection, which device_ws
\* has until the later hello returns
Earlier(d) == {cur[w] : w \in {v \in Session : d = HelloDrain(v)}} \ {0}

\* requeue on st breaks off, and the exception ends the drain; out of a hello
\* handler it also ends device_ws, whose finally requeues for that session
BreaksOff(st, T, d) ==
    \E k \in Breaks(st, T) :
       /\ torn' = torn \cup Missing(st, T, k)
       /\ IF Earlier(d) = {}
          THEN StoreBecomes(BrokenOff(st, T, k))
          ELSE \E s \in Earlier(d) :
                 StoreBecomes(RequeueOutstanding(BrokenOff(st, T, k), inflight[s]))

\* a failed send whose first or second requeue breaks off; what is not taken
\* out by then stays in processing, in nobody's hands
SendFailTorn(d) ==
    /\ LoopFree
    /\ "torn" \in env.faults
    /\ drain[d].pc = "send"
    /\ LET s == drain[d].s
           w == sock[s]
           rest == Tail(drain[d].batch)
       IN  /\ link[w] \in {"dead", "closed"}
           /\ \/ BreaksOff(Store, Failed(d), d)
              \/ /\ rest # <<>>
                 /\ BreaksOff(RequeueOutstanding(Store, Failed(d)), rest, d)
           /\ inflight' = [r \in Session |-> IF r \in {s} \cup Earlier(d) THEN <<>>
                                                                      ELSE inflight[r]]
           /\ Unregister(w)
           /\ IF d = HelloDrain(w)
              THEN /\ handler' = [handler EXCEPT ![w] = "end"]
                   /\ link' = [link EXCEPT ![w] = "closed"]
              ELSE UNCHANGED <<handler, link>>
    /\ drain' = [drain EXCEPT ![d] = Idle]
    /\ api' = Answered(d, "unsent")
    /\ UNCHANGED <<age, nsess, sock, cur, reaper, dev, recoveries, crashed, env>>
-----------------------------------------------------------------------------
(* The device's WebSocket: device_ws, _handle_hello, _handle_message.      *)

\* registry.register replaces the entry; a superseded websocket is closed
Superseded(w) == IF reg # 0 /\ sock[reg] # w THEN {sock[reg]} ELSE {}

Registered(w, l) ==
    LET s == nsess + 1
    IN  /\ nsess' = s
        /\ sock' = [sock EXCEPT ![s] = w]
        /\ reg' = s
        /\ quiet' = FALSE
        /\ link' = [v \in Session |-> CASE v = w -> l
                                        [] v \in Superseded(w) -> "closed"
                                        [] OTHER -> link[v]]

\* _handle_hello to the end of hello_ack: the session is registered and the
\* handler starts to drain into it
Greeted(w) ==
    /\ Registered(w, "up")
    /\ handler' = [handler EXCEPT ![w] = "hello"]
    /\ drain' = [drain EXCEPT ![HelloDrain(w)] = StartedOn(nsess + 1)]
    /\ UNCHANGED <<storeVars, age, api, inflight, cur, reaper, dev, boundVars>>

\* The device connects anew.  It has one connection at a time, so its earlier
\* ones are not up; the server may not have noticed.
Hello ==
    /\ LoopFree
    /\ nsess < MaxSessions
    /\ \A w \in Session : link[w] # "up"
    /\ Greeted(nsess + 1)

\* the same, but sending hello_ack raises: device_ws has not been handed the
\* session yet, so its finally neither requeues nor unregisters
HelloAckFails ==
    /\ LoopFree
    /\ "ackfail" \in env.faults
    /\ nsess + 1 < MaxSessions
    /\ \A w \in Session : link[w] # "up"
    /\ Registered(nsess + 1, "closed")
    /\ handler' = [handler EXCEPT ![nsess + 1] = "end"]
    /\ UNCHANGED <<storeVars, age, api, inflight, cur, drain, reaper, dev,
                   boundVars>>

\* a second hello on an authenticated connection: a new session object takes
\* over; the handler forgets the old one with its in-flight tasks
HelloAgain(w) ==
    /\ LoopFree
    /\ "rehello" \in env.faults
    /\ nsess < MaxSessions
    /\ handler[w] = "loop" /\ link[w] = "up"
    /\ Greeted(w)

\* Device_ws leaves its loop; finally: requeue what its session holds,
\* unregister (which spares a session of another websocket)
HandlerEnds(w, closed) ==
    /\ inflight' = Emptied(cur[w])
    /\ link' = [v \in Session |-> IF v \in closed THEN "closed" ELSE link[v]]
    /\ handler' = [handler EXCEPT ![w] = "end"]
    /\ UNCHANGED <<age, api, nsess, sock, cur, drain, reaper, dev, recoveries,
                   crashed, env>>

Finally(w, closed) ==
    /\ StoreBecomes(RequeueOutstanding(Store, inflight[cur[w]]))
    /\ UNCHANGED torn
    /\ HandlerEnds(w, closed)

Leaves(w) == handler[w] = "loop" /\ link[w] \in {"dead", "closed"}

Disconnect(w) ==
    /\ LoopFree /\ Leaves(w)
    /\ Finally(w, {w})
    /\ Unregister(w)

\* the requeue breaks off: the exception passes over unregister, so the dead
\* session stays in the registry
DisconnectTorn(w) ==
    /\ LoopFree /\ Leaves(w)
    /\ "torn" \in env.faults
    /\ LET T == inflight[cur[w]]
       IN  \E k \in Breaks(Store, T) :
              /\ StoreBecomes(BrokenOff(Store, T, k))
              /\ torn' = torn \cup Missing(Store, T, k)
    /\ HandlerEnds(w, {w})
    /\ UNCHANGED <<reg, quiet>>

\* a second hello whose hello_ack cannot be sent: finally runs with the old
\* session, and finds the new one registered with its own websocket
HelloAgainAckFails(w) ==
    /\ LoopFree
    /\ {"rehello", "ackfail"} \subseteq env.faults
    /\ nsess < MaxSessions
    /\ handler[w] = "loop" /\ link[w] = "up"
    /\ Finally(w, {w} \cup Superseded(w))
    /\ reg' = 0 /\ quiet' = FALSE

\* heartbeat: refreshes whatever session the registry holds for the device
Heartbeat(w) ==
    /\ LoopFree
    /\ handler[w] = "loop" /\ link[w] = "up"
    /\ reg # 0 /\ quiet
    /\ quiet' = FALSE
    /\ UNCHANGED <<storeVars, age, api, nsess, sock, inflight, reg, wsVars,
                   drain, reaper, dev, boundVars>>

\* the device completes its drawing of t
Finished(t) == [dev EXCEPT ![t] = "done"]
Drawing(t) == dev[t] \in {"got", "again"}

\* motion_event: the row takes the phase, whatever it was ("done" stands for
\* every final phase).  Nothing here acknowledges the processing entry or the
\* session's in-flight task.
MotionEvent(w, t, phase) ==
    /\ LoopFree
    /\ handler[w] = "loop" /\ link[w] = "up"
    /\ Drawing(t)
    /\ row' = [row EXCEPT ![t].status = phase]
    /\ dev' = IF phase = "done" THEN Finished(t) ELSE dev
    /\ UNCHANGED <<pending, processing, dropped, age, api, sessVars, wsVars,
                   drain, reaper, boundVars>>
-----------------------------------------------------------------------------
(* Reapers.                                                                *)

\* _stale_processing_loop: for an online device, in a thread, LRANGE
ReaperScan ==
    /\ reaper.pc = "sleep"
    /\ drain[ReaperDrain] = Idle
    /\ reg # 0
    /\ processing # <<>>
    /\ recoveries < env.recoveries
    /\ reaper' = [pc |-> "check", todo |-> processing, moved |-> FALSE]
    /\ UNCHANGED <<storeVars, age, api, sessVars, wsVars, drain, dev, boundVars>>

\* processing_started_at, or `_enqueued_at` if the row has none (the mutant
\* has no such fallback)
IsStaleByStart(t) == row[t].started = "stale"
IsStale(t) ==
    \/ row[t].started = "stale"
    \/ row[t].started = "none" /\ age[t] # "new"

\* read the row of the next entry of the snapshot
ReaperCheck ==
    /\ reaper.pc = "check"
    /\ reaper.todo # <<>>
    /\ reaper' = IF IsStale(Head(reaper.todo).task) /\ recoveries < env.recoveries
                 THEN [reaper EXCEPT !.pc = "move"]
                 ELSE [reaper EXCEPT !.todo = Tail(@)]
    /\ UNCHANGED <<storeVars, age, api, sessVars, wsVars, drain, dev, boundVars>>

\* _REQUEUE_LUA: back to pending, only if the very entry is still there
ReaperMove ==
    /\ reaper.pc = "move"
    /\ LET e == Head(reaper.todo)
       IN  IF \E i \in DOMAIN processing : processing[i] = e
           THEN /\ processing' = RemoveEqual(processing, e)
                /\ pending' = <<e>> \o pending
                /\ recoveries' = recoveries + 1
                /\ reaper' = [reaper EXCEPT !.pc = "mark", !.moved = TRUE]
           ELSE /\ reaper' = [reaper EXCEPT !.pc = "check", !.todo = Tail(@)]
                /\ UNCHANGED <<processing, pending, recoveries>>
    /\ UNCHANGED <<row, dropped, age, api, sessVars, wsVars, drain, dev,
                   torn, crashed, env>>

\* _mark_recovered: back to "queued", next dispatch generation
ReaperMark ==
    /\ reaper.pc = "mark"
    /\ LET t == Head(reaper.todo).task
       IN  row' = [row EXCEPT ![t].status = "queued", ![t].gen = @ + 1,
                              ![t].started = "none"]
    /\ reaper' = [reaper EXCEPT !.pc = "check", !.todo = Tail(@)]
    /\ UNCHANGED <<pending, processing, dropped, age, api, sessVars, wsVars,
                   drain, dev, boundVars>>

\* back on the loop: if anything moved and the device is online, drain
ReaperDeliver ==
    /\ LoopFree
    /\ reaper.pc = "check"
    /\ reaper.todo = <<>>
    /\ reaper' = Asleep
    /\ drain' = IF reaper.moved /\ reg # 0
                THEN [drain EXCEPT ![ReaperDrain] = StartedOn(reg)]
                ELSE drain
    /\ UNCHANGED <<storeVars, age, api, sessVars, wsVars, dev, boundVars>>

\* the registered session is a zombie (the mutant: and holds tasks)
ZombieBusy == reg # 0 /\ quiet /\ inflight[reg] # <<>>
ZombieDue == reg # 0 /\ quiet

Evicted ==
    /\ inflight' = Emptied(reg)
    /\ link' = [link EXCEPT ![sock[reg]] = "closed"]
    /\ reg' = 0 /\ quiet' = FALSE
    /\ UNCHANGED <<age, api, nsess, sock, handler, cur, drain, reaper, dev,
                   recoveries, crashed, env>>

\* remove_zombies: the in-flight tasks go back without counting a retry, the
\* websocket is closed
ZombieEvict ==
    /\ LoopFree
    /\ ZombieDue
    /\ StoreBecomes(Requeue(Store, inflight[reg]))
    /\ UNCHANGED torn
    /\ Evicted

\* the requeue breaks off: logged, the eviction goes on
ZombieEvictTorn ==
    /\ LoopFree
    /\ ZombieDue
    /\ "torn" \in env.faults
    /\ \E k \in 0 .. Len(inflight[reg]) :
          /\ StoreBecomes(TakenOut(Store, SubSeq(inflight[reg], 1, k)))
          /\ torn' = torn \cup TasksOf(SubSeq(inflight[reg], 1, k))
    /\ Evicted
-----------------------------------------------------------------------------
(* The environment: the network, the device, time, crashes.  A fault needs *)
(* a session to spare, so that the device can always come back.            *)

\* the connection breaks without the server noticing
LinkDies(w) ==
    /\ "breaks" \in env.faults
    /\ nsess < MaxSessions
    /\ link[w] = "up"
    /\ link' = [link EXCEPT ![w] = "dead"]
    /\ UNCHANGED <<storeVars, age, api, sessVars, handler, cur, drain, reaper,
                   dev, boundVars>>

\* the device finishes while it has no connection to report it on
FinishUnreported(t) ==
    /\ Drawing(t)
    /\ \A w \in Session : link[w] # "up"
    /\ dev' = Finished(t)
    /\ UNCHANGED <<storeVars, age, api, sessVars, wsVars, drain, reaper,
                   boundVars>>

\* no heartbeat for 90 s
Silence ==
    /\ reg # 0 /\ ~quiet
    /\ link[sock[reg]] = "up" => "silence" \in env.faults /\ nsess < MaxSessions
    /\ quiet' = TRUE
    /\ UNCHANGED <<storeVars, age, api, nsess, sock, inflight, reg, wsVars,
                   drain, reaper, dev, boundVars>>

\* 120 s (or an hour) pass
Older(t, a) == IF api[t] # "idle" /\ age[t] # "over" THEN a ELSE age[t]
TimePasses ==
    /\ "delay" \in env.faults
    /\ \E a \in {"old"} \cup IF "expiry" \in env.faults THEN {"over"} ELSE {} :
          age' = [t \in Task |-> Older(t, a)]
    /\ row' = [t \in Task |-> IF row[t].started = "fresh"
                 THEN [row[t] EXCEPT !.started = "stale"] ELSE row[t]]
    /\ row' # row \/ age' # age
    /\ UNCHANGED <<pending, processing, dropped, api, sessVars, wsVars, drain,
                   reaper, dev, boundVars>>

\* The process dies: what Redis holds survives.  Inside a requeue this is as
\* if Redis failed there first.
Crash ==
    /\ "crash" \in env.faults
    /\ ~crashed /\ crashed' = TRUE
    /\ nsess < MaxSessions
    /\ api' = [t \in Task |-> IF api[t] \in {"idle", "sent"} THEN api[t]
                                                             ELSE "unsent"]
    /\ inflight' = [s \in Session |-> <<>>]
    /\ reg' = 0 /\ quiet' = FALSE
    /\ link' = [w \in Session |-> IF w <= nsess THEN "closed" ELSE "none"]
    /\ handler' = [w \in Session |-> IF w <= nsess THEN "end" ELSE "none"]
    /\ drain' = [d \in Drainer |-> Idle]
    /\ reaper' = Asleep
    /\ UNCHANGED <<storeVars, age, nsess, sock, cur, dev, recoveries, torn, env>>
-----------------------------------------------------------------------------
\* what threads do
ThreadStep ==
    \/ \E t \in Task : EnqueuePush(t) \/ EnqueueMark(t) \/ ExpireQueued(t)
    \/ ReaperScan \/ ReaperCheck \/ ReaperMove \/ ReaperMark

\* what the device, the network and time do
EnvStep ==
    \/ \E w \in Session : LinkDies(w)
    \/ \E t \in Task : FinishUnreported(t)
    \/ Silence
    \/ TimePasses
    \/ Crash

Draining(d) ==
    \/ DrainPop(d) \/ SendOk(d) \/ MarkDispatched(d)
    \/ SendFail(d) \/ SendFailTorn(d)

LoopStep ==
    \/ \E t \in Task : ApiDeliver(t)
    \/ \E d \in Drainer : Draining(d)
    \/ Hello \/ HelloAckFails
    \/ \E w \in Session :
          HelloAgain(w) \/ HelloAgainAckFails(w) \/ Heartbeat(w)
            \/ Disconnect(w) \/ DisconnectTorn(w)
    \/ \E w \in Session, t \in Task, phase \in {"running", "done"} :
          MotionEvent(w, t, phase)
    \/ ReaperDeliver
    \/ ZombieEvict \/ ZombieEvictTorn

Next ==
    \/ ThreadStep
    \/ EnvStep
    \/ \E d \in Drainer : DrainClaim(d)
    \/ LoopStep

Spec == Init /\ [][Next]_vars

(***************************************************************************)
(* Started coroutines and threads go on, the reapers run periodically, a   *)
(* broken connection is noticed, and time passes.                          *)
(***************************************************************************)
ServerFairness ==
    /\ \A t \in Task : WF_vars(EnqueueMark(t)) /\ WF_vars(ApiDeliver(t))
    /\ \A d \in Drainer : WF_vars(DrainClaim(d)) /\ WF_vars(Draining(d))
    /\ WF_vars(ReaperScan \/ ReaperCheck \/ ReaperMove \/ ReaperMark)
    /\ WF_vars(ReaperDeliver)
    /\ WF_vars(ZombieEvict \/ ZombieEvictTorn)
    /\ \A w \in Session : WF_vars(Disconnect(w) \/ DisconnectTorn(w))
    /\ WF_vars(Silence /\ link[sock[reg]] # "up")
    /\ WF_vars(TimePasses)

\* the device connects when it has no connection
DeviceReturns == WF_vars(Hello)

ServerFairSpec == Spec /\ ServerFairness
-----------------------------------------------------------------------------
TypeOK ==
    /\ pending \in Seq(Entry) /\ processing \in Seq(Entry)
    /\ row \in [Task -> Row]
    /\ dropped \in SUBSET Task
    /\ age \in [Task -> {"new", "old", "over"}]
    /\ api \in [Task -> Api]
    /\ nsess \in 0 .. MaxSessions
    /\ sock \in [Session -> 0 .. MaxSessions]
    /\ inflight \in [Session -> Seq(Entry)]
    /\ reg \in 0 .. nsess
    /\ quiet \in BOOLEAN
    /\ link \in [Session -> {"none", "up", "dead", "closed"}]
    /\ handler \in [Session -> {"none", "hello", "loop", "end"}]
    /\ cur \in [Session -> 0 .. MaxSessions]
    /\ drain \in [Drainer -> [pc: {"idle", "pop", "claim", "send", "mark"},
                              s: 0 .. MaxSessions, batch: Seq(Entry)]]
    /\ reaper \in [pc: {"sleep", "check", "move", "mark"}, todo: Seq(Entry),
                   moved: BOOLEAN]
    /\ dev \in [Task -> Dev]
    /\ recoveries \in 0 .. env.recoveries
    /\ torn \subseteq Task
    /\ crashed \in BOOLEAN
    /\ env \in Scenario

(***************************************************************************)
(* A task whose enqueue has started stays in Redis, to be sent or to be    *)
(* recovered, until it is given up on by name (abandoned after too many    *)
(* retries, or expired).  Held through pops, failed sends, disconnects,    *)
(* superseded and evicted sessions, recoveries and crashes.  The exception *)
(* are tasks that a requeue had taken out of processing when Redis failed  *)
(* or the process died, before it pushed them.                             *)
(***************************************************************************)
NoTaskLost ==
    \A t \in Task : api[t] # "idle" /\ t \notin dropped \cup torn =>
        InList(pending, t) \/ InList(processing, t)

(***************************************************************************)
(* Who will put a popped task back: the sessions and drains that hold it.  *)
(***************************************************************************)
Holders(t) ==
    {<<"session", s>> : s \in {r \in Session : InList(inflight[r], t)}}
      \cup {d \in Drainer : InList(drain[d].batch, t)}

Copies(t) == Cardinality(At(pending, t)) + Cardinality(At(processing, t))

(***************************************************************************)
(* As long as the stale reaper has moved nothing, a task is in the lists   *)
(* at most once, only one coroutine or session may put it back, and while  *)
(* one may, its entry is in processing.  So a retry is counted once and an *)
(* abandoned task is gone.                                                 *)
(***************************************************************************)
SingleOwner ==
    recoveries = 0 => \A t \in Task :
        /\ Copies(t) <= 1
        /\ Cardinality(Holders(t)) <= 1
        /\ Holders(t) # {} => InList(processing, t)
        /\ t \in dropped => Copies(t) = 0

\* The variables have their types, and every task its owner.
Consistent == TypeOK /\ SingleOwner

(***************************************************************************)
(* No step unregisters a session whose connection lives on: a handler that *)
(* ends, a failed send or an eviction takes only its own websocket's       *)
(* session out of the registry.                                            *)
(***************************************************************************)
LiveSessionStaysRegistered ==
    [][reg # 0 /\ reg' = 0 => link'[sock[reg]] # "up"]_vars

(***************************************************************************)
(* A registered session whose connection is gone does not stay registered: *)
(* its handler, a failed send, a new hello or the zombie loop removes it,  *)
(* whether or not the device comes back.                                   *)
(***************************************************************************)
DeadSessionRemoved ==
    \A s \in Session :
        (reg = s /\ link[sock[s]] # "up") ~> (reg # s)

(***************************************************************************)
(* If the device comes back, a task stuck in processing does not stay      *)
(* there: it reaches the device, goes back to pending, is given up on, or  *)
(* lost in a requeue (or the bound on recoveries is used up).  The reaper  *)
(* looks only at devices that have a session.                              *)
(***************************************************************************)
StuckTaskRecovered ==
    DeviceReturns =>
        \A t \in Task :
            InList(processing, t) ~>
                \/ dev[t] \notin {"none", "lost"}
                \/ InList(pending, t)
                \/ t \in dropped \cup torn
                \/ recoveries = env.recoveries

(***************************************************************************)
(* The stale reaper is for orphaned tasks: one whose end the device has    *)
(* reported, and the server recorded, is not queued again.                 *)
(***************************************************************************)
RecordedEndIsFinal ==
    [][\A t \in Task :
         row[t].status = "done" /\ ~InList(pending, t) => ~InList(pending', t)]_vars
=============================================================================
