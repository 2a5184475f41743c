# Device task verification project

TLA+ models of the server in this repository that turns requests of an app or a
language model into motion tasks and delivers them to pen plotters (ESP32
devices) over WebSockets. The server is one FastAPI process with one asyncio
loop (`server_dlc.py`); SQLite holds the app's rows, Redis holds the task store
(rows, queues), the event ledger, the workflow locks, the idempotency claims and
the rate limit's buckets.

Everything is translated from the source. `PROJECT.json` maps every definition
to the lines it stands for, and lists components, runs, mutants, findings,
hazards and theorems.

## 1. Inventory

| Component | State | Operations | What is hard | What makes it correct |
|---|---|---|---|---|
| Task rows (`device_gateway/redis_cas.py`, `redis_store_helpers.py`) | hash field per task: JSON with `_version`, `retry_count`, events | read-mutate-write through a Lua compare-and-swap with 3 tries; atomic event append; blind stub write | many coroutines and threads update one row; bounded retries | no lost update; a version identifies a content; giving up means others wrote; behaves as an atomic row |
| Delivery (`redis_store_queue.py`, `redis_store_recover.py`, `sessions.py`, `routes/device_ws.py`, `routes/device_gateway_dispatch.py`, `delivery_reaper.py`) | pending and processing lists, registry of sessions, in-flight tasks of a session, drains in progress | enqueue, pop, send, requeue, hello, heartbeat, disconnect, stale recovery, zombie eviction, expiry | awaits in the middle of a batch, Redis calls in threads, reconnects while the old handler runs, dead links, crashes | no task lost, one owner per task, a live session stays registered, dead ones go, stuck tasks come back |
| App tasks (`routes/device_app_task*.py`, `device_app_assets.py`) | SQLite row `v2_task` with its status | create (structured, free text, batch, template, asset), approve, reject | two stores (SQLite, Redis) and a ledger changed by separate statements around awaits that may raise; concurrent approves | no task without row, one push per approval, rejection is final, approval is carried out |
| Workflow, its lock and its ledger (`device_workflow`, `device_ledger`, `device_gateway/task_events.py`) | append-only events per task in two lists, a Redis key per task with nonces in the processes, a cache of replayed states; the state is a replay | register, advance, record motion event, record rejection, acquire, release | events arrive in states that do not expect them; locks that run out under their owner; commands that lose their reply; a cache next to other writers | exclusion while no lock ran out, only allowed transitions are appended, what was answered is in both lists, the cache is the replay |
| Dispatch of the DLC API (`dlc_api/routes.py`, `dlc_api/idempotency.py`, `dlc_core/dispatch.py`) | claims in the process and in Redis; an asyncio lock per device | claim, build, busy check, enqueue, release | a retry racing the first request, a claim that is in one store only, a failed release, a lock around awaits that raise | one dispatch per key, failures stay retryable, nobody touches another's claim, every request is answered |
| Voice WebSocket, tickets, slots, rate limit (`routes/device_app_voice_ws.py`, `voice_app_ws_ticket.py`, `voice_ws_connections.py`, `rate_limiter.py`, `device_voice/streaming_asr.py`) | one-time tickets, a counter of open sockets per account, buckets and a sliding window, ASR threads | issue, connect, accept, start, frame, stop, timeouts, close | a check before awaits and its use behind them; threads abandoned by `wait_for`; a limiter with a fallback | one session per ticket, no ticket burnt, bounded bursts, slots given back, recognitions stopped |
| Vector paths (`device_gateway/path_*.py`, `xiaozhi_drawing/path_*.py`) | the path of one job, local variables of the loops | decimate, clamp, normalize, passes, compress, smooth, order | algorithms written twice; ties, degenerate chords, closed strokes, borders of the workspace | the twins agree, what is dropped is near what is kept, strokes survive, a normalized path fits |
| Device ownership (`device_logic/crud.py`, `routes/device_app_sharing.py`, `device_app_misc.py`, `device_app_auth.py`) | bindings, shares, transfer requests, accounts in SQLite | bind, unbind, share, accept, revoke, request, accept and cancel a transfer, delete an account | long histories of legal calls; account deleted between authorization and body | one owner, every binding has its reason, ownership passes by transfers |
| In-memory task store (`memory_store.py`), store facade | dicts under a lock | as the Redis store | - | development backend; not modelled |
| Image generation, intents, gallery, templates, members, notifications, MCP, metrics, logins | - | - | CRUD, heuristics and calls of external services | not modelled (section 6) |

How they interact: a handler builds a task (`_run_task_simulation` registers it
in the ledger and writes its row to the store), inserts the SQLite row, and
calls `dispatch_or_enqueue`, which pushes it to the device's pending list in a
thread and, if the device has a session, drains the list into it. The DLC API
claims its key, builds the same kind of task and pushes it under the device's
lock. The drain pops entries into the processing list, sends frames, and marks
each task dispatched in the store and in the ledger. The device answers with
`motion_event` frames that `record_motion_event` writes to both, advancing the
workflow under the task's lock. Disconnects, failed sends and the two reapers
put tasks back. The path of a text is rendered while its task is built. Who may
call is decided from the bindings; the voice WebSocket turns speech into the
text of a task.

## 2. Modules

| Module | Models | Extends |
|---|---|---|
| `AtomicRow` | abstract: a row with versions that is updated in single steps | |
| `RedisCas` | one task row under concurrent `_cas_update`, `append_event_atomic`, `increment_retry_count` and stub writes, one Redis command per step | |
| `TaskLists` | LREM, LMOVE, LPUSH on the two lists | Sequences |
| `DeviceDelivery` | one device: lists, rows, sessions, websockets, drains, both reapers, faults | `TaskLists` |
| `TaskWorkflow` | the workflow's transitions, and what the replay of a ledger yields | |
| `AppTask` | one app task: its SQLite row, the handlers, what they push, its ledger, its device | `TaskWorkflow` |
| `WorkflowLedger` | register, advance and motion events of one task by several threads and processes, one Redis command per step | `TaskWorkflow` |
| `DlcDispatch` | requests to one device, with or without one Idempotency-Key | |
| `WsTickets` | the operations on a store of one-time tickets | |
| `VoiceSocket` | the voice WebSocket of one account: tickets, rate limit, slots, timeouts, ASR threads | `WsTickets` |
| `Paths` | from the strokes of a font to a motion path; the order of the strokes of an image | |
| `DeviceAccess` | bindings, shares, transfers and accounts around one device | |
| `*_proofs` | theorems about `RedisCas`, `DeviceDelivery`, `AppTask`, `DeviceAccess`, `WorkflowLedger`, `DlcDispatch`, `VoiceSocket`, `Paths` | the module, TLAPS, the library's theorems about finite sets and well-founded relations |
| `MC*` | instances for TLC | |

Composition: `DeviceDelivery` takes row updates as atomic, which is what
`RedisCas` shows they are (`ImplementsAtomicRow`, proved as `Refinement`).
`AppTask` and `DlcDispatch` take delivery as "an entry leaves the queue and a
frame is sent", which is what a drain of `DeviceDelivery` does; they add what
the handlers around the queue do. `AppTask` and `WorkflowLedger` share the
transitions and the replay of `TaskWorkflow`: the first takes an advance as one
step, the second takes it apart into its commands, under the lock.
`VoiceSocket` is composed with the ticket store it calls.

### RedisCas

A writer's `pc` is the Redis command it issues next. `Read` is HGET and the
mutator, `WriteOk`/`WriteRejected` the Lua script, whose verdict is
`CasAccepts`; after `MaxRetries` rejections the update returns `exhausted`. The
JSON is abstracted to how many updates of each writer it holds and its retry
count. `done`, `stubs`, `ops`, `seen` are history variables. `Init` chooses
between the row `create_task_state` wrote and no row at all.

Where there is no row `record_motion_event` writes a stub with a HSET that
compares nothing (`WriteStub`). Such a row can lose an event: to a second stub,
or, the stub's own, to an update that read no row, made a default of it and so
expects the version 0 that the stub has. `NoLostUpdate`,
`SameVersionSameContent` and `ReturnedCountNotAhead` are about rows that exist
before their writers or begin as one stub (`OneStub`), and say what of a stub
survives; of two stubs the first one's event is lost, whatever the docstring of
`record_motion_event` says of an atomic append. `increment_retry_count` returns
its count also when its update gave up, although its comment says that no count
is lost: `ReturnedCountNotAhead` says how far that can be ahead of the row.
`ExhaustedMeansOthersWrote` and
`ImplementsAtomicRow` are about existing rows only.

### DeviceDelivery

A loop step runs from one `await` to the next and needs `LoopFree`; steps of
threads (enqueue, stale recovery, expiry) do not, and so interleave also with
the two halves of a pop. `drain[d]` is a `drain_pending_tasks` coroutine with
the batch it holds; `handler[w]` the `device_ws` coroutine of websocket `w`;
`reg` the registry's entry. Entries carry the `_dispatch_gen` that a popped task
has and a fresh one has not, because LREM compares whole entries. Times are
abstracted to the comparisons made with them: stale or not, over-age or not,
quiet or not. A behaviour begins in one of the cases of `Scenario`: the tasks
that are enqueued, the faults that may happen, and how many entries the stale
reaper may move. `Crash` is the death of the process between two steps.

A requeue is LREMs followed by one LPUSH, and Redis may fail before any of them
(the fault `torn`): the tasks taken out by then are in neither list, which the
variable `torn` remembers. What happens next depends on the caller. An eviction
logs the exception and goes on (`ZombieEvictTorn`, `sessions.py:145`). A failed
send lets it pass to whoever drains, and from a hello handler on into its
`finally` (`SendFailTorn`, `BreaksOff`). In that `finally` it passes over
`unregister`, so that the dead session stays in the registry until it is evicted
(`DisconnectTorn`). What was still to be taken out stays in processing, in
nobody's hands. A crash inside a requeue is such a failure with `Crash` behind
it: what other steps could do in between only adds behaviours.

Left out: the SEC-06 mode check of `pop_pending_tasks`, the limit on
connections, exhausted CAS retries, TTLs of keys, expiry between the push and
the row updates of a requeue, and an acknowledgement: `ack_processing` is
called by no channel at this commit. Of failing Redis commands, those outside
the removals and the push of a requeue: in a pop, in the counting of retries, in
the row updates behind the LPUSH, and in the `finally` of a second hello whose
ack failed. Of lost replies, an RPUSH (`redis_store_queue.py:36`) or LPUSH that
the client sends twice: `SingleOwner` holds only without it, and
`DlcDispatch` has the duplicate entry that it leaves.

### TaskWorkflow and AppTask

No state of the workflow is stored: `Ledger` keeps what a replay of the events
yields (the last status, the last status that is a workflow state, the ends
recorded). `AppTask` runs the creating handler (`pc[Creator]`) and approve
requests (`pc[a]`), which are atomic between the awaits of
`dispatch_or_enqueue`: `Push` is the RPUSH in a thread, `Return` the rest,
`CreateRaises` and `ApproveRaises` an exception before or after the push.
An approve and a reject commit the row (`Approve`, `Reject`) and then write the
ledger (`RecordApproval`; `RecordRejection`, `EndRejection`). There is no await
in between, so nothing else of the loop runs (`LoopFree`), but the process may
die there, the ledger may raise, and a `WorkflowTransitionError`, which a lock
that is not to be had also raises, is swallowed: the approved task is dispatched
all the same (`RecordApproval`), the rejection just ends
(`RejectionUnrecorded`). `unrecorded` remembers all of these. `RemovalFails` says whether the best-effort removal of a revert may
raise too. `pushes`, `claims`, `failures`, `unrecorded`, `reported` are history
variables.

Left out: a task payload that expired from the store before the approve
(answered before the claim), SQLite errors inside a claim or a revert, quotas.
`OnePushPerApproval` counts calls of `enqueue_pending_task`: an RPUSH that the
client sends twice after a lost reply is one push here, and is modelled in
`DlcDispatch`.

### WorkflowLedger

A thread performs one operation, `op[t]`, in one process; `pc[t]` is the command
it issues next. `Acquire` is the SET NX EX of `RedisTaskLock`, `Enter` the
process's RLock, `Read` the replay (or the cached state) with the decision,
`Append1` the SADD and the RPUSH to the task's list, `Append2` the RPUSH to the
device's list, `Answer` the state the caller gets, `Release` the compare and
delete. `Motion` and `Fallback` are the two appends of `record_motion_event`,
which are made without the lock: the first whatever became of the advance, the
second for a phase that ends the task when the advance was refused or raised.
If an append of its own raises, the call raises (`Raised`). Commands fail, lose their reply, or are sent
twice, because the clients are configured with `retry_on_timeout`: a SET NX sent
twice finds its own key, a RPUSH sent twice appends twice. `Lapse` is the TTL of
the key, `Crash` the death of one process. Events carry the stamp they were
given before they were appended. A replay sorts by it and keeps the last status
that is a state of the workflow: `Replay` takes the state of the latest of the
`Stateful` events. An event that is in the list twice, because its RPUSH was
sent twice, counts for the cache (`Len`) and not for the replay. `lapsed` and
`resent` are history variables.

Left out: the in-memory ledger and the thread lock (the production configuration
uses neither), and a clock that steps back. The reads behind one
`_current_state` are one step.

### DlcDispatch

`l1` and `store` hold the key's claim in the process and in Redis; `pc[r]` says
where the handler of request `r` stands, and every await of `dispatch_task` is
between two of its places. `Claim*` is `claim_idempotency_key` with its four
ways out (a duplicate in the process, no Redis client, a failed call, an
answer), `Build` the payload, `Acquire` to `Deliver` the work under the device's
lock. `queue[r]` is how many entries of request `r` wait in the pending list: in
which order the drains send them is the subject of `DeviceDelivery`. `GiveUp` and `Raise` every way of leaving it with a release of the key.
`Check` performs the expiry of old entries that the busy check starts with.
`L1Expires` and `StoreExpires` are the TTLs of the claims, `Crash` the death of
the worker. `config` says which runtime it is, whether the process has a Redis
client for the claims, and whether clients send a `request_id`: the value of a
claim is that id, or `"1"` without one. `leftover`, `late`, `pushes` are history
variables.

Left out: the quota, a Redis client that is connected in the middle of a run,
and tasks that reach the same device on other paths.

### WsTickets and VoiceSocket

`WsTickets` has the operations of a ticket store, each under its lock and so one
step; the store is a set of tickets `[id, expires]`, and `Evicted` drops those
with the fewest others before them in the order of expiry. The connections the
limiter's memory remembers (`recent`) and those that passed (`grants`) are sets
of stamps `[n, at]`, so two at the same time stay two. In `VoiceSocket` a handler is interrupted only where it awaits (`pc[h]`):
`Connect` goes from the request to the first await, with the look at the ticket,
`check_keyed_rate_limit` (`RateLimit`) and the slot (`HasSlot`); `Accepted`,
`Started`, `StartFailed` are what follows the two awaits, and `Begin` takes the
ticket behind them. `Frame`, `Stop`, `Leave`, `Expire`, `Finished`, `End` are the
receive loop and its end. `threads[h]` are the ASR threads; those that
`wait_for` gave up on go on alone (`StartThread`, `StopThread`). `stop()` of the
provider ends the recognition or raises (`StopCalled`); either way the session
forgets it, and `unstopped` remembers the second. `Tick` moves the
clock and both timeouts. Redis calls of the limiter fail, counted or not.
`sessions`, `grants`, `abandoned`, `unstopped` are history variables.

Left out: audio and transcripts, the other three ticket stores (the same code
with other payloads), the status WebSocket, the limiter by address and the
eviction of keys from the limiter's memory.

### Paths

One job goes through `Decimate`, `Clamp`, `Normalize`, `AddPasses`, the loop
`Split` with its end `EndCompress`, and `Smooth`; another through `Choose` and
`EndOrder`. Coordinates are integers and all comparisons are made without
division: distances as squares times the length of the chord, scales as
fractions, smoothed coordinates in a grain sixteen times as fine. What a
simplification leaves is the set of positions that stay, and `Picked` is the
path of the points there: the recursion of `_simplify_points` is a recursive
function from intervals to such sets (`Simplified`), the loop of `compress`
fills one (`keep`), and the decimation keeps position `i` if `Stays` holds in
the stroke it belongs to (`StrokeAt`).

A text is any path that begins with a reposition, as all glyphs of the font do;
the space is two repositions, a stroke that draws nothing, and is among the
texts. The empty text is left out: nothing is drawn. A workspace is any pair of
positive sizes. In one narrower than two margins (`Narrow`) the space left for
the drawing is negative, and so is the scale: such a text comes out turned
round, or is rejected.

Left out: the SVG parser (its output enters the same tail), previews, floating
point rounding beyond the grid.

### DeviceAccess

Each handler is one step on the tables, because none awaits between its
statements. Those with a body await it after `authorize`, so the account may be
deleted before they act: `Authorize` is their first step. `Taken`, `Bound`,
`EndsFor`, `Given` are the statements the properties hang on: the check for
another owner, the insertion or reactivation of a row that keeps its mode, what
a revocation unbinds, what an accepted transfer takes from the previous owner.
`late` rows have run out; they are closed by the handler that meets them.
`via` is a history variable.

Left out: activation codes, permissions of shares, metadata, listings.

## 3. Runs

Bounds are the constants of the `.cfg` files. Every instance has the bound that
makes the named case happen, and each property of a passing run is broken by a
mutant of the code in the same instance.

| Run | Instance | Shows |
|---|---|---|
| `RedisCas_rows` | 2 writers, 3 operations each, 3 tries, with and without a row | on existing rows: no lost update, exhaustion is justified, refinement of `AtomicRow`; on these and rows that begin as one stub: what survives, versions identify contents, how far a returned retry count may be ahead; every operation returns |
| `DeviceDelivery_faults` | 2 sessions, 1 recovery; 1 task under the faults of the link (breaks, silence, failing acks, second hellos) with time that passes, or with a crash and requeues that break off; 1 task under failing acks, time, a crash and such requeues together; or 2 tasks in one batch into a link that may break and a Redis that may fail in a requeue | types and one owner (`Consistent`), no task lost but in a requeue that broke off, a live session stays registered |
| `DeviceDelivery_live` | 1 task, 2 sessions, failing acks, requeues that break off, a crash, expiry; no silent break of a link | dead sessions are removed, stuck tasks recovered |
| `AppTask_requests` | all handlers, 2 approves, 2 failing dispatches, ledger writes that are refused or raise, a crash | no ghost task, one push per approval, ledger not ahead of the row and behind it only where a write was not made, ends are recorded, rejections hold, approvals are carried out |
| `DlcDispatch_claims` | 2 requests, 2 faults, 1 claim that runs out, 1 crash | types and one active task (`Consistent`), one dispatch per key, failures stay retryable, others' claims are kept, every request is answered |
| `WorkflowLedger_lock` | 2 threads, in one process or in two, 4 scenarios, 1 fault, 1 lock that runs out | types and cache (`Consistent`), mutual exclusion, valid transitions, what returned is recorded, also behind an advance that raised, every operation ends |
| `VoiceSocket_sessions` | 2 handlers, a store of 1 ticket, 1 failing call; 4 connects on 1 ticket with Redis, or 3 on 1 ticket without Redis and 1 slot, or 2 with 2 tickets | types and slots (`Consistent`), one session per ticket, no ticket burnt, bounded bursts, recognitions left behind in two ways only, slots given back |
| `Paths_render` | texts of 2, 5 and 6 points, with spaces before, between and behind the strokes, drawings of up to 3 strokes, 4 workspaces (one narrow, one with nothing between its margins), 1 or 2 passes | loop and recursion agree and the two greedy searches agree (`TwinsAgree`), what is dropped is near, only passes reject, strokes survive |
| `DeviceAccess_owners` | 3 accounts, one an admin, 2 shares, 1 transfer, 1 request with its body outstanding; symmetric in the other accounts and the shares | one owner, bindings have reasons, ownership passes by transfers |
| `AppTask_gate` | all handlers | finding: assets bypass the approval gate |
| `DeviceDelivery_resend` | 1 task, 1 session, no faults | finding: a finished task is queued again |
| `Paths_lifts` | as `Paths_render`, 1 pass | finding: a lifted pen is dropped from the path |

`CHECK_DEADLOCK FALSE` everywhere: the instances stop when their requests are
answered, the device has drawn, the job is done and the bounds are used up,
which is a legitimate end. `SYMMETRY` is used only where no liveness property is
checked.

Why the bounds are enough. `RedisCas`: three operations of the other writer are
what exhausts three tries. `DeviceDelivery`: two sessions are the smallest
history with a superseded connection and its handler still running; one recovery
is the smallest with an entry the reaper moved under a drain; two tasks in one
batch are the smallest batch with a rest; a retry limit of 1 (3 in the code)
reaches the dead letter with two sessions. `AppTask`: two approves are the
smallest race, and two failures let both dispatches of a task raise.
`DlcDispatch`: the second request is both the racing one and the retry; two
faults are a lost reply of the claim and a failed release, or a failure in each
request. `WorkflowLedger`: two threads suffice for every pair of operations, and
the scenarios begin at the empty ledger, before the dispatch and before the end.
`VoiceSocket`: two handlers are what races for one ticket and for the last slot,
a store of one ticket makes the second issue evict, and the clock passes a bucket's border and a ticket's TTL.
Its four connects with Redis are one more than two buckets and the memory let
through at a rate of one, its three without one more than fit into a window; in
the second case the two handlers have one slot between them.
`Paths`: six points are the shortest text with two strokes one of which loses a
point, and five let one stroke lose a point in the recursion; a narrow workspace
rejects or turns a text, and one with nothing between its margins flattens it;
the coordinates contain collinear points, points within the tolerance,
repeated points and empty extents; three strokes are the shortest with a choice
in which ties differ. `DeviceAccess`: an owner, a guest that becomes owner, and
an admin; with two shares one may be revoked while the other stands.

### Fairness

`RedisCas`: a started operation issues its next command. `DeviceDelivery`
(`ServerFairSpec`): started coroutines and threads go on, the two reaper loops
run periodically (they are `while True` loops that catch everything), a broken
connection is noticed in the end, and time passes; nothing is assumed about
requests, the device, motion events or successful sends. `DeviceReturns` (a
device without connection connects) is assumed only by `StuckTaskRecovered`,
because the stale reaper looks only at devices that have a session. `AppTask`:
a request that has started goes on (returns or raises); nobody has to approve
and the device need not answer. `DlcDispatch`: each handler is resumed; weak
fairness of each is enough because a request takes the device's lock once, so
the others cannot keep it from one that waits. `WorkflowLedger`: threads are scheduled, and Redis expires
keys. `VoiceSocket`: time passes, the loop runs what is due, and threads end;
nothing is asked of clients, so a silent or a talkative one must be ended by the
two timeouts. `Paths` and `DeviceAccess` have safety properties only.

## 4. Proofs

All for every value of the constants that the modules assume, without bounds on
actors, operations, faults or crashes.

`RedisCas_proofs`:

* `TypeCorrect`; then the inductive invariant about what a writer in the middle
  of an operation knows: its copy is at most as new as the row, and if it has
  the row's version it has the row's content (`SameVersionCorrect`). This is
  what makes the version comparison of the script sufficient, and is needed
  because the script does not compare contents. It is stated for existing rows
  and carried to rows that begin as one stub by `Origin`: without a row nothing
  was written, and while there was one stub the only copy that its version
  deceives is the default of an update that read no row.
* `NoLostUpdateCorrect`: the updates a writer was told were written are in the
  row, but perhaps the event of the one stub it began as. Needs the above: an
  accepted write starts from the row's content, or from no row and then over a
  stub. With two stubs nothing of the kind holds.
* `ExhaustedCorrect`: rejected tries of an operation are counted against the
  versions that passed since its first read.
* `ReturnedCountCorrect`: the returned retry count is not ahead of the row's when
  the update was written, and by one at most when it gave up.
* `VersionCorrect` and `Refinement`: every step writes once or not at all, so
  the specification implements `AtomicRow`.

`AppTask_proofs`:

* lemmas about what each operation on a ledger does to the state and the ends
  (`ReplayedFields` to `BuiltFields`); `TypeCorrect` and `EndIsRecordedCorrect`
  follow from them.
* `NoGhostTaskCorrect` from `RowInv`: without a row there is no entry, no frame
  and no request about to push. The property alone is not inductive, because it
  does not know who is about to push.
* `OnePushPerApprovalCorrect` and `RejectionIsFinalCorrect` from `GateInv`: the
  creating handler of a waiting task never dispatches; while a request
  dispatches, the row is approved, so nobody else can claim or reject; a request
  that is still to push has a claim nobody pushed for; all claims but the
  standing one were given back by a dispatch that raised.
* `LedgerAgreesCorrect` from `AgreeInv`, which adds that a task that is pending
  or rejected has left no trace at the queue and the device, so that no drain
  and no motion event writes its ledger; and for each place between the commit
  of a row and its ledger write where the ledger still is, so that a crash there
  leaves it behind and never ahead.

`DeviceDelivery_proofs`:

* lemmas about lists, operation by operation: what LREM, LPUSH, LMOVE and a
  requeue do to the tasks a list holds and to how often it holds them. Each
  handler's effect on the store is then one of a few (`PutBack`, a pop, a
  dead letter), and the steps of `Next` share the lemmas about those.
* `TypeCorrect` with `Refs`: a coroutine in the middle of a batch has a batch, a
  drain has the number of a session that was opened, a move of the reaper is
  within its bound.
* `NothingLost` from the types: no step takes a task from both lists unless it
  gives the task up by name, or is a requeue that breaks off, and then the task
  is one that it had taken out (`torn`).
* `LiveStays`: who may clear the registry, and for which websocket.
* `OneOwner` from `OwnUntilRecovery`. `Tidy`: the lists hold a task once and no
  task given up on. `Owned`: what a hand holds (a session's in-flight tasks, a
  drain's batch) is in processing, once, and in no other hand. `Unborn`: a task
  that is not enqueued is nowhere. The property says only that one hand holds a
  task; that the entry is in processing *while* it does is what makes a requeue
  put back one entry for one taken out, and the induction needs it.

`DlcDispatch_proofs`:

* `ClaimsOfOthersKept` needs no invariant beyond the types (`Shape`): with named
  claims a release matches only its own value (`ReleaseOwn`), and every other
  write of a claim is guarded by its absence or by its owner.
* `DispatchedAtMostOnce` from two invariants. `PushedInForce`: an entry was
  pushed only for a request whose claim must still stand (at work, accepted or
  dead with the worker) or that raised behind its push. `ClaimStands`: such a
  claim does stand in the store that decides, Redis in production and the
  process's dictionary elsewhere. Two requests with entries would both be the
  holder of one key. Neither part is inductive for the property alone, which
  does not know where a claim is kept.
* `RetryStaysPossible` from the converse, `HeldInForce`: a claim that is held is
  one that must stand, until Redis loses a reply or a release.
* `OneTaskAtATime` from `LockHeld` (who is behind the lock holds it) and `Given`:
  at most one request is past the busy check or has an active task (`OneSole`).
  It needs that an entry which still waits keeps its row active (`Queued`,
  `Waiting`): otherwise the device would look idle with a task in its queue.

`WorkflowLedger_proofs`:

* `LockExcludes` from `InsideHasKey`: while no lock ran out under its owner,
  every thread inside the lock is the one the key names. It is stronger than
  the exclusion, which says nothing of the key, on which the next `Acquire`
  decides.
* `ReturnedIsRecorded` from `OnItsWay`: for each place of a thread, which of its
  events is being made, in one list or in both, and for a motion which of its
  two own events and of its advance's are there already: `result` alone does not
  say whether an end was recorded when the advance raised. Lemmas about `ToSet` and
  concatenation (`AppendedIsIn`, `ListGrows`) carry an event from one step to the
  next.
* `CachesAgree` from `CacheSound`: a cached count is never ahead of the list, so
  an append makes every cache stale that was not, and no later one can make it
  look fresh. `CacheAgrees` alone says nothing of caches with other counts.
* `OnlyValidTransitions` from `InTurn`: an event that a thread inside the lock is
  about to append has a stamp above all in the list and follows the state they
  replay to. With `InsideHasKey` nobody appends between its read and its append.

`VoiceSocket_proofs`:

* `SlotsAreCounted` and `TypesAndSlots` from `SlotInv`, with `FiniteSetTheorems`
  for the cardinality of the open handlers. It is why the `active <= 1` of the
  release never hides a lost slot.
* `NoOtherOrphan` from `Recognised`: for each place of a handler which
  threads it can have and whether its session knows that a recognition runs,
  unless a stop of it raised: a second close after that has nothing to stop.
* `OneSession` and `TicketsAreNotBurnt` from `TicketInv`: tickets in the store
  expire in the order of their numbers (`StoreSound`), and one that may still
  open a session has opened none (`SessionsSound`). The order is what turns "the
  oldest are evicted" into "the first issued are".
* `BurstsAreBounded` from `RateInv`: the connections that passed lie in one
  window (`InOneWindow`), so in two calendar buckets at most; each bucket let
  through no more than its counter (`BucketsSound`), and the rest are in the
  memory of the process (`MemorySound`). The bound is the sum of the three.

`DeviceAccess_proofs`: `TypeCorrect`; `DeviceHasOneOwner` is inductive with the
types, by who may become an owner in a step (`OwnerStep`);
`OwnershipPassesByTransfer` uses it; `BindingsHaveReasons` is inductive with the
types, account by account (`ReasonsStep`).

`Paths_proofs`, for every text, drawing, workspace and tolerance (`PathInv`):

* about the operators: a first least element of a row (`FirstLeastExists`), the
  k-th position of a set (`AtExists`), the farthest point and that all points are
  near when it is (`FarthestIs`), that rounding, scaling and averaging stay in
  the workspace if it is not narrow (`RoundedFits`, `NormalizedFits`, `AveragedFits`), and that the
  recursion of `_simplify_points` has its equation (`SimplifiedTurns`).
* `WhatIsDroppedIsNear` and `TheTwinsAgree` from the invariant of the loop,
  `Sound`: a gap between kept positions is on the stack or near its chord
  (`GapsNear`), no kept position lies inside an interval on the stack (`Clear`),
  and what is kept together with what the recursion would keep of the stacked
  intervals is what it keeps of the whole path (`Covered`). `Narrowed` and
  `Divided` are the two outcomes of a turn. That no interval is on the stack
  twice (`Distinct`) lets the stack be treated as a set.
* the other half of `TheTwinsAgree` from `SameStroke`: the entry that is least
  in travel, then position, then direction, is unique, and it is the one the
  search over strokes returns.
* `OnePassIsDrawn` from `Inside`: the normalized path is in the workspace, unless
  that is narrower than two margins, in which case nothing is claimed; and
  with one pass every later path is made of its points or of averages of them.
* `NoStrokeIsLost`, for every text that begins with a reposition, lone markers of
  spaces included, from `StrokesKept`: the positions that stay, counted, are in
  order (`AtGrows`) and have the places of the strokes' starts among them
  (`PlacesAgree`), so the stroke of a start before is the stroke of its place
  after; its end stays, or an equal point before it did (`EndStaysOrCloses`,
  from `EndsStay` of the recursion).

Induction. Where a fact needs induction over data (a rank is reached, a row has a
first least element, the recursion terminates with a value), the proof takes a
least counterexample (`LeastElement`, from `NatLessThanWellFounded` and `WFMin`)
and refutes it. This works for facts about sets and functions; it does not for
operators that the provers cannot unfold, such as `SelectSeq` and `SortSeq`, and
the models say what those do with sets and positions instead.

The type invariants of `RedisCas`, `AppTask` and `DeviceAccess`, and
`VersionCountsWrites`, are proved and no longer run.

Only model-checked: the liveness properties (`OperationsReturn`,
`DeadSessionRemoved`, `StuckTaskRecovered`, `ApprovedIsDispatched`,
`RequestsAnswered`, `OperationsEnd`, `SlotFreed`), which are out of the prover's
reach with their fairness and ENABLED. Every other property of a passing run is
stated by a theorem.

## 5. Findings

* **Approval gate** (`AppTask_gate`): `render_asset` dispatches a task whose
  simulation asked for approval.
* **Resend** (`DeviceDelivery_resend`): the WebSocket path never acknowledges, so
  after 120 s the reaper queues every finished task once more.
* **Lifted pen** (`Paths_lifts`): `compress` looks only at x and y and drops a
  pen-up point on the chord of its neighbours; the plotter draws across the gap.

Seen while modelling, part of the models, and most of them named under hazards where they
bite; several properties are stated so as to exclude exactly these cases:

* Of two events that both find no row the stub of the second overwrites the first
  (`redis_store.py:72`); `NoLostUpdate` leaves out more than one stub.
* `increment_retry_count` returns its count also when the update gave up after its
  tries, one ahead of the row (`redis_store_queue.py:151`).
* `default_state` of `_cas_update` is never written: the script refuses to
  create rows.
* A superseded session's handler requeues its tasks after the new session's
  drain has ended; they wait until the next hello, request or recovery.
  `StuckTaskRecovered` asks only that they leave processing.
* An exception after an entry was popped reverts the row to pending; the next
  approve sends the task again. `OnePushPerApproval` counts such failures.
* `record_motion_event` appends its event also when the advance was refused, and
  the replay takes its phase for the state: `TransitionsValid` speaks of
  advances only. A `done` never reads as `completed`, since `done` is no
  workflow state.
* A dispatch of the DLC API that raises behind its RPUSH gives the key back
  although the entry is in the queue, and the row is not yet active: the retry
  is neither a duplicate nor refused as busy, and pushes again. `DispatchedOnce`
  leaves such requests out (`late`).
* A claim without `request_id` has the value `"1"`, so a request may give back
  another's claim. `OthersClaimKept` takes clients that send an id.
* A lock that runs out under its owner lets a second thread of the process
  overwrite the nonce; the first thread's release then frees the second's key.
  `MutualExclusion` is stated for histories without it.
* A SET NX whose reply was lost and that was sent again finds its own key: the
  lock belongs to nobody until its TTL, and an idempotency claim answers
  `duplicate` to a request that was never carried out (`leftover`).
* An ASR start that timed out goes on in its thread and leaves a recognition
  that nobody stops, and so does a `stop()` that raises, after which the session
  has forgotten what it stopped: `RecognitionStopped` names these as the only two
  ways.
* A crash, or a `WorkflowTransitionError` that is swallowed, between the commit of
  an approved or rejected row and its ledger leaves the ledger waiting for the
  approval for good.
* In a workspace narrower than two margins a text is scaled by a negative factor.
* Redis failures lengthen the burst the rate limit lets through by the memory's
  window: `BurstBounded` has the figures.
* A deleted account whose bind was waiting for its body still binds the device,
  and no other account can bind it afterwards.
* Entries lost by a requeue that breaks off, because Redis fails between its
  removals and its push or the process dies there; duplicates after a recovery, the
  order after a failed batch, `sent` answered for a task another drain holds, a
  structured task that is pending while it is being dispatched, and an entry
  left behind by a failed dispatch.

## 6. Not modelled

* Image generation, intents, prompt building, speech recognition, notifications:
  calls of external services and heuristics over text; they have no state that
  several actors share.
* Gallery, templates, members, supplies, listings, family approvals, metadata:
  single SQL statements behind a role check.
* In-memory stores and thread locks: backends of development and tests, the same
  operations under one lock.
* Logins, passwords, token epochs, activation codes: a request that is refused
  changes nothing modelled here, and one that is accepted enters at `Authorize`.
* Startup recovery: compares and logs. Metrics, settings, start-up, the MCP
  client: no state of the tasks.
* Scripts under `.trellis/`, deployment and command line tools: they do not run
  in the server.

## 7. Plan

1. That a frame is sent once per claim of a drain, as an invariant of
   `DeviceDelivery`, from `OwnUntilRecovery`.
2. The acknowledgement with dispatch generations, as `ack_processing` is meant to
   be called, and the device's side of it.
3. The limiter by address with its eviction, and the status WebSocket.
