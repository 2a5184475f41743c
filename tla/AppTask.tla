-------------------------------- MODULE AppTask --------------------------------
(***************************************************************************)
(* A task of the mini program: the v2_task row in SQLite, the handlers     *)
(* that create, approve and reject it, what they push to the device's      *)
(* queue, and the workflow ledger that all of this and the device's        *)
(* motion events are recorded in.                                          *)
(*                                                                         *)
(* The handlers are coroutines of one loop: from one await to the next     *)
(* they are atomic, their SQLite calls included.  The awaits are those of  *)
(* dispatch_or_enqueue: the enqueue in a thread (first the RPUSH), then    *)
(* the row of the task store, pending_count and the drain, each of which   *)
(* may raise when Redis does.  What a drain does in detail is module       *)
(* DeviceDelivery; here the entry leaves the queue and a frame is sent.    *)
(* The process may die anywhere, also between the commit of a row and what *)
(* its request writes to the ledger: those are steps of their own, between *)
(* which nothing else of the loop runs (LoopFree).                         *)
(*                                                                         *)
(* Tasks have rows, ledgers and entries of their own: one is modelled.     *)
(***************************************************************************)
EXTENDS Naturals, FiniteSets, TaskWorkflow

CONSTANTS
    Handler,      \* handlers that create tasks, a subset of AllHandlers
    Approver,     \* bound: approve requests
    MaxFailures,  \* bound: dispatches that raise
    RemovalFails  \* bound: whether a revert's remove_pending_task may raise

\* structured: POST tasks, batches, templates; freetext: POST tasks with a
\* text; asset: POST assets/{id}/render
AllHandlers == {"structured", "freetext", "asset"}

CONSTANT Creator
Actor == {Creator} \cup Approver

ASSUME AppTaskAssumption ==
    /\ Handler \subseteq AllHandlers
    /\ MaxFailures \in Nat
    /\ RemovalFails \in BOOLEAN
    /\ Creator \notin Approver

VARIABLES
    task,       \* handler; risky simulation; voice task with requireApproval
    pc,         \* pc[a]: where the creating or approving request stands
    row,        \* status of the v2_task row
    ledger,     \* the replayed ledger of the task
    queued,     \* its entries in the pending queue
    sent,       \* frames sent to the device
    unmarked,   \* frames whose mark_task_dispatched is still to come
    dev,        \* the device
    reported,   \* terminal phases the device has reported and were recorded
    rejecting,  \* where the rejection stands that committed the row
    pushes, claims, failures,
    unrecorded, \* a ledger write of an approval or a rejection was not made
    crashed

taskVars == <<row, ledger, queued>>
devVars == <<sent, unmarked, dev, reported>>
countVars == <<pushes, claims, failures, unrecorded, crashed>>
vars == <<task, pc, rejecting, taskVars, devVars, countVars>>

\* a task that is to wait for an approval, and whether its handler does wait
Gated == task.risky \/ task.ask
Waits == CASE task.handler = "structured" -> Gated
           [] task.handler = "freetext" -> task.risky
           [] task.handler = "asset" -> FALSE

\* the task is built; an asset is dispatched before its row is inserted
Init ==
    /\ task \in [handler: Handler, risky: BOOLEAN, ask: BOOLEAN]
    /\ task.ask => task.handler = "structured"
    /\ pc = [a \in Actor |->
               IF a \in Approver THEN "idle"
               ELSE IF task.handler = "asset" THEN "push" ELSE "insert"]
    /\ row = "none"
    /\ ledger = Built(task.risky)
    /\ queued = 0 /\ sent = 0 /\ unmarked = 0
    /\ dev = "none" /\ reported = {}
    /\ rejecting = "no"
    /\ pushes = 0 /\ claims = 0 /\ failures = 0
    /\ unrecorded = FALSE /\ crashed = FALSE

\* no request has committed a row without having come to its ledger yet
LoopFree == rejecting \in {"no", "done"} /\ \A a \in Actor : pc[a] # "claimed"
-----------------------------------------------------------------------------
(* Creating.                                                               *)

\* the status insert_task_row is called with
InitialStatus ==
    IF task.handler = "structured" \/ task.risky THEN "pending" ELSE "approved"

\* insert_task_row; a task that waits, or has been dispatched, is done then
Insert ==
    /\ pc[Creator] = "insert" /\ LoopFree
    /\ row' = InitialStatus
    /\ pc' = [pc EXCEPT ![Creator] =
                IF Waits \/ task.handler = "asset" THEN "done" ELSE "push"]
    /\ UNCHANGED <<task, rejecting, ledger, queued, devVars, countVars>>

\* mutant: the exception is only logged
InsertFailsAndGoesOn ==
    /\ pc[Creator] = "insert" /\ LoopFree
    /\ pc' = [pc EXCEPT ![Creator] = "push"]
    /\ UNCHANGED <<task, rejecting, taskVars, devVars, countVars>>

\* insert_task_row raises: error 500, nothing is dispatched
InsertFails ==
    /\ pc[Creator] = "insert" /\ LoopFree
    /\ pc' = [pc EXCEPT ![Creator] = "done"]
    /\ UNCHANGED <<task, rejecting, taskVars, devVars, countVars>>

\* enqueue_pending_task in a thread: RPUSH
Push(a) ==
    /\ pc[a] = "push"
    /\ queued' = queued + 1
    /\ pushes' = pushes + 1
    /\ pc' = [pc EXCEPT ![a] = "pushed"]
    /\ UNCHANGED <<task, rejecting, row, ledger, devVars, claims, failures,
                   unrecorded, crashed>>

\* the dispatch returns; set_task_status of a structured task
Return(a) ==
    /\ pc[a] = "pushed" /\ LoopFree
    /\ pc' = [pc EXCEPT ![a] =
                IF a = Creator /\ task.handler = "asset" THEN "insert" ELSE "done"]
    /\ row' = IF a = Creator /\ task.handler = "structured" /\ row = "pending"
              THEN "approved" ELSE row
    /\ UNCHANGED <<task, rejecting, ledger, queued, devVars, countVars>>

\* mark_task_failed
MarkedFailed == IF row \in {"pending", "approved"} THEN "failed" ELSE row

\* The dispatch of the creating handler raises, before or after the push.
\* render_asset lets the exception pass.
CreateRaises ==
    /\ pc[Creator] \in {"push", "pushed"} /\ LoopFree
    /\ failures < MaxFailures
    /\ failures' = failures + 1
    /\ pc' = [pc EXCEPT ![Creator] = "done"]
    /\ row' = IF task.handler = "asset" THEN row ELSE MarkedFailed
    /\ UNCHANGED <<task, rejecting, ledger, queued, devVars, pushes, claims,
                   unrecorded, crashed>>
-----------------------------------------------------------------------------
(* Approving and rejecting.                                                *)

\* mutants: the status is not looked at
ClaimableAnyway == row \in {"pending", "approved"}
RejectableAnyway == row \in {"pending", "approved"}

\* approve_task_row: the claim
Claimable == row = "pending"

\* POST approve: claim the row
Approve(a) ==
    /\ a \in Approver
    /\ pc[a] = "idle" /\ LoopFree
    /\ Claimable
    /\ row' = "approved"
    /\ claims' = claims + 1
    /\ pc' = [pc EXCEPT ![a] = "claimed"]
    /\ UNCHANGED <<task, rejecting, ledger, queued, devVars, pushes, failures,
                   unrecorded, crashed>>

\* mutant: leaves the ledger to the dispatch
NotAdvanced == ledger

\* dispatch_approved_task up to its await
Approved == AdvanceFrom(ledger, "waiting_approval", "ready_to_dispatch")

\* The ledger follows the claim.  A WorkflowTransitionError, of a lock that is
\* not to be had, is swallowed: the task is dispatched all the same.
RecordApproval(a) ==
    /\ pc[a] = "claimed"
    /\ \/ ledger' = Approved /\ UNCHANGED unrecorded
       \/ UNCHANGED ledger /\ unrecorded' = TRUE
    /\ pc' = [pc EXCEPT ![a] = "push"]
    /\ UNCHANGED <<task, rejecting, row, queued, devVars, pushes, claims,
                   failures, crashed>>

\* mutant: only the entry is removed
NotReverted == row

\* revert_task_to_pending: the row, and an entry that is still queued; both
\* at best effort
Reverted == IF row = "approved" THEN "pending" ELSE row
RemovePending ==
    \/ queued' = IF queued > 0 THEN queued - 1 ELSE 0
    \/ RemovalFails /\ queued' = queued

\* The dispatch of an approve raises: at the ledger, with its event appended
\* or not, or in dispatch_or_enqueue.
ApproveRaises(a) ==
    /\ a \in Approver
    /\ \/ pc[a] = "claimed" /\ ledger' \in {ledger, Approved}
       \/ pc[a] \in {"push", "pushed"} /\ LoopFree /\ UNCHANGED ledger
    /\ failures < MaxFailures
    /\ failures' = failures + 1
    /\ pc' = [pc EXCEPT ![a] = "done"]
    /\ row' = Reverted
    /\ RemovePending
    /\ UNCHANGED <<task, rejecting, devVars, pushes, claims, unrecorded, crashed>>

\* reject_task_row: the claim
Rejectable == row = "pending"

\* POST reject: the row
Reject ==
    /\ Rejectable /\ LoopFree
    /\ row' = "rejected"
    /\ rejecting' = "row"
    /\ UNCHANGED <<task, pc, ledger, queued, devVars, countVars>>

\* record_rejection: the motion_event
RecordRejection ==
    /\ rejecting = "row"
    /\ ledger' = MotionEvent(ledger, "rejected")
    /\ rejecting' = "noted"
    /\ UNCHANGED <<task, pc, row, queued, devVars, countVars>>

\* the end of the workflow of a task that still waits
EndRejected == AdvanceFrom(ledger, "waiting_approval", "terminal")

\* record_rejection: the end of the workflow
EndRejection ==
    /\ rejecting = "noted"
    /\ ledger' = EndRejected
    /\ rejecting' = "done"
    /\ UNCHANGED <<task, pc, row, queued, devVars, countVars>>

\* the ledger raises with its write made or not, or refuses the transition,
\* which is swallowed; the row stays rejected
RejectionUnrecorded ==
    /\ \/ rejecting = "row" /\ ledger' \in {ledger, MotionEvent(ledger, "rejected")}
       \/ rejecting = "noted" /\ ledger' \in {ledger, EndRejected}
    /\ rejecting' = "done"
    /\ unrecorded' = TRUE
    /\ UNCHANGED <<task, pc, row, queued, devVars, pushes, claims, failures,
                   crashed>>
-----------------------------------------------------------------------------
(* The device.                                                             *)

\* some drain pops the entry and sends the frame; a device that is drawing
\* the task takes no second one
Send ==
    /\ queued > 0 /\ LoopFree
    /\ queued' = queued - 1
    /\ sent' = sent + 1
    /\ unmarked' = unmarked + 1
    /\ dev' = IF dev \in {"none", "ended"} THEN "got" ELSE dev
    /\ UNCHANGED <<task, pc, rejecting, row, ledger, reported, countVars>>

\* mark_task_dispatched, when the drain resumes; what the advance raises is
\* swallowed
MarkDispatched ==
    /\ unmarked > 0 /\ LoopFree
    /\ unmarked' = unmarked - 1
    /\ ledger' \in {ledger, AdvanceFrom(ledger, "ready_to_dispatch", "dispatched")}
    /\ UNCHANGED <<task, pc, rejecting, row, queued, sent, dev, reported, countVars>>

\* what the device reports next, and where it is then
Report(phase) ==
    \/ phase = "accepted" /\ dev = "got" /\ dev' = "accepted"
    \/ phase = "running" /\ dev = "accepted" /\ dev' = "running"
    \/ phase = "done" /\ dev = "running" /\ dev' = "ended"
    \/ /\ phase \in {"failed", "cancelled"}
       /\ dev \in {"got", "accepted", "running"} /\ dev' = "ended"

\* a motion_event arrives: record_motion_event, which swallows whatever its
\* advance raises
DeviceEvent(phase) ==
    /\ Report(phase) /\ LoopFree
    /\ ledger' \in {MotionEvent(ledger, phase), MotionUnadvanced(ledger, phase)}
    /\ reported' = reported \cup ({phase} \cap TerminalPhase)
    /\ UNCHANGED <<task, pc, rejecting, row, queued, sent, unmarked, countVars>>

\* record_motion_event raises, before or after the advance; device_ws goes on
EventUnrecorded(phase) ==
    /\ Report(phase) /\ LoopFree
    /\ \/ UNCHANGED ledger
       \/ CanAdvance(ledger, phase) /\ ledger' = Advanced(ledger, Target(phase))
    /\ UNCHANGED <<task, pc, rejecting, row, queued, sent, unmarked, reported,
                   countVars>>

\* the process dies: SQLite and Redis stay, the requests are gone, also one
\* that has written to the one and not to the other
Crash ==
    /\ ~crashed /\ crashed' = TRUE
    /\ pc' = [a \in Actor |-> IF pc[a] = "idle" THEN "idle" ELSE "done"]
    /\ rejecting' = IF rejecting = "no" THEN "no" ELSE "done"
    /\ unrecorded' = (unrecorded \/ ~LoopFree)
    /\ unmarked' = 0
    /\ UNCHANGED <<task, taskVars, sent, dev, reported, pushes, claims,
                   failures>>
-----------------------------------------------------------------------------
\* what a request that has started goes on with
Going(a) ==
    \/ a = Creator /\ (Insert \/ InsertFails \/ CreateRaises)
    \/ RecordApproval(a) \/ Push(a) \/ Return(a) \/ ApproveRaises(a)

\* what a rejection that has committed the row goes on with
Rejecting == RecordRejection \/ EndRejection \/ RejectionUnrecorded

Next ==
    \/ \E a \in Actor : Going(a) \/ Approve(a)
    \/ Reject \/ Rejecting
    \/ Send \/ MarkDispatched
    \/ \E phase \in Phase \ {"rejected"} :
          DeviceEvent(phase) \/ EventUnrecorded(phase)
    \/ Crash

Spec == Init /\ [][Next]_vars

\* requests that have started go on
Fairness == WF_vars(Rejecting) /\ \A a \in Actor : WF_vars(Going(a))
FairSpec == Spec /\ Fairness
-----------------------------------------------------------------------------
TypeOK ==
    /\ task \in [handler: Handler, risky: BOOLEAN, ask: BOOLEAN]
    /\ pc \in [Actor -> {"idle", "insert", "claimed", "push", "pushed", "done"}]
    /\ row \in {"none", "pending", "approved", "rejected", "failed"}
    /\ ledger \in Ledger
    /\ queued \in Nat /\ sent \in Nat /\ unmarked \in Nat
    /\ dev \in {"none", "got", "accepted", "running", "ended"}
    /\ reported \subseteq TerminalPhase
    /\ pushes \in Nat /\ claims \in Nat /\ failures \in 0 .. MaxFailures
    /\ rejecting \in {"no", "row", "noted", "done"}
    /\ unrecorded \in BOOLEAN /\ crashed \in BOOLEAN

Dispatching == {a \in Actor : pc[a] \in {"claimed", "push", "pushed"}}

(***************************************************************************)
(* No ghost task: a task of the task handlers reaches the queue or the     *)
(* device only if its row exists, whatever raises and wherever the process *)
(* dies.                                                                   *)
(***************************************************************************)
NoGhostTask ==
    task.handler # "asset" /\ queued + sent > 0 => row # "none"

(***************************************************************************)
(* A task that waits for an approval is pushed only for approvals: one     *)
(* request dispatches it at a time, each push has its claim, and there are *)
(* no more claims than one plus the dispatches that raised.                *)
(* A push is one call of enqueue_pending_task; an RPUSH that the client    *)
(* sends twice after a lost reply counts once here (see DlcDispatch).      *)
(***************************************************************************)
OnePushPerApproval ==
    Waits => /\ Cardinality(Dispatching) <= 1
             /\ pushes <= claims
             /\ claims <= failures + 1

(***************************************************************************)
(* A waiting task that was rejected is not pushed any more, and stays      *)
(* rejected.                                                               *)
(***************************************************************************)
RejectionIsFinal ==
    [][Waits /\ row = "rejected" => row' = "rejected" /\ pushes' = pushes]_vars

(***************************************************************************)
(* Two stores without a transaction: the row of a high-risk task is        *)
(* written first, and as long as no dispatch raised (a revert leaves the   *)
(* ledger alone) its ledger is never ahead of it.  A pending task waits    *)
(* for its approval in the ledger too, and a rejected one is never ready.  *)
(* The ledger is behind an approved or a rejected row only between the two *)
(* writes, or after the second was not made: the process died in between,  *)
(* the ledger raised, or a WorkflowTransitionError was swallowed.          *)
(***************************************************************************)
LedgerAgreesWithRow ==
    Waits /\ task.risky /\ failures = 0 =>
        /\ row = "pending" => ledger.state = "waiting_approval"
        /\ row = "rejected" => ledger.state \in {"waiting_approval", "terminal"}
        /\ row \in {"approved", "rejected"} /\ LoopFree /\ ~unrecorded =>
             ledger.state # "waiting_approval"

(***************************************************************************)
(* record_motion_event keeps the replay complete: a terminal phase that it *)
(* recorded has its task_terminal event, in whatever state the workflow    *)
(* was and whether its advance raised or not, and keeps it.                *)
(***************************************************************************)
EndIsRecorded == reported \subseteq ledger.ended

(***************************************************************************)
(* An approved task is dispatched, or its row stops saying approved, unless*)
(* the process died.                                                       *)
(***************************************************************************)
ApprovedIsDispatched ==
    (row = "approved") ~> (pushes > 0 \/ row # "approved" \/ crashed)

(***************************************************************************)
(* create_and_route_task: high-risk and approval-gated tasks stay pending, *)
(* as on the other paths of the app.                                       *)
(***************************************************************************)
GatedTaskStaysPending == Gated /\ claims = 0 => pushes = 0

=============================================================================
