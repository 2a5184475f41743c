---------------------------- MODULE AppTask_proofs ----------------------------
(***************************************************************************)
(* Theorems about AppTask, for every set of approve requests and handlers  *)
(* and every number of failing dispatches.                                 *)
(***************************************************************************)
EXTENDS AppTask, FiniteSetTheorems, TLAPS

-----------------------------------------------------------------------------
(* What the operations on a ledger yield.                                  *)

\* _status_after_event: the state follows statuses that are workflow states
LEMMA ReplayedFields ==
    ASSUME NEW l \in Ledger, NEW s \in TaskState \cup Phase
    PROVE  /\ Replayed(l, s) \in Ledger
           /\ Replayed(l, s).ended = l.ended
           /\ Replayed(l, s).state = IF s \in TaskState THEN s ELSE l.state
<1>1. (IF s \in TaskState THEN s ELSE l.state) \in TaskState
  BY DEF Ledger
<1>. QED
  BY <1>1 DEF Replayed, Ledger

\* a task_terminal event adds an end
LEMMA TaskTerminalFields ==
    ASSUME NEW l \in Ledger, NEW s \in TerminalPhase \cup {"terminal"}
    PROVE  /\ TaskTerminal(l, s) \in Ledger
           /\ TaskTerminal(l, s).ended = l.ended \cup {s}
           /\ TaskTerminal(l, s).state = IF s \in TaskState THEN s ELSE l.state
<1>. DEFINE r == Replayed(l, s)
<1>1. s \in TaskState \cup Phase
  BY DEF TaskState, Phase, TerminalPhase
<1>2. /\ r \in Ledger
      /\ r.ended = l.ended
      /\ r.state = IF s \in TaskState THEN s ELSE l.state
  BY <1>1, ReplayedFields
<1>3. r.ended \cup {s} \in SUBSET (TerminalPhase \cup {"terminal"})
  BY <1>2 DEF Ledger
<1>4. TaskTerminal(l, s) = [r EXCEPT !.ended = @ \cup {s}]
  BY DEF TaskTerminal
<1>. HIDE DEF r
<1>. QED
  BY <1>2, <1>3, <1>4 DEF Ledger

\* _append_advance_event: the state is the target, except for completed
LEMMA AdvancedFields ==
    ASSUME NEW l \in Ledger, NEW target \in TaskState
    PROVE  /\ Advanced(l, target) \in Ledger
           /\ l.ended \subseteq Advanced(l, target).ended
           /\ Advanced(l, target).state =
                IF target = "completed" THEN l.state ELSE target
           /\ target \in {"terminal", "completed", "failed", "cancelled"} =>
                EventStatus(target) \in Advanced(l, target).ended
<1>1. CASE target \in {"terminal", "completed", "failed", "cancelled"}
  <2>1. EventStatus(target) \in TerminalPhase \cup {"terminal"}
    BY <1>1 DEF EventStatus, TerminalPhase
  <2>2. (IF EventStatus(target) \in TaskState THEN EventStatus(target) ELSE l.state)
          = (IF target = "completed" THEN l.state ELSE target)
    BY <1>1 DEF EventStatus, TaskState
  <2>3. Advanced(l, target) = TaskTerminal(l, EventStatus(target))
    BY <1>1 DEF Advanced
  <2>. QED
    BY <2>1, <2>2, <2>3, TaskTerminalFields
<1>2. CASE target \notin {"terminal", "completed", "failed", "cancelled"}
  <2>1. EventStatus(target) = target
    BY <1>2 DEF EventStatus
  <2>2. Advanced(l, target) = Replayed(l, target)
    BY <1>2, <2>1 DEF Advanced
  <2>. QED
    BY <1>2, <2>2, ReplayedFields
<1>. QED
  BY <1>1, <1>2

\* advance, with and without a look at the state first
LEMMA TryAdvanceFields ==
    ASSUME NEW l \in Ledger, NEW target \in TaskState
    PROVE  /\ TryAdvance(l, target) \in Ledger
           /\ l.ended \subseteq TryAdvance(l, target).ended
           /\ TryAdvance(l, target).state \in {l.state, target}
  BY AdvancedFields DEF TryAdvance

LEMMA AdvanceFromFields ==
    ASSUME NEW l \in Ledger, NEW source \in TaskState, NEW target \in TaskState
    PROVE  /\ AdvanceFrom(l, source, target) \in Ledger
           /\ l.ended \subseteq AdvanceFrom(l, source, target).ended
           /\ AdvanceFrom(l, source, target).state \in {l.state, target}
  BY TryAdvanceFields DEF AdvanceFrom

\* the transitions the approval takes
LEMMA ApprovalTransitions ==
    /\ "planned" \in ValidTransitions["created"]
    /\ "simulated" \in ValidTransitions["planned"]
    /\ ValidTransitions["simulated"] = {"waiting_approval", "ready_to_dispatch"}
    /\ ValidTransitions["waiting_approval"] = {"ready_to_dispatch", "terminal"}
  BY DEF ValidTransitions, TaskState

\* the state_map of the phases
LEMMA TargetIsState ==
    ASSUME NEW phase \in Phase \ {"rejected"}
    PROVE  /\ Target(phase) \in TaskState
           /\ Target(phase) # "waiting_approval"
<1>1. Target(phase) \in {"dispatched", "in_progress", "completed", "failed",
                         "cancelled"}
  BY DEF Target, Phase, TerminalPhase
<1>. QED
  BY <1>1 DEF TaskState

\* record_motion_event: keeps the ends, adds a terminal phase, and never
\* leads to waiting for approval
LEMMA MotionFields ==
    ASSUME NEW l \in Ledger, NEW phase \in Phase
    PROVE  /\ MotionEvent(l, phase) \in Ledger
           /\ l.ended \subseteq MotionEvent(l, phase).ended
           /\ phase \in TerminalPhase => phase \in MotionEvent(l, phase).ended
           /\ MotionEvent(l, phase).state = "waiting_approval" =>
                l.state = "waiting_approval"
<1>. DEFINE a == IF CanAdvance(l, phase) THEN Advanced(l, Target(phase)) ELSE l
            m == AfterMotion(l, phase)
<1>1. phase # "rejected" =>
        /\ Target(phase) \in TaskState
        /\ Target(phase) # "waiting_approval"
  BY TargetIsState
<1>3. /\ a \in Ledger
      /\ l.ended \subseteq a.ended
      /\ a.state = "waiting_approval" => l.state = "waiting_approval"
      /\ CanAdvance(l, phase) /\ phase \in TerminalPhase => phase \in a.ended
  <2>1. CASE CanAdvance(l, phase)
    <3>1. phase # "rejected" /\ a = Advanced(l, Target(phase))
      BY <2>1 DEF CanAdvance
    <3>2. phase \in TerminalPhase =>
            /\ Target(phase) \in {"terminal", "completed", "failed", "cancelled"}
            /\ EventStatus(Target(phase)) = phase
      BY DEF Target, EventStatus, TerminalPhase
    <3>. QED
      BY <1>1, <3>1, <3>2, AdvancedFields
  <2>2. CASE ~CanAdvance(l, phase)
    BY <2>2
  <2>. QED
    BY <2>1, <2>2
<1>4. m = Replayed(a, phase)
  BY DEF AfterMotion
<1>. HIDE DEF a, m
<1>5. /\ m \in Ledger
      /\ m.ended = a.ended
      /\ m.state = IF phase \in TaskState THEN phase ELSE a.state
  BY <1>3, <1>4, ReplayedFields
<1>6. phase # "waiting_approval"
  BY DEF Phase, TerminalPhase
<1>7. CASE phase \in TerminalPhase /\ ~CanAdvance(l, phase)
  <2>1. MotionEvent(l, phase) = TaskTerminal(m, phase)
    BY <1>7 DEF MotionEvent, m
  <2>. QED
    BY <1>3, <1>5, <1>6, <1>7, <2>1, TaskTerminalFields
<1>8. CASE ~(phase \in TerminalPhase /\ ~CanAdvance(l, phase))
  <2>1. MotionEvent(l, phase) = m
    BY <1>8 DEF MotionEvent, m
  <2>. QED
    BY <1>3, <1>5, <1>6, <1>8, <2>1
<1>. QED
  BY <1>7, <1>8

\* the motion_event of a rejection leaves the state
LEMMA RejectedFields ==
    ASSUME NEW l \in Ledger
    PROVE  /\ MotionEvent(l, "rejected") \in Ledger
           /\ MotionEvent(l, "rejected").ended = l.ended
           /\ MotionEvent(l, "rejected").state = l.state
<1>1. "rejected" \in Phase /\ "rejected" \notin TerminalPhase
      /\ "rejected" \notin TaskState
  BY DEF Phase, TerminalPhase, TaskState
<1>2. MotionEvent(l, "rejected") = Replayed(l, "rejected")
  BY <1>1 DEF MotionEvent, AfterMotion, CanAdvance
<1>. QED
  BY <1>1, <1>2, ReplayedFields

\* the end of a rejection: the ends are kept; a waiting task becomes terminal
LEMMA EndRejectedFields ==
    ASSUME ledger \in Ledger
    PROVE  /\ EndRejected \in Ledger
           /\ ledger.ended \subseteq EndRejected.ended
           /\ ledger.state = "waiting_approval" => EndRejected.state = "terminal"
           /\ ledger.state # "waiting_approval" => EndRejected = ledger
<1>1. "waiting_approval" \in TaskState /\ "terminal" \in TaskState
  BY DEF TaskState
<1>2. ledger.state = "waiting_approval" =>
        EndRejected = Advanced(ledger, "terminal")
  BY ApprovalTransitions DEF EndRejected, AdvanceFrom, TryAdvance, Allowed
<1>3. ledger.state # "waiting_approval" => EndRejected = ledger
  BY DEF EndRejected, AdvanceFrom
<1>4. Advanced(ledger, "terminal").state = "terminal"
  BY <1>1, AdvancedFields
<1>. QED
  BY <1>1, <1>2, <1>3, <1>4, AdvancedFields

\* a motion_event whose advance was swallowed: the same of it
LEMMA UnadvancedFields ==
    ASSUME NEW l \in Ledger, NEW phase \in Phase
    PROVE  /\ MotionUnadvanced(l, phase) \in Ledger
           /\ l.ended \subseteq MotionUnadvanced(l, phase).ended
           /\ phase \in TerminalPhase =>
                phase \in MotionUnadvanced(l, phase).ended
           /\ MotionUnadvanced(l, phase).state = "waiting_approval" =>
                l.state = "waiting_approval"
<1>. DEFINE m == Replayed(l, phase)
<1>1. /\ m \in Ledger
      /\ m.ended = l.ended
      /\ m.state = IF phase \in TaskState THEN phase ELSE l.state
  BY ReplayedFields
<1>2. phase # "waiting_approval"
  BY DEF Phase, TerminalPhase
<1>3. MotionUnadvanced(l, phase) =
        IF phase \in TerminalPhase THEN TaskTerminal(m, phase) ELSE m
  BY DEF MotionUnadvanced
<1>. HIDE DEF m
<1>4. CASE phase \in TerminalPhase
  BY <1>1, <1>2, <1>3, <1>4, TaskTerminalFields
<1>5. CASE phase \notin TerminalPhase
  BY <1>1, <1>2, <1>3, <1>5
<1>. QED
  BY <1>4, <1>5

\* the claim of an approve: a waiting task becomes ready
LEMMA ApprovedFields ==
    ASSUME ledger \in Ledger
    PROVE  /\ Approved \in Ledger
           /\ ledger.ended \subseteq Approved.ended
           /\ Approved.state # "waiting_approval"
<1>1. "waiting_approval" \in TaskState /\ "ready_to_dispatch" \in TaskState
  BY DEF TaskState
<1>2. ledger.state = "waiting_approval" =>
        Approved = Advanced(ledger, "ready_to_dispatch")
  BY ApprovalTransitions DEF Approved, AdvanceFrom, TryAdvance, Allowed
<1>3. ledger.state # "waiting_approval" => Approved = ledger
  BY DEF Approved, AdvanceFrom
<1>. QED
  BY <1>1, <1>2, <1>3, AdvancedFields

\* _run_task_simulation: a risky task waits for approval
LEMMA BuiltFields ==
    ASSUME NEW risky \in BOOLEAN
    PROVE  /\ Built(risky) \in Ledger
           /\ risky => Built(risky).state = "waiting_approval"
<1>. DEFINE p == TryAdvance(Registered, "planned")
            s == TryAdvance(p, "simulated")
            goal == IF risky THEN "waiting_approval" ELSE "ready_to_dispatch"
<1>1. Registered \in Ledger /\ Registered.state = "created"
  BY DEF Registered, Ledger, TaskState
<1>2. /\ "planned" \in TaskState /\ "simulated" \in TaskState
      /\ "waiting_approval" \in TaskState /\ goal \in TaskState
  BY DEF TaskState
<1>3. p \in Ledger /\ p.state = "planned"
  BY <1>1, <1>2, AdvancedFields, ApprovalTransitions DEF TryAdvance, Allowed
<1>. HIDE DEF p
<1>4. s \in Ledger /\ s.state = "simulated"
  BY <1>2, <1>3, AdvancedFields, ApprovalTransitions DEF TryAdvance, Allowed
<1>5. Built(risky) = TryAdvance(s, goal)
  BY DEF Built, p
<1>. HIDE DEF s
<1>6. TryAdvance(s, goal) = Advanced(s, goal)
  BY <1>4, ApprovalTransitions DEF TryAdvance, Allowed
<1>. QED
  BY <1>2, <1>4, <1>5, <1>6, AdvancedFields
-----------------------------------------------------------------------------
(* Types.                                                                  *)

\* a task that has been built and not yet saved
LEMMA InitTypes == Init => TypeOK
<1>. USE AppTaskAssumption DEF AppTaskAssumption
<1>. SUFFICES ASSUME Init PROVE TypeOK
  OBVIOUS
<1>1. ledger \in Ledger
  BY BuiltFields DEF Init
<1>2. pc \in [Actor -> {"idle", "insert", "claimed", "push", "pushed",
                     "done"}]
  BY DEF Init, Actor
<1>3. failures \in 0 .. MaxFailures
  BY DEF Init
<1>4. /\ task \in [handler: Handler, risky: BOOLEAN, ask: BOOLEAN]
      /\ row \in {"none", "pending", "approved", "rejected", "failed"}
      /\ dev \in {"none", "got", "accepted", "running", "ended"}
      /\ reported \subseteq TerminalPhase
      /\ rejecting \in {"no", "row", "noted", "done"}
      /\ unrecorded \in BOOLEAN /\ crashed \in BOOLEAN
  BY DEF Init
<1>5. /\ queued \in Nat /\ sent \in Nat /\ unmarked \in Nat
      /\ pushes \in Nat /\ claims \in Nat
  BY DEF Init
<1>. QED
  BY <1>1, <1>2, <1>3, <1>4, <1>5 DEF TypeOK

\* The types are kept: the ledger of the task is one that a replay can yield
\* after every handler, rejection and motion event.
THEOREM TypeCorrect == Spec => []TypeOK
<1>. USE AppTaskAssumption DEF AppTaskAssumption
<1>1. Init => TypeOK
  BY InitTypes
<1>2. TypeOK /\ [Next]_vars => TypeOK'
  <2>. SUFFICES ASSUME TypeOK, [Next]_vars PROVE TypeOK'
    OBVIOUS
  <2>. USE DEF TypeOK
  <2>0. Creator \in Actor /\ Approver \subseteq Actor
    BY DEF Actor
  <2>1. CASE Insert
    BY <2>0, <2>1 DEF Insert, InitialStatus, devVars, countVars
  <2>2. CASE InsertFails
    BY <2>0, <2>2 DEF InsertFails, taskVars, devVars, countVars
  <2>3. CASE CreateRaises
    BY <2>0, <2>3 DEF CreateRaises, MarkedFailed, devVars
  <2>4. ASSUME NEW a \in Actor, Push(a) PROVE TypeOK'
    BY <2>4 DEF Push, devVars
  <2>5. ASSUME NEW a \in Actor, Return(a) PROVE TypeOK'
    BY <2>5 DEF Return, devVars, countVars
  <2>6. ASSUME NEW a \in Actor, ApproveRaises(a) PROVE TypeOK'
    BY <2>6, ApprovedFields DEF ApproveRaises, Reverted, RemovePending, devVars
  <2>7. ASSUME NEW a \in Actor, Approve(a) PROVE TypeOK'
    BY <2>7 DEF Approve, devVars
  <2>8. ASSUME NEW a \in Actor, RecordApproval(a) PROVE TypeOK'
    BY <2>8, ApprovedFields DEF RecordApproval, devVars
  <2>9. CASE Reject
    BY <2>9 DEF Reject, devVars, countVars
  <2>9a. CASE RecordRejection \/ EndRejection \/ RejectionUnrecorded
    BY <2>9a, RejectedFields, EndRejectedFields
       DEF RecordRejection, EndRejection, RejectionUnrecorded, devVars, countVars
  <2>10. CASE Send
    BY <2>10 DEF Send, countVars
  <2>11. CASE MarkDispatched
    <3>1. "ready_to_dispatch" \in TaskState /\ "dispatched" \in TaskState
      BY DEF TaskState
    <3>2. ledger' \in Ledger
      BY <2>11, <3>1, AdvanceFromFields DEF MarkDispatched
    <3>. QED
      BY <2>11, <3>2 DEF MarkDispatched, countVars
  <2>12. ASSUME NEW phase \in Phase \ {"rejected"}, DeviceEvent(phase)
         PROVE  TypeOK'
    <3>1. ledger' \in Ledger
      BY <2>12, MotionFields, UnadvancedFields DEF DeviceEvent
    <3>2. dev' \in {"none", "got", "accepted", "running", "ended"}
      BY <2>12 DEF DeviceEvent, Report
    <3>. QED
      BY <2>12, <3>1, <3>2 DEF DeviceEvent, countVars
  <2>13. ASSUME NEW phase \in Phase \ {"rejected"}, EventUnrecorded(phase)
         PROVE  TypeOK'
    <3>1. ledger' \in Ledger
      BY <2>13, TargetIsState, AdvancedFields DEF EventUnrecorded
    <3>2. dev' \in {"none", "got", "accepted", "running", "ended"}
      BY <2>13 DEF EventUnrecorded, Report
    <3>. QED
      BY <2>13, <3>1, <3>2 DEF EventUnrecorded, countVars
  <2>14. CASE Crash
    BY <2>14 DEF Crash, taskVars
  <2>15. CASE UNCHANGED vars
    BY <2>15 DEF vars, taskVars, devVars, countVars
  <2>. HIDE DEF TypeOK
  <2>. QED
    BY <2>1, <2>2, <2>3, <2>4, <2>5, <2>6, <2>7, <2>8, <2>9, <2>9a, <2>10,
       <2>11, <2>12, <2>13, <2>14, <2>15 DEF Next, Going, Rejecting
<1>. QED
  BY <1>1, <1>2, PTL DEF Spec
-----------------------------------------------------------------------------
(* No ghost task.  A task of the task handlers that has no row is nowhere  *)
(* else, and no request is about to push it.                               *)

RowInv ==
    task.handler # "asset" =>
        /\ pc[Creator] = "insert" => row = "none"
        /\ row = "none" => /\ queued = 0 /\ sent = 0
                           /\ Dispatching = {}

\* every step keeps RowInv
LEMMA RowStep ==
    ASSUME TypeOK, RowInv, [Next]_vars
    PROVE  RowInv'
<1>. USE DEF TypeOK, RowInv, Dispatching
<1>0. Creator \in Actor
  BY DEF Actor
<1>1. CASE Insert
  BY <1>1, <1>0 DEF Insert, InitialStatus, devVars, countVars
<1>2. CASE InsertFails
  BY <1>2, <1>0 DEF InsertFails, taskVars, devVars, countVars
<1>3. CASE CreateRaises
  BY <1>3, <1>0 DEF CreateRaises, MarkedFailed, devVars
<1>4. ASSUME NEW a \in Actor, Push(a) PROVE RowInv'
  BY <1>4, <1>0 DEF Push, devVars
<1>5. ASSUME NEW a \in Actor, Return(a) PROVE RowInv'
  BY <1>5, <1>0 DEF Return, devVars, countVars
<1>6. ASSUME NEW a \in Actor, ApproveRaises(a) PROVE RowInv'
  BY <1>6 DEF ApproveRaises, Reverted, RemovePending, devVars
<1>7. ASSUME NEW a \in Actor, Approve(a) PROVE RowInv'
  BY <1>7, <1>0 DEF Approve, Claimable, devVars
<1>8. ASSUME NEW a \in Actor, RecordApproval(a) PROVE RowInv'
  BY <1>0, <1>8 DEF RecordApproval, devVars
<1>9. CASE Reject \/ Rejecting
  BY <1>9 DEF Reject, Rejectable, Rejecting, RecordRejection, EndRejection,
     RejectionUnrecorded, devVars, countVars
<1>10. CASE Send
  BY <1>10 DEF Send, countVars
<1>11. CASE MarkDispatched
  BY <1>11 DEF MarkDispatched, countVars
<1>12. ASSUME NEW phase \in Phase \ {"rejected"}, DeviceEvent(phase)
     PROVE  RowInv'
  BY <1>12 DEF DeviceEvent, Report, countVars
<1>13. ASSUME NEW phase \in Phase \ {"rejected"}, EventUnrecorded(phase)
     PROVE  RowInv'
  BY <1>13 DEF EventUnrecorded, Report, countVars
<1>14. CASE Crash
  BY <1>0, <1>14 DEF Crash, taskVars
<1>15. CASE UNCHANGED vars
  BY <1>15 DEF vars, taskVars, devVars, countVars
<1>. HIDE DEF TypeOK, RowInv
<1>. QED
  BY <1>1, <1>2, <1>3, <1>4, <1>5, <1>6, <1>7, <1>8, <1>9, <1>10, <1>11,
     <1>12, <1>13, <1>14, <1>15 DEF Next, Going, Rejecting

\* No ghost task, whatever raises and wherever the process dies.
THEOREM NoGhostTaskCorrect == Spec => []NoGhostTask
<1>1. Init => RowInv
  BY DEF Init, RowInv, Dispatching, Actor
<1>2. TypeOK /\ RowInv /\ [Next]_vars => RowInv'
  BY RowStep
<1>3. TypeOK /\ RowInv => NoGhostTask
  BY DEF TypeOK, RowInv, NoGhostTask
<1>. QED
  BY <1>1, <1>2, <1>3, TypeCorrect, PTL DEF Spec
-----------------------------------------------------------------------------
(* Reported ends.                                                          *)

\* A terminal phase that was recorded has its task_terminal event for good.
THEOREM EndIsRecordedCorrect == Spec => []EndIsRecorded
<1>1. Init => EndIsRecorded
  BY DEF Init, EndIsRecorded
<1>2. TypeOK /\ EndIsRecorded /\ [Next]_vars => EndIsRecorded'
  <2>. SUFFICES ASSUME TypeOK, EndIsRecorded, [Next]_vars
                PROVE  EndIsRecorded'
    OBVIOUS
  <2>0. ledger \in Ledger
    BY DEF TypeOK
  <2>1. CASE UNCHANGED <<ledger, reported>>
    BY <2>1 DEF EndIsRecorded
  <2>2. ASSUME NEW a \in Actor, RecordApproval(a) \/ ApproveRaises(a)
        PROVE  EndIsRecorded'
    BY <2>0, <2>2, ApprovedFields
       DEF RecordApproval, ApproveRaises, EndIsRecorded, devVars
  <2>3. CASE Rejecting
    BY <2>0, <2>3, RejectedFields, EndRejectedFields
       DEF Rejecting, RecordRejection, EndRejection, RejectionUnrecorded,
           EndIsRecorded, devVars
  <2>4. CASE MarkDispatched
    <3>1. "ready_to_dispatch" \in TaskState /\ "dispatched" \in TaskState
      BY DEF TaskState
    <3>. QED
      BY <2>0, <2>4, <3>1, AdvanceFromFields DEF MarkDispatched, EndIsRecorded
  <2>5. ASSUME NEW phase \in Phase \ {"rejected"}, DeviceEvent(phase)
        PROVE  EndIsRecorded'
    BY <2>0, <2>5, MotionFields, UnadvancedFields DEF DeviceEvent, EndIsRecorded
  <2>6. ASSUME NEW phase \in Phase \ {"rejected"}, EventUnrecorded(phase)
        PROVE  EndIsRecorded'
    BY <2>0, <2>6, TargetIsState, AdvancedFields
       DEF EventUnrecorded, EndIsRecorded
  <2>7. \/ UNCHANGED <<ledger, reported>>
        \/ \E a \in Actor : RecordApproval(a) \/ ApproveRaises(a)
        \/ Rejecting \/ MarkDispatched
        \/ \E phase \in Phase \ {"rejected"} :
              DeviceEvent(phase) \/ EventUnrecorded(phase)
    BY DEF Next, Going, Insert, InsertFails, CreateRaises, Push, Return,
           Approve, Reject, Send, Crash, vars, taskVars, devVars
  <2>. QED
    BY <2>1, <2>2, <2>3, <2>4, <2>5, <2>6, <2>7
<1>. QED
  BY <1>1, <1>2, TypeCorrect, PTL DEF Spec
-----------------------------------------------------------------------------
(* Approvals.  For a task that waits the creating handler dispatches       *)
(* nothing; at most one request does, and while it does the row is         *)
(* approved, so that nobody can claim or reject it; a request that is      *)
(* still to push has a claim nobody pushed for, and every claim but the    *)
(* standing one was given back by a dispatch that raised.                  *)

GateInv ==
    Waits =>
        /\ pc[Creator] \in {"insert", "done"}
        /\ pc[Creator] = "insert" => row = "none" /\ claims = 0
        /\ \A a, b \in Dispatching : a = b
        /\ Dispatching # {} => row = "approved"
        /\ \A a \in Actor : pc[a] \in {"claimed", "push"} => pushes < claims
        /\ pushes <= claims
        /\ claims <= failures + 1
        /\ row # "approved" => claims <= failures

\* no step changes what kind of task it is
LEMMA TaskIsConstant ==
    ASSUME [Next]_vars
    PROVE  task' = task /\ Waits' = Waits
<1>1. task' = task
  BY DEF Next, Going, Insert, InsertFails, CreateRaises, Push, Return,
         ApproveRaises, Approve, RecordApproval, Reject, Rejecting,
         RecordRejection, EndRejection, RejectionUnrecorded, Send,
         MarkDispatched, DeviceEvent, EventUnrecorded, Crash, vars
<1>. QED
  BY <1>1 DEF Waits, Gated

\* a task that waits is of a task handler, and inserted as pending
LEMMA WaitingTask ==
    ASSUME TypeOK, Waits
    PROVE  task.handler # "asset" /\ InitialStatus = "pending"
<1>1. task.handler \in AllHandlers
  BY AppTaskAssumption DEF TypeOK, AppTaskAssumption
<1>2. CASE task.handler = "structured"
  BY <1>2 DEF InitialStatus
<1>3. CASE task.handler = "freetext"
  BY <1>3 DEF InitialStatus, Waits
<1>4. CASE task.handler = "asset"
  BY <1>4 DEF Waits
<1>. QED
  BY <1>1, <1>2, <1>3, <1>4 DEF AllHandlers

\* every step keeps GateInv
LEMMA GateStep ==
    ASSUME TypeOK, GateInv, [Next]_vars
    PROVE  GateInv'
<1>. SUFFICES ASSUME Waits, Waits' PROVE GateInv'
  BY TaskIsConstant DEF GateInv
<1>. USE DEF TypeOK, GateInv, Dispatching
<1>0. /\ Creator \in Actor /\ task.handler # "asset" /\ InitialStatus = "pending"
      /\ \A a \in Approver : a \in Actor /\ a # Creator
      /\ failures \in Nat
  BY WaitingTask, AppTaskAssumption DEF Actor, AppTaskAssumption
<1>1. CASE Insert
  BY <1>0, <1>1 DEF Insert, devVars, countVars
<1>2. CASE InsertFails
  BY <1>0, <1>2 DEF InsertFails, taskVars, devVars, countVars
<1>3. CASE CreateRaises
  BY <1>0, <1>3 DEF CreateRaises
<1>4. ASSUME NEW a \in Actor, Push(a) PROVE GateInv'
  BY <1>0, <1>4 DEF Push, devVars
<1>5. ASSUME NEW a \in Actor, Return(a) PROVE GateInv'
  BY <1>0, <1>5 DEF Return, devVars, countVars
<1>6. ASSUME NEW a \in Actor, ApproveRaises(a) PROVE GateInv'
  BY <1>0, <1>6 DEF ApproveRaises, Reverted, devVars
<1>7. ASSUME NEW a \in Actor, Approve(a) PROVE GateInv'
  BY <1>0, <1>7 DEF Approve, Claimable, devVars
<1>8. ASSUME NEW a \in Actor, RecordApproval(a) PROVE GateInv'
  BY <1>0, <1>8 DEF RecordApproval, devVars
<1>9. CASE Reject \/ Rejecting
  BY <1>0, <1>9 DEF Reject, Rejectable, Rejecting, RecordRejection,
     EndRejection, RejectionUnrecorded, devVars, countVars
<1>10. CASE Send
  BY <1>0, <1>10 DEF Send, countVars
<1>11. CASE MarkDispatched
  BY <1>0, <1>11 DEF MarkDispatched, countVars
<1>12. ASSUME NEW phase \in Phase \ {"rejected"}, DeviceEvent(phase)
     PROVE  GateInv'
  BY <1>0, <1>12 DEF DeviceEvent, Report, countVars
<1>13. ASSUME NEW phase \in Phase \ {"rejected"}, EventUnrecorded(phase)
     PROVE  GateInv'
  BY <1>0, <1>13 DEF EventUnrecorded, Report, countVars
<1>14. CASE Crash
  BY <1>0, <1>14 DEF Crash, taskVars
<1>15. CASE UNCHANGED vars
  BY <1>0, <1>15 DEF vars, taskVars, devVars, countVars
<1>. HIDE DEF TypeOK, GateInv, Dispatching
<1>. QED
  BY <1>1, <1>2, <1>3, <1>4, <1>5, <1>6, <1>7, <1>8, <1>9, <1>10, <1>11,
     <1>12, <1>13, <1>14, <1>15 DEF Next, Going, Rejecting

LEMMA GateAlways == Spec => [](TypeOK /\ GateInv)
<1>1. Init => GateInv
  <2>. SUFFICES ASSUME Init, Waits PROVE GateInv
    BY DEF GateInv
  <2>1. task.handler # "asset"
    BY InitTypes, WaitingTask
  <2>. QED
    BY <2>1, AppTaskAssumption DEF Init, GateInv, Dispatching, Actor,
       AppTaskAssumption
<1>2. TypeOK /\ GateInv /\ [Next]_vars => GateInv'
  BY GateStep
<1>. QED
  BY <1>1, <1>2, TypeCorrect, PTL DEF Spec

\* One request dispatches a waiting task at a time, every push has its claim,
\* and there are no more claims than one plus the dispatches that raised.
THEOREM OnePushPerApprovalCorrect == Spec => []OnePushPerApproval
<1>1. TypeOK /\ GateInv => OnePushPerApproval
  <2>. SUFFICES ASSUME TypeOK, GateInv, Waits
                PROVE  /\ Cardinality(Dispatching) <= 1
                       /\ pushes <= claims
                       /\ claims <= failures + 1
    BY DEF OnePushPerApproval
  <2>1. CASE Dispatching = {}
    BY <2>1, FS_EmptySet DEF GateInv
  <2>2. CASE Dispatching # {}
    <3>1. PICK a \in Actor : a \in Dispatching
      BY <2>2 DEF Dispatching
    <3>2. Dispatching = {a}
      BY <3>1 DEF GateInv, Dispatching
    <3>3. Cardinality(Dispatching) = 1
      BY <3>2, FS_Singleton
    <3>. QED
      BY <3>3 DEF GateInv
  <2>. QED
    BY <2>1, <2>2
<1>. QED
  BY <1>1, GateAlways, PTL

\* A waiting task that was rejected stays so and is not pushed any more.
THEOREM RejectionIsFinalCorrect == Spec => RejectionIsFinal
<1>1. TypeOK /\ GateInv /\ [Next]_vars =>
        [Waits /\ row = "rejected" => row' = "rejected" /\ pushes' = pushes]_vars
  <2>. SUFFICES ASSUME TypeOK, GateInv, Next, Waits, row = "rejected"
                PROVE  row' = "rejected" /\ pushes' = pushes
    OBVIOUS
  <2>1. /\ Creator \in Actor /\ pc[Creator] = "done"
        /\ \A a \in Actor : pc[a] \notin {"claimed", "push", "pushed"}
    BY DEF GateInv, Dispatching, Actor
  <2>. QED
    BY <2>1 DEF Next, Going, Insert, InsertFails, CreateRaises, Push, Return,
         ApproveRaises, Approve, RecordApproval, Claimable, Reject,
         Rejectable, Rejecting, RecordRejection, EndRejection,
         RejectionUnrecorded, Send, MarkDispatched, DeviceEvent, EventUnrecorded,
         Crash, taskVars, devVars, countVars
<1>. QED
  BY <1>1, GateAlways, PTL DEF Spec, RejectionIsFinal
-----------------------------------------------------------------------------
(* Row and ledger.  As long as no dispatch raised, a high-risk task that is *)
(* pending or rejected has left no trace at the queue and the device, so   *)
(* nobody but the handlers writes its ledger; who is about to write it has *)
(* committed the row the write is about; and a rejection that recorded     *)
(* nothing wrong has ended the workflow when it is over.                   *)

AgreeInv ==
    Waits /\ task.risky /\ failures = 0 =>
        /\ row \in {"none", "pending", "rejected"} =>
             queued = 0 /\ sent = 0 /\ unmarked = 0 /\ dev = "none"
        /\ row \in {"none", "pending"} => ledger.state = "waiting_approval"
        /\ rejecting # "no" <=> row = "rejected"
        /\ row = "approved" /\ LoopFree /\ ~unrecorded =>
             ledger.state # "waiting_approval"
        /\ rejecting \in {"row", "noted"} => ledger.state = "waiting_approval"
        /\ rejecting = "done" =>
             /\ ledger.state \in {"waiting_approval", "terminal"}
             /\ ~unrecorded => ledger.state = "terminal"

\* every step keeps AgreeInv
LEMMA AgreeStep ==
    ASSUME TypeOK, GateInv, AgreeInv, [Next]_vars
    PROVE  AgreeInv'
<1>. SUFFICES ASSUME Waits, task.risky, (failures = 0)'
              PROVE  AgreeInv'
  BY TaskIsConstant DEF AgreeInv
<1>. USE DEF AgreeInv, LoopFree
<1>0. /\ ledger \in Ledger /\ failures \in Nat
      /\ row \in {"none", "pending", "approved", "rejected", "failed"}
      /\ Creator \in Actor /\ InitialStatus = "pending"
      /\ pc[Creator] \in {"insert", "done"}
      /\ pc[Creator] = "insert" => row = "none"
      /\ \A a \in Actor :
            pc[a] \in {"claimed", "push", "pushed"} => row = "approved"
      /\ pc \in [Actor -> {"idle", "insert", "claimed", "push", "pushed", "done"}]
      /\ queued \in Nat /\ unmarked \in Nat
  BY WaitingTask, AppTaskAssumption DEF TypeOK, GateInv, Dispatching, Actor,
     AppTaskAssumption
<1>1. CASE Insert
  BY <1>0, <1>1 DEF Insert, devVars, countVars
<1>2. CASE InsertFails
  BY <1>0, <1>2 DEF InsertFails, taskVars, devVars, countVars
<1>3. CASE CreateRaises
  BY <1>0, <1>3 DEF CreateRaises
<1>4. ASSUME NEW a \in Actor, Push(a) PROVE AgreeInv'
  BY <1>0, <1>4 DEF Push, devVars
<1>5. ASSUME NEW a \in Actor, Return(a) PROVE AgreeInv'
  BY <1>0, <1>5 DEF Return, devVars, countVars
<1>6. ASSUME NEW a \in Actor, ApproveRaises(a) PROVE AgreeInv'
  BY <1>0, <1>6 DEF ApproveRaises, Reverted, devVars
<1>7. ASSUME NEW a \in Actor, Approve(a) PROVE AgreeInv'
  BY <1>0, <1>7 DEF Approve, Claimable, devVars
<1>8. ASSUME NEW a \in Actor, RecordApproval(a) PROVE AgreeInv'
  BY <1>0, ApprovedFields, <1>8 DEF RecordApproval, devVars
<1>9. CASE Reject
  BY <1>0, <1>9 DEF Reject, Rejectable, devVars, countVars
<1>9a. CASE Rejecting
  BY <1>0, RejectedFields, EndRejectedFields, <1>9a
     DEF Rejecting, RecordRejection, EndRejection, RejectionUnrecorded, devVars,
         countVars
<1>10. CASE Send
  BY <1>0, <1>10 DEF Send, countVars
<1>11. CASE MarkDispatched
  <2>1. "ready_to_dispatch" \in TaskState /\ "dispatched" \in TaskState
    BY DEF TaskState
  <2>2. ledger'.state \in {ledger.state, "dispatched"}
    BY <1>0, <1>11, <2>1, AdvanceFromFields DEF MarkDispatched
  <2>. QED
    BY <1>0, <1>11, <2>2 DEF MarkDispatched, countVars
<1>12. ASSUME NEW phase \in Phase \ {"rejected"}, DeviceEvent(phase)
     PROVE  AgreeInv'
  <2>1. ledger'.state = "waiting_approval" => ledger.state = "waiting_approval"
    BY <1>0, <1>12, MotionFields, UnadvancedFields DEF DeviceEvent
  <2>2. dev # "none" /\ dev' # "none"
    BY <1>12 DEF DeviceEvent, Report
  <2>. QED
    BY <1>0, <1>12, <2>1, <2>2 DEF DeviceEvent, countVars
<1>13. ASSUME NEW phase \in Phase \ {"rejected"}, EventUnrecorded(phase)
     PROVE  AgreeInv'
  <2>1. ledger'.state = "waiting_approval" => ledger.state = "waiting_approval"
    BY <1>0, <1>13, TargetIsState, AdvancedFields DEF EventUnrecorded
  <2>2. dev # "none" /\ dev' # "none"
    BY <1>13 DEF EventUnrecorded, Report
  <2>. QED
    BY <1>0, <1>13, <2>1, <2>2 DEF EventUnrecorded, countVars
<1>14. CASE Crash
  <2>1. UNCHANGED <<row, ledger, dev, failures, pushes, claims>>
    BY <1>14 DEF Crash, taskVars
  <2>2. \A a \in Actor : pc'[a] = IF pc[a] = "idle" THEN "idle" ELSE "done"
    BY <1>14 DEF Crash
  <2>3. /\ rejecting' = IF rejecting = "no" THEN "no" ELSE "done"
        /\ unrecorded' = (unrecorded \/ ~LoopFree)
    BY <1>14 DEF Crash
  <2>4. \A a \in Actor : pc'[a] \notin {"claimed", "push", "pushed"}
    BY <2>2
  <2>5. rejecting \in {"no", "row", "noted", "done"} /\ unrecorded \in BOOLEAN
    BY DEF TypeOK
  <2>6. failures = 0
    BY <2>1
  <2>7. row = "approved" /\ ~unrecorded' => ledger.state # "waiting_approval"
    BY <2>3, <2>5, <2>6
  <2>8. rejecting' \in {"no", "done"} /\ (rejecting' # "no" <=> rejecting # "no")
    BY <2>3, <2>5
  <2>9. rejecting' = "done" =>
          /\ ledger.state \in {"waiting_approval", "terminal"}
          /\ ~unrecorded' => ledger.state = "terminal"
    BY <2>3, <2>5, <2>6
  <2>10. queued' = queued /\ sent' = sent /\ unmarked' = 0
    BY <1>14 DEF Crash, taskVars
  <2>. QED
    BY <2>1, <2>6, <2>7, <2>8, <2>9, <2>10
<1>15. CASE UNCHANGED vars
  BY <1>0, <1>15 DEF vars, taskVars, devVars, countVars
<1>. HIDE DEF AgreeInv, LoopFree
<1>. QED
  BY <1>1, <1>2, <1>3, <1>4, <1>5, <1>6, <1>7, <1>8, <1>9, <1>9a, <1>10, <1>11,
     <1>12, <1>13, <1>14, <1>15 DEF Next, Going, Rejecting

\* As long as no dispatch raised, the ledger of a high-risk task is never
\* ahead of its row, and behind it only between the two writes or after the
\* second was not made.
THEOREM LedgerAgreesCorrect == Spec => []LedgerAgreesWithRow
<1>1. Init => AgreeInv
  <2>. SUFFICES ASSUME Init, task.risky PROVE AgreeInv
    BY DEF AgreeInv
  <2>1. ledger.state = "waiting_approval"
    BY BuiltFields DEF Init
  <2>. QED
    BY <2>1 DEF Init, AgreeInv, LoopFree
<1>2. TypeOK /\ GateInv /\ AgreeInv /\ [Next]_vars => AgreeInv'
  BY AgreeStep
<1>3. TypeOK /\ AgreeInv => LedgerAgreesWithRow
  BY DEF TypeOK, AgreeInv, LedgerAgreesWithRow, LoopFree
<1>. QED
  BY <1>1, <1>2, <1>3, GateAlways, PTL DEF Spec
=============================================================================
