------------------------------ MODULE TaskWorkflow ------------------------------
(***************************************************************************)
(* WorkflowOrchestrator: the workflow state of a task is nowhere stored,   *)
(* it is replayed from the task's ledger events.  What a replay yields is  *)
(* kept here instead of the events: the last status, the last status that  *)
(* is a workflow state, and the phases of the task_terminal events.        *)
(*                                                                         *)
(* The events of a task are appended by one process under its locks, and   *)
(* are taken to be in the order of their time stamps.  The cache of        *)
(* _current_state, keyed by the number of events, then changes nothing.    *)
(***************************************************************************)
TaskState == {"created", "planned", "simulated", "waiting_approval",
              "ready_to_dispatch", "dispatched", "running", "in_progress",
              "recovering", "terminal", "completed", "failed", "cancelled"}

ValidTransitions == [s \in TaskState |->
    CASE s = "created" -> {"planned"}
      [] s = "planned" -> {"simulated"}
      [] s = "simulated" -> {"waiting_approval", "ready_to_dispatch"}
      [] s = "waiting_approval" -> {"ready_to_dispatch", "terminal"}
      [] s = "ready_to_dispatch" -> {"dispatched"}
      [] s = "dispatched" -> {"running", "in_progress", "failed", "cancelled"}
      [] s = "running" -> {"terminal", "recovering"}
      [] s = "in_progress" -> {"completed", "failed", "cancelled", "recovering"}
      [] s = "recovering" -> {"running", "terminal", "in_progress"}
      [] s = "failed" -> {"recovering", "terminal"}
      [] OTHER -> {}]

\* phases a device reports, and the one record_rejection makes up
TerminalPhase == {"done", "failed", "cancelled"}
Phase == {"accepted", "running", "rejected"} \cup TerminalPhase

Ledger == [status: TaskState \cup Phase, state: TaskState,
           ended: SUBSET (TerminalPhase \cup {"terminal"})]

\* _status_after_event, _status_to_task_state: an event that says status s.
\* Statuses that are no workflow state (accepted, done) leave the state.
Replayed(l, s) ==
    [l EXCEPT !.status = s, !.state = IF s \in TaskState THEN s ELSE @]

\* _terminal_phase: what the event of an advance says
EventStatus(target) == IF target = "completed" THEN "done" ELSE target

TaskTerminal(l, s) == [Replayed(l, s) EXCEPT !.ended = @ \cup {s}]

\* advance: refused unless the transition is valid
Allowed(l, target) == target \in ValidTransitions[l.state]
Advanced(l, target) ==
    IF target \in {"terminal", "completed", "failed", "cancelled"}
    THEN TaskTerminal(l, EventStatus(target))
    ELSE Replayed(l, EventStatus(target))
TryAdvance(l, target) == IF Allowed(l, target) THEN Advanced(l, target) ELSE l

\* callers that look at get_state first
AdvanceFrom(l, source, target) ==
    IF l.state = source THEN TryAdvance(l, target) ELSE l

\* the state_map of _advance_workflow_on_event ("rejected" is not in it)
Target(phase) ==
    CASE phase = "accepted" -> "dispatched"
      [] phase = "running" -> "in_progress"
      [] phase = "done" -> "completed"
      [] phase \in {"failed", "cancelled"} -> phase

(***************************************************************************)
(* record_motion_event: advance if the phase has a target and the          *)
(* transition is valid, append the motion_event whether it is or not, and  *)
(* a task_terminal for a terminal phase that did not advance.              *)
(***************************************************************************)
CanAdvance(l, phase) == phase # "rejected" /\ Allowed(l, Target(phase))
AfterMotion(l, phase) ==
    Replayed(IF CanAdvance(l, phase) THEN Advanced(l, Target(phase)) ELSE l,
             phase)

\* mutant: trusts the advance to have recorded the end
MotionWithoutFallback(l, phase) == AfterMotion(l, phase)

MotionEvent(l, phase) ==
    IF phase \in TerminalPhase /\ ~CanAdvance(l, phase)
    THEN TaskTerminal(AfterMotion(l, phase), phase)
    ELSE AfterMotion(l, phase)

\* the same when the advance raised for another reason than the transition,
\* which is swallowed as well
MotionUnadvanced(l, phase) ==
    IF phase \in TerminalPhase
    THEN TaskTerminal(Replayed(l, phase), phase)
    ELSE Replayed(l, phase)

\* _run_task_simulation: registered, planned, simulated, and then ready
\* unless the simulation found a high risk
Registered == [status |-> "created", state |-> "created", ended |-> {}]
Built(risky) ==
    TryAdvance(TryAdvance(TryAdvance(Registered, "planned"), "simulated"),
               IF risky THEN "waiting_approval" ELSE "ready_to_dispatch")
=============================================================================
