------------------------- MODULE WorkflowLedger_proofs -------------------------
(* Theorems about WorkflowLedger, for every number of threads, processes,   *)
(* faults and locks that run out.                                           *)
EXTENDS WorkflowLedger, NaturalsInduction, WellFoundedInduction, TLAPS

\* Where the threads stand: all that the proofs need of TypeOK.
PlacesOK == pc \in [Thread -> Places]

\* Threads stay at these places.
LEMMA PlacesStep == PlacesOK /\ [Next]_vars => PlacesOK'
<1> SUFFICES ASSUME PlacesOK, [Next]_vars PROVE PlacesOK'
  OBVIOUS
<1> USE DEF PlacesOK, Places
<1>1. ASSUME NEW t \in Thread, Step(t) PROVE PlacesOK'
  BY <1>1 DEF Step, Acquire, Ended, Over, Goto, Enter, Read, Leave, Append1, Raised,
     Append2, AfterAppend, Answer, Release, Motion, Fallback, Make
<1>2. ASSUME NEW p \in Proc, Crash(p) PROVE PlacesOK'
  BY <1>2 DEF Crash
<1>3. CASE Lapse
  BY <1>3 DEF Lapse
<1>4. CASE UNCHANGED vars
  BY <1>4 DEF vars
<1> QED
  BY <1>1, <1>2, <1>3, <1>4 DEF Next

\* A thread inside the lock is the one its key names: the strengthening that
\* makes MutualExclusion inductive.
InsideHasKey == ~lapsed => \A t \in Thread : Inside(t) => key = t

\* Only the thread the key names goes on inside.
LEMMA InsideHasKeyStep == PlacesOK /\ InsideHasKey /\ [Next]_vars => InsideHasKey'
<1> SUFFICES ASSUME PlacesOK, InsideHasKey, [Next]_vars,
                    ~lapsed', NEW u \in Thread, Inside(u)'
             PROVE  key' = u
  BY DEF InsideHasKey
<1> USE WorkflowLedgerAssumption DEF PlacesOK, Places
<1>1. ASSUME NEW t \in Thread, Acquire(t) PROVE key' = u
  <2>1. lapsed' = lapsed
    BY <1>1 DEF Acquire
  <2>2. CASE key = None
    <3>1. ~Inside(u)
      BY <2>1, <2>2 DEF InsideHasKey
    <3>2. u = t
      BY <1>1, <3>1 DEF Acquire, Goto, Ended, Inside
    <3>3. pc'[t] = "locked"
      BY <1>1, <3>2 DEF Acquire, Goto, Ended, Over, Inside
    <3> QED
      BY <1>1, <2>2, <3>2, <3>3 DEF Acquire, Goto, Ended, Over, Ran
  <2>3. CASE key # None
    <3>1. u # t /\ pc'[u] = pc[u]
      BY <1>1, <2>3 DEF Acquire, Goto, Ended, Over, Inside
    <3> QED
      BY <1>1, <2>1, <2>3, <3>1 DEF Acquire, Inside, InsideHasKey
  <2> QED
    BY <2>2, <2>3
<1>2. ASSUME NEW t \in Thread, Release(t) PROVE key' = u
  BY <1>2 DEF Release, Goto, Over, Inside, InsideHasKey
<1>3. ASSUME NEW t \in Thread,
             Enter(t) \/ Read(t) \/ Append1(t) \/ Append2(t) \/ Answer(t) \/ Motion(t)
               \/ Fallback(t)
      PROVE  key' = u
  <2>1. key' = key /\ lapsed' = lapsed
    BY <1>3 DEF Enter, Read, Append1, Append2, Answer, Motion, Fallback, Make, lockVars,
       countVars
  <2>2. Inside(u)
    BY <1>3 DEF Enter, Read, Append1, Append2, Answer, Motion, Fallback, Make, Goto, Leave,
       Raised, Locked, AfterAppend, Inside
  <2> QED
    BY <2>1, <2>2 DEF InsideHasKey
<1>4. ASSUME NEW p \in Proc, Crash(p) PROVE key' = u
  BY <1>4 DEF Crash, Inside, InsideHasKey
<1>5. CASE Lapse
  \* the key was u's, and then the lock ran out under its owner
  BY <1>5 DEF Lapse, Inside, InsideHasKey
<1>6. CASE UNCHANGED vars
  BY <1>6 DEF vars, lockVars, countVars, Inside, InsideHasKey
<1> QED
  BY <1>1, <1>2, <1>3, <1>4, <1>5, <1>6 DEF Next, Step

\* One register or advance of the task at a time, in all processes, while no
\* lock ran out under its owner.
THEOREM LockExcludes == Spec => []MutualExclusion
<1>1. Init => PlacesOK /\ InsideHasKey
  BY DEF Init, PlacesOK, Places, InsideHasKey, Inside
<1>2. InsideHasKey => MutualExclusion
  BY DEF InsideHasKey, MutualExclusion
<1> QED
  BY <1>1, <1>2, PlacesStep, InsideHasKeyStep, PTL DEF Spec
-----------------------------------------------------------------------------
\* What the proof that a call that returned is recorded needs of the types.
Shape ==
    /\ PlacesOK
    /\ result \in [Thread -> {"none", "ok", "refused", "error", "raised"}]
    /\ making = [t \in Thread |-> making[t]]
    /\ \E S : tasklist \in Seq(S)

\* Appending an event once or twice keeps the old events and adds the new one.
LEMMA AppendedIsIn ==
    \A S, e : \A s \in Seq(S), n \in {1, 2} :
           /\ s \o [i \in 1..n |-> e] \in Seq(S \cup {e})
           /\ ToSet(s) \subseteq ToSet(s \o [i \in 1..n |-> e])
           /\ e \in ToSet(s \o [i \in 1..n |-> e])
<1> TAKE S, e
<1> TAKE s \in Seq(S), n \in {1, 2}
<1> DEFINE r == s \o [i \in 1..n |-> e]
<1>1. s \in Seq(S \cup {e}) /\ [i \in 1..n |-> e] \in Seq(S \cup {e})
  OBVIOUS
<1>2. r \in Seq(S \cup {e})
  BY <1>1
<1>3. Len(r) = Len(s) + n /\ Len(s) \in Nat
  BY <1>1
<1>4. \A i \in 1..Len(s) : i \in DOMAIN r /\ r[i] = s[i]
  BY <1>1, <1>3
<1>5. Len(s) + 1 \in DOMAIN r /\ r[Len(s) + 1] = e
  BY <1>1, <1>3
<1>6. ToSet(s) \subseteq ToSet(r)
  BY <1>4 DEF ToSet
<1>7. e \in ToSet(r)
  BY <1>5 DEF ToSet
<1> QED
  BY <1>2, <1>6, <1>7

\* The same for an append of one.
LEMMA AppendIsIn ==
    ASSUME NEW S, NEW s \in Seq(S), NEW e
    PROVE  /\ Append(s, e) \in Seq(S \cup {e})
           /\ ToSet(s) \subseteq ToSet(Append(s, e))
<1>1. s \in Seq(S \cup {e})
  OBVIOUS
<1>2. Append(s, e) \in Seq(S \cup {e})
  BY <1>1
<1>3. \A i \in 1..Len(s) : i \in DOMAIN Append(s, e) /\ Append(s, e)[i] = s[i]
  BY <1>1
<1> QED
  BY <1>2, <1>3 DEF ToSet

\* The list of the task only grows.
LEMMA ListGrows ==
    ASSUME Shape, NEW t \in Thread, Append1(t)
    PROVE  /\ \E S : tasklist' \in Seq(S)
           /\ ToSet(tasklist) \subseteq ToSet(tasklist')
           /\ pc'[t] \in {"device", "mdevice"} => making[t] \in ToSet(tasklist')
<1>1. PICK S : tasklist \in Seq(S)
  BY DEF Shape
<1>2. ASSUME NEW n \in {1, 2}, tasklist' = tasklist \o [i \in 1..n |-> making[t]]
      PROVE  /\ tasklist' \in Seq(S \cup {making[t]})
             /\ ToSet(tasklist) \subseteq ToSet(tasklist')
             /\ making[t] \in ToSet(tasklist')
  <2> DEFINE e == making[t]
  <2>1. /\ tasklist \o [i \in 1..n |-> e] \in Seq(S \cup {e})
        /\ ToSet(tasklist) \subseteq ToSet(tasklist \o [i \in 1..n |-> e])
        /\ e \in ToSet(tasklist \o [i \in 1..n |-> e])
    <3> DEFINE l == tasklist
    <3>1. l \in Seq(S)
      BY <1>1
    <3> HIDE DEF e, l
    <3>2. /\ l \o [i \in 1..n |-> e] \in Seq(S \cup {e})
          /\ ToSet(l) \subseteq ToSet(l \o [i \in 1..n |-> e])
          /\ e \in ToSet(l \o [i \in 1..n |-> e])
      BY <3>1, AppendedIsIn
    <3> QED
      BY <3>2 DEF l
  <2> QED
    BY <1>2, <2>1
<1>3. ASSUME tasklist' \in {tasklist, Append(tasklist, making[t])}, Raised(t)
      PROVE  /\ \E R : tasklist' \in Seq(R)
             /\ ToSet(tasklist) \subseteq ToSet(tasklist')
             /\ pc'[t] \notin {"device", "mdevice"}
  <2>1. pc'[t] \notin {"device", "mdevice"}
    BY <1>3 DEF Raised, Leave, Goto, Shape, PlacesOK
  <2>2. CASE tasklist' = Append(tasklist, making[t])
    <3> DEFINE e == making[t]
    <3>1. Append(tasklist, e) \in Seq(S \cup {e}) /\ ToSet(tasklist) \subseteq ToSet(Append(tasklist, e))
      <4> HIDE DEF e
      <4> QED
        BY <1>1, AppendIsIn
    <3> QED
      BY <2>1, <2>2, <3>1
  <2>3. CASE tasklist' = tasklist
    BY <1>1, <2>1, <2>3
  <2> QED
    BY <1>3, <2>2, <2>3
<1> QED
  BY <1>2, <1>3 DEF Append1

\* Every step keeps that much of the types.
LEMMA ShapeStep == Shape /\ [Next]_vars => Shape'
<1> SUFFICES ASSUME Shape, [Next]_vars PROVE Shape'
  OBVIOUS
<1>1. PlacesOK'
  BY PlacesStep DEF Shape
<1>2. ASSUME NEW t \in Thread, Append1(t) PROVE Shape'
  <2>1. making' = making
    BY <1>2 DEF Append1
  <2>2. result' \in [Thread -> {"none", "ok", "refused", "error", "raised"}]
    BY <1>2 DEF Append1, Raised, Leave, Shape
  <2> QED
    BY <1>1, <1>2, <2>1, <2>2, ListGrows DEF Shape
<1>3. ASSUME NEW t \in Thread,
             Acquire(t) \/ Enter(t) \/ Read(t) \/ Append2(t) \/ Answer(t) \/ Release(t)
               \/ Motion(t) \/ Fallback(t)
      PROVE  Shape'
  <2>1. tasklist' = tasklist
    BY <1>3 DEF Acquire, Enter, Read, Append2, Answer, Release, Motion, Fallback, Make,
       ledgerVars
  <2>2. result' \in [Thread -> {"none", "ok", "refused", "error", "raised"}]
    BY <1>3 DEF Acquire, Ended, Enter, Read, Leave, Append2, Raised, Answer, Release, Motion,
       Fallback, Make, Shape
  <2>3. making' = [making EXCEPT ![t] = making'[t]]
    BY <1>3 DEF Acquire, Enter, Read, Append2, Answer, Release, Motion, Fallback, Make, Shape
  <2>4. making' = [u \in Thread |-> making'[u]]
    BY <2>3 DEF Shape
  <2> QED
    BY <1>1, <2>1, <2>2, <2>4 DEF Shape
<1>4. ASSUME NEW p \in Proc, Crash(p) PROVE Shape'
  BY <1>1, <1>4 DEF Crash, ledgerVars, Shape
<1>5. CASE Lapse \/ UNCHANGED vars
  BY <1>1, <1>5 DEF Lapse, vars, ledgerVars, Shape
<1> QED
  BY <1>2, <1>3, <1>4, <1>5 DEF Next, Step
-----------------------------------------------------------------------------
\* Must the event of t that counts as its record say that the task ended?
MustEnd(t) == op[t].kind = "motion" /\ op[t].arg \in TerminalPhase

\* Event e is what the register or advance of t appends.
RecordOf(t, e) == e.by = t /\ e.status = AdvancedTo(t) /\ (MustEnd(t) => e.ends)

\* It is in both lists; so is the motion_event; so is a task_terminal.
Both == ToSet(tasklist) \cap devlist
InBoth(t) == \E e \in Both : RecordOf(t, e)
MotionInBoth(t) == \E e \in Both : e.by = t /\ e.status = op[t].arg /\ ~e.ends
EndInBoth(t) == \E e \in Both : e.by = t /\ e.ends

\* What holds of a thread at each place between its append and its answer:
\* the strengthening of ReturnedMeansRecorded.
OnItsWay(t) ==
    /\ pc[t] \in {"append", "device"} => RecordOf(t, making[t])
    /\ pc[t] \in {"mappend", "mdevice"} =>
         /\ making[t].by = t /\ making[t].status = op[t].arg
         /\ making[t].ends => MotionInBoth(t)
    /\ pc[t] \in {"device", "mdevice"} => making[t] \in ToSet(tasklist)
    /\ pc[t] = "answer" \/ result[t] = "ok" => InBoth(t)
    /\ pc[t] = "fallback" => MotionInBoth(t)
    /\ op[t].kind = "motion" /\ pc[t] = "done" /\ result[t] # "raised" =>
         MotionInBoth(t) /\ (op[t].arg \in TerminalPhase => EndInBoth(t))

\* What is in both lists stays there.
LEMMA BothGrow ==
    ASSUME NEW t, op' = op, ToSet(tasklist) \subseteq ToSet(tasklist'),
           devlist \subseteq devlist'
    PROVE  /\ InBoth(t) => InBoth(t)'
           /\ MotionInBoth(t) => MotionInBoth(t)'
           /\ EndInBoth(t) => EndInBoth(t)'
<1>1. \A e \in Both : e \in Both'
  BY DEF Both
<1>2. \A e : RecordOf(t, e) <=> RecordOf(t, e)'
  BY DEF RecordOf, MustEnd, AdvancedTo, WantedTarget
<1> QED
  BY <1>1, <1>2 DEF InBoth, MotionInBoth, EndInBoth

\* A step that touches nothing of t and only adds events keeps all that.
LEMMA OthersOnTheirWay ==
    ASSUME NEW t \in Thread, OnItsWay(t),
           pc'[t] = pc[t] \/ pc'[t] = "dead",
           op' = op, result'[t] = result[t], making'[t] = making[t],
           ToSet(tasklist) \subseteq ToSet(tasklist'), devlist \subseteq devlist'
    PROVE  OnItsWay(t)'
<1>1. \A e : RecordOf(t, e) => RecordOf(t, e)'
  BY DEF RecordOf, MustEnd, AdvancedTo, WantedTarget
<1> QED
  BY <1>1, BothGrow DEF OnItsWay

\* The advance of a phase that ends the task is a task_terminal.
LEMMA AdvanceRecords ==
    ASSUME NEW t \in Thread, op[t].kind # "register"
    PROVE  RecordOf(t, AdvanceEvent(t, WantedTarget(t)))
<1> DEFINE e == AdvanceEvent(t, WantedTarget(t))
<1>1. e.by = t /\ e.status = AdvancedTo(t)
  BY DEF AdvanceEvent, Event, AdvancedTo
<1>2. MustEnd(t) => e.ends
  BY DEF MustEnd, AdvanceEvent, Event, WantedTarget, Target, TerminalPhase
<1> QED
  BY <1>1, <1>2 DEF RecordOf

\* A thread's own step keeps what holds of it.
LEMMA ActorOnItsWay ==
    ASSUME Shape, NEW t \in Thread, Step(t), OnItsWay(t)
    PROVE  OnItsWay(t)'
<1> USE DEF Shape, PlacesOK
<1>0. op' = op
  BY DEF Step, Acquire, Enter, Read, Append1, Append2, Answer, Release, Motion, Fallback, Make
<1>1. ASSUME UNCHANGED ledgerVars
      PROVE  /\ InBoth(t) => InBoth(t)'
             /\ MotionInBoth(t) => MotionInBoth(t)'
             /\ EndInBoth(t) => EndInBoth(t)'
  BY <1>0, <1>1, BothGrow DEF ledgerVars
<1>1a. \A e : RecordOf(t, e)' <=> e.by = t /\ e.status = AdvancedTo(t) /\ (MustEnd(t) => e.ends)
  BY <1>0 DEF RecordOf, MustEnd, AdvancedTo, WantedTarget
<1>2. CASE Acquire(t)
  BY <1>2, <1>1 DEF Acquire, Ended, Goto, Over, OnItsWay
<1>3. CASE Enter(t)
  BY <1>3, <1>1 DEF Enter, Goto, OnItsWay
<1>4. CASE Read(t)
  <2>1. UNCHANGED ledgerVars
    BY <1>4 DEF Read
  <2>2. CASE MayAppend(t)
    <3>1. pc'[t] = "append" /\ result' = result
      BY <1>4, <2>2 DEF Read, Goto
    <3>2. RecordOf(t, making'[t])
      <4>1. CASE op[t].kind = "register"
        BY <1>4, <2>2, <4>1 DEF Read, Event, RecordOf, MustEnd, AdvancedTo
      <4>2. CASE op[t].kind # "register"
        <5>1. making'[t] = AdvanceEvent(t, WantedTarget(t))
          BY <1>4, <2>2, <4>2 DEF Read
        <5> QED
          BY <4>2, <5>1, AdvanceRecords
      <4> QED
        BY <4>1, <4>2
    <3>3. RecordOf(t, making[t])'
      BY <1>1a, <3>2 DEF RecordOf
    <3> QED
      BY <2>1, <3>1, <3>3, <1>1 DEF OnItsWay
  <2>3. CASE ~MayAppend(t)
    <3>1. pc'[t] = "release" /\ result'[t] = "refused"
      BY <1>4, <2>3 DEF Read, Leave, Goto
    <3> QED
      BY <3>1 DEF OnItsWay
  <2> QED
    BY <2>2, <2>3
<1>5. CASE Append1(t)
  <2>1. /\ ToSet(tasklist) \subseteq ToSet(tasklist')
        /\ pc'[t] \in {"device", "mdevice"} => making[t] \in ToSet(tasklist')
    BY <1>5, ListGrows
  <2>2. UNCHANGED <<making, devlist>>
    BY <1>5 DEF Append1
  <2>3. \/ pc[t] = "append" /\ pc'[t] = "device" /\ result' = result
        \/ pc[t] = "mappend" /\ pc'[t] = "mdevice" /\ result' = result
        \/ pc'[t] = "release" /\ result'[t] = "error"
        \/ pc'[t] = "done" /\ result'[t] = "raised"
    BY <1>5 DEF Append1, Raised, Leave, Locked, Goto
  <2>4. (InBoth(t) => InBoth(t)') /\ (MotionInBoth(t) => MotionInBoth(t)')
    BY <1>0, <2>1, <2>2, BothGrow
  <2>5. RecordOf(t, making[t]) => RecordOf(t, making[t])'
    BY <1>1a, <2>2 DEF RecordOf
  <2> QED
    BY <1>0, <2>1, <2>2, <2>3, <2>4, <2>5 DEF OnItsWay
<1>6. CASE Append2(t)
  <2>1. UNCHANGED <<making, tasklist>> /\ devlist \subseteq devlist'
    BY <1>6 DEF Append2
  <2>2. (InBoth(t) => InBoth(t)') /\ (MotionInBoth(t) => MotionInBoth(t)')
    BY <1>0, <2>1, BothGrow
  <2>3. CASE pc'[t] = "release" \/ result'[t] = "raised"
    <3>1. \/ pc'[t] = "release" /\ result'[t] = "error"
          \/ pc'[t] = "done" /\ result'[t] = "raised"
          \/ result' = result
      BY <1>6 DEF Append2, Raised, Leave, Locked, Goto
    <3>2. pc'[t] \in {"release", "done", "answer", "fallback"}
      BY <1>6 DEF Append2, Raised, Leave, Locked, Goto, AfterAppend
    <3>3. pc'[t] = "answer" => pc[t] = "device" /\ devlist' = devlist \cup {making[t]}
      BY <1>6 DEF Append2, Raised, Leave, Goto, AfterAppend
    <3>4. pc'[t] = "fallback" => pc[t] = "mdevice" /\ ~making[t].ends /\ devlist' = devlist \cup {making[t]}
      BY <1>6 DEF Append2, Raised, Leave, Goto, AfterAppend
    <3>5. pc'[t] = "answer" => InBoth(t)'
      BY <1>1a, <2>1, <3>3 DEF OnItsWay, InBoth, Both, RecordOf
    <3>6. pc'[t] = "fallback" => MotionInBoth(t)'
      BY <1>0, <2>1, <3>4 DEF OnItsWay, MotionInBoth, Both
    <3>7. result'[t] = "ok" => InBoth(t)'
      BY <2>2, <3>1 DEF OnItsWay
    <3> QED
      BY <2>3, <3>1, <3>2, <3>5, <3>6, <3>7 DEF OnItsWay
  <2>4. CASE pc'[t] # "release" /\ result'[t] # "raised"
    <3>1. /\ devlist' = devlist \cup {making[t]} /\ result' = result
          /\ pc'[t] = AfterAppend(t) /\ pc[t] \in {"device", "mdevice"}
      BY <1>6, <2>4 DEF Append2, Raised, Leave, Locked, Goto
    <3>2. making[t] \in Both'
      BY <2>1, <3>1 DEF OnItsWay, Both
    <3>3. CASE pc[t] = "device"
      <4>1. pc'[t] = "answer"
        BY <3>1, <3>3 DEF AfterAppend
      <4>2. RecordOf(t, making[t])
        BY <3>3 DEF OnItsWay
      <4>3. InBoth(t)'
        BY <1>1a, <3>2, <4>2 DEF InBoth, RecordOf
      <4> QED
        BY <4>1, <4>3 DEF OnItsWay
    <3>4. CASE pc[t] = "mdevice"
      <4>1. making[t].by = t /\ making[t].status = op[t].arg
        BY <3>4 DEF OnItsWay
      <4>2. MotionInBoth(t)'
        <5>1. CASE making[t].ends
          BY <2>2, <3>4, <5>1 DEF OnItsWay
        <5>2. CASE ~making[t].ends
          BY <1>0, <3>2, <4>1, <5>2 DEF MotionInBoth
        <5> QED
          BY <5>1, <5>2
      <4>3. result'[t] = "ok" => InBoth(t)'
        BY <2>2, <3>1 DEF OnItsWay
      <4>4. making[t].ends => EndInBoth(t)'
        BY <3>2, <4>1 DEF EndInBoth
      <4>5. result[t] = "ok" /\ MustEnd(t) => EndInBoth(t)'
        BY <1>0, <1>1a, <3>1, <4>3 DEF InBoth, EndInBoth, RecordOf
      <4>6. pc'[t] = "done" => making[t].ends \/ op[t].arg \notin TerminalPhase \/ result[t] = "ok"
        BY <3>1, <3>4 DEF AfterAppend
      <4>7. pc'[t] \in {"done", "fallback"}
        BY <3>1, <3>4 DEF AfterAppend
      <4> QED
        BY <1>0, <4>2, <4>3, <4>4, <4>5, <4>6, <4>7 DEF OnItsWay, MustEnd
    <3> QED
      BY <3>1, <3>3, <3>4
  <2> QED
    BY <2>3, <2>4
<1>7. CASE Answer(t)
  BY <1>7, <1>1 DEF Answer, Leave, Goto, OnItsWay
<1>8. CASE Release(t)
  BY <1>0, <1>8, <1>1 DEF Release, Goto, Over, OnItsWay
<1>9. CASE Motion(t) \/ Fallback(t)
  <2>1. /\ pc'[t] = "mappend" /\ making'[t].by = t /\ making'[t].status = op[t].arg
        /\ UNCHANGED <<result, ledgerVars>>
        /\ making'[t].ends => pc[t] = "fallback"
    BY <1>9 DEF Motion, Fallback, Make, Goto, Event
  <2> QED
    BY <1>0, <2>1, <1>1 DEF OnItsWay
<1> QED
  BY <1>2, <1>3, <1>4, <1>5, <1>6, <1>7, <1>8, <1>9 DEF Step

\* Every step keeps what holds of a thread on its way.
LEMMA OnItsWayStep ==
    ASSUME Shape, [Next]_vars, NEW u \in Thread, OnItsWay(u)
    PROVE  OnItsWay(u)'
<1> USE DEF Shape, PlacesOK
<1>1. ASSUME NEW t \in Thread, Step(t), u # t PROVE OnItsWay(u)'
  <2>1. op' = op /\ devlist \subseteq devlist'
    BY <1>1 DEF Step, Acquire, Enter, Read, Append1, Append2, Answer, Release, Motion,
       Fallback, Make, ledgerVars
  <2>2. ToSet(tasklist) \subseteq ToSet(tasklist')
    <3>1. CASE Append1(t)
      BY <3>1, ListGrows
    <3>2. CASE ~Append1(t)
      BY <1>1, <3>2 DEF Step, Acquire, Enter, Read, Append2, Answer, Release, Motion,
         Fallback, Make, ledgerVars
    <3> QED
      BY <3>1, <3>2
  <2>3. pc'[u] = pc[u]
    BY <1>1 DEF Step, Acquire, Ended, Enter, Read, Append1, Append2, Answer, Release, Motion,
       Fallback, Make, Leave, Raised, Goto
  <2>4. result'[u] = result[u]
    BY <1>1 DEF Step, Acquire, Ended, Enter, Read, Append1, Append2, Answer, Release, Motion,
       Fallback, Make, Leave, Raised
  <2>5. making'[u] = making[u]
    BY <1>1 DEF Step, Acquire, Enter, Read, Append1, Append2, Answer, Release, Motion,
       Fallback, Make
  <2> QED
    BY <2>1, <2>2, <2>3, <2>4, <2>5, OthersOnTheirWay
<1>2. ASSUME NEW p \in Proc, Crash(p) PROVE OnItsWay(u)'
  <2>1. pc'[u] = pc[u] \/ pc'[u] = "dead"
    BY <1>2 DEF Crash
  <2>2. UNCHANGED <<op, result, making, tasklist, devlist>>
    BY <1>2 DEF Crash, ledgerVars
  <2> QED
    BY <2>1, <2>2, OthersOnTheirWay
<1>3. CASE Lapse \/ UNCHANGED vars
  <2>1. UNCHANGED <<op, pc, result, making, tasklist, devlist>>
    BY <1>3 DEF Lapse, vars, ledgerVars
  <2> QED
    BY <2>1, OthersOnTheirWay
<1> QED
  BY <1>1, <1>2, <1>3, ActorOnItsWay DEF Next

\* A register or an advance that returned is in both lists of the ledger; so is
\* the motion_event of a record_motion_event that returned, and the end of the
\* task if that is what it reported, whether or not the workflow advanced.
THEOREM ReturnedIsRecorded == Spec => []ReturnedMeansRecorded
<1>1. Init => Shape /\ \A t \in Thread : OnItsWay(t)
  <2> SUFFICES ASSUME Init PROVE Shape /\ \A t \in Thread : OnItsWay(t)
    OBVIOUS
  <2>1. PICK s \in Scenario : tasklist = [i \in DOMAIN s.start |-> Event(s.start[i], FALSE, None, i)]
    BY DEF Init
  <2>2. s.start \in Seq(TaskState)
    BY WorkflowLedgerAssumption
  <2> DEFINE S == {Event(s.start[i], FALSE, None, i) : i \in DOMAIN s.start}
  <2>3. tasklist \in Seq(S)
    <3>1. DOMAIN s.start = 1..Len(s.start) /\ Len(s.start) \in Nat
      BY <2>2
    <3>2. tasklist \in [1..Len(s.start) -> S]
      BY <2>1, <3>1
    <3>3. \A n \in Nat : tasklist \in [1..n -> S] => tasklist \in Seq(S)
      <4> HIDE DEF S
      <4> QED
        OBVIOUS
    <3> QED
      BY <3>1, <3>2, <3>3
  <2>4. Shape
    BY <2>3 DEF Init, Shape, PlacesOK, Places
  <2> QED
    BY <2>4 DEF Init, OnItsWay
<1>2. (\A t \in Thread : OnItsWay(t)) => ReturnedMeansRecorded
  BY DEF OnItsWay, ReturnedMeansRecorded, InBoth, MotionInBoth, EndInBoth, Both, RecordOf,
     Left, Events
<1>3. Shape /\ (\A t \in Thread : OnItsWay(t)) /\ [Next]_vars => (\A t \in Thread : OnItsWay(t))'
  BY OnItsWayStep
<1> QED
  BY <1>1, <1>2, <1>3, ShapeStep, PTL DEF Spec
-----------------------------------------------------------------------------
(* The replay and the cache.                                               *)

\* A set of naturals that is not empty has a least element.
LEMMA LeastElement ==
    ASSUME NEW S \in SUBSET Nat, NEW n \in S
    PROVE  \E m \in S : \A l \in S : m =< l
<1> DEFINE R == OpToRel(<, Nat)
<1>1. \A x, y \in Nat : <<x, y>> \in R <=> x < y
  BY DEF OpToRel
<1>2. PICK m \in S : \A y \in S : <<y, m>> \notin R
  <2>1. IsWellFoundedOn(R, Nat)
    BY NatLessThanWellFounded
  <2> HIDE DEF R
  <2> QED
    BY <2>1, WFMin
<1> HIDE DEF R
<1>3. ASSUME NEW y \in S PROVE m =< y
  <2>1. m \in Nat /\ y \in Nat
    OBVIOUS
  <2>2. ~(y < m)
    BY <1>1, <1>2, <2>1
  <2> QED
    BY <2>1, <2>2
<1> QED
  BY <1>3

\* Events whose stamps were given out, as the stamps of a ledger are.
Stamped(events) == \A e \in events : e.stamp \in Nat /\ e.stamp =< clock

\* Among stamped events there is a latest one.
LEMMA LatestIsOne ==
    ASSUME clock \in Nat, NEW S, Stamped(S), S # {}
    PROVE  Latest(S) \in S /\ \A f \in S : f.stamp =< Latest(S).stamp
<1> DEFINE D == {clock - e.stamp : e \in S}
<1>1. D \subseteq Nat /\ D # {}
  BY DEF Stamped
<1>2. PICK m \in D : \A l \in D : m =< l
  <2> HIDE DEF D
  <2> QED
    BY <1>1, LeastElement
<1>3. PICK e \in S : m = clock - e.stamp
  BY <1>2
<1>4. ASSUME NEW f \in S PROVE f.stamp =< e.stamp
  <2>1. m =< clock - f.stamp
    BY <1>2
  <2> QED
    BY <1>3, <2>1 DEF Stamped
<1>5. \E x \in S : \A f \in S : f.stamp =< x.stamp
  BY <1>4
<1> QED
  BY <1>5 DEF Latest

\* A replay yields a state of the workflow.
LEMMA ReplayIsState ==
    ASSUME clock \in Nat, NEW S, Stamped(S), Stateful(S) # {}
    PROVE  Replay(S) \in TaskState
<1>1. Stamped(Stateful(S)) /\ \A e \in Stateful(S) : e.status \in TaskState
  BY DEF Stamped, Stateful
<1>2. Latest(Stateful(S)) \in Stateful(S)
  BY <1>1, LatestIsOne
<1> QED
  BY <1>1, <1>2 DEF Replay

\* What a valid transition leads to.
LEMMA TransitionsTyped ==
    \A s \in TaskState : \A target \in ValidTransitions[s] :
        /\ target \in TaskState \ {"created"}
        /\ EventStatus(target) \in (TaskState \cup Phase) \ {"created"}
BY DEF ValidTransitions, TaskState, EventStatus, Phase, TerminalPhase
-----------------------------------------------------------------------------
(* The types.                                                              *)

Appending(t) == pc[t] \in {"append", "device", "mappend", "mdevice"}

\* Every event made and every event appended has a stamp that was given out.
StampsOK ==
    /\ Stamped(Events)
    /\ \A t \in Thread : Appending(t) => making[t] \in EventType /\ making[t].stamp =< clock

\* A cached state is one of the ledger as it was or is.
CacheSound ==
    \A p \in Proc : cache[p] # None =>
        /\ cache[p].n =< Len(tasklist)
        /\ cache[p].n = Len(tasklist) => HasState /\ cache[p].state = Replay(Events)

Typed == TypeOK /\ StampsOK /\ CacheSound

\* A sequence with an element added once or twice.
Longer(s, n, e) == s \o [i \in 1..n |-> e]

LongerBy(r, S, s, n, e) ==
    r \in Seq(S) /\ Len(r) = Len(s) + n /\ ToSet(r) = ToSet(s) \cup {e}

LEMMA Lengthened ==
    ASSUME NEW S, NEW s \in Seq(S), NEW e \in S, NEW n \in 1..2
    PROVE  LongerBy(Longer(s, n, e), S, s, n, e)
<1> DEFINE a == [i \in 1..n |-> e]
           r == s \o a
<1>1. a \in Seq(S) /\ Len(a) = n /\ \A i \in 1..n : a[i] = e
  OBVIOUS
<1>2. r \in Seq(S) /\ Len(r) = Len(s) + n /\ Len(s) \in Nat
  BY <1>1
<1>3. \A i \in 1..Len(r) : r[i] = IF i =< Len(s) THEN s[i] ELSE e
  <2> SUFFICES ASSUME NEW i \in 1..Len(r) PROVE r[i] = IF i =< Len(s) THEN s[i] ELSE e
    OBVIOUS
  <2> HIDE DEF a
  <2>1. CASE i =< Len(s)
    BY <1>1, <1>2, <2>1
  <2>2. CASE ~(i =< Len(s))
    <3>1. r[i] = a[i - Len(s)] /\ i - Len(s) \in 1..n
      BY <1>1, <1>2, <2>2
    <3> QED
      BY <1>1, <2>2, <3>1
  <2> QED
    BY <2>1, <2>2
<1> HIDE DEF r
<1>4. Len(s) + 1 \in 1..Len(r) /\ r[Len(s) + 1] = e
  BY <1>2, <1>3
<1>5. DOMAIN r = 1..Len(r) /\ DOMAIN s = 1..Len(s)
  BY <1>2
<1>6. ToSet(r) \subseteq ToSet(s) \cup {e}
  BY <1>2, <1>3, <1>5 DEF ToSet
<1>7. ASSUME NEW i \in DOMAIN s PROVE i \in DOMAIN r /\ r[i] = s[i]
  BY <1>2, <1>3, <1>5
<1>8. ToSet(s) \cup {e} \subseteq ToSet(r)
  BY <1>4, <1>5, <1>7 DEF ToSet
<1> QED
  BY <1>2, <1>6, <1>8 DEF r, Longer, LongerBy

\* The list after an append: longer by the event, or as it was.
LEMMA AppendedList ==
    ASSUME TypeOK, StampsOK, NEW t \in Thread, Append1(t)
    PROVE  /\ tasklist' \in Seq(EventType)
           /\ \/ tasklist' = tasklist
              \/ Events' = Events \cup {making[t]} /\ Len(tasklist') > Len(tasklist)
<1>0. making[t] \in EventType /\ tasklist \in Seq(EventType)
  BY DEF Append1, StampsOK, Appending, TypeOK
<1>1. \A x \in EventType, n \in 1..2 :
        /\ Longer(tasklist, n, x) \in Seq(EventType)
        /\ Len(Longer(tasklist, n, x)) = Len(tasklist) + n
        /\ ToSet(Longer(tasklist, n, x)) = Events \cup {x}
  <2>1. \A x \in EventType, n \in 1..2 : LongerBy(Longer(tasklist, n, x), EventType, tasklist, n, x)
    BY <1>0, Lengthened
  <2> QED
    BY <2>1 DEF LongerBy, Events
<1> DEFINE e == making[t]
<1>2. \/ \E n \in {1, 2} : tasklist' = Longer(tasklist, n, e)
      \/ tasklist' = tasklist
      \/ tasklist' = Append(tasklist, e)
  BY <1>1 DEF Append1, Longer
<1>3. Append(tasklist, e) = Longer(tasklist, 1, e)
  BY <1>0 DEF Longer
<1>4. ASSUME NEW n \in {1, 2}, tasklist' = Longer(tasklist, n, e)
      PROVE  /\ tasklist' \in Seq(EventType)
             /\ Events' = Events \cup {e} /\ Len(tasklist') > Len(tasklist)
  <2>1. /\ tasklist' \in Seq(EventType) /\ Len(tasklist') = Len(tasklist) + n
        /\ ToSet(tasklist') = Events \cup {e}
    BY <1>0, <1>1, <1>4
  <2>2. Len(tasklist) \in Nat
    BY <1>0
  <2> QED
    BY <2>1, <2>2 DEF Events
<1> QED
  BY <1>0, <1>1, <1>2, <1>3, <1>4

\* What is answered for a task with a state is what a replay yields.
LEMMA KnownIsReplay ==
    ASSUME Typed, HasState, NEW p \in Proc
    PROVE  Known(p) = Replay(Events) /\ Known(p) \in TaskState
<1>1. Replay(Events) \in TaskState
  BY ReplayIsState DEF Typed, StampsOK, TypeOK, HasState
<1> QED
  BY <1>1 DEF Known, Cached, Typed, CacheSound

\* What _current_state caches is sound.
LEMMA FilledSound ==
    ASSUME Typed, NEW p \in Proc, cache' = Filled(p), tasklist' = tasklist
    PROVE  CacheSound' /\ cache' \in [Proc -> [n : Nat, state : TaskState] \cup {None}]
<1> USE DEF Typed, TypeOK
<1>1. Len(tasklist) \in Nat
  OBVIOUS
<1>2. Events' = Events /\ HasState' = HasState /\ Replay(Events)' = Replay(Events)
  BY DEF Events, HasState, Stateful, Replay, Latest
<1>3. CASE HasState
  <2> DEFINE c == [n |-> Len(tasklist), state |-> Known(p)]
  <2>1. c \in [n : Nat, state : TaskState] /\ c.n = Len(tasklist) /\ c.state = Replay(Events)
    BY <1>1, <1>3, KnownIsReplay
  <2>2. cache' = [cache EXCEPT ![p] = c]
    BY <1>3 DEF Filled
  <2> HIDE DEF c
  <2>3. cache' \in [Proc -> [n : Nat, state : TaskState] \cup {None}]
    BY <2>1, <2>2
  <2>4. \A q \in Proc : cache'[q] = IF q = p THEN c ELSE cache[q]
    BY <2>2
  <2> QED
    BY <1>1, <1>2, <1>3, <2>1, <2>3, <2>4 DEF CacheSound
<1>4. CASE ~HasState
  <2>1. cache' = cache
    BY <1>4 DEF Filled
  <2> QED
    BY <1>2, <2>1 DEF CacheSound
<1> QED
  BY <1>3, <1>4

\* A longer list makes every cached state one of the past.
LEMMA CacheOutdated ==
    ASSUME Typed, Len(tasklist') > Len(tasklist), tasklist' \in Seq(EventType), cache' = cache
    PROVE  CacheSound'
<1>1. Len(tasklist) \in Nat /\ Len(tasklist') \in Nat
  BY DEF Typed, TypeOK
<1>2. \A p \in Proc : cache[p] # None => cache[p].n \in Nat
  BY DEF Typed, TypeOK
<1> QED
  BY <1>1, <1>2 DEF Typed, CacheSound

\* The event of a register or an advance that may append is an event.
LEMMA NewEventTyped ==
    ASSUME Typed, NEW t \in Thread, MayAppend(t)
    PROVE  LET new == IF op[t].kind = "register" THEN Event("created", FALSE, t, clock + 1)
                      ELSE AdvanceEvent(t, WantedTarget(t))
           IN  new \in EventType /\ new.stamp = clock + 1 /\ new.by = t
<1>1. clock + 1 \in Nat /\ op[t].proc \in Proc
  BY DEF Typed, TypeOK
<1>2. \A ends \in BOOLEAN, status \in TaskState \cup Phase :
        LET e == Event(status, ends, t, clock + 1) IN e \in EventType /\ e.stamp = clock + 1 /\ e.by = t
  BY <1>1 DEF Event, EventType
<1>3. "created" \in TaskState
  BY DEF TaskState
<1>4. CASE op[t].kind = "register"
  BY <1>2, <1>3, <1>4
<1>5. CASE op[t].kind # "register"
  <2>1. EventStatus(WantedTarget(t)) \in TaskState \cup Phase
    BY <1>1, <1>5, KnownIsReplay, TransitionsTyped DEF MayAppend
  <2> DEFINE ends == WantedTarget(t) \in {"terminal", "completed", "failed", "cancelled"}
             e == Event(EventStatus(WantedTarget(t)), ends, t, clock + 1)
  <2>2. ends \in BOOLEAN
    OBVIOUS
  <2>3. AdvanceEvent(t, WantedTarget(t)) = e
    BY DEF AdvanceEvent
  <2>4. e \in EventType /\ e.stamp = clock + 1 /\ e.by = t
    <3> HIDE DEF ends
    <3> QED
      BY <1>2, <2>1, <2>2
  <2> HIDE DEF e
  <2> QED
    BY <1>5, <2>3, <2>4
<1> QED
  BY <1>4, <1>5

\* Steps that change neither the list nor the caches keep what is said of them.
LEMMA SameLists ==
    ASSUME StampsOK, CacheSound, UNCHANGED <<tasklist, cache>>, clock \in Nat,
           clock' = clock \/ clock' = clock + 1
    PROVE  CacheSound' /\ Stamped(Events)'
<1>1. Events' = Events /\ HasState' = HasState /\ Replay(Events)' = Replay(Events)
  BY DEF Events, HasState, Stateful, Replay, Latest
<1>2. CacheSound'
  BY <1>1 DEF CacheSound
<1>3. ASSUME NEW e \in Events PROVE e.stamp \in Nat /\ e.stamp =< clock'
  BY <1>3 DEF StampsOK, Stamped
<1> QED
  BY <1>1, <1>2, <1>3 DEF Stamped

\* A step of t leaves the event of another thread.
LEMMA OthersAppending ==
    ASSUME TypeOK, StampsOK, NEW t \in Thread, NEW u \in Thread, u # t, Appending(u),
           pc'[u] = pc[u], making'[u] = making[u], clock' = clock \/ clock' = clock + 1
    PROVE  making'[u] \in EventType /\ making'[u].stamp =< clock'
<1>1. making[u] \in EventType /\ making[u].stamp =< clock /\ clock \in Nat
  BY DEF StampsOK, TypeOK
<1>2. making[u].stamp \in Nat
  BY <1>1 DEF EventType
<1> QED
  BY <1>1, <1>2

Results == {"none", "ok", "refused", "error", "raised"}

\* Steps that make no event and append none.
LEMMA TypedAside ==
    ASSUME Typed, NEW t \in Thread,
           Acquire(t) \/ Enter(t) \/ Release(t) \/ Answer(t)
    PROVE  Typed'
<1> USE DEF Typed, TypeOK, Places, ledgerVars, lockVars, countVars
<1>1. op[t].proc \in Proc
  OBVIOUS
<1>2. /\ pc' \in [Thread -> Places] /\ result' \in [Thread -> Results]
      /\ rlock' \in [Proc -> Thread \cup {None}]
  BY DEF Acquire, Enter, Release, Answer, Ended, Leave, Goto, Over, Results
<1>3. key' \in Thread \cup {None} /\ nonces' \in [Proc -> Thread \cup {None}]
  BY DEF Acquire, Enter, Release, Answer
<1>4. UNCHANGED <<op, making, tasklist, devlist, clock, resent, lapsed>>
  BY DEF Acquire, Enter, Release, Answer
<1>5. \A u \in Thread : pc'[u] = pc[u] \/ ~Appending(u)'
  BY DEF Acquire, Enter, Release, Answer, Ended, Leave, Goto, Over, Appending
<1>6. CacheSound' /\ cache' \in [Proc -> [n : Nat, state : TaskState] \cup {None}] /\ Stamped(Events)'
  <2>1. CASE Answer(t)
    <3>1. cache' = Filled(op[t].proc)
      BY <2>1 DEF Answer
    <3>2. Stamped(Events)'
      BY <1>4 DEF Events, Stamped, StampsOK
    <3> QED
      BY <1>1, <1>4, <3>1, <3>2, FilledSound
  <2>2. CASE Acquire(t) \/ Enter(t) \/ Release(t)
    <3>1. cache' = cache
      BY <2>2 DEF Acquire, Enter, Release
    <3> QED
      BY <1>4, <3>1, SameLists
  <2> QED
    BY <2>1, <2>2
<1>7. StampsOK'
  BY <1>4, <1>5, <1>6 DEF StampsOK, Appending
<1>8. TypeOK'
  BY <1>2, <1>3, <1>4, <1>6 DEF Results
<1> QED
  BY <1>6, <1>7, <1>8

\* The read of a register or an advance keeps the types.
LEMMA TypedRead ==
    ASSUME Typed, NEW t \in Thread, Read(t)
    PROVE  Typed'
<1> USE DEF Typed, TypeOK, Places, ledgerVars, countVars
<1>1. op[t].proc \in Proc /\ clock \in Nat
  OBVIOUS
<1>2. UNCHANGED <<op, key, nonces, tasklist, devlist, resent, lapsed>>
  BY DEF Read
<1>3. CacheSound' /\ cache' \in [Proc -> [n : Nat, state : TaskState] \cup {None}]
  <2>1. CASE op[t].kind = "register"
    <3>1. cache' = cache
      BY <2>1 DEF Read
    <3>2. Events' = Events /\ HasState' = HasState /\ Replay(Events)' = Replay(Events)
      BY <1>2 DEF Events, HasState, Stateful, Replay, Latest
    <3> QED
      BY <1>2, <3>1, <3>2 DEF CacheSound
  <2>2. CASE op[t].kind # "register"
    <3>1. cache' = Filled(op[t].proc)
      BY <2>2 DEF Read
    <3> QED
      BY <1>1, <1>2, <3>1, FilledSound
  <2> QED
    BY <2>1, <2>2
<1>4. clock' \in Nat /\ (clock' = clock \/ clock' = clock + 1)
  <2>1. CASE MayAppend(t)
    BY <1>1, <2>1 DEF Read
  <2>2. CASE ~MayAppend(t)
    BY <1>1, <2>2 DEF Read
  <2> QED
    BY <2>1, <2>2
<1>5. Stamped(Events)'
  <2>1. Events' = Events
    BY <1>2 DEF Events
  <2>2. ASSUME NEW e \in Events PROVE e.stamp \in Nat /\ e.stamp =< clock'
    BY <1>1, <1>4, <2>2 DEF StampsOK, Stamped
  <2> QED
    BY <2>1, <2>2 DEF Stamped
<1>6. CASE MayAppend(t)
  <2> DEFINE new == IF op[t].kind = "register" THEN Event("created", FALSE, t, clock + 1)
                    ELSE AdvanceEvent(t, WantedTarget(t))
  <2>1. new \in EventType /\ new.stamp = clock + 1
    BY <1>6, NewEventTyped
  <2>2. /\ making' = [making EXCEPT ![t] = new] /\ clock' = clock + 1
        /\ pc' = [pc EXCEPT ![t] = "append"] /\ UNCHANGED <<result, rlock>>
    BY <1>6 DEF Read, Goto
  <2> HIDE DEF new
  <2>3. making' \in [Thread -> EventType \cup {None}] /\ making'[t] = new
    BY <2>1, <2>2
  <2>4. StampsOK'
    <3>1. ASSUME NEW u \in Thread, Appending(u)' PROVE making'[u] \in EventType /\ making'[u].stamp =< clock'
      <4>1. CASE u = t
        BY <1>1, <2>1, <2>2, <2>3, <4>1
      <4>2. CASE u # t
        <5>1. pc'[u] = pc[u] /\ making'[u] = making[u] /\ Appending(u)
          BY <2>2, <3>1, <4>2 DEF Appending
        <5> QED
          BY <1>4, <4>2, <5>1, OthersAppending
      <4> QED
        BY <4>1, <4>2
    <3> QED
      BY <1>5, <3>1 DEF StampsOK
  <2>5. pc' \in [Thread -> Places]
    BY <2>2
  <2> QED
    BY <1>2, <1>3, <1>4, <2>2, <2>3, <2>4, <2>5
<1>7. CASE ~MayAppend(t)
  <2>1. /\ Leave(t, "refused") /\ UNCHANGED <<making, clock>>
    BY <1>7 DEF Read
  <2>2. /\ pc' \in [Thread -> Places] /\ result' \in [Thread -> {"none", "ok", "refused", "error", "raised"}]
        /\ rlock' \in [Proc -> Thread \cup {None}]
    BY <2>1 DEF Leave, Goto
  <2>3. \A u \in Thread : Appending(u)' => Appending(u)
    BY <2>1 DEF Leave, Goto, Appending
  <2>4. StampsOK'
    BY <1>5, <2>1, <2>3 DEF StampsOK
  <2> QED
    BY <1>2, <1>3, <2>1, <2>2, <2>4
<1> QED
  BY <1>6, <1>7

\* So does the first half of an append,
LEMMA TypedAppend1 ==
    ASSUME Typed, NEW t \in Thread, Append1(t)
    PROVE  Typed'
<1> USE DEF Typed, TypeOK, Places
<1>1. UNCHANGED <<op, key, nonces, making, devlist, cache, clock, lapsed>>
  BY DEF Append1
<1>2. /\ pc' \in [Thread -> Places] /\ result' \in [Thread -> {"none", "ok", "refused", "error", "raised"}]
      /\ rlock' \in [Proc -> Thread \cup {None}] /\ resent' \in BOOLEAN
  BY DEF Append1, Raised, Leave, Goto
<1>3. \A u \in Thread : Appending(u)' => Appending(u)
  BY DEF Append1, Raised, Leave, Goto, Appending
<1>4. tasklist' \in Seq(EventType) /\
      (\/ tasklist' = tasklist
       \/ Events' = Events \cup {making[t]} /\ Len(tasklist') > Len(tasklist))
  BY AppendedList
<1>5. CacheSound' /\ Stamped(Events)'
  <2>1. CASE tasklist' = tasklist
    BY <1>1, <2>1, SameLists
  <2>2. CASE Events' = Events \cup {making[t]} /\ Len(tasklist') > Len(tasklist)
    <3>1. making[t].stamp \in Nat /\ making[t].stamp =< clock
      BY DEF Append1, StampsOK, Appending, EventType
    <3> QED
      BY <1>1, <1>4, <2>2, <3>1, CacheOutdated DEF StampsOK, Stamped
  <2> QED
    BY <1>4, <2>1, <2>2
<1>6. StampsOK'
  BY <1>1, <1>3, <1>5 DEF StampsOK
<1> QED
  BY <1>1, <1>2, <1>4, <1>5, <1>6

\* the second half,
LEMMA TypedAppend2 ==
    ASSUME Typed, NEW t \in Thread, Append2(t)
    PROVE  Typed'
<1> USE DEF Typed, TypeOK, Places
<1>1. UNCHANGED <<op, key, nonces, making, tasklist, cache, clock, resent, lapsed>>
  BY DEF Append2
<1>2. /\ pc' \in [Thread -> Places] /\ result' \in [Thread -> {"none", "ok", "refused", "error", "raised"}]
      /\ rlock' \in [Proc -> Thread \cup {None}]
  BY DEF Append2, Raised, Leave, Goto, AfterAppend
<1>3. \A u \in Thread : Appending(u)' => Appending(u)
  BY DEF Append2, Raised, Leave, Goto, AfterAppend, Appending
<1>4. making[t] \in EventType
  BY DEF Append2, StampsOK, Appending
<1>5. devlist' \subseteq EventType
  BY <1>4 DEF Append2
<1>6. CacheSound' /\ Stamped(Events)'
  BY <1>1, SameLists
<1>7. StampsOK'
  BY <1>1, <1>3, <1>6 DEF StampsOK
<1> QED
  BY <1>1, <1>2, <1>5, <1>6, <1>7

\* and a motion_event that is made.
LEMMA TypedMake ==
    ASSUME Typed, NEW t \in Thread, Motion(t) \/ Fallback(t), op[t].kind = "motion"
    PROVE  Typed'
<1> USE DEF Typed, TypeOK, Places
<1>1. op[t].arg \in Phase /\ clock \in Nat
  BY DEF ArgsOf
<1>2. UNCHANGED <<op, result, lockVars, ledgerVars, cache, countVars>> /\ clock' = clock + 1
  BY DEF Motion, Fallback, Make
<1>3. PICK e : /\ e \in EventType /\ e.stamp = clock + 1
               /\ making' = [making EXCEPT ![t] = e] /\ pc' = [pc EXCEPT ![t] = "mappend"]
  <2>1. ASSUME NEW ends \in BOOLEAN, Make(t, ends)
        PROVE  LET e == Event(op[t].arg, ends, t, clock + 1)
               IN  /\ e \in EventType /\ e.stamp = clock + 1
                   /\ making' = [making EXCEPT ![t] = e] /\ pc' = [pc EXCEPT ![t] = "mappend"]
    BY <1>1, <2>1 DEF Make, Goto, Event, EventType
  <2>2. Make(t, FALSE) \/ Make(t, TRUE)
    BY DEF Motion, Fallback
  <2> QED
    BY <2>1, <2>2
<1>4. making' \in [Thread -> EventType \cup {None}] /\ pc' \in [Thread -> Places]
  BY <1>3
<1>5. CacheSound' /\ Stamped(Events)'
  BY <1>1, <1>2, SameLists DEF ledgerVars
<1>6. ASSUME NEW u \in Thread, Appending(u)' PROVE making'[u] \in EventType /\ making'[u].stamp =< clock'
  <2>1. CASE u = t
    BY <1>1, <1>2, <1>3, <2>1
  <2>2. CASE u # t
    <3>1. pc'[u] = pc[u] /\ making'[u] = making[u] /\ Appending(u)
      BY <1>3, <1>6, <2>2 DEF Appending
    <3> QED
      BY <1>2, <2>2, <3>1, OthersAppending
  <2> QED
    BY <2>1, <2>2
<1>7. StampsOK'
  BY <1>5, <1>6 DEF StampsOK
<1> QED
  BY <1>1, <1>2, <1>4, <1>5, <1>7 DEF lockVars, ledgerVars, countVars

\* Only a motion_event reaches the places behind its advance.
OnlyMotions ==
    \A t \in Thread : pc[t] \in {"motion", "mappend", "mdevice", "fallback"} => op[t].kind = "motion"

\* Every step keeps that.
LEMMA OnlyMotionsStep == TypeOK /\ OnlyMotions /\ [Next]_vars => OnlyMotions'
<1> SUFFICES ASSUME TypeOK, OnlyMotions, [Next]_vars PROVE OnlyMotions'
  OBVIOUS
<1> USE DEF TypeOK, OnlyMotions
<1>1. ASSUME NEW t \in Thread, Step(t) PROVE OnlyMotions'
  <2>1. op' = op
    BY <1>1 DEF Step, Acquire, Enter, Read, Append1, Append2, Answer, Release, Motion, Fallback, Make
  <2>2. \A u \in Thread : u # t => pc'[u] = pc[u]
    BY <1>1 DEF Step, Acquire, Ended, Enter, Read, Append1, Append2, Answer, Release, Motion,
       Fallback, Make, Leave, Raised, Goto
  <2>3. pc'[t] \in {"motion", "mappend", "mdevice", "fallback"} => op[t].kind = "motion"
    <3>1. CASE Acquire(t) \/ Enter(t) \/ Read(t) \/ Answer(t) \/ Release(t)
      BY <3>1 DEF Acquire, Ended, Enter, Read, Answer, Release, Leave, Goto, Over
    <3>2. CASE Append1(t) \/ Append2(t)
      BY <3>2 DEF Append1, Append2, Raised, Leave, Goto, AfterAppend
    <3>3. CASE Motion(t) \/ Fallback(t)
      BY <3>3 DEF Motion, Fallback, Make
    <3> QED
      BY <1>1, <3>1, <3>2, <3>3 DEF Step
  <2> QED
    BY <2>1, <2>2, <2>3
<1>2. ASSUME NEW p \in Proc, Crash(p) PROVE OnlyMotions'
  BY <1>2 DEF Crash
<1>3. CASE Lapse \/ UNCHANGED vars
  BY <1>3 DEF Lapse, vars
<1> QED
  BY <1>1, <1>2, <1>3 DEF Next

\* The types are kept, and so are the stamps and the caches.
LEMMA TypedStep == Typed /\ OnlyMotions /\ [Next]_vars => Typed'
<1> SUFFICES ASSUME Typed, OnlyMotions, [Next]_vars PROVE Typed'
  OBVIOUS
<1>1. ASSUME NEW t \in Thread, Step(t) PROVE Typed'
  <2>1. CASE Acquire(t) \/ Enter(t) \/ Release(t) \/ Answer(t)
    BY <2>1, TypedAside
  <2>2. CASE Read(t)
    BY <2>2, TypedRead
  <2>3. CASE Append1(t)
    BY <2>3, TypedAppend1
  <2>4. CASE Append2(t)
    BY <2>4, TypedAppend2
  <2>5. CASE Motion(t) \/ Fallback(t)
    <3>1. op[t].kind = "motion"
      BY <2>5 DEF Motion, Fallback, OnlyMotions
    <3> QED
      BY <2>5, <3>1, TypedMake
  <2> QED
    BY <1>1, <2>1, <2>2, <2>3, <2>4, <2>5 DEF Step
<1>2. ASSUME NEW p \in Proc, Crash(p) PROVE Typed'
  <2>1. UNCHANGED <<op, result, key, making, tasklist, devlist, clock, resent, lapsed>>
    BY <1>2 DEF Crash, ledgerVars
  <2>2. pc' \in [Thread -> Places] /\ \A t \in Thread : pc'[t] = pc[t] \/ pc'[t] = "dead"
    BY <1>2 DEF Crash, Typed, TypeOK, Places
  <2>3. /\ nonces' \in [Proc -> Thread \cup {None}] /\ rlock' \in [Proc -> Thread \cup {None}]
        /\ cache' \in [Proc -> [n : Nat, state : TaskState] \cup {None}]
        /\ \A q \in Proc : cache'[q] = cache[q] \/ cache'[q] = None
    BY <1>2 DEF Crash, Typed, TypeOK
  <2>4. Events' = Events /\ HasState' = HasState /\ Replay(Events)' = Replay(Events)
    BY <2>1 DEF Events, HasState, Stateful, Replay, Latest
  <2>5. CacheSound'
    BY <2>1, <2>3, <2>4 DEF Typed, CacheSound
  <2>6. StampsOK'
    BY <2>1, <2>2, <2>4 DEF Typed, StampsOK, Stamped, Appending
  <2>7. TypeOK'
    BY <2>1, <2>2, <2>3 DEF Typed, TypeOK
  <2> QED
    BY <2>5, <2>6, <2>7 DEF Typed
<1>3. CASE Lapse \/ UNCHANGED vars
  <2>1. UNCHANGED <<op, pc, result, nonces, rlock, making, tasklist, devlist, cache, clock, resent>>
    BY <1>3 DEF Lapse, vars, lockVars, ledgerVars, countVars
  <2>2. key' \in Thread \cup {None} /\ lapsed' \in BOOLEAN
    BY <1>3 DEF Lapse, vars, lockVars, countVars, Typed, TypeOK
  <2>3. CacheSound' /\ Stamped(Events)'
    BY <2>1, SameLists DEF Typed, TypeOK
  <2>4. StampsOK'
    BY <2>1, <2>3 DEF Typed, StampsOK, Appending
  <2>5. TypeOK'
    BY <2>1, <2>2 DEF Typed, TypeOK
  <2> QED
    BY <2>3, <2>4, <2>5 DEF Typed
<1> QED
  BY <1>1, <1>2, <1>3 DEF Next

\* A scenario starts with its types, and with nothing cached.
LEMMA TypedInit == Init => Typed /\ OnlyMotions
<1> SUFFICES ASSUME Init PROVE Typed /\ OnlyMotions
  OBVIOUS
<1>1. PICK s \in Scenario :
        /\ Calls(s)
        /\ tasklist = [i \in DOMAIN s.start |-> Event(s.start[i], FALSE, None, i)]
  BY DEF Init
<1>2. /\ s.start \in Seq(TaskState) /\ s.procs \in [Thread -> Proc]
      /\ \A o \in s.ops : o.kind \in Kinds /\ o.arg \in ArgsOf(o.kind)
  BY <1>1, WorkflowLedgerAssumption
<1>3. \A t \in Thread : op[t].kind \in Kinds /\ op[t].arg \in ArgsOf(op[t].kind) /\ op[t].proc \in Proc
  BY <1>1, <1>2 DEF Calls
<1>4. DOMAIN s.start = 1..Len(s.start) /\ Len(s.start) \in Nat
  BY <1>2
<1>5. \A i \in DOMAIN s.start : /\ tasklist[i] \in EventType /\ tasklist[i].stamp = i
                                /\ i \in Nat /\ i =< Len(s.start)
  BY <1>1, <1>2, <1>4 DEF Event, EventType
<1>6. tasklist \in Seq(EventType) /\ Len(tasklist) = Len(s.start)
  <2>1. tasklist \in [1..Len(s.start) -> EventType]
    BY <1>1, <1>4, <1>5
  <2>2. \A f : \A n \in Nat : f \in [1..n -> EventType] => f \in Seq(EventType) /\ Len(f) = n
    OBVIOUS
  <2> QED
    BY <1>4, <2>1, <2>2
<1>7. Events \subseteq EventType /\ Stamped(Events)
  <2>1. ASSUME NEW e \in Events PROVE e \in EventType /\ e.stamp \in Nat /\ e.stamp =< clock
    <3>1. PICK i \in DOMAIN s.start : e = tasklist[i]
      BY <1>4, <1>6, <2>1 DEF Events, ToSet
    <3> QED
      BY <1>4, <1>5, <1>6, <3>1 DEF Init
  <2> QED
    BY <2>1 DEF Stamped
<1>8. TypeOK
  <2>1. pc \in [Thread -> Places] /\ result \in [Thread -> {"none", "ok", "refused", "error", "raised"}]
    BY DEF Init, Places
  <2>2. key \in Thread \cup {None} /\ nonces \in [Proc -> Thread \cup {None}]
        /\ rlock \in [Proc -> Thread \cup {None}]
    BY DEF Init
  <2>3. devlist \subseteq EventType /\ clock \in Nat
    BY <1>4, <1>6, <1>7 DEF Init, Events
  <2>4. making \in [Thread -> EventType \cup {None}]
    BY DEF Init
  <2>5. cache \in [Proc -> [n : Nat, state : TaskState] \cup {None}]
    BY DEF Init
  <2>6. {resent, lapsed} \subseteq BOOLEAN
    BY DEF Init
  <2> QED
    BY <1>3, <1>6, <2>1, <2>2, <2>3, <2>4, <2>5, <2>6 DEF TypeOK
<1>9. StampsOK /\ CacheSound /\ OnlyMotions
  BY <1>7 DEF Init, StampsOK, Appending, CacheSound, OnlyMotions
<1> QED
  BY <1>8, <1>9 DEF Typed

\* The variables have their types, and no cache answers with a state the
\* ledger has left: the number of events grows with every append.
THEOREM CachesAgree == Spec => []Consistent
<1>1. Typed => Consistent
  BY DEF Typed, CacheSound, Cached, CacheAgrees, Consistent
<1>2. Typed /\ OnlyMotions /\ [Next]_vars => (Typed /\ OnlyMotions)'
  BY TypedStep, OnlyMotionsStep DEF Typed
<1> QED
  BY <1>1, <1>2, TypedInit, PTL DEF Spec
-----------------------------------------------------------------------------
(* Valid transitions.                                                      *)

\* No lock ran out, nothing was sent twice, and nobody records motion_events.
Quiet == ~lapsed /\ ~resent /\ \A t \in Thread : op[t].kind # "motion"

\* Event e may follow the events of S.
Follows(e, S) ==
    IF e.status = "created" THEN S = {}
    ELSE \E target \in ValidTransitions[Replay(S)] : EventStatus(target) = e.status

\* An event on its way to the list follows all that is there, in stamps and
\* in state: the thread has read under the lock, and nobody has appended since.
InTurn ==
    Quiet => \A t \in Thread : pc[t] = "append" =>
                /\ \A e \in Events : e.stamp < making[t].stamp
                /\ Follows(making[t], Events)

\* Every event a thread appended follows the events with smaller stamps.
AllFollow == Quiet => \A e \in Events : e.by # None => AllowedAt(e, Events)

\* What is allowed at its place is what follows the events before it.
LEMMA FollowsAllowed ==
    \A e, S : AllowedAt(e, S) <=> Follows(e, {f \in S : f.stamp < e.stamp})
BY DEF AllowedAt, Follows

\* What a step that appends nothing keeps.
LEMMA InTurnSame ==
    ASSUME InTurn, tasklist' = tasklist, Quiet' => Quiet,
           \A u \in Thread : pc'[u] = "append" => pc[u] = "append" /\ making'[u] = making[u]
    PROVE  InTurn'
<1>1. Events' = Events
  BY DEF Events
<1>2. \A u \in Thread : Follows(making[u], Events) /\ making'[u] = making[u] => Follows(making[u], Events)'
  BY <1>1 DEF Follows, Replay, Latest, Stateful
<1> QED
  BY <1>1, <1>2 DEF InTurn, Follows

\* The same of the events that are there.
LEMMA AllFollowSame ==
    ASSUME AllFollow, tasklist' = tasklist, Quiet' => Quiet
    PROVE  AllFollow'
<1>1. Events' = Events
  BY DEF Events
<1> QED
  BY <1>1 DEF AllFollow, AllowedAt, Replay, Latest, Stateful

\* What MayAppend let pass follows the events it was read from.
LEMMA ReadFollows ==
    ASSUME Typed, NEW t \in Thread, MayAppend(t),
           NEW e, e = IF op[t].kind = "register" THEN Event("created", FALSE, t, clock + 1)
                      ELSE AdvanceEvent(t, WantedTarget(t))
    PROVE  Follows(e, Events)
<1>1. CASE op[t].kind = "register"
  <2>1. tasklist = <<>> /\ e.status = "created"
    BY <1>1 DEF MayAppend, Event
  <2>2. Events = {}
    BY <2>1 DEF Events, ToSet
  <2> QED
    BY <2>1, <2>2 DEF Follows
<1>2. CASE op[t].kind # "register"
  <2>1. e.status = EventStatus(WantedTarget(t))
    BY <1>2 DEF AdvanceEvent, Event
  <2>2. HasState /\ WantedTarget(t) \in ValidTransitions[Known(op[t].proc)] /\ op[t].proc \in Proc
    BY <1>2 DEF MayAppend, Typed, TypeOK
  <2>3. Known(op[t].proc) = Replay(Events) /\ Replay(Events) \in TaskState
    BY <2>2, KnownIsReplay
  <2>4. e.status # "created"
    BY <2>1, <2>2, <2>3, TransitionsTyped
  <2> QED
    BY <2>1, <2>2, <2>3, <2>4 DEF Follows
<1> QED
  BY <1>1, <1>2

\* An append adds the event of the thread after all others.
LEMMA AppendInTurn ==
    ASSUME Typed, OnlyMotions, InsideHasKey, InTurn, AllFollow, NEW t \in Thread, Append1(t)
    PROVE  InTurn' /\ AllFollow'
<1> DEFINE m == making[t]
<1>1. /\ UNCHANGED <<op, key, making, lapsed>> /\ (Quiet' => Quiet)
      /\ pc'[t] # "append" /\ \A u \in Thread \ {t} : pc'[u] = pc[u]
  <2>1. UNCHANGED <<op, key, making, lapsed>> /\ (resent => resent')
    <3>1. (\E n : resent' = (resent \/ n = 2)) \/ UNCHANGED resent
      BY DEF Append1
    <3>2. UNCHANGED <<op, key, making, lapsed>>
      BY DEF Append1
    <3>3. resent => resent'
      BY <3>1, Zenon
    <3> QED
      BY <3>2, <3>3
  <2>2. pc'[t] # "append" /\ \A u \in Thread \ {t} : pc'[u] = pc[u]
    BY DEF Append1, Raised, Leave, Goto, Typed, TypeOK
  <2> QED
    BY <2>1, <2>2 DEF Quiet
<1>2. CASE tasklist' = tasklist
  <2>1. InTurn'
    <3>1. \A u \in Thread : pc'[u] = "append" => pc[u] = "append" /\ making'[u] = making[u]
      BY <1>1
    <3> QED
      BY <1>1, <1>2, <3>1, InTurnSame
  <2>2. AllFollow'
    BY <1>1, <1>2, AllFollowSame
  <2> QED
    BY <2>1, <2>2
<1>3. CASE ~Quiet'
  BY <1>3 DEF InTurn, AllFollow
<1>4. CASE Quiet' /\ tasklist' # tasklist
  <2>1. Quiet /\ pc[t] = "append"
    BY <1>1, <1>4 DEF Append1, OnlyMotions, Quiet
  <2>2. Events' = Events \cup {m}
    BY <1>4, AppendedList DEF Typed
  <2>3. (\A e \in Events : e.stamp < m.stamp) /\ Follows(m, Events)
    BY <2>1 DEF InTurn
  <2>4. ASSUME NEW u \in Thread, pc'[u] = "append" PROVE FALSE
    <3>1. u # t /\ pc[u] = "append"
      BY <1>1, <2>4
    <3> QED
      BY <2>1, <3>1 DEF InsideHasKey, Inside, Quiet
  <2>5. InTurn'
    BY <2>4 DEF InTurn
  <2>6. /\ \A e \in Events : e.stamp \in Nat
        /\ m.stamp \in Nat
    BY DEF Append1, Typed, StampsOK, Stamped, Appending, EventType
  <2>7. ASSUME NEW e \in Events' PROVE {f \in Events' : f.stamp < e.stamp} =
                                        IF e = m THEN Events ELSE {f \in Events : f.stamp < e.stamp}
    <3> HIDE DEF m
    <3> QED
      BY <2>2, <2>3, <2>6, <2>7
  <2>8. ASSUME NEW e \in Events', e.by # None PROVE AllowedAt(e, Events')
    <3>1. CASE e = m
      <4>1. {f \in Events' : f.stamp < e.stamp} = Events
        BY <2>7, <3>1
      <4>2. Follows(e, Events)
        BY <2>3, <3>1
      <4> QED
        BY <4>1, <4>2, FollowsAllowed
    <3>2. CASE e # m
      <4>1. {f \in Events' : f.stamp < e.stamp} = {f \in Events : f.stamp < e.stamp}
        BY <2>7, <3>2
      <4>2. AllowedAt(e, Events)
        BY <2>1, <2>2, <2>8, <3>2 DEF AllFollow
      <4> QED
        BY <4>1, <4>2, FollowsAllowed
    <3> QED
      BY <3>1, <3>2
  <2>9. AllFollow'
    BY <2>8 DEF AllFollow, AllowedAt, Replay, Latest, Stateful
  <2> QED
    BY <2>5, <2>9
<1> QED
  BY <1>2, <1>3, <1>4

\* Every step keeps events in turn.
LEMMA TransitionsStep ==
    ASSUME Typed, OnlyMotions, InsideHasKey, InTurn, AllFollow, [Next]_vars
    PROVE  InTurn' /\ AllFollow'
<1> USE DEF ledgerVars, lockVars, countVars
<1>1. ASSUME NEW t \in Thread, Step(t), ~Append1(t), ~Read(t) PROVE InTurn' /\ AllFollow'
  <2>1. UNCHANGED <<op, tasklist, lapsed, resent>>
    BY <1>1 DEF Step, Acquire, Enter, Append2, Answer, Release, Motion, Fallback, Make
  <2>2. Quiet' => Quiet
    BY <2>1 DEF Quiet
  <2>3. \A u \in Thread : pc'[u] = "append" => pc[u] = "append" /\ making'[u] = making[u]
    <3>1. \A u \in Thread : pc'[u] = "append" => pc[u] = "append" /\ u # t
      BY <1>1 DEF Step, Acquire, Ended, Over, Enter, Append2, Answer, Release, Motion, Fallback, Make,
         Leave, Raised, AfterAppend, Goto, Typed, TypeOK
    <3>2. \A u \in Thread : u # t => making'[u] = making[u]
      BY <1>1 DEF Step, Acquire, Enter, Append2, Answer, Release, Motion, Fallback, Make, Typed, TypeOK
    <3> QED
      BY <3>1, <3>2
  <2> QED
    BY <2>1, <2>2, <2>3, InTurnSame, AllFollowSame
<1>2. ASSUME NEW t \in Thread, Read(t) PROVE InTurn' /\ AllFollow'
  <2>1. UNCHANGED <<op, key, tasklist, lapsed, resent>> /\ pc[t] = "read" /\ Events' = Events
    BY <1>2 DEF Read, Events
  <2>2. Quiet' => Quiet
    BY <2>1 DEF Quiet
  <2>3. AllFollow'
    BY <2>1, <2>2, AllFollowSame
  <2>4. CASE ~MayAppend(t)
    <3>1. \A u \in Thread : pc'[u] = "append" => pc[u] = "append" /\ making'[u] = making[u]
      BY <1>2, <2>4 DEF Read, Leave, Goto, Typed, TypeOK
    <3> QED
      BY <2>1, <2>2, <2>3, <3>1, InTurnSame
  <2>5. CASE MayAppend(t)
    <3>1. SUFFICES ASSUME Quiet, NEW u \in Thread, pc'[u] = "append"
                   PROVE  /\ \A e \in Events : e.stamp < making'[u].stamp
                          /\ Follows(making'[u], Events)
      BY <2>1, <2>2, <2>3 DEF InTurn, Follows, Replay, Latest, Stateful
    <3>2. PICK e : /\ e = IF op[t].kind = "register" THEN Event("created", FALSE, t, clock + 1)
                          ELSE AdvanceEvent(t, WantedTarget(t))
                   /\ making' = [making EXCEPT ![t] = e]
      BY <1>2, <2>5 DEF Read
    <3>3. u = t
      <4>1. CASE u # t
        <5>1. pc[u] = "append"
          BY <1>2, <3>1, <4>1 DEF Read, Leave, Goto, Typed, TypeOK
        <5> QED
          BY <2>1, <3>1, <4>1, <5>1 DEF InsideHasKey, Inside, Quiet
      <4> QED
        BY <4>1
    <3>4. making'[u] = e
      BY <3>2, <3>3 DEF Typed, TypeOK
    <3>5. e.stamp = clock + 1
      BY <2>5, <3>2, NewEventTyped
    <3>6. Follows(e, Events)
      BY <2>5, <3>2, ReadFollows
    <3>7. \A f \in Events : f.stamp < e.stamp
      BY <3>5 DEF Typed, TypeOK, StampsOK, Stamped
    <3> QED
      BY <3>4, <3>6, <3>7
  <2> QED
    BY <2>4, <2>5
<1>3. ASSUME NEW p \in Proc, Crash(p) PROVE InTurn' /\ AllFollow'
  <2>1. /\ UNCHANGED <<op, tasklist, lapsed, resent, making>>
        /\ \A u \in Thread : pc'[u] = "append" => pc[u] = "append"
    BY <1>3 DEF Crash
  <2>2. Quiet' => Quiet
    BY <2>1 DEF Quiet
  <2> QED
    BY <2>1, <2>2, InTurnSame, AllFollowSame
<1>4. CASE Lapse \/ UNCHANGED vars
  <2>1. /\ UNCHANGED <<op, pc, tasklist, resent, making>> /\ (lapsed => lapsed')
    <3>1. UNCHANGED <<op, pc, tasklist, resent, making>>
      BY <1>4 DEF Lapse, vars
    <3>2. lapsed => lapsed'
      BY <1>4 DEF Lapse, vars
    <3> QED
      BY <3>1, <3>2
  <2>2. Quiet' => Quiet
    BY <2>1 DEF Quiet
  <2> QED
    BY <2>1, <2>2, InTurnSame, AllFollowSame
<1> QED
  BY <1>1, <1>2, <1>3, <1>4, AppendInTurn DEF Next

\* Only valid transitions are appended: replaying the ledger, every event of a
\* register or an advance follows a state that allows it, as long as no lock
\* ran out, nothing was sent twice and no motion_event came without the lock.
THEOREM OnlyValidTransitions == Spec => []TransitionsValid
<1> DEFINE Inv == Typed /\ OnlyMotions /\ InsideHasKey /\ InTurn /\ AllFollow
<1>1. Init => Inv
  <2> SUFFICES ASSUME Init PROVE Inv
    OBVIOUS
  <2>1. \A e \in Events : e.by = None
    <3>1. PICK s \in Scenario : tasklist = [i \in DOMAIN s.start |-> Event(s.start[i], FALSE, None, i)]
      BY DEF Init
    <3> QED
      BY <3>1 DEF Events, ToSet, Event
  <2> QED
    BY <2>1, TypedInit DEF Init, InsideHasKey, Inside, InTurn, AllFollow
<1>2. Typed => PlacesOK
  BY DEF Typed, TypeOK, PlacesOK
<1>3. Inv /\ [Next]_vars => Inv'
  BY <1>2, TypedStep, OnlyMotionsStep, InsideHasKeyStep, TransitionsStep DEF Typed
<1>4. Inv => TransitionsValid
  BY DEF AllFollow, Quiet, TransitionsValid
<1> QED
  BY <1>1, <1>3, <1>4, PTL DEF Spec
=============================================================================
