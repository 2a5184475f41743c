---------------------------- MODULE RedisCas_proofs ----------------------------
(***************************************************************************)
(* RedisCas for any set of writers, any retry bound and any number of      *)
(* operations: while a row has one stub at most no update but that stub's  *)
(* is lost, a version is never reused, and the protocol implements         *)
(* AtomicRow on a row that was created.                                    *)
(***************************************************************************)
EXTENDS RedisCas, TLAPS

(***************************************************************************)
(* What a writer in the middle of an operation on a created row knows: how *)
(* many writes of others went through since it started.                    *)
(***************************************************************************)
Progress(w) ==
    /\ pc[w] # "stub"
    /\ pc[w] = "read" => /\ outcome[w] # "exhausted"
                         /\ tries[w] > 0 => row.ver >= seen[w] + tries[w]
    /\ pc[w] = "write" => /\ outcome[w] # "exhausted"
                          /\ snap[w].ver >= seen[w] + tries[w]
    /\ outcome[w] = "exhausted" => row.ver >= seen[w] + MaxRetries

(***************************************************************************)
(* Where rows come from: only a stub makes one, a row at version 0 holds   *)
(* nothing but its stub, and a created row never gets one.                 *)
(***************************************************************************)
Origin ==
    /\ created => row.exists /\ \A w \in Writer : pc[w] # "stub"
    /\ ~row.exists => /\ row.ver = 0 /\ row.count = 0
                      /\ \A w \in Writer : stubs[w] = 0
    /\ ~created /\ row.exists => \E w \in Writer : stubs[w] > 0
    /\ OneStub /\ row.ver = 0 =>
          row.count = 0 /\ \A w \in Writer : done[w] = stubs[w]

\* the inductive invariant
IInv ==
    /\ TypeOK
    /\ Origin
    /\ NoLostUpdate
    /\ SameVersionSameContent
    /\ created => \A w \in Writer : Progress(w)

\* An update of a row keeps it a row.
LEMMA WrittenType ==
    ASSUME NEW r \in Row, NEW w \in Writer, NEW v \in Nat, NEW c \in Nat
    PROVE  Written(r, w, v, c) \in Row
  BY DEF Row, Written

\* What the blob handed to the CAS script holds.
LEMMA MutatedType ==
    ASSUME TypeOK, NEW w \in Writer
    PROVE  /\ Mutated(w) \in Row
           /\ Mutated(w).exists
           /\ Mutated(w).ver = snap[w].ver + 1
           /\ Mutated(w).count \in {snap[w].count, snap[w].count + 1}
           /\ Mutated(w).applied = [snap[w].applied EXCEPT ![w] = @ + 1]
<1>1. /\ snap[w] \in Row
      /\ snap[w].ver + 1 \in Nat
      /\ NewCount(w) \in Nat
      /\ NewCount(w) \in {snap[w].count, snap[w].count + 1}
  BY DEF TypeOK, Row, NewCount
<1>2. QED
  BY <1>1, WrittenType DEF Mutated, Written

LEMMA ConstantRows == NoRow \in Row /\ CreatedRow \in Row
  BY DEF NoRow, CreatedRow, Row

(***************************************************************************)
(* Type correctness, inductive on its own.                                 *)
(***************************************************************************)
LEMMA TypeInit == Init => TypeOK
<1>1. (IF created THEN CreatedRow ELSE NoRow) \in Row
  BY ConstantRows
<1>2. QED
  BY <1>1, ConstantRows DEF Init, TypeOK, Kind, Outcome

LEMMA TypeStep == TypeOK /\ [Next]_vars => TypeOK'
<1> SUFFICES ASSUME TypeOK, [Next]_vars PROVE TypeOK'
  OBVIOUS
<1>0. created' \in BOOLEAN
  BY DEF TypeOK, Next, vars
<1>1. CASE UNCHANGED vars
  BY <1>0, <1>1 DEF TypeOK, vars
<1>2. ASSUME NEW w \in Writer, StartUpdate(w) PROVE TypeOK'
  BY <1>0, <1>2 DEF TypeOK, StartUpdate, Kind, Outcome
<1>3. ASSUME NEW w \in Writer, ReadMissing(w) PROVE TypeOK'
  BY <1>0, <1>3 DEF TypeOK, ReadMissing, Outcome
<1>4. ASSUME NEW w \in Writer, Read(w) PROVE TypeOK'
  <2>1. (IF row.exists THEN row ELSE NoRow) \in Row
    BY ConstantRows DEF TypeOK
  <2>2. row.count + 1 \in Nat /\ row.ver \in Nat
    BY DEF TypeOK, Row
  <2>3. QED
    BY <1>0, <1>4, <2>1, <2>2 DEF TypeOK, Read
<1>5. ASSUME NEW w \in Writer, WriteOk(w) PROVE TypeOK'
  <2>1. row' \in Row
    BY <1>5, MutatedType DEF WriteOk
  <2>2. QED
    BY <1>0, <1>5, <2>1 DEF TypeOK, WriteOk, Outcome
<1>6. ASSUME NEW w \in Writer, WriteRejected(w) PROVE TypeOK'
  BY <1>0, <1>6 DEF TypeOK, WriteRejected, Outcome
<1>7. ASSUME NEW w \in Writer, AppendEvent(w) PROVE TypeOK'
  <2>1. Written(row, w, row.ver + 1, row.count) \in Row
    <3>1. row \in Row /\ row.ver + 1 \in Nat /\ row.count \in Nat
      BY DEF TypeOK, Row
    <3>2. QED
      BY <3>1, WrittenType
  <2>2. row' \in Row
    BY <1>7, <2>1 DEF TypeOK, AppendEvent
  <2>3. QED
    BY <1>0, <1>7, <2>2 DEF TypeOK, AppendEvent, Outcome
<1>8. ASSUME NEW w \in Writer, WriteStub(w) PROVE TypeOK'
  <2>1. Written(CreatedRow, w, 0, 0) \in Row
    BY WrittenType, ConstantRows
  <2>2. row' \in Row
    BY <1>8, <2>1 DEF WriteStub
  <2>3. QED
    BY <1>0, <1>8, <2>2 DEF TypeOK, WriteStub, Outcome
<1>9. QED
  BY <1>1, <1>2, <1>3, <1>4, <1>5, <1>6, <1>7, <1>8 DEF Next, Step

(***************************************************************************)
(* Every variable keeps its type in every behaviour of the protocol.       *)
(***************************************************************************)
THEOREM TypeCorrect == Spec => []TypeOK
  BY TypeInit, TypeStep, PTL DEF Spec

(***************************************************************************)
(* The inductive step, one lemma per conjunct of the invariant.            *)
(***************************************************************************)

\* Stubs are only ever added, and only by WriteStub.
LEMMA StubsGrow ==
    ASSUME TypeOK, [Next]_vars
    PROVE  /\ OneStub' => OneStub
           /\ stubs' = stubs \/ \E w \in Writer : WriteStub(w)
<1>1. ASSUME stubs' = stubs PROVE OneStub' => OneStub
  BY <1>1 DEF OneStub
<1>2. ASSUME NEW w \in Writer, WriteStub(w) PROVE OneStub' => OneStub
  <2>1. stubs' = [stubs EXCEPT ![w] = @ + 1]
    BY <1>2 DEF WriteStub
  <2>2. \A v \in Writer : stubs[v] \in Nat /\ stubs'[v] \in Nat
                          /\ stubs[v] <= stubs'[v]
    BY <2>1 DEF TypeOK
  <2>3. QED
    BY <2>2 DEF OneStub
<1>3. stubs' = stubs \/ \E w \in Writer : WriteStub(w)
  BY DEF Next, vars, Step, StartUpdate, ReadMissing, Read, WriteOk,
         WriteRejected, AppendEvent
<1>4. QED
  BY <1>1, <1>2, <1>3

\* The one stub a row may have is what makes it: it overwrites nothing.
LEMMA StubMakesRow ==
    ASSUME TypeOK, Origin, NEW w \in Writer, WriteStub(w), OneStub'
    PROVE  /\ ~created
           /\ ~row.exists
           /\ row' = Written(CreatedRow, w, 0, 0)
           /\ done' = [done EXCEPT ![w] = @ + 1]
           /\ stubs' = [stubs EXCEPT ![w] = @ + 1]
<1>1. /\ ~created
      /\ row' = Written(CreatedRow, w, 0, 0)
      /\ done' = [done EXCEPT ![w] = @ + 1]
      /\ stubs' = [stubs EXCEPT ![w] = @ + 1]
  BY DEF WriteStub, Origin
<1>2. ASSUME row.exists PROVE FALSE
  <2>1. PICK v \in Writer : stubs[v] > 0
    BY <1>1, <1>2 DEF Origin
  <2>2. stubs[v] \in Nat /\ stubs[w] \in Nat
    BY DEF TypeOK
  <2>3. stubs'[w] = stubs[w] + 1 /\ stubs'[v] = IF v = w THEN stubs[v] + 1
                                                          ELSE stubs[v]
    BY <1>1 DEF TypeOK
  <2>4. v = w
    BY <2>1, <2>2, <2>3 DEF OneStub
  <2>5. stubs'[w] <= 1
    BY DEF OneStub
  <2>6. QED
    BY <2>1, <2>2, <2>3, <2>4, <2>5
<1>3. QED
  BY <1>1, <1>2

\* What the script wrote over: the copy's row, or a stub by a default.
LEMMA WriteIsDue ==
    ASSUME IInv, OneStub, NEW w \in Writer, WriteOk(w)
    PROVE  /\ row.exists
           /\ row'.exists
           /\ row'.ver = row.ver + 1
           /\ row'.count \in {row.count, row.count + 1}
           /\ done' = [done EXCEPT ![w] = @ + 1]
           /\ stubs' = stubs
           /\ \/ /\ snap[w] = row
                 /\ row'.applied = [row.applied EXCEPT ![w] = @ + 1]
              \/ /\ ~created
                 /\ row.ver = 0
                 /\ row'.applied = [NoRow.applied EXCEPT ![w] = @ + 1]
<1>1. /\ row' = Mutated(w)
      /\ row.exists /\ row.ver = snap[w].ver
      /\ pc[w] = "write"
      /\ done' = [done EXCEPT ![w] = @ + 1]
      /\ stubs' = stubs
  BY DEF WriteOk, CasAccepts
<1>2. /\ snap[w].exists => snap[w] = row
      /\ ~snap[w].exists => ~created /\ snap[w] = NoRow
  BY <1>1 DEF IInv, SameVersionSameContent
<1>3. /\ row'.exists
      /\ row'.ver = snap[w].ver + 1
      /\ row'.count \in {snap[w].count, snap[w].count + 1}
      /\ row'.applied = [snap[w].applied EXCEPT ![w] = @ + 1]
  BY <1>1, MutatedType DEF IInv
<1>4. CASE snap[w] = row
  BY <1>1, <1>3, <1>4
<1>5. CASE ~created /\ snap[w] = NoRow
  <2>1. row.ver = 0 /\ NoRow.count = 0
    BY <1>1, <1>5 DEF NoRow
  <2>2. row.count = 0
    BY <2>1 DEF IInv, Origin
  <2>3. QED
    BY <1>1, <1>3, <1>5, <2>1, <2>2
<1>6. QED
  BY <1>2, <1>4, <1>5

LEMMA OriginStep == IInv /\ [Next]_vars => Origin'
<1> SUFFICES ASSUME IInv, [Next]_vars PROVE Origin'
  OBVIOUS
<1>0. created' = created /\ TypeOK /\ Origin /\ (OneStub' => OneStub)
  BY StubsGrow DEF Next, vars, IInv
<1> USE DEF TypeOK, Row
<1>1. CASE UNCHANGED vars
  BY <1>0, <1>1 DEF vars, Origin, OneStub
<1>2. ASSUME NEW w \in Writer,
             StartUpdate(w) \/ ReadMissing(w) \/ Read(w) \/ WriteRejected(w)
      PROVE  Origin'
  <2>1. /\ row' = row /\ done' = done /\ stubs' = stubs
        /\ \A v \in Writer : pc'[v] = "stub" => pc[v] = "stub"
    BY <1>0, <1>2 DEF StartUpdate, ReadMissing, Read, WriteRejected
  <2>2. QED
    BY <1>0, <2>1 DEF Origin, OneStub
<1>3. ASSUME NEW w \in Writer, WriteOk(w) PROVE Origin'
  <2>1. /\ row' = Mutated(w) /\ row.exists /\ stubs' = stubs
        /\ \A v \in Writer : pc'[v] = "stub" => pc[v] = "stub"
    BY <1>0, <1>3 DEF WriteOk, CasAccepts
  <2>2. row'.exists /\ row'.ver # 0
    <3>1. Mutated(w).exists /\ Mutated(w).ver = snap[w].ver + 1
      BY <1>0, MutatedType
    <3>2. snap[w].ver \in Nat
      BY <1>0 DEF TypeOK, Row
    <3>3. QED
      BY <2>1, <3>1, <3>2
  <2>3. QED
    BY <1>0, <2>1, <2>2 DEF Origin
<1>4. ASSUME NEW w \in Writer, AppendEvent(w) PROVE Origin'
  <2>1. CASE row.exists
    <3>1. /\ row' = Written(row, w, row.ver + 1, row.count)
          /\ stubs' = stubs /\ pc' = pc
      BY <1>4, <2>1 DEF AppendEvent
    <3>2. row'.exists /\ row'.ver # 0
      BY <1>0, <3>1 DEF Written
    <3>3. QED
      BY <1>0, <2>1, <3>1, <3>2 DEF Origin
  <2>2. CASE ~row.exists
    <3>1. row' = row /\ done' = done /\ stubs' = stubs
      BY <1>4, <2>2 DEF AppendEvent
    <3>2. ~created
      BY <1>0, <2>2 DEF Origin
    <3>3. QED
      BY <1>0, <2>2, <3>1, <3>2 DEF Origin, OneStub
  <2>3. QED
    BY <2>1, <2>2
<1>5. ASSUME NEW w \in Writer, WriteStub(w) PROVE Origin'
  <2>1. /\ ~created
        /\ row' = Written(CreatedRow, w, 0, 0)
        /\ done' = [done EXCEPT ![w] = @ + 1]
        /\ stubs' = [stubs EXCEPT ![w] = @ + 1]
    BY <1>0, <1>5 DEF WriteStub, Origin
  <2>2. row'.exists /\ row'.count = 0
    BY <2>1 DEF Written
  <2>3. stubs'[w] > 0
    BY <1>0, <2>1
  <2>4. ASSUME OneStub' PROVE \A v \in Writer : done'[v] = stubs'[v]
    <3>1. ~row.exists
      BY <1>0, <1>5, <2>4, StubMakesRow
    <3>2. \A v \in Writer : done[v] = stubs[v]
      BY <1>0, <2>4, <3>1 DEF Origin
    <3>3. QED
      BY <1>0, <2>1, <3>2
  <2>5. QED
    BY <1>0, <2>1, <2>2, <2>3, <2>4 DEF Origin
<1>6. QED
  BY <1>1, <1>2, <1>3, <1>4, <1>5 DEF Next, Step

LEMMA NoLostUpdateStep == IInv /\ [Next]_vars => NoLostUpdate'
<1> SUFFICES ASSUME IInv, [Next]_vars PROVE NoLostUpdate'
  OBVIOUS
<1>0. /\ created' = created /\ TypeOK /\ Origin /\ NoLostUpdate
      /\ TypeOK' /\ Origin' /\ (OneStub' => OneStub)
  BY StubsGrow, TypeStep, OriginStep DEF Next, vars, IInv
<1>1. created => row'.exists /\ \A v \in Writer : stubs'[v] = 0
  <2>1. ASSUME created PROVE stubs' = stubs
    BY <1>0, <2>1, StubsGrow DEF Origin, WriteStub
  <2>2. QED
    BY <1>0, <2>1 DEF NoLostUpdate, Origin
<1> DEFINE Kept(v) == row'.applied[v] \in (done'[v] - stubs'[v]) .. done'[v]
<1>2. ASSUME OneStub', NEW v \in Writer PROVE Kept(v)
  <2>0. /\ OneStub
        /\ row.applied[v] \in Nat /\ done[v] \in Nat /\ stubs[v] \in Nat
        /\ row.applied[v] \in (done[v] - stubs[v]) .. done[v]
    BY <1>0, <1>2 DEF NoLostUpdate, TypeOK, Row
  <2>1. CASE UNCHANGED vars
    BY <2>0, <2>1 DEF vars
  <2>2. ASSUME NEW w \in Writer,
               StartUpdate(w) \/ ReadMissing(w) \/ Read(w) \/ WriteRejected(w)
        PROVE  Kept(v)
    BY <2>0, <2>2 DEF StartUpdate, ReadMissing, Read, WriteRejected
  <2>3. ASSUME NEW w \in Writer, WriteOk(w) PROVE Kept(v)
    <3>1. /\ done' = [done EXCEPT ![w] = @ + 1]
          /\ stubs' = stubs
          /\ \/ row'.applied = [row.applied EXCEPT ![w] = @ + 1]
             \/ /\ row.ver = 0
                /\ row'.applied = [NoRow.applied EXCEPT ![w] = @ + 1]
      BY <2>0, <2>3, WriteIsDue
    <3>2. done'[v] = IF v = w THEN done[v] + 1 ELSE done[v]
      BY <1>0, <3>1 DEF TypeOK
    <3>3. CASE row'.applied = [row.applied EXCEPT ![w] = @ + 1]
      <4>1. row'.applied[v] = IF v = w THEN row.applied[v] + 1
                                       ELSE row.applied[v]
        BY <1>0, <3>3 DEF TypeOK, Row
      <4>2. QED
        BY <2>0, <3>1, <3>2, <4>1
    <3>4. CASE /\ row.ver = 0
               /\ row'.applied = [NoRow.applied EXCEPT ![w] = @ + 1]
      <4>1. row'.applied[v] = IF v = w THEN 1 ELSE 0
        BY <3>4 DEF NoRow
      <4>2. done[v] = stubs[v]
        BY <1>0, <2>0, <3>4 DEF Origin
      <4>3. QED
        BY <2>0, <3>1, <3>2, <4>1, <4>2
    <3>5. QED
      BY <3>1, <3>3, <3>4
  <2>4. ASSUME NEW w \in Writer, AppendEvent(w) PROVE Kept(v)
    <3>1. CASE ~row.exists
      BY <2>0, <2>4, <3>1 DEF AppendEvent
    <3>2. CASE row.exists
      <4>1. /\ row' = Written(row, w, row.ver + 1, row.count)
            /\ done' = [done EXCEPT ![w] = @ + 1]
            /\ stubs' = stubs
        BY <2>4, <3>2 DEF AppendEvent
      <4>2. row'.applied = [row.applied EXCEPT ![w] = @ + 1]
        BY <4>1 DEF Written
      <4>3. /\ done'[v] = IF v = w THEN done[v] + 1 ELSE done[v]
            /\ row'.applied[v] = IF v = w THEN row.applied[v] + 1
                                          ELSE row.applied[v]
        BY <1>0, <4>1, <4>2 DEF TypeOK, Row
      <4>4. QED
        BY <2>0, <4>1, <4>3
    <3>3. QED
      BY <3>1, <3>2
  <2>5. ASSUME NEW w \in Writer, WriteStub(w) PROVE Kept(v)
    <3>1. /\ ~row.exists
          /\ row' = Written(CreatedRow, w, 0, 0)
          /\ done' = [done EXCEPT ![w] = @ + 1]
          /\ stubs' = [stubs EXCEPT ![w] = @ + 1]
      BY <1>0, <1>2, <2>5, StubMakesRow
    <3>2. row'.applied[v] = IF v = w THEN 1 ELSE 0
      BY <3>1 DEF Written, CreatedRow
    <3>3. done[v] = stubs[v]
      BY <1>0, <2>0, <3>1 DEF Origin
    <3>4. /\ done'[v] = IF v = w THEN done[v] + 1 ELSE done[v]
          /\ stubs'[v] = IF v = w THEN stubs[v] + 1 ELSE stubs[v]
      BY <1>0, <3>1 DEF TypeOK
    <3>5. QED
      BY <2>0, <3>2, <3>3, <3>4
  <2>6. QED
    BY <2>1, <2>2, <2>3, <2>4, <2>5 DEF Next, Step
<1>3. QED
  BY <1>0, <1>1, <1>2 DEF NoLostUpdate

(***************************************************************************)
(* Every step leaves a row alone, makes it, or is a single write by one    *)
(* writer that moves the version by one; a created row holds every update. *)
(***************************************************************************)
LEMMA RowMoves ==
    ASSUME IInv, [Next]_vars, OneStub'
    PROVE  \/ row' = row
           \/ /\ ~created /\ ~row.exists
              /\ row'.exists /\ row'.ver = 0 /\ row'.count = 0
           \/ /\ row.exists /\ row'.exists
              /\ row'.ver = row.ver + 1
              /\ row'.count \in {row.count, row.count + 1}
              /\ created => \E w \in Writer :
                    row'.applied = [row.applied EXCEPT ![w] = @ + 1]
<1>0. TypeOK /\ Origin /\ OneStub
  BY StubsGrow DEF IInv
<1>1. CASE UNCHANGED vars
  BY <1>1 DEF vars
<1>2. ASSUME NEW w \in Writer,
             StartUpdate(w) \/ ReadMissing(w) \/ Read(w) \/ WriteRejected(w)
      PROVE  row' = row
  BY <1>2 DEF StartUpdate, ReadMissing, Read, WriteRejected
<1>3. ASSUME NEW w \in Writer, WriteOk(w)
      PROVE  /\ row.exists /\ row'.exists
             /\ row'.ver = row.ver + 1
             /\ row'.count \in {row.count, row.count + 1}
             /\ created => row'.applied = [row.applied EXCEPT ![w] = @ + 1]
  BY <1>0, <1>3, WriteIsDue
<1>4. ASSUME NEW w \in Writer, AppendEvent(w)
      PROVE  \/ row' = row
             \/ /\ row.exists /\ row'.exists
                /\ row'.ver = row.ver + 1
                /\ row'.count = row.count
                /\ row'.applied = [row.applied EXCEPT ![w] = @ + 1]
  BY <1>4 DEF AppendEvent, Written
<1>5. ASSUME NEW w \in Writer, WriteStub(w)
      PROVE  /\ ~created /\ ~row.exists
             /\ row'.exists /\ row'.ver = 0 /\ row'.count = 0
  <2>1. ~created /\ ~row.exists /\ row' = Written(CreatedRow, w, 0, 0)
    BY <1>0, <1>5, StubMakesRow
  <2>2. QED
    BY <2>1 DEF Written
<1>6. QED
  BY <1>1, <1>2, <1>3, <1>4, <1>5 DEF Next, Step

(***************************************************************************)
(* On a created row every step leaves the row alone or is a single write   *)
(* by one writer that moves the version by one.                            *)
(***************************************************************************)
LEMMA RowStep ==
    ASSUME IInv, [Next]_vars, created
    PROVE  \/ row' = row
           \/ /\ row'.ver = row.ver + 1
              /\ row'.exists
              /\ row'.count \in {row.count, row.count + 1}
              /\ \E w \in Writer :
                    row'.applied = [row.applied EXCEPT ![w] = @ + 1]
<1>1. created' = created /\ NoLostUpdate'
  BY NoLostUpdateStep DEF Next, vars
<1>2. OneStub'
  BY <1>1 DEF NoLostUpdate, OneStub
<1>3. QED
  BY <1>2, RowMoves

LEMMA SameVersionStep == IInv /\ [Next]_vars => SameVersionSameContent'
<1> SUFFICES ASSUME IInv, [Next]_vars, OneStub',
                    NEW v \in Writer, pc'[v] = "write"
             PROVE  /\ snap'[v].ver <= row'.ver
                    /\ snap'[v].exists /\ snap'[v].ver = row'.ver =>
                          snap'[v] = row'
                    /\ ~snap'[v].exists => ~created /\ snap'[v] = NoRow
  BY DEF SameVersionSameContent, Next, vars
<1> DEFINE Goal == /\ snap'[v].ver <= row'.ver
                   /\ snap'[v].exists /\ snap'[v].ver = row'.ver =>
                         snap'[v] = row'
                   /\ ~snap'[v].exists => ~created /\ snap'[v] = NoRow
<1>0. TypeOK /\ Origin /\ OneStub
  BY StubsGrow DEF IInv
<1>1. ASSUME snap'[v] = snap[v], pc[v] = "write" PROVE Goal
  <2>1. /\ snap[v].ver <= row.ver
        /\ snap[v].exists /\ snap[v].ver = row.ver => snap[v] = row
        /\ ~snap[v].exists => ~created /\ snap[v] = NoRow
    BY <1>0, <1>1 DEF IInv, SameVersionSameContent
  <2>2. snap[v].ver \in Nat /\ row.ver \in Nat
    BY <1>0 DEF TypeOK, Row
  <2>3. CASE row' = row
    BY <1>1, <2>1, <2>3
  <2>4. CASE ~row.exists /\ row'.ver = 0
    <3>1. row.ver = 0
      BY <1>0, <2>4 DEF Origin
    <3>2. snap[v].ver = 0
      BY <2>1, <2>2, <3>1
    <3>3. ~snap[v].exists
      BY <2>1, <2>4, <3>1, <3>2
    <3>4. QED
      BY <1>1, <2>1, <2>4, <3>2, <3>3
  <2>5. CASE row'.ver = row.ver + 1
    BY <1>1, <2>1, <2>2, <2>5
  <2>6. QED
    BY <2>3, <2>4, <2>5, RowMoves
<1>2. CASE UNCHANGED vars
  BY <1>1, <1>2 DEF vars
<1>3. ASSUME NEW w \in Writer, Read(w) PROVE Goal
  <2>1. CASE w = v
    <3>1. row' = row /\ snap'[v] = IF row.exists THEN row ELSE NoRow
      BY <1>0, <1>3, <2>1 DEF Read, TypeOK
    <3>2. CASE row.exists
      BY <1>0, <3>1, <3>2 DEF TypeOK, Row
    <3>3. CASE ~row.exists
      BY <1>0, <3>1, <3>3 DEF Origin, NoRow
    <3>4. QED
      BY <3>2, <3>3
  <2>2. CASE w # v
    BY <1>0, <1>1, <1>3, <2>2 DEF Read, TypeOK
  <2>3. QED
    BY <2>1, <2>2
<1>4. ASSUME NEW w \in Writer,
             \/ StartUpdate(w) \/ ReadMissing(w) \/ WriteOk(w)
             \/ WriteRejected(w) \/ AppendEvent(w) \/ WriteStub(w)
      PROVE  Goal
  <2>1. snap'[v] = snap[v]
    BY <1>4 DEF StartUpdate, ReadMissing, WriteOk, WriteRejected,
                AppendEvent, WriteStub
  <2>2. pc[v] = "write"
    BY <1>0, <1>4 DEF StartUpdate, ReadMissing, WriteOk, WriteRejected,
                AppendEvent, WriteStub, TypeOK
  <2>3. QED
    BY <1>1, <2>1, <2>2
<1>5. QED
  BY <1>2, <1>3, <1>4 DEF Next, Step

\* A step of one writer leaves the local state of the others alone.
LEMMA OthersUnchanged ==
    ASSUME NEW w \in Writer, NEW v \in Writer, w # v, TypeOK, Step(w)
    PROVE  UNCHANGED <<pc[v], tries[v], outcome[v], seen[v], snap[v]>>
  BY DEF TypeOK, Step, StartUpdate, ReadMissing, Read, WriteOk,
         WriteRejected, AppendEvent, WriteStub

LEMMA ProgressStep ==
    IInv /\ [Next]_vars => (created => \A v \in Writer : Progress(v)')
<1> SUFFICES ASSUME IInv, [Next]_vars, created, NEW v \in Writer
             PROVE  Progress(v)'
  BY DEF Next, vars
<1> USE RedisCasAssumption DEF IInv, TypeOK, Row, Progress
<1>0. /\ row'.ver \in Nat /\ row'.ver >= row.ver
      /\ row.exists /\ OneStub /\ pc[v] # "stub"
  BY RowStep DEF Origin, NoLostUpdate, OneStub
<1>1. ASSUME UNCHANGED <<pc[v], tries[v], outcome[v], seen[v], snap[v]>>
      PROVE  Progress(v)'
  BY <1>0, <1>1
<1>2. CASE UNCHANGED vars
  BY <1>1, <1>2 DEF vars
<1>3. ASSUME NEW w \in Writer, w # v, Step(w) PROVE Progress(v)'
  BY <1>1, <1>3, OthersUnchanged
<1>4. CASE StartUpdate(v)
  BY <1>4 DEF StartUpdate
<1>5. CASE ReadMissing(v)
  BY <1>5 DEF ReadMissing
<1>6. CASE Read(v)
  BY <1>0, <1>6 DEF Read
<1>7. CASE WriteOk(v)
  BY <1>7 DEF WriteOk
<1>8. CASE WriteRejected(v)
  <2>1. /\ row.exists
        /\ snap[v].ver \in Nat /\ row.ver \in Nat
        /\ seen[v] \in Nat /\ tries[v] \in Nat
        /\ snap[v].ver <= row.ver
        /\ snap[v].ver >= seen[v] + tries[v]
    BY <1>0, <1>8 DEF WriteRejected, SameVersionSameContent
  <2>2. snap[v].ver # row.ver
    BY <1>8, <2>1 DEF WriteRejected, CasAccepts
  <2>3. row.ver >= seen[v] + tries[v] + 1
    <3> HIDE DEF IInv, TypeOK, Row, Progress
    <3> QED  BY <2>1, <2>2
  <2>4. QED
    BY <1>8, <2>3 DEF WriteRejected
<1>9. CASE AppendEvent(v)
  BY <1>0, <1>9 DEF AppendEvent
<1>10. CASE WriteStub(v)
  BY <1>0, <1>10 DEF WriteStub
<1>11. QED
  BY <1>2, <1>3, <1>4, <1>5, <1>6, <1>7, <1>8, <1>9, <1>10 DEF Next, Step

LEMMA IInvInit == Init => IInv
<1> SUFFICES ASSUME Init PROVE IInv
  OBVIOUS
<1>1. /\ created \in BOOLEAN
      /\ row = IF created THEN CreatedRow ELSE NoRow
      /\ \A w \in Writer : /\ pc[w] = "idle" /\ outcome[w] = "none"
                          /\ done[w] = 0 /\ stubs[w] = 0
  BY DEF Init
<1>2. /\ row.exists <=> created
      /\ row.ver = 0 /\ row.count = 0
      /\ \A w \in Writer : row.applied[w] = 0
  BY <1>1 DEF CreatedRow, NoRow
<1>3. NoLostUpdate
  <2>1. \A w \in Writer : row.applied[w] \in (done[w] - stubs[w]) .. done[w]
    <3>1. 0 \in (0 - 0) .. 0
      OBVIOUS
    <3>2. QED
      BY <1>1, <1>2, <3>1
  <2>2. QED
    BY <1>1, <1>2, <2>1 DEF NoLostUpdate
<1>4. Origin
  BY <1>1, <1>2 DEF Origin
<1>5. SameVersionSameContent /\ \A w \in Writer : Progress(w)
  BY <1>1 DEF SameVersionSameContent, Progress
<1>6. QED
  BY <1>3, <1>4, <1>5, TypeInit DEF IInv

LEMMA IInvStep == IInv /\ [Next]_vars => IInv'
<1> SUFFICES ASSUME IInv, [Next]_vars PROVE IInv'
  OBVIOUS
<1>1. created' = created
  BY DEF Next, vars
<1>2. QED
  BY <1>1, TypeStep, OriginStep, NoLostUpdateStep, SameVersionStep,
     ProgressStep DEF IInv

LEMMA Invariance == Spec => []IInv
  BY IInvInit, IInvStep, PTL DEF Spec

(***************************************************************************)
(* A row written by create_task_state holds exactly the updates reported   *)
(* as written, and one that began as a single stub all but perhaps that    *)
(* stub's, for any number of writers.                                      *)
(***************************************************************************)
THEOREM NoLostUpdateCorrect == Spec => []NoLostUpdate
<1>1. IInv => NoLostUpdate
  BY DEF IInv
<1>2. QED
  BY <1>1, Invariance, PTL

(***************************************************************************)
(* A copy of a row with the current version has the current content, as    *)
(* long as at most one stub is written.                                    *)
(***************************************************************************)
THEOREM SameVersionCorrect == Spec => []SameVersionSameContent
<1>1. IInv => SameVersionSameContent
  BY DEF IInv
<1>2. QED
  BY <1>1, Invariance, PTL

(***************************************************************************)
(* _cas_update gives up only if MaxRetries other writes went through.      *)
(***************************************************************************)
THEOREM ExhaustedCorrect == Spec => []ExhaustedMeansOthersWrote
<1>1. IInv => ExhaustedMeansOthersWrote
  BY DEF IInv, ExhaustedMeansOthersWrote, Progress
<1>2. QED
  BY <1>1, Invariance, PTL

(***************************************************************************)
(* The count that a writer will return: it may be one ahead of the row     *)
(* until its write is accepted, and stays so when it is given up.          *)
(***************************************************************************)
HolderBound(w) ==
    /\ outcome[w] = "ok" => holder[w] <= row.count
    /\ outcome[w] = "exhausted" => holder[w] <= row.count + 1
    /\ pc[w] \in {"read", "write"} =>
          /\ outcome[w] = "none"
          /\ holder[w] <= row.count + 1
          /\ kind[w] # "increment" => holder[w] = 0
    /\ pc[w] = "stub" => outcome[w] = "none" /\ holder[w] = 0

HolderInv == OneStub => \A w \in Writer : HolderBound(w)

LEMMA HolderStep == IInv /\ HolderInv /\ [Next]_vars => HolderInv'
<1> SUFFICES ASSUME IInv, HolderInv, [Next]_vars, OneStub', NEW v \in Writer
             PROVE  HolderBound(v)'
  BY DEF HolderInv
<1> USE DEF TypeOK, Row, HolderBound
<1>0. /\ row.count \in Nat /\ row'.count \in Nat /\ row'.count >= row.count
      /\ holder[v] \in Nat /\ TypeOK /\ OneStub /\ HolderBound(v)
  <2>1. TypeOK /\ TypeOK' /\ Origin /\ OneStub
    BY TypeStep, StubsGrow DEF IInv
  <2>2. row.count \in Nat /\ row'.count \in Nat /\ row.ver \in Nat
    BY <2>1
  <2>3. ~row.exists => row.count = 0
    BY <2>1 DEF Origin
  <2>4. QED
    BY <2>1, <2>2, <2>3, RowMoves DEF HolderInv
<1>1. ASSUME UNCHANGED <<pc[v], kind[v], outcome[v], holder[v]>>
      PROVE  HolderBound(v)'
  BY <1>0, <1>1
<1>2. CASE UNCHANGED vars
  BY <1>1, <1>2 DEF vars
<1>3. ASSUME NEW w \in Writer, w # v, Step(w) PROVE HolderBound(v)'
  <2>1. UNCHANGED <<pc[v], kind[v], outcome[v], holder[v]>>
    BY <1>0, <1>3 DEF Step, StartUpdate, ReadMissing, Read, WriteOk,
                      WriteRejected, AppendEvent, WriteStub
  <2>2. QED
    BY <1>1, <2>1
<1>4. CASE StartUpdate(v)
  BY <1>0, <1>4 DEF StartUpdate
<1>5. CASE ReadMissing(v)
  BY <1>0, <1>5 DEF ReadMissing
<1>6. CASE Read(v)
  BY <1>0, <1>6 DEF Read
<1>7. CASE WriteOk(v)
  <2>1. /\ pc[v] = "write" /\ pc'[v] = "idle"
        /\ outcome'[v] = "ok" /\ holder' = holder
        /\ row' = Mutated(v)
    BY <1>0, <1>7 DEF WriteOk
  <2>2. row'.count = NewCount(v) /\ row.count = snap[v].count
    <3>1. snap[v] = row \/ (snap[v] = NoRow /\ row.ver = 0)
      BY <1>0, <1>7 DEF IInv, SameVersionSameContent, WriteOk, CasAccepts, NoRow
    <3>2. row.ver = 0 => row.count = 0
      BY <1>0 DEF IInv, Origin
    <3>3. row.count = snap[v].count
      BY <3>1, <3>2 DEF NoRow
    <3>4. QED
      BY <2>1, <3>3 DEF Mutated, Written
  <2>3. row'.count = IF kind[v] = "increment" THEN row.count + 1 ELSE row.count
    BY <2>2 DEF NewCount
  <2>4. QED
    BY <1>0, <2>1, <2>3
<1>8. CASE WriteRejected(v)
  BY <1>0, <1>8 DEF WriteRejected
<1>9. CASE AppendEvent(v)
  <2>1. /\ holder'[v] = 0
        /\ row.exists => pc'[v] = "idle" /\ outcome'[v] = "ok"
        /\ ~row.exists => pc'[v] = "stub" /\ outcome'[v] = "none"
    BY <1>0, <1>9 DEF AppendEvent
  <2>2. QED
    BY <1>0, <2>1
<1>10. CASE WriteStub(v)
  BY <1>0, <1>10 DEF WriteStub
<1>11. QED
  BY <1>2, <1>3, <1>4, <1>5, <1>6, <1>7, <1>8, <1>9, <1>10 DEF Next, Step

(***************************************************************************)
(* What increment_retry_count returns is at most the count in the row if   *)
(* its write went through, and at most one more if it gave up.             *)
(***************************************************************************)
THEOREM ReturnedCountCorrect == Spec => []ReturnedCountNotAhead
<1>1. Init => HolderInv
  BY DEF Init, HolderInv, HolderBound
<1>2. HolderInv => ReturnedCountNotAhead
  BY DEF HolderInv, HolderBound, ReturnedCountNotAhead
<1>3. QED
  BY <1>1, <1>2, HolderStep, Invariance, PTL DEF Spec

(***************************************************************************)
(* The version of a created row counts its writes.                         *)
(***************************************************************************)
THEOREM VersionCorrect == Spec => VersionCountsWrites
<1>1. IInv /\ [Next]_vars =>
        [created => \/ row' = row
                    \/ /\ row'.ver = row.ver + 1
                       /\ row'.count >= row.count]_vars
  BY RowStep DEF IInv, TypeOK, Row
<1>2. QED
  BY <1>1, Invariance, PTL DEF Spec, VersionCountsWrites

(***************************************************************************)
(* The protocol implements atomic read-modify-write updates of the row.    *)
(***************************************************************************)
THEOREM Refinement == Spec => ImplementsAtomicRow
<1> DEFINE absApplied == IF created THEN row.applied
                                    ELSE [w \in Writer |-> 0]
           absCount == IF created THEN row.count ELSE 0
<1>1. Init => Atomic!Init
  BY DEF Init, Atomic!Init, CreatedRow
<1>2. IInv /\ [Next]_vars => [Atomic!Next]_<<absApplied, absCount>>
  <2> SUFFICES ASSUME IInv, [Next]_vars
               PROVE  [Atomic!Next]_<<absApplied, absCount>>
    OBVIOUS
  <2>1. created' = created
    BY DEF Next, vars
  <2>2. CASE ~created
    BY <2>1, <2>2
  <2>3. CASE created
    BY <2>1, <2>3, RowStep DEF Atomic!Next, Atomic!Update
  <2>4. QED
    BY <2>2, <2>3 DEF IInv, TypeOK
<1>3. QED
  BY <1>1, <1>2, Invariance, PTL DEF Spec, ImplementsAtomicRow, Atomic!Spec
=============================================================================
