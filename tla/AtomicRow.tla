------------------------------ MODULE AtomicRow ------------------------------
(***************************************************************************)
(* What a caller of the task store relies on: every state update of a task *)
(* is one atomic read-modify-write of its row.  `applied` counts, for each *)
(* writer, the updates of that writer which the row holds; `count` is the  *)
(* retry counter, which an update either leaves alone or increments.       *)
(***************************************************************************)
EXTENDS Naturals

CONSTANT Writer

VARIABLES applied, count

Init ==
    /\ applied = [w \in Writer |-> 0]
    /\ count = 0

Update(w) ==
    /\ applied' = [applied EXCEPT ![w] = @ + 1]
    /\ count' \in {count, count + 1}

Next == \E w \in Writer : Update(w)

Spec == Init /\ [][Next]_<<applied, count>>
=============================================================================
