------------------------------- MODULE TaskLists -------------------------------
(***************************************************************************)
(* The Redis list commands the device task queue is built from, as         *)
(* operators on sequences whose head is the LEFT end of the list.  Entries *)
(* are records with a field `task`.  Subsequences are built by index set,  *)
(* so that no operator is recursive.                                       *)
(***************************************************************************)
EXTENDS Naturals, Sequences, FiniteSets

\* how many elements of the index set I are at or before i
Rank(I, i) == Cardinality({j \in I : j <= i})

\* the elements of s at the indices in I, in order
Pick(s, I) ==
    [k \in 1 .. Cardinality(I) |-> s[CHOOSE i \in I : Rank(I, i) = k]]

InList(s, t) == \E i \in DOMAIN s : s[i].task = t
TasksOf(s) == {s[i].task : i \in DOMAIN s}

\* the indices of the entries of task t
At(s, t) == {i \in DOMAIN s : s[i].task = t}

\* LREM key 0 x: every entry equal to x goes
RemoveEqual(s, x) == Pick(s, {i \in DOMAIN s : s[i] # x})

\* LREM key 1 x: the first entry equal to x goes
RemoveFirstEqual(s, x) ==
    Pick(s, {i \in DOMAIN s : s[i] # x \/ \E j \in 1 .. i - 1 : s[j] = x})

(***************************************************************************)
(* _remove_processing_task for each entry of T in turn: every call removes *)
(* the first entry with that task id, if there is one.                     *)
(***************************************************************************)
RemoveTasks(s, T) ==
    Pick(s, {i \in DOMAIN s :
               Rank(At(s, s[i].task), i) > Cardinality(At(T, s[i].task))})

\* n times LMOVE src dst LEFT LEFT: what is taken, and both lists after it
Taken(src, n) == SubSeq(src, 1, IF n < Len(src) THEN n ELSE Len(src))
AfterTake(src, n) == SubSeq(src, Len(Taken(src, n)) + 1, Len(src))
MovedOnto(dst, taken) ==
    [k \in 1 .. Len(taken) |-> taken[Len(taken) + 1 - k]] \o dst
=============================================================================
