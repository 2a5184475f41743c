------------------------- MODULE DeviceDelivery_proofs -------------------------
(***************************************************************************)
(* Theorems about DeviceDelivery, for every set of tasks, retry limit, pop *)
(* limit, number of sessions and scenario.                                 *)
(*                                                                         *)
(* First the list operators of TaskLists: a subsequence is picked by an    *)
(* index set, and everything rests on the rank of an index being a         *)
(* bijection onto 1 .. Cardinality(I).  That every rank is hit is an       *)
(* induction; it is done with a least element instead of a rule.  Then the *)
(* types, that no task is lost, that a live session stays registered, and  *)
(* that every task has one owner until the stale reaper moves something.   *)
(***************************************************************************)
EXTENDS DeviceDelivery, FiniteSetTheorems, SequenceTheorems, WellFoundedInduction, TLAPS
-----------------------------------------------------------------------------
(* Lists.                                                                  *)

\* A set of naturals that is not empty has a least element.
LEMMA LeastElement ==
    ASSUME NEW S \in SUBSET Nat, NEW n \in S
    PROVE  \E m \in S : \A l \in S : m <= l
<1> DEFINE R == OpToRel(<, Nat)
<1>1. \A x, y \in Nat : <<x, y>> \in R <=> x < y
  BY DEF OpToRel
<1>2. PICK m \in S : \A y \in S : <<y, m>> \notin R
  <2>1. IsWellFoundedOn(R, Nat)
    BY NatLessThanWellFounded
  <2> HIDE DEF R
  <2> QED
    BY <2>1, WFMin
<1>3. \A y \in S : y \in Nat
  OBVIOUS
<1> HIDE DEF R
<1>4. ASSUME NEW y \in S PROVE m <= y
  <2>1. m \in Nat /\ y \in Nat
    BY <1>3
  <2>2. ~(y < m)
    BY <1>1, <1>2, <2>1
  <2> QED
    BY <2>1, <2>2
<1> QED
  BY <1>4

\* Sets of indices of a list are finite, and have no more elements than what
\* they are taken from.
LEMMA IndexSet ==
    ASSUME NEW n \in Nat, NEW I \in SUBSET (1 .. n), NEW J \in SUBSET I
    PROVE  IsFiniteSet(J) /\ Cardinality(J) \in Nat /\ Cardinality(J) <= Cardinality(I)
<1>1. IsFiniteSet(1 .. n)
  BY FS_Interval
<1>2. IsFiniteSet(I) /\ IsFiniteSet(J)
  BY <1>1, FS_Subset
<1> QED
  BY <1>2, FS_Subset, FS_CardinalityType

\* The rank of an index is a position of the picked list.
LEMMA RankBounds ==
    ASSUME NEW n \in Nat, NEW I \in SUBSET (1 .. n), NEW i \in I
    PROVE  Rank(I, i) \in 1 .. Cardinality(I)
<1> DEFINE B == {j \in I : j <= i}
<1>1. IsFiniteSet(B) /\ Cardinality(I) \in Nat /\ Cardinality(B) \in Nat /\ Cardinality(B) <= Cardinality(I)
  BY IndexSet
<1>3. B # {}
  OBVIOUS
<1>4. Cardinality(B) # 0
  BY <1>1, <1>3, FS_EmptySet
<1> HIDE DEF B
<1>5. Cardinality(B) \in 1 .. Cardinality(I)
  BY <1>1, <1>4
<1> QED
  BY <1>5 DEF Rank, B

\* A later index has a higher rank.
LEMMA RankIncreases ==
    ASSUME NEW n \in Nat, NEW I \in SUBSET (1 .. n), NEW i \in I, NEW j \in I, i < j
    PROVE  Rank(I, i) < Rank(I, j)
<1> DEFINE A == {l \in I : l <= i}
           B == {l \in I : l <= j}
<1>0. \A l \in I : l \in Nat
  OBVIOUS
<1>1. A \subseteq B /\ j \in B /\ j \notin A
  <2>1. j \in B /\ j \notin A
    BY <1>0
  <2>2. ASSUME NEW l \in A PROVE l \in B
    BY <1>0, i \in Nat, j \in Nat
  <2> QED
    BY <2>1, <2>2
<1>2. B \in SUBSET I
  OBVIOUS
<1> HIDE DEF A, B
<1>3. IsFiniteSet(B) /\ Cardinality(B) \in Nat
  BY <1>2, IndexSet
<1>4. IsFiniteSet(A) /\ Cardinality(A) \in Nat
  BY <1>1, <1>2, <1>3, FS_Subset, FS_CardinalityType
<1>5. A \in SUBSET B /\ A # B
  BY <1>1
<1>6. Cardinality(A) <= Cardinality(B) /\ Cardinality(A) # Cardinality(B)
  BY <1>3, <1>5, FS_Subset
<1>7. Cardinality(A) < Cardinality(B)
  BY <1>3, <1>4, <1>6
<1> QED
  BY <1>7 DEF Rank, A, B

\* Every position of the picked list is the rank of an index.
LEMMA RankHits ==
    ASSUME NEW n \in Nat, NEW I \in SUBSET (1 .. n), NEW k \in 1 .. Cardinality(I)
    PROVE  \E i \in I : Rank(I, i) = k
<1>2. Cardinality(I) \in Nat /\ k \in Nat /\ k <= Cardinality(I) /\ k # 0
  <2>1. Cardinality(I) \in Nat
    BY IndexSet
  <2> QED
    BY <2>1
<1> DEFINE Upto(m) == {j \in I : j <= m}
           Full == {m \in Nat : Cardinality(Upto(m)) >= k}
<1>1. \A m \in Nat : IsFiniteSet(Upto(m)) /\ Cardinality(Upto(m)) \in Nat
  BY IndexSet
<1>0. \A l \in I : l \in Nat /\ 1 <= l /\ l <= n
  OBVIOUS
<1>3. Upto(n) = I
  BY <1>0
<1>4. n \in Full
  BY <1>2, <1>3
<1>5. PICK m \in Full : \A l \in Full : m <= l
  <2>1. Full \in SUBSET Nat
    OBVIOUS
  <2> HIDE DEF Full
  <2> QED
    BY <1>4, <2>1, LeastElement
<1>6. m \in Nat /\ Cardinality(Upto(m)) >= k
  BY <1>5
<1>7. m # 0
  <2>1. Upto(0) = {}
    <3> SUFFICES ASSUME NEW j \in Upto(0) PROVE FALSE
      OBVIOUS
    <3> QED
      BY <1>0
  <2> QED
    BY <1>6, <2>1, FS_EmptySet
<1>8. m - 1 \in Nat /\ m - 1 \notin Full
  <2>1. m - 1 \in Nat
    BY <1>6, <1>7
  <2>2. ~(m <= m - 1)
    BY <1>6, <2>1
  <2> QED
    BY <1>5, <2>1, <2>2
<1>9. Cardinality(Upto(m - 1)) < k
  <2>1. k \in Nat /\ Cardinality(Upto(m - 1)) \in Nat
    BY <1>1, <1>2, <1>8
  <2>2. ~(Cardinality(Upto(m - 1)) >= k)
    BY <1>8
  <2> QED
    BY <2>1, <2>2
<1>10. Upto(m) = IF m \in I THEN Upto(m - 1) \cup {m} ELSE Upto(m - 1)
  <2>1. ASSUME NEW j \in I PROVE j <= m <=> j <= m - 1 \/ j = m
    BY <1>0, <1>6
  <2> QED
    BY <2>1
<1>11. m \notin Upto(m - 1)
  BY <1>0, <1>6
<1> HIDE DEF Upto, Full
<1>12. m \in I
  BY <1>1, <1>6, <1>9, <1>8, <1>10
<1>13. Cardinality(Upto(m)) = Cardinality(Upto(m - 1)) + 1
  BY <1>1, <1>8, <1>10, <1>11, <1>12, FS_AddElement
<1>14. Cardinality(Upto(m)) = k
  BY <1>1, <1>8, <1>13, <1>9, <1>6
<1> QED
  BY <1>12, <1>14 DEF Rank, Upto

\* No two indices have the same rank.
LEMMA RankInjective ==
    ASSUME NEW n \in Nat, NEW I \in SUBSET (1 .. n), NEW i \in I, NEW j \in I, Rank(I, i) = Rank(I, j)
    PROVE  i = j
<1>1. i \in Nat /\ j \in Nat
  OBVIOUS
<1>2. Rank(I, i) \in Nat /\ Rank(I, j) \in Nat
  <2>1. Rank(I, i) \in 1 .. Cardinality(I) /\ Cardinality(I) \in Nat
    BY RankBounds, IndexSet
  <2> QED
    BY <2>1
<1>3. ~(i < j)
  <2> SUFFICES ASSUME i < j PROVE FALSE
    OBVIOUS
  <2>1. Rank(I, i) < Rank(I, j)
    BY RankIncreases
  <2> QED
    BY <1>2, <2>1
<1>4. ~(j < i)
  <2> SUFFICES ASSUME j < i PROVE FALSE
    OBVIOUS
  <2>1. Rank(I, j) < Rank(I, i)
    BY RankIncreases
  <2> QED
    BY <1>2, <2>1
<1> QED
  BY <1>1, <1>3, <1>4

\* What Pick picks: position k of the result is the k-th index of I.
LEMMA Picks ==
    ASSUME NEW S, NEW s \in Seq(S), NEW I \in SUBSET DOMAIN s
    PROVE  /\ Pick(s, I) \in Seq(S)
           /\ DOMAIN Pick(s, I) = 1 .. Cardinality(I)
           /\ Len(Pick(s, I)) = Cardinality(I) /\ Cardinality(I) \in Nat
           /\ \A k \in DOMAIN Pick(s, I) : \E i \in I : Rank(I, i) = k /\ Pick(s, I)[k] = s[i]
           /\ \A i \in I : Rank(I, i) \in DOMAIN Pick(s, I) /\ Pick(s, I)[Rank(I, i)] = s[i]
<1> DEFINE n == Len(s)
           c == Cardinality(I)
           p == Pick(s, I)
<1>1. n \in Nat /\ I \in SUBSET (1 .. n) /\ \A i \in I : s[i] \in S
  OBVIOUS
<1>2. c \in Nat
  BY <1>1, IndexSet
<1> HIDE DEF n, c
<1>3. p = [k \in 1 .. c |-> s[CHOOSE i \in I : Rank(I, i) = k]]
  BY DEF Pick, c
<1> HIDE DEF p
<1>4. ASSUME NEW k \in 1 .. c
      PROVE  \E i \in I : Rank(I, i) = k /\ p[k] = s[i]
  <2>1. \E i \in I : Rank(I, i) = k
    BY <1>1, RankHits DEF c
  <2> DEFINE i == CHOOSE i \in I : Rank(I, i) = k
  <2>2. i \in I /\ Rank(I, i) = k
    BY <2>1
  <2>3. p[k] = s[i]
    BY <1>3
  <2> QED
    BY <2>2, <2>3
<1>5. ASSUME NEW i \in I
      PROVE  Rank(I, i) \in 1 .. c /\ p[Rank(I, i)] = s[i]
  <2>1. Rank(I, i) \in 1 .. c
    BY <1>1, RankBounds DEF c
  <2>2. PICK j \in I : Rank(I, j) = Rank(I, i) /\ p[Rank(I, i)] = s[j]
    BY <1>4, <2>1
  <2>3. i = j
    BY <1>1, <2>2, RankInjective
  <2> QED
    BY <2>1, <2>2, <2>3
<1>6. p \in [1 .. c -> S]
  <2>1. \A k \in 1 .. c : p[k] \in S
    BY <1>1, <1>4
  <2> QED
    BY <1>3, <2>1
<1>7. p \in Seq(S) /\ DOMAIN p = 1 .. c /\ Len(p) = c
  BY <1>2, <1>6
<1> QED
  BY <1>2, <1>4, <1>5, <1>7 DEF p, c

\* No task is twice in the list s.
Once(s) == \A i, j \in DOMAIN s : s[i].task = s[j].task => i = j

\* No task is in both lists.
Apart(s, r) == \A t : ~(InList(s, t) /\ InList(r, t))

\* A picked list holds the tasks at the picked indices, and none twice that
\* its source has once.
LEMMA PickedTasks ==
    ASSUME NEW S, NEW s \in Seq(S), NEW I \in SUBSET DOMAIN s
    PROVE  /\ \A t : InList(Pick(s, I), t) <=> \E i \in I : s[i].task = t
           /\ Once(s) => Once(Pick(s, I))
<1> DEFINE p == Pick(s, I)
<1>1. /\ \A k \in DOMAIN p : \E i \in I : Rank(I, i) = k /\ p[k] = s[i]
      /\ \A i \in I : Rank(I, i) \in DOMAIN p /\ p[Rank(I, i)] = s[i]
  BY Picks
<1> HIDE DEF p
<1>2. ASSUME NEW t PROVE InList(p, t) <=> \E i \in I : s[i].task = t
  BY <1>1 DEF InList
<1>3. ASSUME Once(s), NEW k \in DOMAIN p, NEW l \in DOMAIN p, p[k].task = p[l].task
      PROVE  k = l
  <2>1. PICK i \in I : Rank(I, i) = k /\ p[k] = s[i]
    BY <1>1
  <2>2. PICK j \in I : Rank(I, j) = l /\ p[l] = s[j]
    BY <1>1
  <2>3. i = j
    BY <1>3, <2>1, <2>2 DEF Once
  <2> QED
    BY <2>1, <2>2, <2>3
<1> QED
  BY <1>2, <1>3 DEF p, Once

\* Counting the entries of a task.
LEMMA Entries ==
    ASSUME NEW S, NEW s \in Seq(S), NEW t
    PROVE  /\ IsFiniteSet(At(s, t)) /\ Cardinality(At(s, t)) \in Nat
           /\ Cardinality(At(s, t)) = 0 <=> ~InList(s, t)
           /\ Once(s) => Cardinality(At(s, t)) <= 1
<1>1. Len(s) \in Nat /\ At(s, t) \in SUBSET (1 .. Len(s))
  BY DEF At
<1>2. IsFiniteSet(At(s, t)) /\ Cardinality(At(s, t)) \in Nat
  BY <1>1, IndexSet
<1>3. At(s, t) = {} <=> ~InList(s, t)
  BY DEF At, InList
<1>4. Cardinality(At(s, t)) = 0 <=> ~InList(s, t)
  BY <1>2, <1>3, FS_EmptySet
<1>5. ASSUME Once(s), InList(s, t) PROVE Cardinality(At(s, t)) = 1
  <2>1. PICK i \in DOMAIN s : s[i].task = t
    BY <1>5 DEF InList
  <2>2. At(s, t) = {i}
    BY <1>5, <2>1 DEF At, Once
  <2> QED
    BY <2>2, FS_Singleton
<1> QED
  BY <1>2, <1>4, <1>5

\* What is left when the tasks of T are taken out of a list.
LEMMA TasksRemoved ==
    ASSUME NEW S, NEW s \in Seq(S), NEW R, NEW T \in Seq(R)
    PROVE  /\ RemoveTasks(s, T) \in Seq(S)
           /\ \A t : InList(RemoveTasks(s, T), t) => InList(s, t)
           /\ \A t : InList(s, t) /\ ~InList(T, t) => InList(RemoveTasks(s, T), t)
           /\ Once(s) => /\ Once(RemoveTasks(s, T))
                         /\ \A t : InList(T, t) => ~InList(RemoveTasks(s, T), t)
<1> DEFINE I == {i \in DOMAIN s : Rank(At(s, s[i].task), i) > Cardinality(At(T, s[i].task))}
           p == Pick(s, I)
<1>1. p = RemoveTasks(s, T)
  BY DEF RemoveTasks
<1>2. I \in SUBSET DOMAIN s
  OBVIOUS
<1>3. p \in Seq(S) /\ (\A t : InList(p, t) <=> \E i \in I : s[i].task = t) /\ (Once(s) => Once(p))
  <2> HIDE DEF I
  <2> QED
    BY <1>2, Picks, PickedTasks
<1>4. ASSUME NEW i \in DOMAIN s
      PROVE  /\ Rank(At(s, s[i].task), i) \in 1 .. Cardinality(At(s, s[i].task))
             /\ Cardinality(At(s, s[i].task)) \in Nat
             /\ Cardinality(At(T, s[i].task)) \in Nat
  <2>1. /\ Len(s) \in Nat /\ At(s, s[i].task) \in SUBSET (1 .. Len(s))
        /\ i \in At(s, s[i].task)
    BY DEF At
  <2>2. Rank(At(s, s[i].task), i) \in 1 .. Cardinality(At(s, s[i].task))
    BY <2>1, RankBounds
  <2> QED
    BY <2>2, Entries
<1>5. ASSUME NEW i \in DOMAIN s, ~InList(T, s[i].task) PROVE i \in I
  BY <1>4, <1>5, Entries
<1>6. ASSUME Once(s), NEW i \in DOMAIN s, InList(T, s[i].task) PROVE i \notin I
  <2>1. Cardinality(At(s, s[i].task)) <= 1
    BY <1>6, Entries
  <2>2. Cardinality(At(T, s[i].task)) # 0
    BY <1>6, Entries
  <2> QED
    BY <1>4, <2>1, <2>2
<1> HIDE DEF I, p
<1>7. ASSUME NEW t PROVE InList(p, t) => InList(s, t)
  BY <1>2, <1>3 DEF InList
<1>8. ASSUME NEW t, InList(s, t), ~InList(T, t) PROVE InList(p, t)
  <2>1. PICK i \in DOMAIN s : s[i].task = t
    BY <1>8 DEF InList
  <2>2. i \in I
    BY <1>5, <1>8, <2>1
  <2> QED
    BY <1>3, <2>1, <2>2
<1>9. ASSUME Once(s), NEW t, InList(T, t) PROVE ~InList(p, t)
  BY <1>2, <1>3, <1>6, <1>9
<1> QED
  BY <1>1, <1>3, <1>7, <1>8, <1>9

\* LREM of every copy, and of the first copy, of an entry x.
LEMMA EqualRemoved ==
    ASSUME NEW S, NEW s \in Seq(S), NEW x
    PROVE  /\ RemoveEqual(s, x) \in Seq(S)
           /\ \A t : InList(s, t) /\ t # x.task => InList(RemoveEqual(s, x), t)
<1> DEFINE I == {i \in DOMAIN s : s[i] # x}
<1>1. I \in SUBSET DOMAIN s /\ \A i \in DOMAIN s : s[i].task # x.task => i \in I
  OBVIOUS
<1> HIDE DEF I
<1>2. Pick(s, I) \in Seq(S) /\ \A t : InList(Pick(s, I), t) <=> \E i \in I : s[i].task = t
  BY <1>1, Picks, PickedTasks
<1> QED
  BY <1>1, <1>2 DEF RemoveEqual, InList, I

\* LREM of the first copy of the entry at k (ExpireQueued): no other task
\* goes, and if the list had the task once, it is gone.
LEMMA FirstEqualRemoved ==
    ASSUME NEW S, NEW s \in Seq(S), NEW k \in DOMAIN s
    PROVE  /\ RemoveFirstEqual(s, s[k]) \in Seq(S)
           /\ \A t : InList(RemoveFirstEqual(s, s[k]), t) => InList(s, t)
           /\ \A t : InList(s, t) /\ t # s[k].task => InList(RemoveFirstEqual(s, s[k]), t)
           /\ Once(s) => /\ Once(RemoveFirstEqual(s, s[k]))
                         /\ ~InList(RemoveFirstEqual(s, s[k]), s[k].task)
<1> DEFINE I == {i \in DOMAIN s : s[i] # s[k] \/ \E j \in 1 .. i - 1 : s[j] = s[k]}
<1>1. I \in SUBSET DOMAIN s /\ \A i \in DOMAIN s : s[i].task # s[k].task => i \in I
  OBVIOUS
<1>2. ASSUME Once(s), NEW i \in I PROVE s[i].task # s[k].task
  <2> SUFFICES ASSUME s[i].task = s[k].task PROVE FALSE
    OBVIOUS
  <2>1. i = k
    BY <1>1, <1>2 DEF Once
  <2>2. PICK j \in 1 .. i - 1 : s[j] = s[k]
    BY <1>2, <2>1
  <2>3. j \in DOMAIN s /\ j # k
    BY <2>1, <2>2
  <2> QED
    BY <1>2, <2>2, <2>3 DEF Once
<1> HIDE DEF I
<1>3. /\ Pick(s, I) \in Seq(S) /\ \A t : InList(Pick(s, I), t) <=> \E i \in I : s[i].task = t
      /\ Once(s) => Once(Pick(s, I))
  BY <1>1, Picks, PickedTasks
<1>4. Once(s) => ~InList(Pick(s, I), s[k].task)
  BY <1>2, <1>3
<1>5. \A t : InList(Pick(s, I), t) => InList(s, t)
  BY <1>1, <1>3 DEF InList
<1>6. \A t : InList(s, t) /\ t # s[k].task => InList(Pick(s, I), t)
  BY <1>1, <1>3 DEF InList
<1> QED
  BY <1>3, <1>4, <1>5, <1>6 DEF RemoveFirstEqual, I

\* Two lists one behind the other.
LEMMA Joined ==
    ASSUME NEW S, NEW s \in Seq(S), NEW r \in Seq(S)
    PROVE  /\ s \o r \in Seq(S)
           /\ \A t : InList(s \o r, t) <=> InList(s, t) \/ InList(r, t)
           /\ Once(s) /\ Once(r) /\ Apart(s, r) => Once(s \o r)
<1> DEFINE c == s \o r
<1>1. /\ c \in Seq(S) /\ Len(s) \in Nat /\ Len(r) \in Nat /\ Len(c) = Len(s) + Len(r)
      /\ DOMAIN s = 1 .. Len(s) /\ DOMAIN r = 1 .. Len(r) /\ DOMAIN c = 1 .. Len(s) + Len(r)
  OBVIOUS
<1>2. \A i \in DOMAIN s : i \in DOMAIN c /\ c[i] = s[i]
  OBVIOUS
<1>3. \A i \in DOMAIN r : Len(s) + i \in DOMAIN c /\ c[Len(s) + i] = r[i]
  OBVIOUS
<1>4. ASSUME NEW i \in DOMAIN c
      PROVE  \/ i \in DOMAIN s /\ c[i] = s[i]
             \/ i \notin DOMAIN s /\ i - Len(s) \in DOMAIN r /\ c[i] = r[i - Len(s)]
  <2>1. CASE i <= Len(s)
    BY <2>1
  <2>2. CASE ~(i <= Len(s))
    BY <2>2
  <2> QED
    BY <2>1, <2>2
<1> HIDE DEF c
<1>5. ASSUME NEW t PROVE InList(c, t) <=> InList(s, t) \/ InList(r, t)
  BY <1>2, <1>3, <1>4 DEF InList
<1>6. ASSUME Once(s), Once(r), Apart(s, r), NEW i \in DOMAIN c, NEW j \in DOMAIN c, c[i].task = c[j].task
      PROVE  i = j
  <2>1. CASE i \in DOMAIN s /\ j \in DOMAIN s
    BY <1>2, <1>6, <2>1 DEF Once
  <2>2. CASE i \notin DOMAIN s /\ j \notin DOMAIN s
    <3>1. i - Len(s) = j - Len(s)
      BY <1>4, <1>6, <2>2 DEF Once
    <3> QED
      BY <1>1, <3>1
  <2>3. CASE i \in DOMAIN s /\ j \notin DOMAIN s
    BY <1>2, <1>4, <1>6, <2>3 DEF Apart, InList
  <2>4. CASE i \notin DOMAIN s /\ j \in DOMAIN s
    BY <1>2, <1>4, <1>6, <2>4 DEF Apart, InList
  <2> QED
    BY <2>1, <2>2, <2>3, <2>4
<1> QED
  BY <1>1, <1>5, <1>6 DEF c, Once

\* RPUSH of one entry.
LEMMA Appended ==
    ASSUME NEW S, NEW s \in Seq(S), NEW x \in S
    PROVE  /\ Append(s, x) \in Seq(S)
           /\ \A t : InList(Append(s, x), t) <=> InList(s, t) \/ t = x.task
           /\ Once(s) /\ ~InList(s, x.task) => Once(Append(s, x))
<1> DEFINE c == Append(s, x)
<1>1. /\ c \in Seq(S) /\ Len(s) \in Nat /\ DOMAIN s = 1 .. Len(s) /\ DOMAIN c = 1 .. Len(s) + 1
      /\ (\A i \in DOMAIN s : c[i] = s[i]) /\ c[Len(s) + 1] = x
  OBVIOUS
<1> HIDE DEF c
<1>2. \A i \in DOMAIN c : i \in DOMAIN s \/ i = Len(s) + 1
  BY <1>1
<1>3. ASSUME NEW t PROVE InList(c, t) <=> InList(s, t) \/ t = x.task
  <2>1. InList(s, t) => InList(c, t)
    BY <1>1 DEF InList
  <2>2. InList(c, x.task)
    BY <1>1 DEF InList
  <2>3. InList(c, t) => InList(s, t) \/ t = x.task
    BY <1>1, <1>2 DEF InList
  <2> QED
    BY <2>1, <2>2, <2>3
<1>4. Once(s) /\ ~InList(s, x.task) => Once(c)
  BY <1>1, <1>2 DEF Once, InList
<1> QED
  BY <1>1, <1>3, <1>4 DEF c

\* The head of a list and what follows it.
LEMMA Split ==
    ASSUME NEW S, NEW s \in Seq(S), s # <<>>
    PROVE  /\ Head(s) \in S /\ Tail(s) \in Seq(S)
           /\ \A t : InList(s, t) <=> InList(Tail(s), t) \/ t = Head(s).task
           /\ Once(s) => Once(Tail(s)) /\ ~InList(Tail(s), Head(s).task)
<1> DEFINE r == Tail(s)
<1>1. /\ Head(s) = s[1] /\ r \in Seq(S) /\ Len(s) \in Nat \ {0} /\ DOMAIN s = 1 .. Len(s)
      /\ DOMAIN r = 1 .. Len(s) - 1 /\ (\A i \in DOMAIN r : r[i] = s[i + 1])
  OBVIOUS
<1> HIDE DEF r
<1>2. \A i \in DOMAIN r : i + 1 \in DOMAIN s /\ i + 1 # 1
  BY <1>1
<1>3. \A i \in DOMAIN s : i = 1 \/ (i - 1 \in DOMAIN r /\ r[i - 1] = s[i])
  BY <1>1
<1>4. 1 \in DOMAIN s /\ s[1] \in S
  BY <1>1
<1>5. ASSUME NEW t PROVE InList(s, t) <=> InList(r, t) \/ t = s[1].task
  BY <1>1, <1>2, <1>3, <1>4 DEF InList
<1>6. ASSUME Once(s) PROVE Once(r) /\ ~InList(r, s[1].task)
  <2>1. ASSUME NEW i \in DOMAIN r, NEW j \in DOMAIN r, r[i].task = r[j].task PROVE i = j
    <3>1. i + 1 = j + 1
      BY <1>1, <1>2, <1>6, <2>1 DEF Once
    <3> QED
      BY <1>1, <3>1
  <2>2. ~InList(r, s[1].task)
    BY <1>1, <1>2, <1>4, <1>6 DEF Once, InList
  <2> QED
    BY <2>1, <2>2 DEF Once
<1> QED
  BY <1>1, <1>4, <1>5, <1>6 DEF r

\* What n times LMOVE take, what they leave, and where they put it.
LEMMA Moved ==
    ASSUME NEW S, NEW s \in Seq(S), NEW d \in Seq(S), NEW n \in Nat \ {0}
    PROVE  /\ Taken(s, n) \in Seq(S) /\ AfterTake(s, n) \in Seq(S)
           /\ MovedOnto(d, Taken(s, n)) \in Seq(S)
           /\ Taken(s, n) = <<>> => s = <<>>
           /\ \A t : InList(s, t) <=> InList(Taken(s, n), t) \/ InList(AfterTake(s, n), t)
           /\ \A t : InList(MovedOnto(d, Taken(s, n)), t) <=> InList(Taken(s, n), t) \/ InList(d, t)
           /\ Once(s) => Once(Taken(s, n)) /\ Once(AfterTake(s, n)) /\ Apart(Taken(s, n), AfterTake(s, n))
           /\ Once(s) /\ Once(d) /\ Apart(s, d) => Once(MovedOnto(d, Taken(s, n)))
<1> DEFINE m == IF n < Len(s) THEN n ELSE Len(s)
           a == SubSeq(s, 1, m)
           b == SubSeq(s, m + 1, Len(s))
           rev == [k \in 1 .. m |-> a[m + 1 - k]]
<1>1. /\ Len(s) \in Nat /\ DOMAIN s = 1 .. Len(s) /\ m \in Nat /\ m <= Len(s) /\ (m = 0 => Len(s) = 0)
  OBVIOUS
<1> HIDE DEF m
<1>2. /\ a \in Seq(S) /\ Len(a) = m /\ DOMAIN a = 1 .. m /\ \A i \in 1 .. m : a[i] = s[i]
      /\ b \in Seq(S) /\ DOMAIN b = 1 .. (Len(s) - m)
      /\ \A i \in 1 .. (Len(s) - m) : b[i] = s[m + i]
  <2>1. a \in Seq(S) /\ Len(a) = m /\ \A i \in 1 .. m : a[i] = s[i]
    BY <1>1, SubSeqProperties
  <2>2. /\ b \in Seq(S) /\ Len(b) = Len(s) - m
        /\ \A i \in 1 .. (Len(s) - m) : b[i] = s[m + i]
    BY <1>1, SubSeqProperties
  <2> HIDE DEF a, b
  <2> QED
    BY <2>1, <2>2
<1>3. Taken(s, n) = a /\ AfterTake(s, n) = b
  BY <1>2 DEF Taken, AfterTake, m
<1> HIDE DEF a, b
<1>4. /\ rev \in Seq(S) /\ DOMAIN rev = 1 .. m
      /\ MovedOnto(d, a) = rev \o d
  <2>1. rev \in [1 .. m -> S]
    BY <1>1, <1>2
  <2>2. MovedOnto(d, a) = rev \o d
    BY <1>2 DEF MovedOnto
  <2> HIDE DEF rev
  <2> QED
    BY <1>1, <2>1, <2>2
<1>5. \A k \in 1 .. m : m + 1 - k \in 1 .. m /\ rev[k] = a[m + 1 - k] /\ rev[m + 1 - k] = a[k]
  BY <1>1
<1> HIDE DEF rev
<1>6. ASSUME NEW t PROVE InList(rev, t) <=> InList(a, t)
  <2>1. InList(rev, t) => InList(a, t)
    BY <1>2, <1>4, <1>5 DEF InList
  <2>2. ASSUME InList(a, t) PROVE InList(rev, t)
    <3>1. PICK k \in 1 .. m : a[k].task = t
      BY <1>2, <2>2 DEF InList
    <3>2. m + 1 - k \in DOMAIN rev /\ rev[m + 1 - k] = a[k]
      BY <1>4, <1>5, <3>1
    <3> QED
      BY <3>1, <3>2 DEF InList
  <2> QED
    BY <2>1, <2>2
<1>7. ASSUME NEW t PROVE InList(s, t) <=> InList(a, t) \/ InList(b, t)
  <2>1. ASSUME NEW i \in DOMAIN s
        PROVE  i \in 1 .. m \/ (i - m \in 1 .. (Len(s) - m) /\ s[i] = b[i - m])
    <3>1. i \in Nat /\ 1 <= i /\ i <= Len(s)
      BY <1>1
    <3>2. CASE i > m
      <4>1. i - m \in 1 .. (Len(s) - m) /\ m + (i - m) = i
        BY <1>1, <3>1, <3>2
      <4> QED
        BY <1>2, <4>1
    <3> QED
      BY <1>1, <3>1, <3>2
  <2>2. \A i \in 1 .. m : i \in DOMAIN s
    BY <1>1
  <2>3. \A i \in 1 .. (Len(s) - m) : m + i \in DOMAIN s
    BY <1>1
  <2> QED
    BY <1>2, <2>1, <2>2, <2>3 DEF InList
<1>8. ASSUME Once(s) PROVE Once(a) /\ Once(b) /\ Apart(a, b)
  <2>1. Once(a)
    BY <1>1, <1>2, <1>8 DEF Once
  <2>2. ASSUME NEW i \in DOMAIN b, NEW j \in DOMAIN b, b[i].task = b[j].task PROVE i = j
    <3>1. m + i \in DOMAIN s /\ m + j \in DOMAIN s
      BY <1>1, <1>2
    <3>2. m + i = m + j
      BY <1>2, <1>8, <2>2, <3>1 DEF Once
    <3> QED
      BY <1>1, <1>2, <3>2
  <2>3. ASSUME NEW i \in DOMAIN a, NEW j \in DOMAIN b, a[i].task = b[j].task PROVE FALSE
    <3>1. i \in DOMAIN s /\ m + j \in DOMAIN s /\ m + j # i
      BY <1>1, <1>2
    <3> QED
      BY <1>2, <1>8, <2>3, <3>1 DEF Once
  <2> QED
    BY <2>1, <2>2, <2>3 DEF Once, Apart, InList
<1>9. ASSUME Once(a) PROVE Once(rev)
  <2>1. ASSUME NEW i \in 1 .. m, NEW j \in 1 .. m, rev[i].task = rev[j].task PROVE i = j
    <3> DEFINE k == m + 1 - i
               l == m + 1 - j
    <3>1. k \in DOMAIN a /\ l \in DOMAIN a /\ a[k].task = a[l].task
      BY <1>2, <1>5, <2>1
    <3>2. k = l
      BY <1>9, <3>1 DEF Once
    <3> QED
      BY <1>1, <3>2
  <2> QED
    BY <1>4, <2>1 DEF Once
<1>10. /\ rev \o d \in Seq(S)
       /\ \A t : InList(rev \o d, t) <=> InList(rev, t) \/ InList(d, t)
       /\ Once(rev) /\ Once(d) /\ Apart(rev, d) => Once(rev \o d)
  BY <1>4, Joined
<1>11. Apart(s, d) => Apart(rev, d)
  BY <1>6, <1>7 DEF Apart
<1>12. a = <<>> => s = <<>>
  BY <1>1, <1>2
<1> QED
  BY <1>2, <1>3, <1>4, <1>6, <1>7, <1>8, <1>9, <1>10, <1>11, <1>12
-----------------------------------------------------------------------------
(* Types, and what refers to what.                                         *)

DrainRec == [pc: {"idle", "pop", "claim", "send", "mark"}, s: 0 .. MaxSessions,
             batch: Seq(Entry)]
ReaperRec == [pc: {"sleep", "check", "move", "mark"}, todo: Seq(Entry), moved: BOOLEAN]

StoreType == [pending : Seq(Entry), processing : Seq(Entry), row : [Task -> Row],
              dropped : SUBSET Task]

\* Sessions are known by their numbers, and a coroutine or a thread that is
\* in the middle of something has something in its hands.
Refs ==
    /\ \A s \in 1 .. nsess : sock[s] \in Session
    /\ \A w \in Session :
         /\ cur[w] \in 0 .. nsess
         /\ handler[w] = "loop" => cur[w] # 0
         /\ drain[HelloDrain(w)].pc # "idle" => drain[HelloDrain(w)].s # cur[w]
    /\ \A d \in Drainer :
         /\ drain[d].pc # "idle" => drain[d].s \in 1 .. nsess
         /\ drain[d].pc \in {"claim", "send", "mark"} => drain[d].batch # <<>>
    /\ reaper.pc \in {"move", "mark"} => reaper.todo # <<>>
    /\ reaper.pc = "move" => recoveries < env.recoveries

TypeInv == TypeOK /\ Refs

\* The store record of the current state.
LEMMA StoreHasType == TypeOK => Store \in StoreType
  BY DEF TypeOK, Store, StoreType

\* A step that makes st the store gives the four variables their types.
LEMMA StoreTaken ==
    ASSUME NEW st \in StoreType, StoreBecomes(st)
    PROVE  /\ pending' \in Seq(Entry) /\ processing' \in Seq(Entry)
           /\ row' \in [Task -> Row] /\ dropped' \in SUBSET Task
           /\ Store' = st
  BY DEF StoreBecomes, StoreType, Store

\* The coroutines that drain are told apart by their names.
LEMMA Drainers ==
    /\ \A w \in Session : HelloDrain(w) \in Drainer /\ HelloDrain(w) # ReaperDrain /\ HelloDrain(w) # ApiDrain
    /\ \A v, w \in Session : HelloDrain(v) = HelloDrain(w) => v = w
    /\ ReaperDrain \in Drainer /\ ApiDrain \in Drainer /\ ReaperDrain # ApiDrain
  BY DEF Drainer, HelloDrain, ReaperDrain, ApiDrain

\* The values that stand for a coroutine or a thread at rest, or just
\* started.
LEMMA IdleTypes ==
    /\ Idle \in DrainRec /\ Idle.pc = "idle" /\ Idle.batch = <<>>
    /\ Asleep \in ReaperRec /\ Asleep.pc = "sleep"
    /\ \A n \in 0 .. MaxSessions : /\ StartedOn(n) \in DrainRec /\ StartedOn(n).pc = "pop"
                                  /\ StartedOn(n).s = n /\ StartedOn(n).batch = <<>>
  BY DeliveryAssumption DEF Idle, Asleep, StartedOn, DrainRec, ReaperRec

\* Initially everything has its type.
LEMMA TypeInit == Init => TypeInv
<1> SUFFICES ASSUME Init PROVE TypeInv
  OBVIOUS
<1>1. <<>> \in Seq(Entry)
  OBVIOUS
<1>2. MaxSessions \in Nat /\ env.recoveries \in Nat
  BY DeliveryAssumption DEF Init
<1>3. [t \in Task |-> NewRow] \in [Task -> Row]
  BY DEF NewRow, Row, Status
<1>4. TypeOK
  <2>1. nsess \in 0 .. MaxSessions /\ reg \in 0 .. nsess /\ recoveries \in 0 .. env.recoveries
    BY <1>2 DEF Init
  <2>2. /\ sock \in [Session -> 0 .. MaxSessions] /\ cur \in [Session -> 0 .. MaxSessions]
        /\ inflight \in [Session -> Seq(Entry)]
    BY <1>1, <1>2 DEF Init
  <2>3. /\ drain \in [Drainer -> [pc: {"idle", "pop", "claim", "send", "mark"},
                                  s: 0 .. MaxSessions, batch: Seq(Entry)]]
        /\ reaper \in [pc: {"sleep", "check", "move", "mark"}, todo: Seq(Entry), moved: BOOLEAN]
    BY IdleTypes DEF Init, DrainRec, ReaperRec
  <2> QED
    BY <1>1, <1>3, <2>1, <2>2, <2>3 DEF Init, TypeOK, Api, Dev
<1>5. Refs
  BY <1>2, Drainers DEF Init, Refs, Session, Idle, Asleep
<1> QED
  BY <1>4, <1>5 DEF TypeInv

\* What the updates of a row make of it.
LEMMA RowUpdates ==
    ASSUME NEW r \in Row
    PROVE  /\ \A x \in Status : [r EXCEPT !.status = x] \in Row
           /\ \A x \in Status, y \in {"none", "fresh", "stale"} :
                 [r EXCEPT !.status = x, !.started = y] \in Row
           /\ [r EXCEPT !.started = "stale"] \in Row
           /\ \A n \in Nat : [r EXCEPT !.retry = @ + n] \in Row
           /\ [r EXCEPT !.status = "queued", !.gen = @ + 1, !.started = "none"] \in Row
<1>1. ASSUME NEW x \in Status PROVE [r EXCEPT !.status = x] \in Row
  BY DEF Row
<1>2. ASSUME NEW x \in Status, NEW y \in {"none", "fresh", "stale"}
      PROVE  [r EXCEPT !.status = x, !.started = y] \in Row
  BY DEF Row
<1>3. [r EXCEPT !.started = "stale"] \in Row
  BY DEF Row
<1>4. ASSUME NEW n \in Nat PROVE [r EXCEPT !.retry = @ + n] \in Row
  BY DEF Row
<1>5. [r EXCEPT !.status = "queued", !.gen = @ + 1, !.started = "none"] \in Row
  <2>1. ASSUME NEW n \in Nat PROVE [r EXCEPT !.status = "queued", !.gen = n, !.started = "none"] \in Row
    BY DEF Row, Status
  <2>2. r.gen + 1 \in Nat
    BY DEF Row
  <2> QED
    BY <2>1, <2>2
<1> QED
  BY <1>1, <1>2, <1>3, <1>4, <1>5

\* The requeue operations on a store, field by field.
LEMMA TakenOutFields ==
    ASSUME NEW st \in StoreType, NEW T \in Seq(Entry)
    PROVE  /\ TakenOut(st, T) \in StoreType
           /\ TakenOut(st, T).pending = st.pending
           /\ TakenOut(st, T).processing = RemoveTasks(st.processing, T)
           /\ TakenOut(st, T).row = st.row
           /\ TakenOut(st, T).dropped = st.dropped
<1>1. RemoveTasks(st.processing, T) \in Seq(Entry)
  BY TasksRemoved DEF StoreType
<1> QED
  BY <1>1 DEF TakenOut, StoreType

\* Requeue_pending_tasks: LREM from processing, LPUSH to pending, rows back
\* to queued.
LEMMA RequeueFields ==
    ASSUME NEW st \in StoreType, NEW T \in Seq(Entry)
    PROVE  /\ Requeue(st, T) \in StoreType
           /\ Requeue(st, T).pending = T \o st.pending
           /\ Requeue(st, T).processing = RemoveTasks(st.processing, T)
           /\ Requeue(st, T).dropped = st.dropped
<1> DEFINE u == TakenOut(st, T)
<1>1. u \in StoreType /\ u.pending = st.pending /\ u.dropped = st.dropped
      /\ u.processing = RemoveTasks(st.processing, T)
  BY TakenOutFields
<1>2. Requeue(st, T) = [u EXCEPT !.pending = T \o @, !.row = Queued(@, T)]
  BY DEF Requeue
<1> HIDE DEF u
<1>3. T \o u.pending \in Seq(Entry)
  BY <1>1 DEF StoreType
<1>4. Queued(u.row, T) \in [Task -> Row]
  <2>1. \A t \in Task : u.row[t] \in Row
    BY <1>1 DEF StoreType
  <2>2. \A t \in Task : [u.row[t] EXCEPT !.status = "queued", !.started = "none"] \in Row
    BY <2>1, RowUpdates DEF Status
  <2> QED
    BY <2>1, <2>2 DEF Queued
<1> QED
  BY <1>1, <1>2, <1>3, <1>4 DEF StoreType

\* Counting retries and abandoning: only the tasks beyond the limit leave
\* processing, and they are given up on by name.
LEMMA AbandonedFields ==
    ASSUME NEW st \in StoreType, NEW T \in Seq(Entry)
    PROVE  LET new == CountedAndAbandoned(st, T)
               gone == Pick(T, OverLimit(st, T))
           IN  /\ new \in StoreType
               /\ gone \in Seq(Entry)
               /\ new.pending = st.pending
               /\ new.processing = RemoveTasks(st.processing, gone)
               /\ new.dropped = st.dropped \cup TasksOf(gone)
<1> DEFINE gone == Pick(T, OverLimit(st, T))
           sc == [st EXCEPT !.row = Counted(@, T)]
           u == TakenOut(sc, gone)
<1>1. OverLimit(st, T) \in SUBSET DOMAIN T
  BY DEF OverLimit
<1>2. gone \in Seq(Entry)
  BY <1>1, Picks
<1>3. Counted(st.row, T) \in [Task -> Row]
  <2>1. \A t \in Task : Cardinality(At(T, t)) \in Nat /\ st.row[t] \in Row
    BY Entries DEF StoreType
  <2> QED
    BY <2>1 DEF Counted, Row
<1>4. sc \in StoreType /\ sc.pending = st.pending /\ sc.processing = st.processing /\ sc.dropped = st.dropped
  BY <1>3 DEF StoreType
<1>5. CountedAndAbandoned(st, T) = Abandoned(sc, gone)
  BY DEF CountedAndAbandoned
<1> HIDE DEF gone, sc
<1>6. u \in StoreType /\ u.pending = sc.pending /\ u.dropped = sc.dropped
      /\ u.processing = RemoveTasks(sc.processing, gone)
  BY <1>2, <1>4, TakenOutFields
<1> DEFINE lost == {t \in TasksOf(gone) : InList(sc.processing, t)}
           closed == [t \in Task |-> IF t \in lost
                        THEN [u.row[t] EXCEPT !.status = "dead_letter", !.started = "none"]
                        ELSE u.row[t]]
<1>7. Abandoned(sc, gone) = [u EXCEPT !.row = closed, !.dropped = @ \cup TasksOf(gone)]
  BY DEF Abandoned
<1>8. TasksOf(gone) \in SUBSET Task
  <2>1. \A i \in DOMAIN gone : gone[i] \in Entry
    BY <1>2
  <2> QED
    BY <2>1 DEF TasksOf, Entry
<1> HIDE DEF u
<1>9. closed \in [Task -> Row]
  <2>1. \A t \in Task : u.row[t] \in Row
    BY <1>6 DEF StoreType
  <2>2. \A t \in Task : [u.row[t] EXCEPT !.status = "dead_letter", !.started = "none"] \in Row
    BY <2>1, RowUpdates DEF Status
  <2> HIDE DEF lost
  <2> QED
    BY <2>1, <2>2
<1> HIDE DEF closed
<1>10. /\ Abandoned(sc, gone) \in StoreType
       /\ Abandoned(sc, gone).pending = st.pending
       /\ Abandoned(sc, gone).processing = RemoveTasks(st.processing, gone)
       /\ Abandoned(sc, gone).dropped = st.dropped \cup TasksOf(gone)
  BY <1>4, <1>6, <1>7, <1>8, <1>9 DEF StoreType
<1> QED
  BY <1>2, <1>5, <1>10 DEF gone

\* What the two requeue operations make of the store and of the lists.
LEMMA OutstandingFields ==
    ASSUME NEW st \in StoreType, NEW T \in Seq(Entry)
    PROVE  LET new == RequeueOutstanding(st, T)
               gone == Pick(T, OverLimit(st, T))
               kept == Kept(st, T)
           IN  /\ new \in StoreType
               /\ gone \in Seq(Entry) /\ kept \in Seq(Entry)
               /\ new.pending = kept \o st.pending
               /\ new.processing = RemoveTasks(RemoveTasks(st.processing, gone), kept)
               /\ new.dropped = st.dropped \cup TasksOf(gone)
               /\ \A t : InList(T, t) <=> InList(gone, t) \/ InList(kept, t)
               /\ Once(T) => Once(gone) /\ Once(kept) /\ Apart(gone, kept)
<1> DEFINE O == OverLimit(st, T)
           gone == Pick(T, O)
           kept == Pick(T, DOMAIN T \ O)
           mid == CountedAndAbandoned(st, T)
<1>1. O \in SUBSET DOMAIN T /\ DOMAIN T \ O \in SUBSET DOMAIN T
  BY DEF OverLimit
<1>2. kept = Kept(st, T)
  BY DEF Kept
<1>3. mid \in StoreType /\ gone \in Seq(Entry) /\ mid.pending = st.pending
      /\ mid.processing = RemoveTasks(st.processing, gone)
      /\ mid.dropped = st.dropped \cup TasksOf(gone)
  BY AbandonedFields
<1> HIDE DEF mid, O
<1>4. kept \in Seq(Entry)
  BY <1>1, Picks
<1>5. /\ \A t : InList(gone, t) <=> \E i \in O : T[i].task = t
      /\ \A t : InList(kept, t) <=> \E i \in DOMAIN T \ O : T[i].task = t
      /\ Once(T) => Once(gone) /\ Once(kept)
  BY <1>1, PickedTasks
<1> HIDE DEF gone, kept
<1>6. ASSUME NEW t PROVE InList(T, t) <=> InList(gone, t) \/ InList(kept, t)
  BY <1>1, <1>5 DEF InList
<1>7. ASSUME Once(T), NEW t, InList(gone, t), InList(kept, t) PROVE FALSE
  BY <1>1, <1>5, <1>7 DEF Once
<1>8. /\ Requeue(mid, kept) \in StoreType
      /\ Requeue(mid, kept).pending = kept \o mid.pending
      /\ Requeue(mid, kept).processing = RemoveTasks(mid.processing, kept)
      /\ Requeue(mid, kept).dropped = mid.dropped
  BY <1>3, <1>4, RequeueFields
<1>9. RequeueOutstanding(st, T) = Requeue(mid, kept)
  BY <1>2 DEF RequeueOutstanding, mid
<1> QED
  BY <1>2, <1>3, <1>4, <1>5, <1>6, <1>7, <1>8, <1>9 DEF Apart, gone, O

\* The first tasks of a list.
LEMMA Prefix ==
    ASSUME NEW T \in Seq(Entry), NEW k \in 0 .. Len(T)
    PROVE  LET u == SubSeq(T, 1, k)
           IN  /\ u \in Seq(Entry)
               /\ \A t : InList(u, t) => InList(T, t)
               /\ Once(T) => Once(u)
               /\ TasksOf(u) \in SUBSET Task
               /\ \A t : InList(u, t) => t \in TasksOf(u)
<1> DEFINE u == SubSeq(T, 1, k)
<1>1. u \in Seq(Entry) /\ Len(u) = k /\ \A i \in 1 .. k : u[i] = T[i]
  OBVIOUS
<1>2. DOMAIN u = 1 .. k /\ 1 .. k \subseteq DOMAIN T
  BY <1>1
<1> HIDE DEF u
<1>3. \A t : InList(u, t) => InList(T, t)
  BY <1>1, <1>2 DEF InList
<1>4. Once(T) => Once(u)
  BY <1>1, <1>2 DEF Once
<1>5. \A i \in DOMAIN u : u[i].task \in Task
  <2>1. \A i \in DOMAIN u : u[i] \in Entry
    BY <1>1
  <2> QED
    BY <2>1 DEF Entry
<1>6. TasksOf(u) \in SUBSET Task /\ \A t : InList(u, t) => t \in TasksOf(u)
  BY <1>5 DEF TasksOf, InList
<1> QED
  BY <1>1, <1>3, <1>4, <1>6 DEF u

\* What a requeue that is broken off makes of the store.
LEMMA BrokenOffFields ==
    ASSUME NEW st \in StoreType, NEW T \in Seq(Entry), NEW k \in Breaks(st, T)
    PROVE  LET new == BrokenOff(st, T, k)
               gone == Pick(T, OverLimit(st, T))
               out == SubSeq(Kept(st, T), 1, k)
           IN  /\ new \in StoreType /\ out \in Seq(Entry)
               /\ new.pending = st.pending
               /\ new.processing = RemoveTasks(RemoveTasks(st.processing, gone), out)
               /\ new.dropped = st.dropped \cup TasksOf(gone)
               /\ \A t : InList(out, t) => InList(T, t) /\ t \in Missing(st, T, k)
               /\ Missing(st, T, k) \in SUBSET Task
<1> DEFINE mid == CountedAndAbandoned(st, T)
           gone == Pick(T, OverLimit(st, T))
           kept == Kept(st, T)
           out == SubSeq(kept, 1, k)
<1>1. kept \in Seq(Entry) /\ \A t : InList(kept, t) => InList(T, t)
  BY OutstandingFields
<1>2. mid \in StoreType /\ mid.pending = st.pending
      /\ mid.processing = RemoveTasks(st.processing, gone)
      /\ mid.dropped = st.dropped \cup TasksOf(gone)
  BY AbandonedFields
<1>3. k \in 0 .. Len(kept) /\ Missing(st, T, k) = TasksOf(out) /\ BrokenOff(st, T, k) = TakenOut(mid, out)
  BY DEF Breaks, Missing, BrokenOff
<1> HIDE DEF mid, gone, kept
<1>4. /\ out \in Seq(Entry) /\ TasksOf(out) \in SUBSET Task
      /\ \A t : InList(out, t) => InList(kept, t) /\ t \in TasksOf(out)
  BY <1>1, <1>3, Prefix
<1> HIDE DEF out
<1>5. /\ TakenOut(mid, out) \in StoreType
      /\ TakenOut(mid, out).pending = mid.pending
      /\ TakenOut(mid, out).processing = RemoveTasks(mid.processing, out)
      /\ TakenOut(mid, out).dropped = mid.dropped
  BY <1>2, <1>4, TakenOutFields
<1> QED
  BY <1>1, <1>2, <1>3, <1>4, <1>5 DEF gone, kept, out

\* The steps of a request, and expiry, keep the types.
LEMMA TypeApiStep ==
    ASSUME TypeInv, NEW t \in Task,
           EnqueuePush(t) \/ EnqueueMark(t) \/ ApiDeliver(t) \/ ExpireQueued(t)
    PROVE  TypeInv'
<1> USE DEF TypeInv
<1>1. CASE EnqueuePush(t)
  <2>1. [task |-> t, gen |-> -1] \in Entry
    BY DEF Entry
  <2>2. pending' \in Seq(Entry)
    BY <1>1, <2>1, Appended DEF EnqueuePush, TypeOK
  <2>3. api' \in [Task -> Api]
    BY <1>1 DEF EnqueuePush, TypeOK, Api
  <2>4. TypeOK'
    BY <1>1, <2>2, <2>3 DEF EnqueuePush, TypeOK, sessVars, wsVars, boundVars
  <2>5. Refs'
    BY <1>1 DEF EnqueuePush, Refs, sessVars, wsVars, boundVars
  <2> QED
    BY <2>4, <2>5
<1>2. CASE EnqueueMark(t)
  <2>1. row' \in [Task -> Row]
    BY <1>2, RowUpdates DEF EnqueueMark, TypeOK, Status
  <2>2. api' \in [Task -> Api]
    BY <1>2 DEF EnqueueMark, TypeOK, Api
  <2>3. TypeOK'
    BY <1>2, <2>1, <2>2 DEF EnqueueMark, TypeOK, sessVars, wsVars, boundVars
  <2>4. Refs'
    BY <1>2 DEF EnqueueMark, Refs, sessVars, wsVars, boundVars
  <2> QED
    BY <2>3, <2>4
<1>3. CASE ApiDeliver(t)
  <2>1. api' \in [Task -> Api]
    <3>1. "unsent" \in Api /\ "drain" \in Api
      BY DEF Api
    <3>2. api' = [api EXCEPT ![t] = "unsent"] \/ api' = [api EXCEPT ![t] = "drain"]
      BY <1>3 DEF ApiDeliver
    <3> QED
      BY <3>1, <3>2 DEF TypeOK
  <2>2. drain' = drain \/ (reg # 0 /\ drain' = [drain EXCEPT ![ApiDrain] = StartedOn(reg)])
    BY <1>3 DEF ApiDeliver
  <2>3. reg # 0 => reg \in 1 .. nsess /\ reg \in 0 .. MaxSessions
    BY DeliveryAssumption DEF TypeOK
  <2>4. drain' \in [Drainer -> DrainRec]
    <3>1. drain \in [Drainer -> DrainRec]
      BY DEF TypeOK, DrainRec
    <3>2. reg # 0 => StartedOn(reg) \in DrainRec
      BY <2>3, IdleTypes
    <3> QED
      BY <2>2, <3>1, <3>2
  <2>5. TypeOK'
    BY <1>3, <2>1, <2>4 DEF ApiDeliver, TypeOK, DrainRec, sessVars, wsVars, boundVars, storeVars
  <2>6. Refs'
    <3>1. \A d \in Drainer : d # ApiDrain => drain'[d] = drain[d]
      BY <2>2 DEF TypeOK
    <3>2. drain'[ApiDrain] = drain[ApiDrain] \/ (reg # 0 /\ drain'[ApiDrain] = StartedOn(reg))
      BY <2>2, Drainers DEF TypeOK
    <3>3. UNCHANGED <<sock, nsess, cur, handler, reaper, recoveries, env>>
      BY <1>3 DEF ApiDeliver, sessVars, wsVars, boundVars
    <3> QED
      BY <2>3, <3>1, <3>2, <3>3, Drainers, IdleTypes DEF Refs
  <2> QED
    BY <2>5, <2>6
<1>4. CASE ExpireQueued(t)
  <2>1. pending' \in Seq(Entry)
    <3>1. PICK i \in At(pending, t) : pending' = RemoveFirstEqual(pending, pending[i])
      BY <1>4 DEF ExpireQueued
    <3>2. i \in DOMAIN pending
      BY <3>1 DEF At
    <3> QED
      BY <3>1, <3>2, FirstEqualRemoved DEF TypeOK
  <2>2. row' \in [Task -> Row]
    BY <1>4, RowUpdates DEF ExpireQueued, TypeOK, Status
  <2>3. dropped' \in SUBSET Task
    BY <1>4 DEF ExpireQueued, TypeOK
  <2>4. TypeOK'
    BY <1>4, <2>1, <2>2, <2>3 DEF ExpireQueued, TypeOK, sessVars, wsVars, boundVars
  <2>5. Refs'
    BY <1>4 DEF ExpireQueued, Refs, sessVars, wsVars, boundVars
  <2> QED
    BY <2>4, <2>5
<1> QED
  BY <1>1, <1>2, <1>3, <1>4

\* One coroutine's record is replaced.
LEMMA DrainReplaced ==
    ASSUME TypeOK, NEW d \in Drainer, NEW v \in DrainRec, drain' = [drain EXCEPT ![d] = v]
    PROVE  /\ drain' \in [Drainer -> DrainRec]
           /\ drain'[d] = v
           /\ \A e \in Drainer : e # d => drain'[e] = drain[e]
  BY DEF TypeOK, DrainRec

\* The parts of Refs that are about one coroutine.
DrainRefs(d) ==
    /\ drain[d].pc # "idle" => drain[d].s \in 1 .. nsess
    /\ drain[d].pc \in {"claim", "send", "mark"} => drain[d].batch # <<>>

\* A coroutine that is not idle drains into a session with a websocket, and
\* one past its pop has a task at hand.
LEMMA BusyDrain ==
    ASSUME TypeInv, NEW d \in Drainer
    PROVE  /\ drain[d] \in DrainRec /\ DrainRefs(d)
           /\ drain[d].pc # "idle" => /\ drain[d].s \in Session
                                      /\ sock[drain[d].s] \in Session
           /\ drain[d].pc \in {"claim", "send", "mark"} =>
                /\ Head(drain[d].batch) \in Entry /\ Tail(drain[d].batch) \in Seq(Entry)
                /\ Head(drain[d].batch).task \in Task
<1>1. drain[d] \in DrainRec /\ DrainRefs(d)
  BY DEF TypeInv, TypeOK, Refs, DrainRefs, DrainRec
<1>2. drain[d].pc # "idle" => drain[d].s \in Session /\ sock[drain[d].s] \in Session
  BY <1>1, DeliveryAssumption DEF TypeInv, TypeOK, Refs, DrainRefs, Session
<1>3. ASSUME drain[d].pc \in {"claim", "send", "mark"}
      PROVE  /\ Head(drain[d].batch) \in Entry /\ Tail(drain[d].batch) \in Seq(Entry)
             /\ Head(drain[d].batch).task \in Task
  <2>1. drain[d].batch \in Seq(Entry) /\ drain[d].batch # <<>>
    BY <1>1, <1>3 DEF DrainRec, DrainRefs
  <2>2. Head(drain[d].batch) \in Entry /\ Tail(drain[d].batch) \in Seq(Entry)
    BY <2>1
  <2> QED
    BY <2>2 DEF Entry
<1> QED
  BY <1>1, <1>2, <1>3

\* What a session's dictionary holds after a task was put into it.
LEMMA MarkedTasks ==
    ASSUME NEW s, inflight[s] \in Seq(Entry), NEW o \in Entry
    PROVE  /\ Marked(s, o) \in Seq(Entry)
           /\ \A t : InList(Marked(s, o), t) <=> InList(inflight[s], t) \/ t = o.task
           /\ Once(inflight[s]) => Once(Marked(s, o))
<1> DEFINE l == inflight[s]
<1>1. CASE InList(l, o.task)
  <2> DEFINE m == [i \in DOMAIN l |-> IF l[i].task = o.task THEN o ELSE l[i]]
  <2>1. Marked(s, o) = m
    BY <1>1 DEF Marked
  <2>2. m \in Seq(Entry) /\ DOMAIN m = DOMAIN l /\ \A i \in DOMAIN l : m[i].task = l[i].task
    OBVIOUS
  <2> HIDE DEF m
  <2>3. \A t : InList(m, t) <=> InList(l, t)
    BY <2>2 DEF InList
  <2>4. Once(l) => Once(m)
    BY <2>2 DEF Once
  <2> QED
    BY <1>1, <2>1, <2>2, <2>3, <2>4
<1>2. CASE ~InList(l, o.task)
  <2>1. Marked(s, o) = Append(l, o)
    BY <1>2 DEF Marked
  <2> HIDE DEF l
  <2>2. l \in Seq(Entry)
    BY DEF l
  <2>3. /\ Append(l, o) \in Seq(Entry)
        /\ \A t : InList(Append(l, o), t) <=> InList(l, t) \/ t = o.task
        /\ Once(l) => Once(Append(l, o))
    BY <1>2, <2>2, Appended
  <2> QED
    BY <2>1, <2>3 DEF l
<1> QED
  BY <1>1, <1>2

\* The answer of a request is one of its answers.
LEMMA AnswerType ==
    ASSUME TypeOK, NEW d, NEW v \in {"sent", "unsent"}
    PROVE  Answered(d, v) \in [Task -> Api]
  BY DEF TypeOK, Answered, Api

\* The steps of a drain that does not fail keep the types.
LEMMA TypeDrainStep ==
    ASSUME TypeInv, NEW d \in Drainer, DrainPop(d) \/ DrainClaim(d) \/ SendOk(d) \/ MarkDispatched(d)
    PROVE  TypeInv'
<1> USE DEF TypeInv
<1>1. CASE DrainPop(d)
  <2> DEFINE taken == Taken(pending, PopLimit)
  <2>1. taken \in Seq(Entry) /\ pending' \in Seq(Entry) /\ processing' \in Seq(Entry)
    BY <1>1, Moved, DeliveryAssumption DEF DrainPop, TypeOK
  <2>2. UNCHANGED <<row, dropped, age, nsess, sock, inflight, reg, quiet, link, reaper, dev,
                    recoveries, torn, crashed, env>>
    BY <1>1 DEF DrainPop, sessVars, boundVars
  <2>3. drain[d] \in DrainRec /\ drain[d].pc = "pop" /\ drain[d].s \in 1 .. nsess
    BY <1>1, BusyDrain DEF DrainPop, DrainRefs
  <2>4. CASE taken = <<>>
    <3>1. /\ drain' = [drain EXCEPT ![d] = Idle] /\ api' = Answered(d, "sent")
          /\ handler' = [w \in Session |-> IF d = HelloDrain(w) THEN "loop" ELSE handler[w]]
          /\ cur' = [w \in Session |-> IF d = HelloDrain(w) THEN drain[d].s ELSE cur[w]]
      BY <1>1, <2>4 DEF DrainPop
    <3>2. drain' \in [Drainer -> DrainRec] /\ drain'[d] = Idle /\ \A e \in Drainer : e # d => drain'[e] = drain[e]
      BY <3>1, IdleTypes, DrainReplaced
    <3>3. handler' \in [Session -> {"none", "hello", "loop", "end"}]
      BY <3>1 DEF TypeOK
    <3>3a. cur' \in [Session -> 0 .. MaxSessions]
      BY <2>3, <3>1 DEF TypeOK, DrainRec
    <3>4. TypeOK'
      BY <2>1, <2>2, <3>1, <3>2, <3>3, <3>3a, AnswerType DEF TypeOK, DrainRec
    <3>5. ASSUME NEW w \in Session
          PROVE  cur'[w] \in 0 .. nsess /\ (handler'[w] = "loop" => cur'[w] # 0)
      <4>1. nsess \in Nat
        BY DeliveryAssumption DEF TypeOK
      <4>2. CASE d = HelloDrain(w)
        BY <2>3, <3>1, <4>1, <4>2
      <4>3. CASE d # HelloDrain(w)
        BY <3>1, <4>3 DEF Refs
      <4> QED
        BY <4>2, <4>3
    <3>6. ASSUME NEW w \in Session, drain'[HelloDrain(w)].pc # "idle"
          PROVE  drain'[HelloDrain(w)].s # cur'[w]
      <4>1. HelloDrain(w) \in Drainer
        BY Drainers
      <4>2. HelloDrain(w) # d
        BY <3>2, <3>6, IdleTypes
      <4> QED
        BY <3>1, <3>2, <3>6, <4>1, <4>2 DEF Refs
    <3>7. Refs'
      BY <2>2, <3>2, <3>5, <3>6, IdleTypes DEF Refs
    <3> QED
      BY <3>4, <3>7
  <2>5. CASE taken # <<>>
    <3> DEFINE v == [drain[d] EXCEPT !.pc = "claim", !.batch = taken]
    <3>1. /\ drain' = [drain EXCEPT ![d] = v] /\ UNCHANGED <<handler, cur, api>>
      BY <1>1, <2>5 DEF DrainPop, TypeOK
    <3>2. v \in DrainRec /\ v.pc = "claim" /\ v.batch = taken /\ v.s = drain[d].s
      BY <2>1, <2>3 DEF DrainRec
    <3> HIDE DEF v
    <3>3. drain' \in [Drainer -> DrainRec] /\ drain'[d] = v /\ \A e \in Drainer : e # d => drain'[e] = drain[e]
      BY <3>1, <3>2, DrainReplaced
    <3>4. TypeOK'
      BY <2>1, <2>2, <3>1, <3>3 DEF TypeOK, DrainRec
    <3>5. Refs'
      BY <2>2, <2>3, <2>5, <3>1, <3>2, <3>3, Drainers DEF Refs
    <3> QED
      BY <3>4, <3>5
  <2> QED
    BY <2>4, <2>5
<1>2. CASE DrainClaim(d)
  <2> DEFINE b == drain[d].batch
             tagged == [k \in DOMAIN b |-> [task |-> b[k].task, gen |-> row[b[k].task].gen]]
             v == [drain[d] EXCEPT !.pc = "send", !.batch = tagged]
  <2>1. drain[d] \in DrainRec /\ drain[d].pc = "claim" /\ drain[d].s \in 1 .. nsess
        /\ b \in Seq(Entry) /\ b # <<>>
    BY <1>2, BusyDrain DEF DrainClaim, DrainRefs, DrainRec
  <2>2. /\ drain' = [drain EXCEPT ![d] = v]
        /\ row' = [t \in Task |-> IF InList(b, t)
                     THEN [row[t] EXCEPT !.status = "dispatching", !.started = "fresh"] ELSE row[t]]
        /\ UNCHANGED <<pending, processing, dropped, age, api, nsess, sock, inflight, reg, quiet,
                       link, handler, cur, reaper, dev, recoveries, torn, crashed, env>>
    BY <1>2 DEF DrainClaim, TypeOK, sessVars, wsVars, boundVars
  <2>3. tagged \in Seq(Entry) /\ tagged # <<>>
    <3>0. \A k \in DOMAIN b : b[k] \in Entry
      BY <2>1
    <3>1. ASSUME NEW k \in DOMAIN b PROVE b[k].task \in Task /\ row[b[k].task].gen \in Int
      <4>1. b[k].task \in Task
        BY <3>0 DEF Entry
      <4>2. row[b[k].task] \in Row
        BY <4>1 DEF TypeOK
      <4> QED
        BY <4>1, <4>2 DEF Row
    <3>2. \A k \in DOMAIN b : [task |-> b[k].task, gen |-> row[b[k].task].gen] \in Entry
      BY <3>1 DEF Entry
    <3> HIDE DEF b
    <3> QED
      BY <2>1, <3>2
  <2> HIDE DEF tagged
  <2>4. v \in DrainRec /\ v.pc = "send" /\ v.batch = tagged /\ v.s = drain[d].s
    BY <2>1, <2>3 DEF DrainRec
  <2> HIDE DEF v
  <2>5. drain' \in [Drainer -> DrainRec] /\ drain'[d] = v /\ \A e \in Drainer : e # d => drain'[e] = drain[e]
    BY <2>2, <2>4, DrainReplaced
  <2>6. row' \in [Task -> Row]
    <3>1. \A t \in Task : /\ row[t] \in Row
                          /\ [row[t] EXCEPT !.status = "dispatching", !.started = "fresh"] \in Row
      BY RowUpdates DEF TypeOK, Status
    <3> QED
      BY <2>2, <3>1
  <2>7. TypeOK'
    BY <2>2, <2>5, <2>6 DEF TypeOK, DrainRec
  <2>8. Refs'
    BY <2>1, <2>2, <2>3, <2>4, <2>5, Drainers DEF Refs
  <2> QED
    BY <2>7, <2>8
<1>3. CASE SendOk(d)
  <2> DEFINE v == [drain[d] EXCEPT !.pc = "mark"]
  <2>1. drain[d] \in DrainRec /\ drain[d].pc = "send" /\ drain[d].s \in 1 .. nsess
        /\ drain[d].batch # <<>>
    BY <1>3, BusyDrain DEF SendOk, DrainRefs
  <2>2. /\ drain' = [drain EXCEPT ![d] = v]
        /\ UNCHANGED <<storeVars, age, api, nsess, sock, inflight, reg, quiet,
                       link, handler, cur, reaper, recoveries, torn, crashed, env>>
    BY <1>3 DEF SendOk, TypeOK, sessVars, wsVars, boundVars
  <2>3. v \in DrainRec /\ v.pc = "mark" /\ v.batch = drain[d].batch /\ v.s = drain[d].s
    BY <2>1 DEF DrainRec
  <2> HIDE DEF v
  <2>4. drain' \in [Drainer -> DrainRec] /\ drain'[d] = v /\ \A e \in Drainer : e # d => drain'[e] = drain[e]
    BY <2>2, <2>3, DrainReplaced
  <2>5. dev' \in [Task -> Dev]
    BY <1>3 DEF SendOk, Received, Vanished, TypeOK, Dev
  <2>6. TypeOK'
    BY <2>2, <2>4, <2>5 DEF TypeOK, DrainRec, storeVars
  <2>7. Refs'
    BY <2>1, <2>2, <2>3, <2>4, Drainers DEF Refs
  <2> QED
    BY <2>6, <2>7
<1>4. CASE MarkDispatched(d)
  <2> DEFINE o == Head(drain[d].batch)
             s == drain[d].s
             rest == Tail(drain[d].batch)
             v == [drain[d] EXCEPT !.pc = IF rest = <<>> THEN "pop" ELSE "send", !.batch = rest]
  <2>1. drain[d] \in DrainRec /\ drain[d].pc = "mark" /\ s \in 1 .. nsess /\ s \in Session
        /\ o \in Entry /\ rest \in Seq(Entry) /\ o.task \in Task
    BY <1>4, BusyDrain DEF MarkDispatched, DrainRefs
  <2>2. /\ drain' = [drain EXCEPT ![d] = v]
        /\ inflight' = [inflight EXCEPT ![s] = Marked(s, o)]
        /\ row' = [row EXCEPT ![o.task].status = "dispatched"]
        /\ UNCHANGED <<pending, processing, dropped, age, api, nsess, sock, reg, quiet,
                       link, handler, cur, reaper, dev, recoveries, torn, crashed, env>>
    BY <1>4 DEF MarkDispatched, TypeOK, wsVars, boundVars
  <2>3. v \in DrainRec /\ v.pc \in {"pop", "send"} /\ v.batch = rest /\ v.s = s
        /\ (v.pc = "send" => rest # <<>>)
    BY <2>1 DEF DrainRec
  <2>4. Marked(s, o) \in Seq(Entry)
    BY <2>1, MarkedTasks DEF TypeOK
  <2> HIDE DEF v, o, s, rest
  <2>5. drain' \in [Drainer -> DrainRec] /\ drain'[d] = v /\ \A e \in Drainer : e # d => drain'[e] = drain[e]
    BY <2>2, <2>3, DrainReplaced
  <2>6. inflight' \in [Session -> Seq(Entry)]
    BY <2>1, <2>2, <2>4 DEF TypeOK
  <2>7. row' \in [Task -> Row]
    BY <2>1, <2>2, RowUpdates DEF TypeOK, Status
  <2>8. TypeOK'
    BY <2>2, <2>5, <2>6, <2>7 DEF TypeOK, DrainRec
  <2>9. drain[d].pc # "idle"
    BY <2>1
  <2>10. ASSUME NEW w \in Session, drain'[HelloDrain(w)].pc # "idle"
         PROVE  drain'[HelloDrain(w)].s # cur'[w]
    <3>1. HelloDrain(w) \in Drainer /\ v.s = drain[d].s
      BY <2>3, Drainers DEF s
    <3>2. CASE HelloDrain(w) = d
      BY <2>2, <2>5, <2>9, <3>1, <3>2 DEF Refs
    <3>3. CASE HelloDrain(w) # d
      BY <2>2, <2>5, <2>10, <3>1, <3>3 DEF Refs
    <3> QED
      BY <3>2, <3>3
  <2>11. Refs'
    BY <2>1, <2>2, <2>3, <2>5, <2>10, Drainers DEF Refs
  <2> QED
    BY <2>8, <2>11
<1> QED
  BY <1>1, <1>2, <1>3, <1>4

\* The types of what a step does to the store, the sessions and a coroutine
\* that puts tasks back.
LEMMA PutBackTypes ==
    ASSUME TypeInv, NEW T \in Seq(Entry), StoreBecomes(RequeueOutstanding(Store, T))
    PROVE  /\ pending' \in Seq(Entry) /\ processing' \in Seq(Entry)
           /\ row' \in [Task -> Row] /\ dropped' \in SUBSET Task
<1>1. RequeueOutstanding(Store, T) \in StoreType
  BY StoreHasType, OutstandingFields DEF TypeInv
<1> QED
  BY <1>1, StoreTaken

\* Unregistering leaves the registry empty or as it was.
LEMMA UnregisterTypes ==
    ASSUME TypeOK, NEW w, Unregister(w), nsess' = nsess
    PROVE  reg' \in 0 .. nsess' /\ quiet' \in BOOLEAN
<1>1. nsess \in Nat /\ 0 \in 0 .. nsess
  BY DeliveryAssumption DEF TypeOK
<1>2. (reg' = 0 /\ quiet' = FALSE) \/ (reg' = reg /\ quiet' = quiet)
  BY DEF Unregister
<1> QED
  BY <1>1, <1>2 DEF TypeOK

\* Taking what a session holds in flight.
LEMMA EmptiedTypes ==
    ASSUME TypeOK, NEW s
    PROVE  /\ Emptied(s) \in [Session -> Seq(Entry)]
           /\ \A r \in Session : Emptied(s)[r] = IF r = s THEN <<>> ELSE inflight[r]
<1>1. <<>> \in Seq(Entry)
  OBVIOUS
<1> QED
  BY <1>1 DEF TypeOK, Emptied

\* The session of an earlier hello: one at most, and not the one that is
\* drained into.
LEMMA EarlierSession ==
    ASSUME TypeInv, NEW d \in Drainer
    PROVE  /\ Earlier(d) \in SUBSET Session
           /\ \A r, s \in Earlier(d) : r = s
           /\ drain[d].pc # "idle" => drain[d].s \notin Earlier(d)
<1> USE DEF TypeInv
<1>1. ASSUME NEW w \in Session, d = HelloDrain(w)
      PROVE  Earlier(d) = {cur[w]} \ {0}
  BY <1>1, Drainers DEF Earlier
<1>2. \A w \in Session : cur[w] # 0 => cur[w] \in Session
  BY DeliveryAssumption DEF TypeOK, Refs, Session
<1>3. ASSUME NEW w \in Session, d = HelloDrain(w)
      PROVE  /\ Earlier(d) \in SUBSET Session
             /\ \A r, s \in Earlier(d) : r = s
             /\ drain[d].pc # "idle" => drain[d].s \notin Earlier(d)
  BY <1>1, <1>2, <1>3 DEF Refs
<1>4. CASE \A w \in Session : d # HelloDrain(w)
  BY <1>4 DEF Earlier
<1> QED
  BY <1>3, <1>4

\* What follows a failed send keeps the types, whatever well-typed lists
\* and sessions it leaves.
LEMMA SendFailTypes ==
    ASSUME TypeInv, NEW d \in Drainer, drain[d].pc = "send",
           pending' \in Seq(Entry), processing' \in Seq(Entry),
           row' \in [Task -> Row], dropped' \in SUBSET Task, torn' \in SUBSET Task,
           inflight' \in [Session -> Seq(Entry)],
           Unregister(sock[drain[d].s]),
           IF d = HelloDrain(sock[drain[d].s])
           THEN /\ handler' = [handler EXCEPT ![sock[drain[d].s]] = "end"]
                /\ link' = [link EXCEPT ![sock[drain[d].s]] = "closed"]
           ELSE UNCHANGED <<handler, link>>,
           drain' = [drain EXCEPT ![d] = Idle],
           api' = Answered(d, "unsent"),
           UNCHANGED <<age, nsess, sock, cur, reaper, dev, recoveries, crashed, env>>
    PROVE  TypeInv'
<1> USE DEF TypeInv
<1> DEFINE w == sock[drain[d].s]
<1>1. drain' \in [Drainer -> DrainRec] /\ drain'[d] = Idle /\ \A e \in Drainer : e # d => drain'[e] = drain[e]
  BY IdleTypes, DrainReplaced
<1>2. reg' \in 0 .. nsess' /\ quiet' \in BOOLEAN
  BY UnregisterTypes
<1>3. \/ /\ handler' = [handler EXCEPT ![w] = "end"]
         /\ link' = [link EXCEPT ![w] = "closed"]
      \/ handler' = handler /\ link' = link
  OBVIOUS
<1> HIDE DEF w
<1>4. /\ handler' \in [Session -> {"none", "hello", "loop", "end"}]
      /\ link' \in [Session -> {"none", "up", "dead", "closed"}]
      /\ \A v \in Session : handler'[v] \in {"hello", "loop"} => handler'[v] = handler[v]
  BY <1>3 DEF TypeOK
<1>5. TypeOK'
  BY <1>1, <1>2, <1>4, AnswerType DEF TypeOK, DrainRec
<1>6. Refs'
  BY <1>1, <1>4, IdleTypes, Drainers DEF Refs
<1> QED
  BY <1>5, <1>6

\* A failed send keeps the types.
LEMMA TypeSendFail ==
    ASSUME TypeInv, NEW d \in Drainer, SendFail(d)
    PROVE  TypeInv'
<1> USE DEF TypeInv
<1> DEFINE rest == Tail(drain[d].batch)
           mid == RequeueOutstanding(Store, Failed(d))
<1>1. /\ drain[d].s \in Session /\ Head(drain[d].batch) \in Entry /\ rest \in Seq(Entry)
  BY BusyDrain DEF SendFail
<1>2. Failed(d) \in Seq(Entry)
  BY <1>1 DEF Failed, TypeOK
<1>3. mid \in StoreType
  BY <1>2, StoreHasType, OutstandingFields
<1>4. RequeueOutstanding(mid, rest) \in StoreType
  BY <1>1, <1>3, OutstandingFields
<1>5. /\ pending' \in Seq(Entry) /\ processing' \in Seq(Entry)
      /\ row' \in [Task -> Row] /\ dropped' \in SUBSET Task
  BY <1>4, StoreTaken DEF SendFail
<1>6. inflight' \in [Session -> Seq(Entry)]
  BY EmptiedTypes DEF SendFail
<1>7. torn' \in SUBSET Task
  BY DEF SendFail, TypeOK, boundVars
<1> QED
  BY <1>5, <1>6, <1>7, SendFailTypes DEF SendFail, boundVars

\* A requeue that breaks off leaves a store.
LEMMA BreaksOffTypes ==
    ASSUME TypeInv, NEW d \in Drainer, NEW st \in StoreType, NEW T \in Seq(Entry),
           BreaksOff(st, T, d)
    PROVE  /\ pending' \in Seq(Entry) /\ processing' \in Seq(Entry)
           /\ row' \in [Task -> Row] /\ dropped' \in SUBSET Task
           /\ torn' \in SUBSET Task
<1>1. PICK k \in Breaks(st, T) :
        /\ torn' = torn \cup Missing(st, T, k)
        /\ IF Earlier(d) = {}
           THEN StoreBecomes(BrokenOff(st, T, k))
           ELSE \E s \in Earlier(d) :
                  StoreBecomes(RequeueOutstanding(BrokenOff(st, T, k), inflight[s]))
  BY DEF BreaksOff
<1>2. BrokenOff(st, T, k) \in StoreType /\ Missing(st, T, k) \in SUBSET Task
  BY <1>1, BrokenOffFields
<1>3. ASSUME NEW s \in Earlier(d)
      PROVE  RequeueOutstanding(BrokenOff(st, T, k), inflight[s]) \in StoreType
  <2>1. inflight[s] \in Seq(Entry)
    BY <1>3, EarlierSession DEF TypeInv, TypeOK
  <2> QED
    BY <1>2, <2>1, OutstandingFields
<1>4. torn' \in SUBSET Task
  BY <1>1, <1>2 DEF TypeInv, TypeOK
<1> QED
  BY <1>1, <1>2, <1>3, <1>4, StoreTaken

\* So does a failed send whose requeue breaks off.
LEMMA TypeSendFailTorn ==
    ASSUME TypeInv, NEW d \in Drainer, SendFailTorn(d)
    PROVE  TypeInv'
<1> USE DEF TypeInv
<1> DEFINE rest == Tail(drain[d].batch)
           mid == RequeueOutstanding(Store, Failed(d))
<1>1. /\ drain[d].s \in Session /\ Head(drain[d].batch) \in Entry /\ rest \in Seq(Entry)
  BY BusyDrain DEF SendFailTorn
<1>2. Failed(d) \in Seq(Entry) /\ Store \in StoreType
  BY <1>1, StoreHasType DEF Failed, TypeOK
<1>3. mid \in StoreType
  BY <1>2, OutstandingFields
<1>4. BreaksOff(Store, Failed(d), d) \/ BreaksOff(mid, rest, d)
  BY DEF SendFailTorn
<1> HIDE DEF mid, rest
<1>5. /\ pending' \in Seq(Entry) /\ processing' \in Seq(Entry)
      /\ row' \in [Task -> Row] /\ dropped' \in SUBSET Task
      /\ torn' \in SUBSET Task
  BY <1>1, <1>2, <1>3, <1>4, BreaksOffTypes
<1>6. inflight' \in [Session -> Seq(Entry)]
  <2>1. <<>> \in Seq(Entry)
    OBVIOUS
  <2>2. inflight' = [r \in Session |-> IF r \in {drain[d].s} \cup Earlier(d) THEN <<>>
                                                                       ELSE inflight[r]]
    BY DEF SendFailTorn
  <2> QED
    BY <2>1, <2>2 DEF TypeOK
<1> QED
  BY <1>5, <1>6, SendFailTypes DEF SendFailTorn

\* A new session is registered.
LEMMA RegisteredTypes ==
    ASSUME TypeInv, nsess < MaxSessions, NEW w \in Session, NEW l \in {"up", "closed"}, Registered(w, l)
    PROVE  /\ nsess' = nsess + 1 /\ nsess' \in 0 .. MaxSessions /\ nsess' \in Session
           /\ sock' \in [Session -> 0 .. MaxSessions] /\ reg' \in 0 .. nsess'
           /\ reg' = nsess + 1
           /\ \A s \in 1 .. nsess' : sock'[s] \in Session
           /\ \A s \in Session : s # nsess' => sock'[s] = sock[s]
           /\ sock'[nsess'] = w
           /\ quiet' = FALSE
           /\ link' \in [Session -> {"none", "up", "dead", "closed"}]
<1>1. nsess \in Nat /\ MaxSessions \in Nat /\ w \in 0 .. MaxSessions
  BY DeliveryAssumption DEF TypeInv, TypeOK, Session
<1>2. /\ nsess' = nsess + 1 /\ sock' = [sock EXCEPT ![nsess + 1] = w] /\ reg' = nsess + 1 /\ quiet' = FALSE
  BY DEF Registered
<1>3. link' \in [Session -> {"none", "up", "dead", "closed"}]
  <2>1. \A v \in Session : link'[v] \in {l, "closed", link[v]}
    BY DEF Registered
  <2>2. link' = [v \in Session |-> link'[v]]
    BY DEF Registered
  <2> QED
    BY <2>1, <2>2 DEF TypeInv, TypeOK
<1>4. nsess + 1 \in Session /\ nsess' \in 0 .. MaxSessions
  BY <1>1, <1>2 DEF Session
<1>5. sock' \in [Session -> 0 .. MaxSessions] /\ sock'[nsess + 1] = w /\ \A s \in Session : s # nsess + 1 => sock'[s] = sock[s]
  BY <1>1, <1>2, <1>4 DEF TypeInv, TypeOK
<1>6. ASSUME NEW s \in 1 .. nsess' PROVE sock'[s] \in Session
  <2>1. s \in Session /\ (s = nsess + 1 \/ s \in 1 .. nsess)
    BY <1>1, <1>2, <1>4 DEF Session
  <2> QED
    BY <1>5, <2>1 DEF TypeInv, Refs
<1>7. reg' \in 0 .. nsess'
  BY <1>1, <1>2
<1> QED
  BY <1>2, <1>3, <1>4, <1>5, <1>6, <1>7

\* A hello that is acknowledged keeps the types.
LEMMA TypeGreeted ==
    ASSUME TypeInv, nsess < MaxSessions, NEW w \in Session, Greeted(w)
    PROVE  TypeInv'
<1> USE DEF TypeInv
<1>1. /\ nsess' = nsess + 1 /\ nsess' \in 0 .. MaxSessions /\ nsess' \in Session
      /\ sock' \in [Session -> 0 .. MaxSessions] /\ reg' \in 0 .. nsess'
      /\ \A s \in 1 .. nsess' : sock'[s] \in Session
      /\ quiet' = FALSE
      /\ link' \in [Session -> {"none", "up", "dead", "closed"}]
  BY RegisteredTypes DEF Greeted
<1>2. /\ handler' = [handler EXCEPT ![w] = "hello"]
      /\ drain' = [drain EXCEPT ![HelloDrain(w)] = StartedOn(nsess + 1)]
      /\ UNCHANGED <<pending, processing, row, dropped, age, api, inflight, cur, reaper, dev,
                     recoveries, torn, crashed, env>>
  BY DEF Greeted, storeVars, boundVars
<1>3. StartedOn(nsess + 1) \in DrainRec /\ StartedOn(nsess + 1).pc = "pop" /\ StartedOn(nsess + 1).s = nsess'
  BY <1>1, IdleTypes
<1>4. /\ drain' \in [Drainer -> DrainRec] /\ drain'[HelloDrain(w)] = StartedOn(nsess + 1)
      /\ \A e \in Drainer : e # HelloDrain(w) => drain'[e] = drain[e]
  BY <1>2, <1>3, Drainers, DrainReplaced
<1>5. /\ handler' \in [Session -> {"none", "hello", "loop", "end"}]
      /\ \A v \in Session : handler'[v] = "loop" => handler[v] = "loop"
  BY <1>1, <1>2 DEF TypeOK
<1>6. TypeOK'
  BY <1>1, <1>2, <1>4, <1>5 DEF TypeOK, DrainRec
<1>7. nsess \in Nat
  BY DeliveryAssumption DEF TypeOK
<1>8. ASSUME NEW v \in Session
      PROVE  cur'[v] \in 0 .. nsess' /\ (handler'[v] = "loop" => cur'[v] # 0)
  <2>1. cur[v] \in 0 .. nsess'
    BY <1>1, <1>7 DEF Refs
  <2> QED
    BY <1>2, <1>5, <2>1 DEF Refs
<1>9. ASSUME NEW e \in Drainer
      PROVE  /\ drain'[e].pc # "idle" => drain'[e].s \in 1 .. nsess'
             /\ drain'[e].pc \in {"claim", "send", "mark"} => drain'[e].batch # <<>>
  <2>1. CASE e = HelloDrain(w)
    BY <1>1, <1>3, <1>4, <1>7, <2>1
  <2>2. CASE e # HelloDrain(w)
    BY <1>1, <1>4, <1>7, <2>2 DEF Refs
  <2> QED
    BY <2>1, <2>2
<1>10. ASSUME NEW v \in Session, drain'[HelloDrain(v)].pc # "idle"
       PROVE  drain'[HelloDrain(v)].s # cur'[v]
  <2>1. HelloDrain(v) \in Drainer /\ cur'[v] = cur[v] /\ cur[v] \in 0 .. nsess
    BY <1>2, Drainers DEF Refs
  <2>2. CASE HelloDrain(v) = HelloDrain(w)
    <3>1. drain'[HelloDrain(v)] = drain'[HelloDrain(w)]
      BY <2>2
    <3>2. drain'[HelloDrain(w)].s = nsess + 1
      BY <1>1, <1>3, <1>4
    <3>3. cur[v] # nsess + 1
      BY <1>7, <2>1
    <3> QED
      BY <2>1, <3>1, <3>2, <3>3
  <2>3. CASE HelloDrain(v) # HelloDrain(w)
    BY <1>4, <1>10, <2>1, <2>3 DEF Refs
  <2> QED
    BY <2>2, <2>3
<1>11. Refs'
  BY <1>1, <1>2, <1>8, <1>9, <1>10 DEF Refs
<1> QED
  BY <1>6, <1>11

\* So does one whose hello_ack cannot be sent.
LEMMA TypeHelloAckFails ==
    ASSUME TypeInv, HelloAckFails
    PROVE  TypeInv'
<1> USE DEF TypeInv
<1> DEFINE w == nsess + 1
<1>0. nsess \in Nat /\ MaxSessions \in Nat /\ nsess < MaxSessions /\ w \in Session
  <2>1. nsess \in Nat /\ MaxSessions \in Nat /\ nsess + 1 < MaxSessions
    BY DeliveryAssumption DEF HelloAckFails, TypeOK
  <2> QED
    BY <2>1 DEF Session
<1>1. /\ nsess' = nsess + 1 /\ nsess' \in 0 .. MaxSessions /\ nsess' \in Session
      /\ sock' \in [Session -> 0 .. MaxSessions] /\ reg' \in 0 .. nsess'
      /\ \A s \in 1 .. nsess' : sock'[s] \in Session
      /\ quiet' = FALSE
      /\ link' \in [Session -> {"none", "up", "dead", "closed"}]
  BY <1>0, RegisteredTypes DEF HelloAckFails
<1>2. /\ handler' = [handler EXCEPT ![w] = "end"]
      /\ UNCHANGED <<pending, processing, row, dropped, age, api, inflight, cur, drain, reaper, dev,
                     recoveries, torn, crashed, env>>
  BY DEF HelloAckFails, storeVars, boundVars
<1>3. /\ handler' \in [Session -> {"none", "hello", "loop", "end"}]
      /\ \A v \in Session : handler'[v] \in {"hello", "loop"} => handler'[v] = handler[v]
  BY <1>0, <1>2 DEF TypeOK
<1>4. TypeOK'
  BY <1>1, <1>2, <1>3 DEF TypeOK
<1>5. \A n : n \in 0 .. nsess => n \in 0 .. nsess'
  BY <1>0, <1>1
<1>6. \A n : n \in 1 .. nsess => n \in 1 .. nsess'
  BY <1>0, <1>1
<1>7. Refs'
  BY <1>1, <1>2, <1>3, <1>5, <1>6 DEF Refs
<1> QED
  BY <1>4, <1>7

\* The handler that ends, whatever well-typed lists it leaves.
LEMMA HandlerEndsTypes ==
    ASSUME TypeInv, NEW w \in Session, NEW closed, HandlerEnds(w, closed),
           pending' \in Seq(Entry), processing' \in Seq(Entry),
           row' \in [Task -> Row], dropped' \in SUBSET Task, torn' \in SUBSET Task,
           reg' \in 0 .. nsess', quiet' \in BOOLEAN
    PROVE  TypeInv'
<1> USE DEF TypeInv
<1>1. /\ inflight' = Emptied(cur[w])
      /\ link' = [v \in Session |-> IF v \in closed THEN "closed" ELSE link[v]]
      /\ handler' = [handler EXCEPT ![w] = "end"]
      /\ UNCHANGED <<age, api, nsess, sock, cur, drain, reaper, dev, recoveries, crashed, env>>
  BY DEF HandlerEnds
<1>2. inflight' \in [Session -> Seq(Entry)]
  BY <1>1, EmptiedTypes
<1>3. link' \in [Session -> {"none", "up", "dead", "closed"}]
  BY <1>1 DEF TypeOK
<1>4. /\ handler' \in [Session -> {"none", "hello", "loop", "end"}]
      /\ \A v \in Session : handler'[v] \in {"hello", "loop"} => handler'[v] = handler[v]
  BY <1>1 DEF TypeOK
<1>5. TypeOK'
  BY <1>1, <1>2, <1>3, <1>4 DEF TypeOK
<1>6. Refs'
  BY <1>1, <1>4 DEF Refs
<1> QED
  BY <1>5, <1>6

\* What the session of a handler that is leaving holds is a list.
LEMMA OwnTasks ==
    ASSUME TypeInv, NEW w \in Session, handler[w] = "loop"
    PROVE  cur[w] \in Session /\ inflight[cur[w]] \in Seq(Entry)
<1>1. cur[w] \in 0 .. MaxSessions /\ cur[w] # 0
  BY DEF TypeInv, TypeOK, Refs
<1>2. cur[w] \in Session
  BY <1>1, DeliveryAssumption DEF Session
<1> QED
  BY <1>2 DEF TypeInv, TypeOK

\* The handler that ends and puts back what its session holds.
LEMMA FinallyTypes ==
    ASSUME TypeInv, NEW w \in Session, handler[w] = "loop", NEW closed, Finally(w, closed),
           reg' \in 0 .. nsess', quiet' \in BOOLEAN
    PROVE  TypeInv'
<1>1. /\ pending' \in Seq(Entry) /\ processing' \in Seq(Entry)
      /\ row' \in [Task -> Row] /\ dropped' \in SUBSET Task
  BY OwnTasks, PutBackTypes DEF Finally
<1>2. torn' \in SUBSET Task
  BY DEF Finally, TypeInv, TypeOK
<1> QED
  BY <1>1, <1>2, HandlerEndsTypes DEF Finally

\* The handler that ends and whose requeue breaks off.
LEMMA TypeDisconnectTorn ==
    ASSUME TypeInv, NEW w \in Session, DisconnectTorn(w)
    PROVE  TypeInv'
<1> DEFINE T == inflight[cur[w]]
<1>1. T \in Seq(Entry) /\ Store \in StoreType
  BY OwnTasks, StoreHasType DEF DisconnectTorn, Leaves, TypeInv
<1>2. PICK k \in Breaks(Store, T) : StoreBecomes(BrokenOff(Store, T, k))
                                   /\ torn' = torn \cup Missing(Store, T, k)
  BY DEF DisconnectTorn
<1> HIDE DEF T
<1>3. BrokenOff(Store, T, k) \in StoreType /\ Missing(Store, T, k) \in SUBSET Task
  BY <1>1, <1>2, BrokenOffFields
<1>4. /\ pending' \in Seq(Entry) /\ processing' \in Seq(Entry)
      /\ row' \in [Task -> Row] /\ dropped' \in SUBSET Task
  BY <1>2, <1>3, StoreTaken
<1>5. torn' \in SUBSET Task
  BY <1>2, <1>3 DEF TypeInv, TypeOK
<1>6. reg' \in 0 .. nsess' /\ quiet' \in BOOLEAN
  BY DEF DisconnectTorn, HandlerEnds, TypeInv, TypeOK
<1> QED
  BY <1>4, <1>5, <1>6, HandlerEndsTypes DEF DisconnectTorn

\* The steps of the device_ws coroutine keep the types.
LEMMA TypeSocketStep ==
    ASSUME TypeInv, NEW w \in Session,
           Hello \/ HelloAckFails \/ HelloAgain(w) \/ HelloAgainAckFails(w) \/ Disconnect(w)
             \/ DisconnectTorn(w) \/ Heartbeat(w)
    PROVE  TypeInv'
<1> USE DEF TypeInv
<1>1. CASE Hello
  <2>1. nsess \in Nat /\ MaxSessions \in Nat /\ nsess < MaxSessions /\ Greeted(nsess + 1)
    BY <1>1, DeliveryAssumption DEF Hello, TypeOK
  <2>2. nsess + 1 \in Session
    BY <2>1 DEF Session
  <2> QED
    BY <2>1, <2>2, TypeGreeted
<1>2. CASE HelloAckFails
  BY <1>2, TypeHelloAckFails
<1>3. CASE HelloAgain(w)
  BY <1>3, TypeGreeted DEF HelloAgain
<1>4. CASE HelloAgainAckFails(w)
  <2>1. reg' = 0 /\ quiet' = FALSE /\ nsess' = nsess /\ nsess \in Nat
    BY <1>4, DeliveryAssumption DEF HelloAgainAckFails, Finally, HandlerEnds, TypeOK
  <2>2. reg' \in 0 .. nsess'
    BY <2>1
  <2> QED
    BY <1>4, <2>1, <2>2, FinallyTypes DEF HelloAgainAckFails
<1>5. CASE Disconnect(w)
  <2>1. reg' \in 0 .. nsess' /\ quiet' \in BOOLEAN
    BY <1>5, UnregisterTypes DEF Disconnect, Finally, HandlerEnds
  <2> QED
    BY <1>5, <2>1, FinallyTypes DEF Disconnect, Leaves
<1>5a. CASE DisconnectTorn(w)
  BY <1>5a, TypeDisconnectTorn
<1>6. CASE Heartbeat(w)
  <2>1. TypeOK'
    BY <1>6 DEF Heartbeat, TypeOK, storeVars, wsVars, boundVars
  <2>2. Refs'
    BY <1>6 DEF Heartbeat, Refs, wsVars, boundVars
  <2> QED
    BY <2>1, <2>2
<1> QED
  BY <1>1, <1>2, <1>3, <1>4, <1>5, <1>5a, <1>6

\* The steps of the stale reaper keep the types; it moves an entry only while
\* the bound on recoveries allows.
LEMMA TypeReaperStep ==
    ASSUME TypeInv, ReaperScan \/ ReaperCheck \/ ReaperMove \/ ReaperMark \/ ReaperDeliver
    PROVE  TypeInv'
<1> USE DEF TypeInv
<1>0. reaper \in ReaperRec
  BY DEF TypeOK, ReaperRec
<1>1. CASE ReaperScan
  <2>1. reaper' \in ReaperRec /\ reaper'.pc = "check"
    BY <1>1 DEF ReaperScan, TypeOK, ReaperRec
  <2>2. UNCHANGED <<pending, processing, row, dropped, age, api, nsess, sock, inflight, reg, quiet,
                    link, handler, cur, drain, dev, recoveries, torn, crashed, env>>
    BY <1>1 DEF ReaperScan, storeVars, sessVars, wsVars, boundVars
  <2>3. TypeOK'
    BY <2>1, <2>2 DEF TypeOK, ReaperRec
  <2>4. Refs'
    BY <2>1, <2>2 DEF Refs
  <2> QED
    BY <2>3, <2>4
<1>2. CASE ReaperCheck
  <2>1. /\ reaper.todo # <<>> /\ reaper.pc = "check"
        /\ \/ reaper' = [reaper EXCEPT !.pc = "move"] /\ recoveries < env.recoveries
           \/ reaper' = [reaper EXCEPT !.todo = Tail(@)]
    BY <1>2 DEF ReaperCheck
  <2>2. UNCHANGED <<pending, processing, row, dropped, age, api, nsess, sock, inflight, reg, quiet,
                    link, handler, cur, drain, dev, recoveries, torn, crashed, env>>
    BY <1>2 DEF ReaperCheck, storeVars, sessVars, wsVars, boundVars
  <2>3. reaper' \in ReaperRec
    <3>1. reaper.todo \in Seq(Entry) /\ Tail(reaper.todo) \in Seq(Entry)
      BY <1>0, <2>1 DEF ReaperRec
    <3> QED
      BY <1>0, <2>1, <3>1 DEF ReaperRec
  <2>4. \/ reaper'.pc = "move" /\ reaper'.todo = reaper.todo /\ recoveries < env.recoveries
        \/ reaper'.pc = "check"
    BY <1>0, <2>1 DEF ReaperRec
  <2>5. TypeOK'
    BY <2>2, <2>3 DEF TypeOK, ReaperRec
  <2>6. Refs'
    BY <2>1, <2>2, <2>4 DEF Refs
  <2> QED
    BY <2>5, <2>6
<1>3. CASE ReaperMove
  <2> DEFINE e == Head(reaper.todo)
  <2>1. /\ reaper.todo # <<>> /\ reaper.pc = "move" /\ recoveries < env.recoveries
        /\ reaper.todo \in Seq(Entry) /\ e \in Entry /\ Tail(reaper.todo) \in Seq(Entry)
    <3>1. reaper.todo # <<>> /\ reaper.pc = "move" /\ recoveries < env.recoveries
      BY <1>3 DEF ReaperMove, Refs
    <3>2. reaper.todo \in Seq(Entry)
      BY <1>0 DEF ReaperRec
    <3> QED
      BY <3>1, <3>2
  <2>2. UNCHANGED <<row, dropped, age, api, nsess, sock, inflight, reg, quiet,
                    link, handler, cur, drain, dev, torn, crashed, env>>
    BY <1>3 DEF ReaperMove, sessVars, wsVars
  <2>3. \/ /\ processing' = RemoveEqual(processing, e)
           /\ pending' = <<e>> \o pending
           /\ recoveries' = recoveries + 1
           /\ reaper' = [reaper EXCEPT !.pc = "mark", !.moved = TRUE]
        \/ /\ reaper' = [reaper EXCEPT !.pc = "check", !.todo = Tail(@)]
           /\ UNCHANGED <<processing, pending, recoveries>>
    BY <1>3 DEF ReaperMove
  <2> HIDE DEF e
  <2>4. RemoveEqual(processing, e) \in Seq(Entry) /\ <<e>> \o pending \in Seq(Entry)
    <3>1. RemoveEqual(processing, e) \in Seq(Entry)
      BY EqualRemoved DEF TypeOK
    <3>2. <<e>> \in Seq(Entry)
      BY <2>1
    <3> QED
      BY <3>1, <3>2 DEF TypeOK
  <2>5. recoveries + 1 \in 0 .. env.recoveries
    BY <2>1, DeliveryAssumption DEF TypeOK
  <2>6. /\ reaper' \in ReaperRec
        /\ \/ reaper'.pc = "mark" /\ reaper'.todo = reaper.todo
           \/ reaper'.pc = "check" /\ recoveries' = recoveries
    BY <1>0, <2>1, <2>3 DEF ReaperRec
  <2>7. TypeOK'
    BY <2>2, <2>3, <2>4, <2>5, <2>6 DEF TypeOK, ReaperRec
  <2>8. Refs'
    BY <2>1, <2>2, <2>6 DEF Refs
  <2> QED
    BY <2>7, <2>8
<1>4. CASE ReaperMark
  <2>1. reaper.todo # <<>> /\ reaper.todo \in Seq(Entry) /\ reaper.pc = "mark"
    BY <1>0, <1>4 DEF ReaperMark, Refs, ReaperRec
  <2>2. Head(reaper.todo) \in Entry /\ Tail(reaper.todo) \in Seq(Entry)
    BY <2>1
  <2> DEFINE t == Head(reaper.todo).task
  <2>3. t \in Task /\ row[t] \in Row
    BY <2>2 DEF Entry, TypeOK
  <2> HIDE DEF t
  <2>4. row' \in [Task -> Row]
    <3>1. row' = [row EXCEPT ![t] = [row[t] EXCEPT !.status = "queued", !.gen = @ + 1, !.started = "none"]]
      BY <1>4, <2>3 DEF ReaperMark, TypeOK, Row, t
    <3> QED
      BY <2>3, <3>1, RowUpdates DEF TypeOK
  <2>5. reaper' \in ReaperRec /\ reaper'.pc = "check"
    BY <1>0, <1>4, <2>2 DEF ReaperMark, ReaperRec
  <2>6. UNCHANGED <<pending, processing, dropped, age, api, nsess, sock, inflight, reg, quiet,
                    link, handler, cur, drain, dev, recoveries, torn, crashed, env>>
    BY <1>4 DEF ReaperMark, sessVars, wsVars, boundVars
  <2>7. TypeOK'
    BY <2>4, <2>5, <2>6 DEF TypeOK, ReaperRec
  <2>8. Refs'
    BY <2>5, <2>6 DEF Refs
  <2> QED
    BY <2>7, <2>8
<1>5. CASE ReaperDeliver
  <2>1. /\ reaper' = Asleep
        /\ drain' = drain \/ (reg # 0 /\ drain' = [drain EXCEPT ![ReaperDrain] = StartedOn(reg)])
        /\ UNCHANGED <<pending, processing, row, dropped, age, api, nsess, sock, inflight, reg, quiet,
                       link, handler, cur, dev, recoveries, torn, crashed, env>>
    BY <1>5 DEF ReaperDeliver, storeVars, sessVars, wsVars, boundVars
  <2>2. reg # 0 => reg \in 1 .. nsess /\ reg \in 0 .. MaxSessions
    BY DeliveryAssumption DEF TypeOK
  <2>3. /\ drain' \in [Drainer -> DrainRec]
        /\ \A d \in Drainer : drain'[d] = drain[d] \/ (d = ReaperDrain /\ reg # 0 /\ drain'[d] = StartedOn(reg))
    <3>1. CASE drain' = drain
      BY <3>1 DEF TypeOK, DrainRec
    <3>2. CASE reg # 0 /\ drain' = [drain EXCEPT ![ReaperDrain] = StartedOn(reg)]
      BY <2>2, <3>2, DrainReplaced, IdleTypes, Drainers
    <3> QED
      BY <2>1, <3>1, <3>2
  <2>4. TypeOK'
    BY <2>1, <2>3, IdleTypes DEF TypeOK, ReaperRec, DrainRec
  <2>5. Refs'
    BY <2>1, <2>2, <2>3, Drainers, IdleTypes DEF Refs
  <2> QED
    BY <2>4, <2>5
<1> QED
  BY <1>1, <1>2, <1>3, <1>4, <1>5

\* The registered session and its websocket.
LEMMA RegisteredSocket ==
    ASSUME TypeInv, reg # 0
    PROVE  reg \in Session /\ sock[reg] \in Session
<1>1. reg \in 1 .. nsess /\ reg \in Session
  BY DeliveryAssumption DEF TypeInv, TypeOK, Session
<1> QED
  BY <1>1 DEF TypeInv, Refs

\* Evicting a zombie session keeps the types, also when its requeue breaks
\* off.
LEMMA TypeZombie ==
    ASSUME TypeInv, ZombieEvict \/ ZombieEvictTorn
    PROVE  TypeInv'
<1> USE DEF TypeInv
<1>1. /\ reg # 0 /\ inflight[reg] \in Seq(Entry) /\ Store \in StoreType
      /\ Evicted
  BY RegisteredSocket, StoreHasType DEF ZombieEvict, ZombieEvictTorn, ZombieDue, TypeOK
<1>2. /\ inflight' = Emptied(reg)
      /\ link' = [link EXCEPT ![sock[reg]] = "closed"]
      /\ reg' = 0 /\ quiet' = FALSE
      /\ UNCHANGED <<age, api, nsess, sock, handler, cur, drain, reaper, dev, recoveries, crashed, env>>
  BY <1>1 DEF Evicted
<1>3. /\ pending' \in Seq(Entry) /\ processing' \in Seq(Entry)
      /\ row' \in [Task -> Row] /\ dropped' \in SUBSET Task /\ torn' \in SUBSET Task
  <2>1. CASE ZombieEvict
    <3>1. Requeue(Store, inflight[reg]) \in StoreType
      BY <1>1, RequeueFields
    <3>2. torn' \in SUBSET Task /\ StoreBecomes(Requeue(Store, inflight[reg]))
      BY <2>1 DEF ZombieEvict, TypeOK
    <3> QED
      BY <3>1, <3>2, StoreTaken
  <2>2. CASE ZombieEvictTorn
    <3>1. PICK k \in 0 .. Len(inflight[reg]) :
             /\ StoreBecomes(TakenOut(Store, SubSeq(inflight[reg], 1, k)))
             /\ torn' = torn \cup TasksOf(SubSeq(inflight[reg], 1, k))
      BY <2>2 DEF ZombieEvictTorn
    <3>2. /\ SubSeq(inflight[reg], 1, k) \in Seq(Entry)
          /\ TasksOf(SubSeq(inflight[reg], 1, k)) \in SUBSET Task
      BY <1>1, <3>1, Prefix
    <3>3. TakenOut(Store, SubSeq(inflight[reg], 1, k)) \in StoreType
      BY <1>1, <3>2, TakenOutFields
    <3>4. torn' \in SUBSET Task
      BY <3>1, <3>2 DEF TypeOK
    <3> QED
      BY <3>1, <3>3, <3>4, StoreTaken
  <2> QED
    BY <2>1, <2>2
<1>4. 0 \in 0 .. nsess' /\ nsess \in Nat
  BY <1>2, DeliveryAssumption DEF TypeOK
<1>5. link' \in [Session -> {"none", "up", "dead", "closed"}] /\ inflight' \in [Session -> Seq(Entry)]
  <2>1. inflight' \in [Session -> Seq(Entry)]
    BY <1>2, EmptiedTypes
  <2> QED
    BY <1>2, <2>1 DEF TypeOK
<1>6. TypeOK'
  BY <1>2, <1>3, <1>4, <1>5 DEF TypeOK
<1>7. Refs'
  BY <1>2 DEF Refs
<1> QED
  BY <1>6, <1>7

\* A crash keeps the types.
LEMMA TypeCrash ==
    ASSUME TypeInv, Crash
    PROVE  TypeInv'
<1> USE DEF TypeInv
<1>1. /\ api' = [t \in Task |-> IF api[t] \in {"idle", "sent"} THEN api[t] ELSE "unsent"]
      /\ inflight' = [s \in Session |-> <<>>]
      /\ reg' = 0 /\ quiet' = FALSE
      /\ link' = [w \in Session |-> IF w <= nsess THEN "closed" ELSE "none"]
      /\ handler' = [w \in Session |-> IF w <= nsess THEN "end" ELSE "none"]
      /\ drain' = [d \in Drainer |-> Idle]
      /\ reaper' = Asleep
      /\ UNCHANGED <<pending, processing, row, dropped, age, nsess, sock, cur, dev, recoveries, torn, env>>
      /\ crashed' = TRUE
  BY DEF Crash, storeVars
<1>2. 0 \in 0 .. nsess' /\ <<>> \in Seq(Entry)
  BY <1>1, DeliveryAssumption DEF TypeOK
<1>3. inflight' \in [Session -> Seq(Entry)] /\ api' \in [Task -> Api]
  BY <1>1, <1>2 DEF TypeOK, Api
<1>4. drain' \in [Drainer -> DrainRec] /\ reaper' \in ReaperRec
  BY <1>1, IdleTypes
<1>5. TypeOK'
  BY <1>1, <1>2, <1>3, <1>4 DEF TypeOK, DrainRec, ReaperRec
<1>6. /\ \A d \in Drainer : drain'[d].pc = "idle"
      /\ reaper'.pc = "sleep"
      /\ \A w \in Session : handler'[w] \in {"none", "end"}
  BY <1>1, IdleTypes
<1>7. Refs'
  BY <1>1, <1>6, Drainers DEF Refs
<1> QED
  BY <1>5, <1>7

\* What the network, the device and time do keeps the types.
LEMMA TypeEnvStep ==
    ASSUME TypeInv, EnvStep
    PROVE  TypeInv'
<1> USE DEF TypeInv
<1>1. ASSUME NEW w \in Session, LinkDies(w) PROVE TypeInv'
  <2>1. TypeOK'
    BY <1>1 DEF LinkDies, TypeOK, storeVars, sessVars, boundVars
  <2>2. Refs'
    BY <1>1 DEF LinkDies, Refs, storeVars, sessVars, boundVars
  <2> QED
    BY <2>1, <2>2
<1>2. ASSUME NEW t \in Task, FinishUnreported(t) PROVE TypeInv'
  <2>1. TypeOK'
    BY <1>2 DEF FinishUnreported, Finished, TypeOK, Dev, storeVars, sessVars, wsVars, boundVars
  <2>2. Refs'
    BY <1>2 DEF FinishUnreported, Refs, storeVars, sessVars, wsVars, boundVars
  <2> QED
    BY <2>1, <2>2
<1>3. CASE Silence
  <2>1. TypeOK'
    BY <1>3 DEF Silence, TypeOK, storeVars, wsVars, boundVars
  <2>2. Refs'
    BY <1>3 DEF Silence, Refs, wsVars, boundVars
  <2> QED
    BY <2>1, <2>2
<1>4. CASE TimePasses
  <2>1. age' \in [Task -> {"new", "old", "over"}]
    BY <1>4 DEF TimePasses, Older, TypeOK
  <2>2. row' \in [Task -> Row]
    <3>1. \A t \in Task : row[t] \in Row /\ [row[t] EXCEPT !.started = "stale"] \in Row
      BY RowUpdates DEF TypeOK
    <3> QED
      BY <1>4, <3>1 DEF TimePasses
  <2>3. TypeOK'
    BY <1>4, <2>1, <2>2 DEF TimePasses, TypeOK, sessVars, wsVars, boundVars
  <2>4. Refs'
    BY <1>4 DEF TimePasses, Refs, sessVars, wsVars, boundVars
  <2> QED
    BY <2>3, <2>4
<1>5. CASE Crash
  BY <1>5, TypeCrash
<1> QED
  BY <1>1, <1>2, <1>3, <1>4, <1>5 DEF EnvStep

\* A motion event keeps the types.
LEMMA TypeMotionEvent ==
    ASSUME TypeInv, NEW w \in Session, NEW t \in Task, NEW phase \in {"running", "done"}, MotionEvent(w, t, phase)
    PROVE  TypeInv'
<1> USE DEF TypeInv
<1>1. row' \in [Task -> Row]
  BY RowUpdates DEF MotionEvent, TypeOK, Status
<1>2. dev' \in [Task -> Dev]
  BY DEF MotionEvent, Finished, TypeOK, Dev
<1>3. TypeOK'
  BY <1>1, <1>2 DEF MotionEvent, TypeOK, sessVars, wsVars, boundVars
<1>4. Refs'
  BY DEF MotionEvent, Refs, sessVars, wsVars, boundVars
<1> QED
  BY <1>3, <1>4

\* Every step keeps the types.
LEMMA TypeStep ==
    ASSUME TypeInv, [Next]_vars
    PROVE  TypeInv'
<1>1. CASE ThreadStep
  BY <1>1, TypeApiStep, TypeReaperStep DEF ThreadStep
<1>2. CASE EnvStep
  BY <1>2, TypeEnvStep
<1>3. ASSUME NEW d \in Drainer, DrainClaim(d) PROVE TypeInv'
  BY <1>3, TypeDrainStep
<1>4. CASE LoopStep
  <2>1. ASSUME NEW t \in Task, ApiDeliver(t) PROVE TypeInv'
    BY <2>1, TypeApiStep
  <2>2. ASSUME NEW d \in Drainer, Draining(d) PROVE TypeInv'
    BY <2>2, TypeDrainStep, TypeSendFail, TypeSendFailTorn DEF Draining
  <2>3. CASE Hello
    <3>1. nsess \in Nat /\ MaxSessions \in Nat /\ nsess < MaxSessions
      BY <2>3, DeliveryAssumption DEF Hello, TypeInv, TypeOK
    <3>2. nsess + 1 \in Session
      BY <3>1 DEF Session
    <3> QED
      BY <2>3, <3>2, TypeSocketStep
  <2>4. CASE HelloAckFails
    BY <2>4, TypeHelloAckFails
  <2>5. ASSUME NEW w \in Session,
               HelloAgain(w) \/ HelloAgainAckFails(w) \/ Heartbeat(w) \/ Disconnect(w) \/ DisconnectTorn(w)
        PROVE  TypeInv'
    BY <2>5, TypeSocketStep
  <2>6. ASSUME NEW w \in Session, NEW t \in Task, NEW phase \in {"running", "done"}, MotionEvent(w, t, phase)
        PROVE  TypeInv'
    BY <2>6, TypeMotionEvent
  <2>7. CASE ReaperDeliver
    BY <2>7, TypeReaperStep
  <2>8. CASE ZombieEvict \/ ZombieEvictTorn
    BY <2>8, TypeZombie
  <2> QED
    BY <1>4, <2>1, <2>2, <2>3, <2>4, <2>5, <2>6, <2>7, <2>8 DEF LoopStep
<1>5. CASE UNCHANGED vars
  <2> USE <1>5 DEF vars, storeVars, sessVars, wsVars, boundVars
  <2>1. TypeOK'
    BY DEF TypeInv, TypeOK
  <2>2. Refs'
    BY DEF TypeInv, Refs
  <2> QED
    BY <2>1, <2>2 DEF TypeInv
<1> QED
  BY <1>1, <1>2, <1>3, <1>4, <1>5 DEF Next

\* The variables have their types, every session that was opened has a
\* websocket, and a coroutine in the middle of something has something in its
\* hands: so the code's unguarded reads (the head of a batch, the session of
\* a drain) are of things that exist.
THEOREM TypeCorrect == Spec => []TypeInv
<1> QED
  BY TypeInit, TypeStep, PTL DEF Spec
-----------------------------------------------------------------------------
(* No task is lost.                                                        *)

OnList(t) == InList(pending, t) \/ InList(processing, t)

\* What keeps every task: none leaves the lists but those given up on, or
\* taken out by a requeue that breaks off.
LEMMA KeptStep ==
    ASSUME NoTaskLost, torn \subseteq torn',
           \A t \in Task : api'[t] # "idle" => api[t] # "idle",
           dropped \subseteq dropped',
           \A t \in Task : OnList(t) => OnList(t)' \/ t \in dropped' \cup torn'
    PROVE  NoTaskLost'
  BY DEF NoTaskLost, OnList

\* A requeue puts back what it takes out.
LEMMA RequeueKeeps ==
    ASSUME NEW st \in StoreType, NEW T \in Seq(Entry), NEW t,
           InList(st.pending, t) \/ InList(st.processing, t)
    PROVE  InList(Requeue(st, T).pending, t) \/ InList(Requeue(st, T).processing, t)
<1>1. InList(T \o st.pending, t) <=> InList(T, t) \/ InList(st.pending, t)
  BY Joined DEF StoreType
<1>2. InList(st.processing, t) /\ ~InList(T, t) => InList(RemoveTasks(st.processing, T), t)
  BY TasksRemoved DEF StoreType
<1> QED
  BY <1>1, <1>2, RequeueFields

\* Requeue_session_outstanding loses no task: what it does not put back it
\* gives up on by name.
LEMMA OutstandingKeeps ==
    ASSUME NEW st \in StoreType, NEW T \in Seq(Entry)
    PROVE  LET new == RequeueOutstanding(st, T)
           IN  /\ st.dropped \subseteq new.dropped
               /\ \A t : InList(st.pending, t) \/ InList(st.processing, t) =>
                    InList(new.pending, t) \/ InList(new.processing, t) \/ t \in new.dropped
<1> DEFINE new == RequeueOutstanding(st, T)
           gone == Pick(T, OverLimit(st, T))
           kept == Kept(st, T)
           mid == RemoveTasks(st.processing, gone)
<1>1. /\ gone \in Seq(Entry) /\ kept \in Seq(Entry) /\ new.pending = kept \o st.pending
      /\ new.processing = RemoveTasks(mid, kept)
      /\ new.dropped = st.dropped \cup TasksOf(gone)
  BY OutstandingFields
<1> HIDE DEF new, gone, kept
<1>2. ASSUME NEW t, InList(st.pending, t) \/ InList(st.processing, t)
      PROVE  InList(new.pending, t) \/ InList(new.processing, t) \/ t \in new.dropped
  <2>1. InList(kept \o st.pending, t) <=> InList(kept, t) \/ InList(st.pending, t)
    BY <1>1, Joined DEF StoreType
  <2>2. mid \in Seq(Entry) /\ (InList(st.processing, t) /\ ~InList(gone, t) => InList(mid, t))
    BY <1>1, TasksRemoved DEF StoreType
  <2> HIDE DEF mid
  <2>3. InList(mid, t) /\ ~InList(kept, t) => InList(RemoveTasks(mid, kept), t)
    BY <1>1, <2>2, TasksRemoved
  <2>4. InList(gone, t) => t \in TasksOf(gone)
    BY DEF InList, TasksOf
  <2> QED
    BY <1>1, <1>2, <2>1, <2>2, <2>3, <2>4
<1> QED
  BY <1>1, <1>2 DEF new

\* One that breaks off loses no task but the missing ones.
LEMMA BrokenOffKeeps ==
    ASSUME NEW st \in StoreType, NEW T \in Seq(Entry), NEW k \in Breaks(st, T)
    PROVE  LET new == BrokenOff(st, T, k)
           IN  /\ st.dropped \subseteq new.dropped
               /\ \A t : InList(st.pending, t) \/ InList(st.processing, t) =>
                    InList(new.pending, t) \/ InList(new.processing, t)
                      \/ t \in new.dropped \cup Missing(st, T, k)
<1> DEFINE new == BrokenOff(st, T, k)
           gone == Pick(T, OverLimit(st, T))
           out == SubSeq(Kept(st, T), 1, k)
           mid == RemoveTasks(st.processing, gone)
<1>1. /\ gone \in Seq(Entry) /\ out \in Seq(Entry) /\ new.pending = st.pending
      /\ new.processing = RemoveTasks(mid, out)
      /\ new.dropped = st.dropped \cup TasksOf(gone)
      /\ \A t : InList(out, t) => t \in Missing(st, T, k)
  BY BrokenOffFields, AbandonedFields
<1> HIDE DEF new, gone, out
<1>2. ASSUME NEW t, InList(st.pending, t) \/ InList(st.processing, t)
      PROVE  InList(new.pending, t) \/ InList(new.processing, t)
               \/ t \in new.dropped \cup Missing(st, T, k)
  <2>1. mid \in Seq(Entry) /\ (InList(st.processing, t) /\ ~InList(gone, t) => InList(mid, t))
    BY <1>1, TasksRemoved DEF StoreType
  <2> HIDE DEF mid
  <2>2. InList(mid, t) /\ ~InList(out, t) => InList(RemoveTasks(mid, out), t)
    BY <1>1, <2>1, TasksRemoved
  <2>3. InList(gone, t) => t \in TasksOf(gone)
    BY DEF InList, TasksOf
  <2> QED
    BY <1>1, <1>2, <2>1, <2>2, <2>3
<1> QED
  BY <1>1, <1>2 DEF new

\* A store that keeps the tasks of another, but for those of X.
Keeps(old, new, X) ==
    /\ old.dropped \subseteq new.dropped
    /\ \A t : InList(old.pending, t) \/ InList(old.processing, t) =>
         InList(new.pending, t) \/ InList(new.processing, t) \/ t \in new.dropped \cup X

\* The same, of the step that does it.
LEMMA PutBackKeeps ==
    ASSUME TypeInv, NEW T \in Seq(Entry), StoreBecomes(RequeueOutstanding(Store, T))
    PROVE  /\ dropped \subseteq dropped'
           /\ \A t \in Task : OnList(t) => OnList(t)' \/ t \in dropped'
<1>1. Store \in StoreType
  BY StoreHasType DEF TypeInv
<1> QED
  BY <1>1, OutstandingKeeps DEF StoreBecomes, OnList, Store

\* A drain whose requeue breaks off loses the missing tasks only.
LEMMA BreaksOffKeeps ==
    ASSUME TypeInv, NEW d \in Drainer, NEW st \in StoreType, NEW T \in Seq(Entry),
           Keeps(Store, st, {}), BreaksOff(st, T, d)
    PROVE  /\ torn \subseteq torn' /\ dropped \subseteq dropped'
           /\ \A t \in Task : OnList(t) => OnList(t)' \/ t \in dropped' \cup torn'
<1>1. PICK k \in Breaks(st, T) :
        /\ torn' = torn \cup Missing(st, T, k)
        /\ IF Earlier(d) = {}
           THEN StoreBecomes(BrokenOff(st, T, k))
           ELSE \E s \in Earlier(d) :
                  StoreBecomes(RequeueOutstanding(BrokenOff(st, T, k), inflight[s]))
  BY DEF BreaksOff
<1> DEFINE x == BrokenOff(st, T, k)
           X == Missing(st, T, k)
<1>2. x \in StoreType
  BY <1>1, BrokenOffFields
<1>3. Keeps(Store, x, X)
  <2>1. Keeps(st, x, X)
    BY <1>1, BrokenOffKeeps DEF Keeps
  <2> QED
    BY <2>1 DEF Keeps
<1> HIDE DEF x, X
<1>4. ASSUME NEW s \in Earlier(d) PROVE Keeps(Store, RequeueOutstanding(x, inflight[s]), X)
  <2> DEFINE y == RequeueOutstanding(x, inflight[s])
  <2>1. inflight[s] \in Seq(Entry)
    BY <1>4, EarlierSession DEF TypeInv, TypeOK
  <2>2. /\ x.dropped \subseteq y.dropped
        /\ \A t : InList(x.pending, t) \/ InList(x.processing, t) =>
             InList(y.pending, t) \/ InList(y.processing, t) \/ t \in y.dropped
    BY <1>2, <2>1, OutstandingKeeps
  <2> HIDE DEF y
  <2>3. Keeps(Store, y, X)
    BY <1>3, <2>2 DEF Keeps
  <2> QED
    BY <2>3 DEF y
<1>5. PICK y : StoreBecomes(y) /\ Keeps(Store, y, X)
  BY <1>1, <1>3, <1>4 DEF x
<1>6. torn' = torn \cup X
  BY <1>1 DEF X
<1> QED
  BY <1>5, <1>6 DEF Keeps, StoreBecomes, Store, OnList

\* The verdict of a drain starts no request.
LEMMA AnswerKeepsIdle ==
    ASSUME NEW d, NEW v, api' = Answered(d, v), NEW t \in Task, api'[t] # "idle"
    PROVE  api[t] # "idle"
  BY DEF Answered

\* No step of a drain loses a task.
LEMMA KeptByDrain ==
    ASSUME TypeInv, NoTaskLost, NEW d \in Drainer, DrainPop(d) \/ DrainClaim(d) \/ SendOk(d) \/ MarkDispatched(d)
             \/ SendFail(d) \/ SendFailTorn(d)
    PROVE  NoTaskLost'
<1> USE DEF TypeInv
<1>1. CASE DrainPop(d)
  <2> DEFINE taken == Taken(pending, PopLimit)
  <2>1. pending' = AfterTake(pending, PopLimit) /\ processing' = MovedOnto(processing, taken)
    BY <1>1 DEF DrainPop
  <2>2. /\ \A t : InList(pending, t) <=> InList(taken, t) \/ InList(pending', t)
        /\ \A t : InList(processing', t) <=> InList(taken, t) \/ InList(processing, t)
    BY <2>1, Moved, DeliveryAssumption DEF TypeOK
  <2>3. \A t \in Task : OnList(t) => OnList(t)'
    BY <2>2 DEF OnList
  <2>4. \A t \in Task : api'[t] # "idle" => api[t] # "idle"
    BY <1>1, AnswerKeepsIdle DEF DrainPop
  <2>5. UNCHANGED <<dropped, torn>>
    BY <1>1 DEF DrainPop, boundVars
  <2> QED
    BY <2>3, <2>4, <2>5, KeptStep
<1>2. CASE DrainClaim(d) \/ SendOk(d) \/ MarkDispatched(d)
  BY <1>2 DEF DrainClaim, SendOk, MarkDispatched, NoTaskLost, storeVars, boundVars
<1>3. CASE SendFail(d)
  <2> DEFINE rest == Tail(drain[d].batch)
             mid == RequeueOutstanding(Store, Failed(d))
             new == RequeueOutstanding(mid, rest)
  <2>1. /\ drain[d].s \in Session /\ Head(drain[d].batch) \in Entry /\ rest \in Seq(Entry)
    BY <1>3, BusyDrain DEF SendFail
  <2>2. Failed(d) \in Seq(Entry)
    BY <2>1 DEF Failed, TypeOK
  <2>3. Store \in StoreType /\ mid \in StoreType
    BY <2>2, StoreHasType, OutstandingFields
  <2>4. /\ dropped \subseteq mid.dropped
        /\ \A t : InList(pending, t) \/ InList(processing, t) =>
             InList(mid.pending, t) \/ InList(mid.processing, t) \/ t \in mid.dropped
    BY <2>2, <2>3, OutstandingKeeps DEF Store
  <2> HIDE DEF mid, rest
  <2>5. /\ mid.dropped \subseteq new.dropped
        /\ \A t : InList(mid.pending, t) \/ InList(mid.processing, t) =>
             InList(new.pending, t) \/ InList(new.processing, t) \/ t \in new.dropped
    BY <2>1, <2>3, OutstandingKeeps
  <2>6. StoreBecomes(new)
    BY <1>3 DEF SendFail, mid, rest
  <2> HIDE DEF new
  <2>7. dropped \subseteq dropped' /\ \A t \in Task : OnList(t) => OnList(t)' \/ t \in dropped'
    BY <2>4, <2>5, <2>6 DEF StoreBecomes, OnList
  <2>8. \A t \in Task : api'[t] # "idle" => api[t] # "idle"
    BY <1>3, AnswerKeepsIdle DEF SendFail
  <2>9. UNCHANGED torn
    BY <1>3 DEF SendFail, boundVars
  <2> QED
    BY <2>7, <2>8, <2>9, KeptStep
<1>4. CASE SendFailTorn(d)
  <2> DEFINE rest == Tail(drain[d].batch)
             mid == RequeueOutstanding(Store, Failed(d))
  <2>1. /\ drain[d].s \in Session /\ Head(drain[d].batch) \in Entry /\ rest \in Seq(Entry)
    BY <1>4, BusyDrain DEF SendFailTorn
  <2>2. Failed(d) \in Seq(Entry)
    BY <2>1 DEF Failed, TypeOK
  <2>3. Store \in StoreType /\ mid \in StoreType
    BY <2>2, StoreHasType, OutstandingFields
  <2>4. Keeps(Store, mid, {}) /\ Keeps(Store, Store, {})
    BY <2>2, <2>3, OutstandingKeeps DEF Keeps
  <2>5. BreaksOff(Store, Failed(d), d) \/ BreaksOff(mid, rest, d)
    BY <1>4 DEF SendFailTorn
  <2> HIDE DEF mid, rest
  <2>6. /\ torn \subseteq torn' /\ dropped \subseteq dropped'
        /\ \A t \in Task : OnList(t) => OnList(t)' \/ t \in dropped' \cup torn'
    BY <2>1, <2>2, <2>3, <2>4, <2>5, BreaksOffKeeps
  <2>7. \A t \in Task : api'[t] # "idle" => api[t] # "idle"
    BY <1>4, AnswerKeepsIdle DEF SendFailTorn
  <2> QED
    BY <2>6, <2>7, KeptStep
<1> QED
  BY <1>1, <1>2, <1>3, <1>4

\* No command of a thread does.
LEMMA KeptByThread ==
    ASSUME TypeInv, NoTaskLost, ThreadStep
    PROVE  NoTaskLost'
<1> USE DEF TypeInv
<1>1. ASSUME NEW t \in Task, EnqueuePush(t) PROVE NoTaskLost'
  <2>1. /\ pending' = Append(pending, [task |-> t, gen |-> -1])
        /\ api' = [api EXCEPT ![t] = "pushed"]
        /\ UNCHANGED <<processing, dropped, torn>>
    BY <1>1 DEF EnqueuePush, boundVars
  <2>2. [task |-> t, gen |-> -1] \in Entry
    BY DEF Entry
  <2>3. \A u : InList(pending', u) <=> InList(pending, u) \/ u = t
    BY <2>1, <2>2, Appended DEF TypeOK
  <2>4. \A u \in Task : api'[u] # "idle" => u = t \/ api[u] # "idle"
    BY <2>1 DEF TypeOK
  <2> QED
    BY <2>1, <2>3, <2>4 DEF NoTaskLost
<1>2. ASSUME NEW t \in Task, EnqueueMark(t) PROVE NoTaskLost'
  <2>1. UNCHANGED <<pending, processing, dropped, torn>> /\ api[t] = "pushed"
        /\ api' = [api EXCEPT ![t] = "marked"]
    BY <1>2 DEF EnqueueMark, boundVars
  <2>2. \A u \in Task : api'[u] # "idle" => api[u] # "idle"
    BY <2>1 DEF TypeOK
  <2> QED
    BY <2>1, <2>2 DEF NoTaskLost
<1>3. ASSUME NEW t \in Task, ExpireQueued(t) PROVE NoTaskLost'
  <2>1. PICK i \in At(pending, t) : pending' = RemoveFirstEqual(pending, pending[i])
    BY <1>3 DEF ExpireQueued
  <2>2. i \in DOMAIN pending /\ pending[i].task = t
    BY <2>1 DEF At
  <2>3. \A u : InList(pending, u) /\ u # t => InList(pending', u)
    BY <2>1, <2>2, FirstEqualRemoved DEF TypeOK
  <2>4. dropped' = dropped \cup {t} /\ UNCHANGED <<processing, api, torn>>
    BY <1>3 DEF ExpireQueued, boundVars
  <2>5. \A u \in Task : OnList(u) => OnList(u)' \/ u \in dropped'
    BY <2>3, <2>4 DEF OnList
  <2> QED
    BY <2>4, <2>5, KeptStep
<1>4. CASE ReaperMove
  <2> DEFINE e == Head(reaper.todo)
  <2>1. UNCHANGED <<dropped, api, torn>>
    BY <1>4 DEF ReaperMove
  <2>2. \/ processing' = RemoveEqual(processing, e) /\ pending' = <<e>> \o pending
        \/ UNCHANGED <<processing, pending>>
    BY <1>4 DEF ReaperMove
  <2>3. e \in Entry
    <3>1. reaper.todo # <<>> /\ reaper.todo \in Seq(Entry)
      BY <1>4 DEF ReaperMove, Refs, TypeOK
    <3> QED
      BY <3>1
  <2> HIDE DEF e
  <2>4. ASSUME processing' = RemoveEqual(processing, e), pending' = <<e>> \o pending
        PROVE  \A t \in Task : OnList(t) => OnList(t)'
    <3>1. \A t : InList(processing, t) /\ t # e.task => InList(processing', t)
      BY <2>4, EqualRemoved DEF TypeOK
    <3>2. <<e>> \in Seq(Entry) /\ InList(<<e>>, e.task)
      BY <2>3 DEF InList
    <3>3. \A t : InList(pending', t) <=> InList(<<e>>, t) \/ InList(pending, t)
      BY <2>4, <3>2, Joined DEF TypeOK
    <3> QED
      BY <3>1, <3>2, <3>3 DEF OnList
  <2>5. \A t \in Task : OnList(t) => OnList(t)'
    BY <2>2, <2>4 DEF OnList
  <2> QED
    BY <2>1, <2>5, KeptStep
<1>5. CASE ReaperScan \/ ReaperCheck \/ ReaperMark
  BY <1>5 DEF ReaperScan, ReaperCheck, ReaperMark, NoTaskLost, storeVars, boundVars
<1> QED
  BY <1>1, <1>2, <1>3, <1>4, <1>5 DEF ThreadStep

\* No step of the event loop does.
LEMMA KeptByLoop ==
    ASSUME TypeInv, NoTaskLost, LoopStep
    PROVE  NoTaskLost'
<1> USE DEF TypeInv
<1>1. ASSUME NEW t \in Task, ApiDeliver(t) PROVE NoTaskLost'
  <2>1. UNCHANGED <<pending, processing, dropped, torn>> /\ api[t] = "marked"
    BY <1>1 DEF ApiDeliver, storeVars, boundVars
  <2>2. api' = [api EXCEPT ![t] = "unsent"] \/ api' = [api EXCEPT ![t] = "drain"]
    BY <1>1 DEF ApiDeliver
  <2>3. \A u \in Task : api'[u] # "idle" => api[u] # "idle"
    BY <2>1, <2>2 DEF TypeOK
  <2> QED
    BY <2>1, <2>3 DEF NoTaskLost
<1>2. ASSUME NEW d \in Drainer, Draining(d) PROVE NoTaskLost'
  BY <1>2, KeptByDrain DEF Draining
<1>3. CASE Hello
  BY <1>3 DEF Hello, Greeted, NoTaskLost, storeVars, boundVars
<1>4. CASE HelloAckFails
  BY <1>4 DEF HelloAckFails, NoTaskLost, storeVars, boundVars
<1>5. ASSUME NEW w \in Session, HelloAgain(w) PROVE NoTaskLost'
  BY <1>5 DEF HelloAgain, Greeted, NoTaskLost, storeVars, boundVars
<1>6. ASSUME NEW w \in Session, HelloAgainAckFails(w) \/ Disconnect(w) PROVE NoTaskLost'
  <2>1. /\ StoreBecomes(RequeueOutstanding(Store, inflight[cur[w]]))
        /\ handler[w] = "loop"
        /\ UNCHANGED <<api, torn>>
    BY <1>6 DEF HelloAgainAckFails, Disconnect, Leaves, Finally, HandlerEnds
  <2>2. inflight[cur[w]] \in Seq(Entry)
    <3>1. cur[w] \in Session
      BY <2>1, DeliveryAssumption DEF TypeOK, Refs, Session
    <3> QED
      BY <3>1 DEF TypeOK
  <2> QED
    BY <2>1, <2>2, PutBackKeeps, KeptStep
<1>7. ASSUME NEW w \in Session, Heartbeat(w) PROVE NoTaskLost'
  BY <1>7 DEF Heartbeat, NoTaskLost, storeVars, boundVars
<1>8. ASSUME NEW w \in Session, DisconnectTorn(w) PROVE NoTaskLost'
  <2> DEFINE T == inflight[cur[w]]
  <2>1. T \in Seq(Entry) /\ Store \in StoreType
    BY <1>8, OwnTasks, StoreHasType DEF DisconnectTorn, Leaves
  <2>2. PICK k \in Breaks(Store, T) : StoreBecomes(BrokenOff(Store, T, k))
                                     /\ torn' = torn \cup Missing(Store, T, k)
    BY <1>8 DEF DisconnectTorn
  <2> HIDE DEF T
  <2>3. Keeps(Store, BrokenOff(Store, T, k), Missing(Store, T, k))
    BY <2>1, <2>2, BrokenOffKeeps DEF Keeps
  <2>4. /\ torn \subseteq torn' /\ dropped \subseteq dropped'
        /\ \A t \in Task : OnList(t) => OnList(t)' \/ t \in dropped' \cup torn'
    BY <2>2, <2>3 DEF Keeps, StoreBecomes, Store, OnList
  <2>5. UNCHANGED api
    BY <1>8 DEF DisconnectTorn, HandlerEnds
  <2> QED
    BY <2>4, <2>5, KeptStep
<1>9. ASSUME NEW w \in Session, NEW t \in Task, NEW phase \in {"running", "done"}, MotionEvent(w, t, phase)
      PROVE  NoTaskLost'
  BY <1>9 DEF MotionEvent, NoTaskLost, boundVars
<1>10. CASE ReaperDeliver
  BY <1>10 DEF ReaperDeliver, NoTaskLost, storeVars, boundVars
<1>11. CASE ZombieEvict
  <2>1. inflight[reg] \in Seq(Entry) /\ Store \in StoreType
    BY <1>11, RegisteredSocket, StoreHasType DEF ZombieEvict, ZombieDue, TypeOK
  <2>2. StoreBecomes(Requeue(Store, inflight[reg])) /\ UNCHANGED <<api, torn>>
    BY <1>11 DEF ZombieEvict, Evicted
  <2>3. \A t \in Task : OnList(t) => OnList(t)'
    BY <2>1, <2>2, RequeueKeeps DEF StoreBecomes, OnList, Store
  <2>4. dropped' = dropped
    BY <2>1, <2>2, RequeueFields DEF StoreBecomes, Store
  <2> QED
    BY <2>2, <2>3, <2>4, KeptStep
<1>12. CASE ZombieEvictTorn
  <2>1. inflight[reg] \in Seq(Entry) /\ Store \in StoreType
    BY <1>12, RegisteredSocket, StoreHasType DEF ZombieEvictTorn, ZombieDue, TypeOK
  <2>2. PICK k \in 0 .. Len(inflight[reg]) :
           /\ StoreBecomes(TakenOut(Store, SubSeq(inflight[reg], 1, k)))
           /\ torn' = torn \cup TasksOf(SubSeq(inflight[reg], 1, k))
    BY <1>12 DEF ZombieEvictTorn
  <2> DEFINE out == SubSeq(inflight[reg], 1, k)
  <2>3. out \in Seq(Entry) /\ \A t : InList(out, t) => t \in TasksOf(out)
    BY <2>1, <2>2, Prefix
  <2>4. StoreBecomes(TakenOut(Store, out)) /\ torn' = torn \cup TasksOf(out)
    BY <2>2
  <2> HIDE DEF out
  <2>5. /\ UNCHANGED <<pending, dropped>>
        /\ processing' = RemoveTasks(processing, out)
    BY <2>1, <2>3, <2>4, TakenOutFields DEF StoreBecomes, Store
  <2>6. \A t : InList(processing, t) /\ ~InList(out, t) => InList(RemoveTasks(processing, out), t)
    BY <2>3, TasksRemoved DEF TypeOK
  <2>7. \A t \in Task : OnList(t) => OnList(t)' \/ t \in dropped' \cup torn'
    BY <2>3, <2>4, <2>5, <2>6 DEF OnList
  <2>8. torn \subseteq torn' /\ UNCHANGED api
    BY <1>12, <2>4 DEF ZombieEvictTorn, Evicted
  <2> QED
    BY <2>5, <2>7, <2>8, KeptStep
<1> QED
  BY <1>1, <1>2, <1>3, <1>4, <1>5, <1>6, <1>7, <1>8, <1>9, <1>10, <1>11, <1>12 DEF LoopStep

\* Nothing the environment does loses one; a crash between two steps leaves
\* Redis as it is.
LEMMA KeptByEnv ==
    ASSUME TypeInv, NoTaskLost, EnvStep
    PROVE  NoTaskLost'
<1>1. CASE Crash
  BY <1>1 DEF Crash, NoTaskLost, storeVars
<1>2. CASE ~Crash
  BY <1>2 DEF EnvStep, LinkDies, FinishUnreported, Silence, TimePasses, NoTaskLost, storeVars, boundVars
<1> QED
  BY <1>1, <1>2

\* A task whose enqueue has started is in one of the lists until it is
\* abandoned or expired by name, through pops, failed sends, disconnects,
\* evictions, recoveries and crashes: unless a requeue took it out and Redis
\* failed, or the process died, before it was pushed.
THEOREM NothingLost == Spec => []NoTaskLost
<1>1. Init => NoTaskLost
  BY DEF Init, NoTaskLost
<1>2. TypeInv /\ NoTaskLost /\ [Next]_vars => NoTaskLost'
  <2> SUFFICES ASSUME TypeInv, NoTaskLost, [Next]_vars PROVE NoTaskLost'
    OBVIOUS
  <2>1. CASE UNCHANGED vars
    BY <2>1 DEF vars, storeVars, boundVars, NoTaskLost
  <2> QED
    BY <2>1, KeptByThread, KeptByEnv, KeptByDrain, KeptByLoop DEF Next
<1> QED
  BY <1>1, <1>2, TypeCorrect, PTL DEF Spec
-----------------------------------------------------------------------------
(* A live session stays registered.                                        *)

\* Unregistering a websocket whose link does not live.
LEMMA UnregisteredIsDead ==
    ASSUME NEW w, Unregister(w), link'[w] # "up", reg # 0, reg' = 0
    PROVE  link'[sock[reg]] # "up"
  BY DEF Unregister

\* Each step: whoever empties the registry has closed, or found dead, the
\* websocket of the registered session.
LEMMA LiveStep ==
    ASSUME TypeInv, Next, reg # 0, reg' = 0
    PROVE  link'[sock[reg]] # "up"
<1> USE DEF TypeInv
<1>0. reg \in Session /\ sock[reg] \in Session
  BY RegisteredSocket
<1>1. CASE ThreadStep
  BY <1>1 DEF ThreadStep, EnqueuePush, EnqueueMark, ExpireQueued, ReaperScan, ReaperCheck, ReaperMove, ReaperMark, sessVars
<1>2. CASE EnvStep
  <2>1. CASE Crash
    BY <1>0, <2>1 DEF Crash
  <2> QED
    BY <1>2, <2>1 DEF EnvStep, LinkDies, FinishUnreported, Silence, TimePasses, sessVars
<1>3. ASSUME NEW d \in Drainer, DrainClaim(d) PROVE FALSE
  BY <1>3 DEF DrainClaim, sessVars
<1>4. CASE LoopStep
  <2>1. ASSUME NEW t \in Task, ApiDeliver(t) PROVE FALSE
    BY <2>1 DEF ApiDeliver, sessVars
  <2>2. ASSUME NEW d \in Drainer, Draining(d) PROVE link'[sock[reg]] # "up"
    <3>1. CASE SendFail(d) \/ SendFailTorn(d)
      <4> DEFINE w == sock[drain[d].s]
      <4>1. w \in Session /\ link[w] \in {"dead", "closed"} /\ Unregister(w)
        BY <3>1, BusyDrain DEF SendFail, SendFailTorn
      <4>2. link' = [link EXCEPT ![w] = "closed"] \/ link' = link
        BY <3>1 DEF SendFail, SendFailTorn
      <4> HIDE DEF w
      <4>3. link'[w] # "up"
        BY <4>1, <4>2 DEF TypeOK
      <4> QED
        BY <4>1, <4>3, UnregisteredIsDead
    <3> QED
      BY <2>2, <3>1 DEF Draining, DrainPop, SendOk, MarkDispatched, sessVars
  <2>3. CASE Hello \/ HelloAckFails
    BY <2>3, DeliveryAssumption DEF Hello, HelloAckFails, Greeted, Registered, TypeOK
  <2>4. ASSUME NEW w \in Session, HelloAgain(w) PROVE FALSE
    BY <2>4, DeliveryAssumption DEF HelloAgain, Greeted, Registered, TypeOK
  <2>5. ASSUME NEW w \in Session, HelloAgainAckFails(w) PROVE link'[sock[reg]] # "up"
    <3>1. link' = [v \in Session |-> IF v \in {w} \cup Superseded(w) THEN "closed" ELSE link[v]]
      BY <2>5 DEF HelloAgainAckFails, Finally, HandlerEnds
    <3>2. sock[reg] \in {w} \cup Superseded(w)
      BY DEF Superseded
    <3> QED
      BY <1>0, <3>1, <3>2
  <2>6. ASSUME NEW w \in Session, Disconnect(w) PROVE link'[sock[reg]] # "up"
    <3>1. link'[w] = "closed" /\ Unregister(w)
      BY <2>6 DEF Disconnect, Finally, HandlerEnds
    <3> QED
      BY <3>1, UnregisteredIsDead
  <2>7. ASSUME NEW w \in Session, Heartbeat(w) PROVE FALSE
    BY <2>7 DEF Heartbeat
  <2>8. ASSUME NEW w \in Session, DisconnectTorn(w) PROVE FALSE
    BY <2>8 DEF DisconnectTorn
  <2>9. ASSUME NEW w \in Session, NEW t \in Task, NEW phase \in {"running", "done"}, MotionEvent(w, t, phase) PROVE FALSE
    BY <2>9 DEF MotionEvent, sessVars
  <2>10. CASE ReaperDeliver
    BY <2>10 DEF ReaperDeliver, sessVars
  <2>11. CASE ZombieEvict \/ ZombieEvictTorn
    BY <1>0, <2>11 DEF ZombieEvict, ZombieEvictTorn, Evicted, TypeOK
  <2> QED
    BY <1>4, <2>1, <2>2, <2>3, <2>4, <2>5, <2>6, <2>7, <2>8, <2>9, <2>10, <2>11 DEF LoopStep
<1> QED
  BY <1>1, <1>2, <1>3, <1>4 DEF Next

\* No step unregisters a session whose connection lives on: a handler that
\* ends, a failed send and an eviction only take their own websocket's
\* session.
THEOREM LiveStays == Spec => LiveSessionStaysRegistered
<1>1. TypeInv /\ [Next]_vars => [reg # 0 /\ reg' = 0 => link'[sock[reg]] # "up"]_vars
  BY LiveStep
<1> QED
  BY <1>1, TypeCorrect, PTL DEF Spec, LiveSessionStaysRegistered
-----------------------------------------------------------------------------
(* Every task has one owner.                                               *)

\* Who may hold tasks to put back: the sessions and the drains.
OfSession(s) == <<"session", s>>
Hand == {OfSession(s) : s \in Session} \cup Drainer
Held(h) == IF h \in Drainer THEN drain[h].batch ELSE inflight[h[2]]

\* The lists of a store hold every task once, and no task given up on.
Tidy(st) ==
    /\ Once(st.pending) /\ Once(st.processing) /\ Apart(st.pending, st.processing)
    /\ \A t \in st.dropped : ~InList(st.pending, t) /\ ~InList(st.processing, t)

\* What a hand holds is in processing, and in no other hand.
Owned ==
    /\ \A h \in Hand : Once(Held(h))
    /\ \A h \in Hand : \A t : InList(Held(h), t) => InList(processing, t)
    /\ \A g, h \in Hand : g # h => Apart(Held(g), Held(h))

\* A task that is not enqueued yet is nowhere.
Unborn == \A t \in Task : api[t] = "idle" => ~OnList(t) /\ t \notin dropped

Own == Tidy(Store) /\ Owned /\ Unborn

OwnUntilRecovery == recoveries = 0 => Own

\* The hands are told apart by their names.
LEMMA Hands ==
    /\ \A s \in Session : /\ OfSession(s) \in Hand /\ OfSession(s) \notin Drainer
                          /\ Held(OfSession(s)) = inflight[s]
                          /\ Held(OfSession(s))' = inflight'[s]
    /\ \A r, s \in Session : OfSession(r) = OfSession(s) => r = s
    /\ \A d \in Drainer : d \in Hand /\ Held(d) = drain[d].batch /\ Held(d)' = drain'[d].batch
    /\ \A h \in Hand : h \in Drainer \/ \E s \in Session : h = OfSession(s)
<1>1. \A s \in Session : OfSession(s) \notin Drainer /\ OfSession(s)[2] = s
  BY DEF OfSession, Drainer, HelloDrain, ReaperDrain, ApiDrain
<1> QED
  BY <1>1 DEF Hand, Held

\* A hand holds a list of entries.
LEMMA HeldType ==
    ASSUME TypeOK, NEW h \in Hand
    PROVE  Held(h) \in Seq(Entry)
<1>1. CASE h \in Drainer
  BY <1>1, Hands DEF TypeOK
<1>2. ASSUME NEW s \in Session, h = OfSession(s) PROVE Held(h) \in Seq(Entry)
  BY <1>2, Hands DEF TypeOK
<1> QED
  BY <1>1, <1>2, Hands

\* The empty list holds nothing.
LEMMA EmptyList ==
    /\ Once(<<>>)
    /\ \A t : ~InList(<<>>, t)
  BY DEF Once, InList

\* The store after the tasks of T were put back (or given up on).
PutBack(old, T, new) ==
    /\ Tidy(new)
    /\ \A t : InList(old.processing, t) /\ ~InList(T, t) => InList(new.processing, t)
    /\ \A t : InList(new.pending, t) \/ InList(new.processing, t) \/ t \in new.dropped =>
                InList(old.pending, t) \/ InList(old.processing, t) \/ t \in old.dropped

\* A requeue of tasks that are in processing keeps the lists tidy.
LEMMA RequeueTidy ==
    ASSUME NEW st \in StoreType, NEW T \in Seq(Entry), Tidy(st), Once(T),
           \A t : InList(T, t) => InList(st.processing, t)
    PROVE  PutBack(st, T, Requeue(st, T))
<1> DEFINE new == Requeue(st, T)
<1>1. /\ new.pending = T \o st.pending
      /\ new.processing = RemoveTasks(st.processing, T)
      /\ new.dropped = st.dropped
  BY RequeueFields
<1> HIDE DEF new
<1>2. /\ Once(new.processing)
      /\ \A t : InList(new.processing, t) => InList(st.processing, t) /\ ~InList(T, t)
      /\ \A t : InList(st.processing, t) /\ ~InList(T, t) => InList(new.processing, t)
  <2> DEFINE p == RemoveTasks(st.processing, T)
  <2>1. st.processing \in Seq(Entry) /\ Once(st.processing)
    BY DEF StoreType, Tidy
  <2>2. /\ \A t : InList(p, t) => InList(st.processing, t)
        /\ \A t : InList(st.processing, t) /\ ~InList(T, t) => InList(p, t)
        /\ Once(p) /\ \A t : InList(T, t) => ~InList(p, t)
    BY <2>1, TasksRemoved
  <2> QED
    BY <1>1, <2>2
<1>3. Apart(T, st.pending)
  BY DEF Apart, Tidy
<1>4. /\ Once(new.pending)
      /\ \A t : InList(new.pending, t) <=> InList(T, t) \/ InList(st.pending, t)
  BY <1>1, <1>3, Joined DEF StoreType, Tidy
<1>5. Apart(new.pending, new.processing)
  BY <1>2, <1>4 DEF Apart, Tidy
<1>6. \A t \in new.dropped : ~InList(new.pending, t) /\ ~InList(new.processing, t)
  BY <1>1, <1>2, <1>4 DEF Tidy
<1>7. Tidy(new)
  BY <1>2, <1>4, <1>5, <1>6 DEF Tidy
<1>8. \A t : InList(new.pending, t) \/ InList(new.processing, t) \/ t \in new.dropped =>
               InList(st.pending, t) \/ InList(st.processing, t) \/ t \in st.dropped
  BY <1>1, <1>2, <1>4
<1> QED
  BY <1>2, <1>7, <1>8 DEF PutBack, new

\* So does one that counts retries and abandons.
LEMMA OutstandingTidy ==
    ASSUME NEW st \in StoreType, NEW T \in Seq(Entry), Tidy(st), Once(T),
           \A t : InList(T, t) => InList(st.processing, t)
    PROVE  PutBack(st, T, RequeueOutstanding(st, T))
<1> DEFINE new == RequeueOutstanding(st, T)
           gone == Pick(T, OverLimit(st, T))
           kept == Kept(st, T)
           mid == RemoveTasks(st.processing, gone)
<1>1. /\ gone \in Seq(Entry) /\ kept \in Seq(Entry)
      /\ new.pending = kept \o st.pending
      /\ new.processing = RemoveTasks(mid, kept)
      /\ new.dropped = st.dropped \cup TasksOf(gone)
      /\ \A t : InList(T, t) <=> InList(gone, t) \/ InList(kept, t)
      /\ Once(gone) /\ Once(kept) /\ Apart(gone, kept)
  BY OutstandingFields
<1> HIDE DEF new, gone, kept
<1>2. /\ mid \in Seq(Entry) /\ Once(mid)
      /\ \A t : InList(mid, t) => InList(st.processing, t) /\ ~InList(gone, t)
      /\ \A t : InList(st.processing, t) /\ ~InList(gone, t) => InList(mid, t)
  BY <1>1, TasksRemoved DEF StoreType, Tidy
<1> HIDE DEF mid
<1>3. /\ Once(new.processing)
      /\ \A t : InList(new.processing, t) => InList(mid, t) /\ ~InList(kept, t)
      /\ \A t : InList(mid, t) /\ ~InList(kept, t) => InList(new.processing, t)
  <2> DEFINE p == RemoveTasks(mid, kept)
  <2>1. /\ \A t : InList(p, t) => InList(mid, t)
        /\ \A t : InList(mid, t) /\ ~InList(kept, t) => InList(p, t)
        /\ Once(p) /\ \A t : InList(kept, t) => ~InList(p, t)
    BY <1>1, <1>2, TasksRemoved
  <2> QED
    BY <1>1, <2>1
<1>4. Apart(kept, st.pending)
  BY <1>1 DEF Apart, Tidy
<1>5. /\ Once(new.pending)
      /\ \A t : InList(new.pending, t) <=> InList(kept, t) \/ InList(st.pending, t)
  BY <1>1, <1>4, Joined DEF StoreType, Tidy
<1>6. \A t : t \in TasksOf(gone) <=> InList(gone, t)
  BY DEF TasksOf, InList
<1>7. Apart(new.pending, new.processing)
  BY <1>2, <1>3, <1>5 DEF Apart, Tidy
<1>8. \A t \in new.dropped : ~InList(new.pending, t) /\ ~InList(new.processing, t)
  BY <1>1, <1>2, <1>3, <1>5, <1>6 DEF Tidy, Apart
<1>9. Tidy(new)
  BY <1>3, <1>5, <1>7, <1>8 DEF Tidy
<1>10. \A t : InList(new.pending, t) \/ InList(new.processing, t) \/ t \in new.dropped =>
                InList(st.pending, t) \/ InList(st.processing, t) \/ t \in st.dropped
  BY <1>1, <1>2, <1>3, <1>5, <1>6
<1>11. \A t : InList(st.processing, t) /\ ~InList(T, t) => InList(new.processing, t)
  BY <1>1, <1>2, <1>3
<1> QED
  BY <1>9, <1>10, <1>11 DEF PutBack, new

\* So does one that breaks off, whatever it has taken out by then.
LEMMA TakenOutTidy ==
    ASSUME NEW st \in StoreType, NEW T, NEW S \in Seq(Entry), Tidy(st),
           \A t : InList(S, t) => InList(T, t)
    PROVE  PutBack(st, T, TakenOut(st, S))
<1> DEFINE new == TakenOut(st, S)
<1>1. /\ new.pending = st.pending /\ new.dropped = st.dropped
      /\ new.processing = RemoveTasks(st.processing, S)
  BY TakenOutFields
<1> HIDE DEF new
<1>2. /\ Once(new.processing)
      /\ \A t : InList(new.processing, t) => InList(st.processing, t)
      /\ \A t : InList(st.processing, t) /\ ~InList(S, t) => InList(new.processing, t)
  <2> DEFINE p == RemoveTasks(st.processing, S)
  <2>1. st.processing \in Seq(Entry) /\ Once(st.processing)
    BY DEF StoreType, Tidy
  <2>2. /\ Once(p)
        /\ \A t : InList(p, t) => InList(st.processing, t)
        /\ \A t : InList(st.processing, t) /\ ~InList(S, t) => InList(p, t)
    BY <2>1, TasksRemoved
  <2> QED
    BY <1>1, <2>2
<1>3. Tidy(new)
  BY <1>1, <1>2 DEF Tidy, Apart
<1> QED
  BY <1>1, <1>2, <1>3 DEF PutBack, new

\* The same with counted retries.
LEMMA BrokenOffTidy ==
    ASSUME NEW st \in StoreType, NEW T \in Seq(Entry), NEW k \in Breaks(st, T), Tidy(st),
           \A t : InList(T, t) => InList(st.processing, t)
    PROVE  PutBack(st, T, BrokenOff(st, T, k))
<1> DEFINE new == BrokenOff(st, T, k)
           gone == Pick(T, OverLimit(st, T))
           out == SubSeq(Kept(st, T), 1, k)
           mid == RemoveTasks(st.processing, gone)
<1>1. /\ gone \in Seq(Entry) /\ out \in Seq(Entry) /\ new.pending = st.pending
      /\ new.processing = RemoveTasks(mid, out)
      /\ new.dropped = st.dropped \cup TasksOf(gone)
      /\ \A t : InList(out, t) => InList(T, t)
      /\ \A t : InList(gone, t) => InList(T, t)
  BY BrokenOffFields, OutstandingFields
<1> HIDE DEF new, gone, out
<1>2. /\ mid \in Seq(Entry) /\ Once(mid)
      /\ \A t : InList(mid, t) => InList(st.processing, t) /\ ~InList(gone, t)
      /\ \A t : InList(st.processing, t) /\ ~InList(gone, t) => InList(mid, t)
  <2>1. st.processing \in Seq(Entry) /\ Once(st.processing)
    BY DEF StoreType, Tidy
  <2> QED
    BY <1>1, <2>1, TasksRemoved
<1> HIDE DEF mid
<1>3. /\ Once(new.processing)
      /\ \A t : InList(new.processing, t) => InList(mid, t)
      /\ \A t : InList(mid, t) /\ ~InList(out, t) => InList(new.processing, t)
  <2> DEFINE p == RemoveTasks(mid, out)
  <2>1. /\ Once(p)
        /\ \A t : InList(p, t) => InList(mid, t)
        /\ \A t : InList(mid, t) /\ ~InList(out, t) => InList(p, t)
    BY <1>1, <1>2, TasksRemoved
  <2> QED
    BY <1>1, <2>1
<1>4. \A t : t \in TasksOf(gone) <=> InList(gone, t)
  BY DEF TasksOf, InList
<1>5. Tidy(new)
  BY <1>1, <1>2, <1>3, <1>4 DEF Tidy, Apart
<1>6. \A t : InList(st.processing, t) /\ ~InList(T, t) => InList(new.processing, t)
  BY <1>1, <1>2, <1>3
<1>7. \A t : InList(new.pending, t) \/ InList(new.processing, t) \/ t \in new.dropped =>
               InList(st.pending, t) \/ InList(st.processing, t) \/ t \in st.dropped
  BY <1>1, <1>2, <1>3, <1>4
<1> QED
  BY <1>5, <1>6, <1>7 DEF PutBack, new

\* Tasks that are put back one list after the other.
LEMMA PutBackTwice ==
    ASSUME NEW a, NEW b, NEW c, NEW S \in Seq(Entry), NEW T \in Seq(Entry),
           PutBack(a, S, b), PutBack(b, T, c)
    PROVE  PutBack(a, S \o T, c)
<1> DEFINE U == S \o T
<1>1. \A t : InList(U, t) <=> InList(S, t) \/ InList(T, t)
  BY Joined
<1> HIDE DEF U
<1>2. \A t : InList(a.processing, t) /\ ~InList(U, t) => InList(c.processing, t)
  BY <1>1 DEF PutBack
<1>3. PutBack(a, U, c)
  BY <1>2 DEF PutBack
<1> QED
  BY <1>3 DEF U

\* Hands that hold no more than before, beside a list of processing tasks
\* that keeps what they hold.
LEMMA HandsShrink ==
    ASSUME Owned,
           \A h \in Hand : Once(Held(h)) => Once(Held(h)'),
           \A h \in Hand : \A t : InList(Held(h)', t) => InList(Held(h), t),
           \A h \in Hand : \A t : InList(Held(h)', t) => InList(processing', t)
    PROVE  Owned'
  BY DEF Owned, Apart

\* A step that brings no task into the lists.
LEMMA UnbornStep ==
    ASSUME Unborn, \A t \in Task : api'[t] = "idle" => api[t] = "idle",
           \A t \in Task : OnList(t)' \/ t \in dropped' => OnList(t) \/ t \in dropped
    PROVE  Unborn'
  BY DEF Unborn

\* A step that changes neither the lists nor who holds what.
LEMMA OwnUnchanged ==
    ASSUME Own, UNCHANGED <<pending, processing, dropped>>,
           \A h \in Hand : /\ Once(Held(h)) => Once(Held(h)')
                           /\ \A t : InList(Held(h)', t) => InList(Held(h), t),
           \A t \in Task : api'[t] = "idle" => api[t] = "idle"
    PROVE  Own'
<1>1. Tidy(Store)'
  BY DEF Own, Tidy, Store
<1>2. \A h \in Hand : \A t : InList(Held(h)', t) => InList(processing', t)
  BY DEF Own, Owned
<1>3. Owned'
  BY <1>2, HandsShrink DEF Own
<1>4. Unborn'
  BY UnbornStep DEF Own, OnList
<1> QED
  BY <1>1, <1>3, <1>4 DEF Own

\* A step that puts the tasks T back, and takes them from all hands.
LEMMA OwnPutBack ==
    ASSUME Own, NEW st, NEW T, PutBack(Store, T, st), StoreBecomes(st),
           \A h \in Hand : /\ Once(Held(h)) => Once(Held(h)')
                           /\ \A t : InList(Held(h)', t) => InList(Held(h), t) /\ ~InList(T, t),
           \A t \in Task : api'[t] = "idle" => api[t] = "idle"
    PROVE  Own'
<1>1. /\ pending' = st.pending /\ processing' = st.processing /\ dropped' = st.dropped
  BY DEF StoreBecomes
<1>2. Tidy(Store)'
  BY <1>1 DEF PutBack, Tidy, Store
<1>3. \A h \in Hand : \A t : InList(Held(h)', t) => InList(processing', t)
  <2>1. \A t : InList(processing, t) /\ ~InList(T, t) => InList(processing', t)
    BY <1>1 DEF PutBack, Store
  <2> QED
    BY <2>1 DEF Own, Owned
<1>4. Owned'
  BY <1>3, HandsShrink DEF Own
<1>5. Unborn'
  <2>1. \A t : InList(pending', t) \/ InList(processing', t) \/ t \in dropped' =>
                 InList(pending, t) \/ InList(processing, t) \/ t \in dropped
    BY <1>1 DEF PutBack, Store
  <2> QED
    BY <2>1, UnbornStep DEF Own, OnList
<1> QED
  BY <1>2, <1>4, <1>5 DEF Own

\* The hands after a session, or a coroutine, has let go of what it held.
LEMMA SessionEmptied ==
    ASSUME TypeInv, Own, NEW s \in Session, inflight' = Emptied(s), drain' = drain
    PROVE  \A h \in Hand :
             /\ Once(Held(h)) => Once(Held(h)')
             /\ \A t : InList(Held(h)', t) => InList(Held(h), t) /\ ~InList(inflight[s], t)
<1> SUFFICES ASSUME NEW h \in Hand
             PROVE  /\ Once(Held(h)) => Once(Held(h)')
                    /\ \A t : InList(Held(h)', t) => InList(Held(h), t) /\ ~InList(inflight[s], t)
  OBVIOUS
<1>1. CASE h = OfSession(s)
  <2>1. Held(h)' = <<>>
    BY <1>1, Hands, EmptiedTypes DEF TypeInv
  <2> QED
    BY <2>1, EmptyList
<1>2. CASE h # OfSession(s)
  <2>1. Held(h)' = Held(h)
    BY <1>2, Hands, EmptiedTypes DEF TypeInv
  <2>2. Apart(Held(h), Held(OfSession(s))) /\ Held(OfSession(s)) = inflight[s]
    BY <1>2, Hands DEF Own, Owned
  <2> QED
    BY <2>1, <2>2 DEF Apart
<1> QED
  BY <1>1, <1>2

\* A handler that ends puts back what is its own.
LEMMA OwnFinally ==
    ASSUME TypeInv, Own, NEW w \in Session, handler[w] = "loop", NEW closed, Finally(w, closed)
    PROVE  Own'
<1> DEFINE s == cur[w]
<1>1. s \in Session /\ inflight[s] \in Seq(Entry) /\ Store \in StoreType
  <2>1. s \in Session
    BY DeliveryAssumption DEF TypeInv, TypeOK, Refs, Session
  <2> QED
    BY <2>1, StoreHasType DEF TypeInv, TypeOK
<1>2. /\ StoreBecomes(RequeueOutstanding(Store, inflight[s]))
      /\ inflight' = Emptied(s)
      /\ UNCHANGED <<api, drain>>
  BY DEF Finally, HandlerEnds
<1> HIDE DEF s
<1>3. Once(inflight[s]) /\ \A t : InList(inflight[s], t) => InList(Store.processing, t)
  BY <1>1, Hands DEF Own, Owned, Store
<1>4. PutBack(Store, inflight[s], RequeueOutstanding(Store, inflight[s]))
  BY <1>1, <1>3, OutstandingTidy DEF Own
<1> QED
  BY <1>1, <1>2, <1>4, SessionEmptied, OwnPutBack

\* One whose requeue breaks off leaves its tasks to nobody.
LEMMA OwnDisconnectTorn ==
    ASSUME TypeInv, Own, NEW w \in Session, DisconnectTorn(w)
    PROVE  Own'
<1> DEFINE s == cur[w]
<1>1. s \in Session /\ inflight[s] \in Seq(Entry) /\ Store \in StoreType
  BY OwnTasks, StoreHasType DEF DisconnectTorn, Leaves, TypeInv
<1>2. /\ inflight' = Emptied(s)
      /\ UNCHANGED <<api, drain>>
  BY DEF DisconnectTorn, HandlerEnds
<1>3. PICK k \in Breaks(Store, inflight[s]) : StoreBecomes(BrokenOff(Store, inflight[s], k))
  BY DEF DisconnectTorn
<1> HIDE DEF s
<1>4. \A t : InList(inflight[s], t) => InList(Store.processing, t)
  BY <1>1, Hands DEF Own, Owned, Store
<1>5. PutBack(Store, inflight[s], BrokenOff(Store, inflight[s], k))
  BY <1>1, <1>3, <1>4, BrokenOffTidy DEF Own
<1> QED
  BY <1>1, <1>2, <1>3, <1>5, SessionEmptied, OwnPutBack

\* The eviction of a zombie.
LEMMA OwnZombie ==
    ASSUME TypeInv, Own, ZombieEvict \/ ZombieEvictTorn
    PROVE  Own'
<1>1. reg \in Session /\ inflight[reg] \in Seq(Entry) /\ Store \in StoreType /\ Evicted
  BY RegisteredSocket, StoreHasType DEF ZombieEvict, ZombieEvictTorn, ZombieDue, TypeInv, TypeOK
<1>2. /\ inflight' = Emptied(reg)
      /\ UNCHANGED <<api, drain>>
  BY <1>1 DEF Evicted
<1>3. Once(inflight[reg]) /\ \A t : InList(inflight[reg], t) => InList(Store.processing, t)
  BY <1>1, Hands DEF Own, Owned, Store
<1>4. PICK st : StoreBecomes(st) /\ PutBack(Store, inflight[reg], st)
  <2>1. CASE ZombieEvict
    <3>1. PutBack(Store, inflight[reg], Requeue(Store, inflight[reg]))
      BY <1>1, <1>3, RequeueTidy DEF Own
    <3> QED
      BY <2>1, <3>1 DEF ZombieEvict
  <2>2. CASE ZombieEvictTorn
    <3>1. PICK k \in 0 .. Len(inflight[reg]) :
             StoreBecomes(TakenOut(Store, SubSeq(inflight[reg], 1, k)))
      BY <2>2 DEF ZombieEvictTorn
    <3> DEFINE out == SubSeq(inflight[reg], 1, k)
    <3>2. out \in Seq(Entry) /\ \A t : InList(out, t) => InList(inflight[reg], t)
      BY <1>1, <3>1, Prefix
    <3> HIDE DEF out
    <3>3. PutBack(Store, inflight[reg], TakenOut(Store, out))
      BY <1>1, <3>2, TakenOutTidy DEF Own
    <3> QED
      BY <3>1, <3>3 DEF out
  <2> QED
    BY <1>1, <2>1, <2>2
<1> QED
  BY <1>1, <1>2, <1>4, SessionEmptied, OwnPutBack

\* A failed send puts back, in two calls, what the session holds with the
\* task at hand, and the rest of the batch: no task is in both.
LEMMA OwnSendFail ==
    ASSUME TypeInv, Own, NEW d \in Drainer, SendFail(d)
    PROVE  Own'
<1> DEFINE s == drain[d].s
           o == Head(drain[d].batch)
           rest == Tail(drain[d].batch)
           T == Failed(d)
           mid == RequeueOutstanding(Store, T)
           new == RequeueOutstanding(mid, rest)
<1>1. /\ drain[d] \in DrainRec /\ s \in Session /\ drain[d].batch # <<>> /\ drain[d].batch \in Seq(Entry)
      /\ inflight[s] \in Seq(Entry) /\ Store \in StoreType
  BY BusyDrain, StoreHasType DEF SendFail, DrainRefs, DrainRec, TypeInv, TypeOK
<1>2. /\ StoreBecomes(new)
      /\ inflight' = Emptied(s)
      /\ drain' = [drain EXCEPT ![d] = Idle]
      /\ api' = Answered(d, "unsent")
  BY DEF SendFail
<1>3. /\ o \in Entry /\ rest \in Seq(Entry)
      /\ \A t : InList(drain[d].batch, t) <=> InList(rest, t) \/ t = o.task
      /\ Once(rest) /\ ~InList(rest, o.task)
  <2>1. Once(drain[d].batch)
    BY Hands DEF Own, Owned
  <2> QED
    BY <1>1, <2>1, Split
<1>4. /\ Once(inflight[s])
      /\ \A t : InList(inflight[s], t) => InList(processing, t)
      /\ \A t : InList(drain[d].batch, t) => InList(processing, t)
      /\ Apart(inflight[s], drain[d].batch)
  BY <1>1, Hands DEF Own, Owned
<1>5. /\ T \in Seq(Entry) /\ Once(T)
      /\ \A t : InList(T, t) <=> InList(inflight[s], t) \/ t = o.task
  <2>1. ~InList(inflight[s], o.task)
    BY <1>3, <1>4 DEF Apart
  <2>2. T = Append(inflight[s], o)
    BY DEF Failed
  <2> QED
    BY <1>1, <1>3, <1>4, <2>1, <2>2, Appended
<1> HIDE DEF s, o, T, rest
<1>6. PutBack(Store, T, mid) /\ mid \in StoreType
  <2>1. \A t : InList(T, t) => InList(Store.processing, t)
    BY <1>3, <1>4, <1>5 DEF Store
  <2> QED
    BY <1>1, <1>5, <2>1, OutstandingTidy, OutstandingFields DEF Own
<1> HIDE DEF mid
<1>7. \A t : InList(rest, t) => InList(mid.processing, t)
  <2>1. \A t : InList(rest, t) => InList(Store.processing, t) /\ ~InList(T, t)
    BY <1>3, <1>4, <1>5 DEF Store, Apart
  <2> QED
    BY <1>6, <2>1 DEF PutBack
<1>8. PutBack(mid, rest, new)
  <2>1. Tidy(mid)
    BY <1>6 DEF PutBack
  <2> QED
    BY <1>3, <1>6, <1>7, <2>1, OutstandingTidy
<1> HIDE DEF new
<1> DEFINE both == inflight[s] \o drain[d].batch
<1>9. \A t : InList(both, t) <=> InList(T, t) \/ InList(rest, t)
  BY <1>1, <1>3, <1>5, Joined
<1>9a. \A t : InList(both, t) <=> InList(inflight[s], t) \/ InList(drain[d].batch, t)
  BY <1>1, Joined
<1> HIDE DEF both
<1>10. PutBack(Store, both, new)
  <2>1. \A t : InList(Store.processing, t) /\ ~InList(both, t) => InList(new.processing, t)
    BY <1>6, <1>8, <1>9 DEF PutBack
  <2> QED
    BY <1>6, <1>8, <2>1 DEF PutBack
<1>11. ASSUME NEW h \in Hand
       PROVE  /\ Once(Held(h)) => Once(Held(h)')
              /\ \A t : InList(Held(h)', t) => InList(Held(h), t) /\ ~InList(both, t)
  <2>1. CASE h = OfSession(s) \/ h = d
    <3>1. Held(h)' = <<>>
      <4>1. CASE h = OfSession(s)
        BY <1>1, <1>2, <4>1, Hands, EmptiedTypes DEF TypeInv
      <4>2. CASE h = d
        BY <1>2, <4>2, Hands, IdleTypes, DrainReplaced DEF TypeInv
      <4> QED
        BY <2>1, <4>1, <4>2
    <3> QED
      BY <3>1, EmptyList
  <2>2. CASE h # OfSession(s) /\ h # d
    <3>1. Held(h)' = Held(h)
      <4>1. CASE h \in Drainer
        BY <1>2, <2>2, <4>1, Hands, IdleTypes, DrainReplaced DEF TypeInv
      <4>2. ASSUME NEW r \in Session, h = OfSession(r) PROVE Held(h)' = Held(h)
        BY <1>2, <2>2, <4>2, Hands, EmptiedTypes DEF TypeInv
      <4> QED
        BY <4>1, <4>2, Hands
    <3>2. Apart(Held(h), inflight[s]) /\ Apart(Held(h), drain[d].batch)
      BY <1>1, <2>2, Hands DEF Own, Owned
    <3> QED
      BY <1>9a, <3>1, <3>2 DEF Apart
  <2> QED
    BY <2>1, <2>2
<1>12. \A t \in Task : api'[t] = "idle" => api[t] = "idle"
  BY <1>2 DEF Answered
<1> QED
  BY <1>2, <1>10, <1>11, <1>12, OwnPutBack

\* The hands after a drain and the sessions in E have let go of all they held.
LEMMA HandsEmptied ==
    ASSUME TypeInv, Own, NEW d \in Drainer, NEW E \in SUBSET Session, NEW T,
           inflight' = [r \in Session |-> IF r \in E THEN <<>> ELSE inflight[r]],
           drain' = [drain EXCEPT ![d] = Idle],
           \A t : InList(T, t) => \/ InList(drain[d].batch, t)
                                 \/ \E r \in E : InList(inflight[r], t)
    PROVE  \A h \in Hand :
             /\ Once(Held(h)) => Once(Held(h)')
             /\ \A t : InList(Held(h)', t) => InList(Held(h), t) /\ ~InList(T, t)
<1> SUFFICES ASSUME NEW h \in Hand
             PROVE  /\ Once(Held(h)) => Once(Held(h)')
                    /\ \A t : InList(Held(h)', t) => InList(Held(h), t) /\ ~InList(T, t)
  OBVIOUS
<1>1. CASE h = d
  <2>1. Held(h)' = <<>>
    BY <1>1, Hands, IdleTypes, DrainReplaced DEF TypeInv
  <2> QED
    BY <2>1, EmptyList
<1>2. ASSUME NEW r \in E, h = OfSession(r)
      PROVE  /\ Once(Held(h)) => Once(Held(h)')
             /\ \A t : InList(Held(h)', t) => InList(Held(h), t) /\ ~InList(T, t)
  <2>1. Held(h)' = <<>>
    BY <1>2, Hands
  <2> QED
    BY <2>1, EmptyList
<1>3. CASE h # d /\ \A r \in E : h # OfSession(r)
  <2>1. Held(h)' = Held(h)
    <3>1. CASE h \in Drainer
      BY <1>3, <3>1, Hands, IdleTypes, DrainReplaced DEF TypeInv
    <3>2. ASSUME NEW r \in Session, h = OfSession(r) PROVE Held(h)' = Held(h)
      BY <1>3, <3>2, Hands
    <3> QED
      BY <3>1, <3>2, Hands
  <2>2. Apart(Held(h), drain[d].batch)
    BY <1>3, Hands DEF Own, Owned
  <2>3. \A r \in E : Apart(Held(h), inflight[r])
    BY <1>3, Hands DEF Own, Owned
  <2> QED
    BY <2>1, <2>2, <2>3 DEF Apart
<1> QED
  BY <1>1, <1>2, <1>3

\* A failed send whose requeue breaks off lets go of everything, with what an
\* earlier session of the websocket holds put back.
LEMMA OwnAfterBreak ==
    ASSUME TypeInv, Own, NEW d \in Drainer, drain[d].pc # "idle",
           NEW S \in Seq(Entry), NEW x \in StoreType, PutBack(Store, S, x),
           \A t : InList(S, t) => InList(inflight[drain[d].s], t) \/ InList(drain[d].batch, t),
           IF Earlier(d) = {}
           THEN StoreBecomes(x)
           ELSE \E e \in Earlier(d) : StoreBecomes(RequeueOutstanding(x, inflight[e])),
           inflight' = [r \in Session |-> IF r \in {drain[d].s} \cup Earlier(d) THEN <<>>
                                                                        ELSE inflight[r]],
           drain' = [drain EXCEPT ![d] = Idle],
           \A t \in Task : api'[t] = "idle" => api[t] = "idle"
    PROVE  Own'
<1> DEFINE s == drain[d].s
           E == {s} \cup Earlier(d)
<1>1. /\ s \in Session /\ Earlier(d) \in SUBSET Session /\ s \notin Earlier(d)
      /\ E \in SUBSET Session
  BY EarlierSession, BusyDrain
<1> HIDE DEF s
<1>2. CASE Earlier(d) = {}
  <2>1. \A t : InList(S, t) => InList(drain[d].batch, t) \/ \E r \in E : InList(inflight[r], t)
    BY DEF s
  <2>2. inflight' = [r \in Session |-> IF r \in E THEN <<>> ELSE inflight[r]]
    BY DEF s
  <2> HIDE DEF E
  <2>3. \A h \in Hand :
             /\ Once(Held(h)) => Once(Held(h)')
             /\ \A t : InList(Held(h)', t) => InList(Held(h), t) /\ ~InList(S, t)
    BY <1>1, <2>1, <2>2, HandsEmptied
  <2> QED
    BY <1>2, <2>3, OwnPutBack
<1>3. ASSUME NEW e \in Earlier(d), StoreBecomes(RequeueOutstanding(x, inflight[e]))
      PROVE  Own'
  <2> DEFINE L == inflight[e]
  <2>1. e \in Session /\ e # s /\ L \in Seq(Entry)
    BY <1>1, <1>3 DEF TypeInv, TypeOK
  <2>2. /\ Once(L) /\ Apart(L, inflight[s]) /\ Apart(L, drain[d].batch)
        /\ \A t : InList(L, t) => InList(Store.processing, t)
    BY <1>1, <2>1, Hands DEF Own, Owned, Store
  <2> HIDE DEF L
  <2>3. \A t : InList(L, t) => InList(x.processing, t)
    <3>1. \A t : InList(L, t) => ~InList(S, t)
      BY <2>2 DEF Apart, s
    <3> QED
      BY <2>2, <3>1 DEF PutBack
  <2>4. PutBack(x, L, RequeueOutstanding(x, L))
    <3>1. Tidy(x)
      BY DEF PutBack
    <3> QED
      BY <2>1, <2>2, <2>3, <3>1, OutstandingTidy
  <2>5. PutBack(Store, S \o L, RequeueOutstanding(x, L))
    BY <2>1, <2>4, PutBackTwice
  <2>6. \A t : InList(S \o L, t) <=> InList(S, t) \/ InList(L, t)
    BY <2>1, Joined
  <2> DEFINE U == S \o L
  <2>7. \A t : InList(U, t) => InList(drain[d].batch, t) \/ \E r \in E : InList(inflight[r], t)
    BY <1>3, <2>6 DEF s, L
  <2>8. inflight' = [r \in Session |-> IF r \in E THEN <<>> ELSE inflight[r]]
    BY DEF s
  <2> HIDE DEF E, U
  <2>9. \A h \in Hand :
             /\ Once(Held(h)) => Once(Held(h)')
             /\ \A t : InList(Held(h)', t) => InList(Held(h), t) /\ ~InList(U, t)
    BY <1>1, <2>7, <2>8, HandsEmptied
  <2>10. PutBack(Store, U, RequeueOutstanding(x, L)) /\ StoreBecomes(RequeueOutstanding(x, L))
    BY <1>3, <2>5 DEF U, L
  <2> QED
    BY <2>9, <2>10, OwnPutBack
<1> QED
  BY <1>2, <1>3

\* A failed send whose requeue breaks off keeps every task with one owner, or
\* none.
LEMMA OwnSendFailTorn ==
    ASSUME TypeInv, Own, NEW d \in Drainer, SendFailTorn(d)
    PROVE  Own'
<1> DEFINE s == drain[d].s
           o == Head(drain[d].batch)
           rest == Tail(drain[d].batch)
           T == Failed(d)
           mid == RequeueOutstanding(Store, T)
<1>1. /\ drain[d] \in DrainRec /\ s \in Session /\ drain[d].batch # <<>> /\ drain[d].batch \in Seq(Entry)
      /\ inflight[s] \in Seq(Entry) /\ Store \in StoreType /\ drain[d].pc # "idle"
  BY BusyDrain, StoreHasType DEF SendFailTorn, DrainRefs, DrainRec, TypeInv, TypeOK
<1>2. /\ inflight' = [r \in Session |-> IF r \in {drain[d].s} \cup Earlier(d) THEN <<>>
                                                                        ELSE inflight[r]]
      /\ drain' = [drain EXCEPT ![d] = Idle]
      /\ \A t \in Task : api'[t] = "idle" => api[t] = "idle"
      /\ BreaksOff(Store, T, d) \/ BreaksOff(mid, rest, d)
  BY DEF SendFailTorn, Answered
<1>3. /\ o \in Entry /\ rest \in Seq(Entry)
      /\ \A t : InList(drain[d].batch, t) <=> InList(rest, t) \/ t = o.task
      /\ Once(rest) /\ ~InList(rest, o.task)
  <2>1. Once(drain[d].batch)
    BY Hands DEF Own, Owned
  <2> QED
    BY <1>1, <2>1, Split
<1>4. /\ Once(inflight[s])
      /\ \A t : InList(inflight[s], t) => InList(processing, t)
      /\ \A t : InList(drain[d].batch, t) => InList(processing, t)
      /\ Apart(inflight[s], drain[d].batch)
  BY <1>1, Hands DEF Own, Owned
<1>5. /\ T \in Seq(Entry) /\ Once(T)
      /\ \A t : InList(T, t) <=> InList(inflight[s], t) \/ t = o.task
  <2>1. ~InList(inflight[s], o.task)
    BY <1>3, <1>4 DEF Apart
  <2>2. T = Append(inflight[s], o)
    BY DEF Failed
  <2> QED
    BY <1>1, <1>3, <1>4, <2>1, <2>2, Appended
<1> HIDE DEF o, T, rest
<1>6. \A t : InList(T, t) => InList(Store.processing, t)
  BY <1>3, <1>4, <1>5 DEF Store
<1>7. PutBack(Store, T, mid) /\ mid \in StoreType
  BY <1>1, <1>5, <1>6, OutstandingTidy, OutstandingFields DEF Own
<1> HIDE DEF mid
<1>8. CASE BreaksOff(Store, T, d)
  <2>1. PICK k \in Breaks(Store, T) :
          IF Earlier(d) = {}
          THEN StoreBecomes(BrokenOff(Store, T, k))
          ELSE \E e \in Earlier(d) : StoreBecomes(RequeueOutstanding(BrokenOff(Store, T, k), inflight[e]))
    BY <1>8 DEF BreaksOff
  <2> DEFINE x == BrokenOff(Store, T, k)
  <2>2. PutBack(Store, T, x) /\ x \in StoreType
    BY <1>1, <1>5, <1>6, <2>1, BrokenOffTidy, BrokenOffFields DEF Own
  <2>3. \A t : InList(T, t) => InList(inflight[drain[d].s], t) \/ InList(drain[d].batch, t)
    BY <1>3, <1>5
  <2> HIDE DEF x, s
  <2> QED
    BY <1>1, <1>2, <1>5, <2>1, <2>2, <2>3, OwnAfterBreak DEF x
<1>9. CASE BreaksOff(mid, rest, d)
  <2>1. PICK k \in Breaks(mid, rest) :
          IF Earlier(d) = {}
          THEN StoreBecomes(BrokenOff(mid, rest, k))
          ELSE \E e \in Earlier(d) : StoreBecomes(RequeueOutstanding(BrokenOff(mid, rest, k), inflight[e]))
    BY <1>9 DEF BreaksOff
  <2> DEFINE x == BrokenOff(mid, rest, k)
             both == T \o rest
  <2>2. \A t : InList(rest, t) => InList(mid.processing, t)
    <3>1. \A t : InList(rest, t) => InList(Store.processing, t) /\ ~InList(T, t)
      BY <1>3, <1>4, <1>5 DEF Store, Apart
    <3> QED
      BY <1>7, <3>1 DEF PutBack
  <2>3. PutBack(mid, rest, x) /\ x \in StoreType
    <3>1. Tidy(mid)
      BY <1>7 DEF PutBack
    <3> QED
      BY <1>3, <1>7, <2>1, <2>2, <3>1, BrokenOffTidy, BrokenOffFields
  <2> HIDE DEF x
  <2>4. PutBack(Store, both, x) /\ both \in Seq(Entry)
    BY <1>3, <1>5, <1>7, <2>3, PutBackTwice
  <2>5. \A t : InList(both, t) <=> InList(T, t) \/ InList(rest, t)
    BY <1>3, <1>5, Joined
  <2>6. \A t : InList(both, t) => InList(inflight[drain[d].s], t) \/ InList(drain[d].batch, t)
    BY <1>3, <1>5, <2>5
  <2> HIDE DEF both, s
  <2> QED
    BY <1>1, <1>2, <2>1, <2>3, <2>4, <2>6, OwnAfterBreak DEF x
<1> QED
  BY <1>2, <1>8, <1>9

\* Steps that leave the lists alone, and start at most one coroutine.
LEMMA OwnStarted ==
    ASSUME TypeInv, Own, UNCHANGED <<pending, processing, dropped, inflight>>,
           \A e \in Drainer : drain'[e] = drain[e] \/ drain'[e].batch = <<>>,
           \A t \in Task : api'[t] = "idle" => api[t] = "idle"
    PROVE  Own'
<1>1. ASSUME NEW h \in Hand PROVE Held(h)' = Held(h) \/ Held(h)' = <<>>
  <2>1. CASE h \in Drainer
    BY <2>1, Hands
  <2>2. ASSUME NEW s \in Session, h = OfSession(s) PROVE Held(h)' = Held(h)
    BY <2>2, Hands
  <2> QED
    BY <2>1, <2>2, Hands
<1> QED
  BY <1>1, EmptyList, OwnUnchanged

\* A pop moves tasks nobody holds into the coroutine's hands.
LEMMA OwnPop ==
    ASSUME TypeInv, Own, NEW d \in Drainer, DrainPop(d)
    PROVE  Own'
<1> DEFINE taken == Taken(pending, PopLimit)
<1>1. /\ pending' = AfterTake(pending, PopLimit)
      /\ processing' = MovedOnto(processing, taken)
      /\ UNCHANGED <<dropped, inflight>>
  BY DEF DrainPop, sessVars
<1>2. /\ pending \in Seq(Entry) /\ processing \in Seq(Entry)
      /\ Once(pending) /\ Once(processing) /\ Apart(pending, processing)
  BY DEF TypeInv, TypeOK, Own, Tidy, Store
<1>3. /\ taken \in Seq(Entry) /\ Once(taken) /\ Once(pending') /\ Apart(taken, pending') /\ Once(processing')
      /\ \A t : InList(pending, t) <=> InList(taken, t) \/ InList(pending', t)
      /\ \A t : InList(processing', t) <=> InList(taken, t) \/ InList(processing, t)
  BY <1>1, <1>2, Moved, DeliveryAssumption
<1> HIDE DEF taken
<1>4. Tidy(Store)'
  <2>1. Apart(pending', processing')
    BY <1>2, <1>3 DEF Apart
  <2>2. \A t \in dropped' : ~InList(pending', t) /\ ~InList(processing', t)
    BY <1>1, <1>3 DEF Own, Tidy, Store
  <2> QED
    BY <1>3, <2>1, <2>2 DEF Tidy, Store
<1>5. Unborn'
  <2>1. \A t \in Task : api'[t] = "idle" => api[t] = "idle"
    BY DEF DrainPop, Answered
  <2> QED
    BY <1>1, <1>3, <2>1, UnbornStep DEF Own, OnList
<1>6. /\ \A e \in Drainer : e # d => drain'[e] = drain[e]
      /\ drain'[d].batch = taken \/ drain'[d].batch = <<>>
  <2>1. CASE taken = <<>>
    BY <2>1, IdleTypes, DrainReplaced DEF DrainPop, TypeInv, taken
  <2>2. CASE taken # <<>>
    BY <2>2 DEF DrainPop, TypeInv, TypeOK, taken
  <2> QED
    BY <2>1, <2>2
<1>7. \A t : InList(Held(d)', t) => InList(taken, t)
  BY <1>6, Hands, EmptyList
<1>8. Once(Held(d)')
  BY <1>3, <1>6, Hands, EmptyList
<1>9. \A h \in Hand : h # d => Held(h)' = Held(h)
  <2>1. ASSUME NEW e \in Drainer, e # d PROVE Held(e)' = Held(e)
    BY <1>6, <2>1, Hands
  <2>2. ASSUME NEW s \in Session PROVE Held(OfSession(s))' = Held(OfSession(s))
    BY <1>1, Hands
  <2> QED
    BY <2>1, <2>2, Hands
<1>10. Owned'
  <2>1. ASSUME NEW h \in Hand PROVE Once(Held(h)') /\ \A t : InList(Held(h)', t) => InList(processing', t)
    BY <1>3, <1>7, <1>8, <1>9 DEF Own, Owned
  <2>2. ASSUME NEW h \in Hand, h # d PROVE Apart(Held(h)', Held(d)')
    <3>1. \A t : InList(Held(h)', t) => ~InList(pending, t)
      BY <1>2, <1>9, <2>2 DEF Own, Owned, Apart
    <3> QED
      BY <1>3, <1>7, <3>1 DEF Apart
  <2>3. ASSUME NEW g \in Hand, NEW h \in Hand, g # h PROVE Apart(Held(g)', Held(h)')
    <3>1. CASE g = d
      BY <2>2, <2>3, <3>1 DEF Apart
    <3>2. CASE h = d
      BY <2>2, <2>3, <3>2
    <3>3. CASE g # d /\ h # d
      BY <1>9, <2>3, <3>3 DEF Own, Owned
    <3> QED
      BY <3>1, <3>2, <3>3
  <2> QED
    BY <2>1, <2>3 DEF Owned
<1> QED
  BY <1>4, <1>5, <1>10 DEF Own

\* A task that was sent passes from the coroutine to its session.
LEMMA OwnMark ==
    ASSUME TypeInv, Own, NEW d \in Drainer, MarkDispatched(d)
    PROVE  Own'
<1>0. PICK s, o, rest : /\ s \in Session /\ s = drain[d].s
                         /\ o = Head(drain[d].batch) /\ rest = Tail(drain[d].batch)
  BY BusyDrain DEF MarkDispatched
<1>1. /\ drain[d] \in DrainRec /\ drain[d].batch # <<>> /\ drain[d].batch \in Seq(Entry)
      /\ inflight[s] \in Seq(Entry)
  BY <1>0, BusyDrain DEF MarkDispatched, DrainRefs, DrainRec, TypeInv, TypeOK
<1>2. /\ o \in Entry /\ rest \in Seq(Entry)
      /\ \A t : InList(drain[d].batch, t) <=> InList(rest, t) \/ t = o.task
      /\ Once(rest) /\ ~InList(rest, o.task)
  <2>1. Once(drain[d].batch)
    BY Hands DEF Own, Owned
  <2> QED
    BY <1>0, <1>1, <2>1, Split
<1>3. /\ UNCHANGED <<pending, processing, dropped, api>>
      /\ inflight' = [inflight EXCEPT ![s] = Marked(s, o)]
      /\ drain' = [drain EXCEPT ![d].pc = IF rest = <<>> THEN "pop" ELSE "send", ![d].batch = rest]
  BY <1>0 DEF MarkDispatched
<1>4. /\ \A t : InList(Marked(s, o), t) <=> InList(inflight[s], t) \/ t = o.task
      /\ Once(inflight[s]) => Once(Marked(s, o))
  BY <1>1, <1>2, MarkedTasks
<1>5. /\ OfSession(s) \in Hand /\ d \in Hand /\ OfSession(s) # d
      /\ Held(OfSession(s)) = inflight[s] /\ Held(d) = drain[d].batch
  BY <1>0, <1>1, Hands
<1>6. Held(OfSession(s))' = Marked(s, o) /\ Held(d)' = rest
  <2>1. inflight'[s] = Marked(s, o) /\ drain'[d].batch = rest
    BY <1>0, <1>1, <1>3 DEF TypeInv, TypeOK
  <2> QED
    BY <1>0, <1>1, <2>1, Hands
<1>7. \A h \in Hand : h # d /\ h # OfSession(s) => Held(h)' = Held(h)
  <2>1. ASSUME NEW e \in Drainer, e # d PROVE Held(e)' = Held(e)
    <3>1. drain'[e] = drain[e]
      BY <1>3, <2>1 DEF TypeInv, TypeOK
    <3> QED
      BY <3>1, Hands
  <2>2. ASSUME NEW r \in Session, r # s PROVE Held(OfSession(r))' = Held(OfSession(r))
    <3>1. inflight'[r] = inflight[r]
      BY <1>3, <2>2 DEF TypeInv, TypeOK
    <3> QED
      BY <3>1, Hands
  <2> QED
    BY <2>1, <2>2, Hands
<1>8. Owned'
  <2> DEFINE a == OfSession(s)
  <2>0. \A h \in Hand : Once(Held(h)) /\ \A t : InList(Held(h), t) => InList(processing, t)
    BY DEF Own, Owned
  <2>1. ASSUME NEW h \in Hand PROVE Once(Held(h)')
    <3>1. CASE h = a
      BY <1>4, <1>5, <1>6, <2>0, <3>1
    <3>2. CASE h = d
      BY <1>2, <1>6, <3>2
    <3>3. CASE h # a /\ h # d
      BY <1>7, <2>0, <3>3
    <3> QED
      BY <3>1, <3>2, <3>3
  <2>2. ASSUME NEW h \in Hand, NEW t, InList(Held(h)', t) PROVE InList(processing', t)
    <3>0. InList(inflight[s], t) \/ InList(drain[d].batch, t) => InList(processing, t)
      BY <1>5, <2>0
    <3>1. CASE h = a
      BY <1>2, <1>3, <1>4, <1>6, <2>2, <3>0, <3>1
    <3>2. CASE h = d
      BY <1>2, <1>3, <1>6, <2>2, <3>0, <3>2
    <3>3. CASE h # a /\ h # d
      BY <1>3, <1>7, <2>0, <2>2, <3>3
    <3> QED
      BY <3>1, <3>2, <3>3
  <2> HIDE DEF a
  <2>3. Apart(Held(a), Held(d))
    BY <1>5 DEF Own, Owned, a
  <2>4. ASSUME NEW h \in Hand, h # d, h # a PROVE Apart(Held(h), Held(a)) /\ Apart(Held(h), Held(d))
    BY <1>5, <2>4 DEF Own, Owned, a
  <2>5. Apart(Held(a)', Held(d)')
    BY <1>2, <1>4, <1>5, <1>6, <2>3 DEF Apart, a
  <2>6. ASSUME NEW h \in Hand, h # d, h # a PROVE Apart(Held(h)', Held(a)') /\ Apart(Held(h)', Held(d)')
    BY <1>2, <1>4, <1>5, <1>6, <1>7, <2>4, <2>6 DEF Apart, a
  <2>7. ASSUME NEW g \in Hand, NEW h \in Hand, g # h PROVE Apart(Held(g)', Held(h)')
    <3>1. CASE g \notin {a, d} /\ h \notin {a, d}
      BY <1>7, <2>7, <3>1 DEF Own, Owned, a
    <3>2. CASE h \in {a, d}
      BY <2>5, <2>6, <2>7, <3>2 DEF Apart
    <3>3. CASE g \in {a, d}
      BY <2>5, <2>6, <2>7, <3>3 DEF Apart
    <3> QED
      BY <3>1, <3>2, <3>3
  <2> QED
    BY <2>1, <2>2, <2>7 DEF Owned
<1>9. Tidy(Store)'
  BY <1>3 DEF Own, Tidy, Store
<1>10. Unborn'
  BY <1>3, UnbornStep DEF Own, OnList
<1> QED
  BY <1>8, <1>9, <1>10 DEF Own

\* Claiming the popped tasks changes their entries, not whose they are.
LEMMA OwnClaim ==
    ASSUME TypeInv, Own, NEW d \in Drainer, DrainClaim(d)
    PROVE  Own'
<1> DEFINE b == drain[d].batch
           tagged == [k \in DOMAIN b |-> [task |-> b[k].task, gen |-> row[b[k].task].gen]]
<1>1. /\ drain' = [drain EXCEPT ![d].pc = "send", ![d].batch = tagged]
      /\ UNCHANGED <<pending, processing, dropped, inflight, api>>
  BY DEF DrainClaim, sessVars
<1>2. DOMAIN tagged = DOMAIN b /\ \A k \in DOMAIN b : tagged[k].task = b[k].task
  OBVIOUS
<1> HIDE DEF tagged
<1>3. (\A t : InList(tagged, t) <=> InList(b, t)) /\ (Once(b) => Once(tagged))
  BY <1>2 DEF InList, Once
<1>4. drain'[d].batch = tagged /\ \A e \in Drainer : e # d => drain'[e] = drain[e]
  BY <1>1 DEF TypeInv, TypeOK
<1>5. ASSUME NEW h \in Hand
      PROVE  /\ Once(Held(h)) => Once(Held(h)')
             /\ \A t : InList(Held(h)', t) => InList(Held(h), t)
  <2>1. CASE h = d
    BY <1>3, <1>4, <2>1, Hands
  <2>2. ASSUME h # d PROVE Held(h)' = Held(h)
    <3>1. CASE h \in Drainer
      BY <1>4, <2>2, <3>1, Hands
    <3>2. ASSUME NEW s \in Session, h = OfSession(s) PROVE Held(h)' = Held(h)
      BY <1>1, <3>2, Hands
    <3> QED
      BY <3>1, <3>2, Hands
  <2> QED
    BY <2>1, <2>2
<1> QED
  BY <1>1, <1>5, OwnUnchanged

\* Neither does sending.
LEMMA OwnSendOk ==
    ASSUME TypeInv, Own, NEW d \in Drainer, SendOk(d)
    PROVE  Own'
<1>1. /\ drain' = [drain EXCEPT ![d].pc = "mark"]
      /\ UNCHANGED <<pending, processing, dropped, inflight, api>>
  BY DEF SendOk, storeVars, sessVars
<1>2. \A e \in Drainer : drain'[e].batch = drain[e].batch
  BY <1>1 DEF TypeInv, TypeOK
<1>3. \A h \in Hand : Held(h)' = Held(h)
  BY <1>1, <1>2, Hands
<1> QED
  BY <1>1, <1>3, OwnUnchanged

\* What threads do, but for the stale reaper's move.
LEMMA OwnThread ==
    ASSUME TypeInv, Own, ThreadStep, ~ReaperMove
    PROVE  Own'
<1>1. ASSUME NEW t \in Task, EnqueuePush(t) PROVE Own'
  <2>1. /\ pending' = Append(pending, [task |-> t, gen |-> -1])
        /\ api[t] = "idle" /\ api' = [api EXCEPT ![t] = "pushed"]
        /\ UNCHANGED <<processing, dropped, drain, inflight>>
    BY <1>1 DEF EnqueuePush, sessVars
  <2>2. [task |-> t, gen |-> -1] \in Entry
    BY DEF Entry
  <2>3. ~InList(pending, t) /\ ~InList(processing, t) /\ t \notin dropped
    BY <2>1 DEF Own, Unborn, OnList
  <2>4. /\ \A u : InList(pending', u) <=> InList(pending, u) \/ u = t
        /\ Once(pending')
    <3>1. pending \in Seq(Entry) /\ Once(pending)
      BY DEF TypeInv, TypeOK, Own, Tidy, Store
    <3> QED
      BY <2>1, <2>2, <2>3, <3>1, Appended
  <2>5. Tidy(Store)'
    BY <2>1, <2>3, <2>4 DEF Own, Tidy, Store, Apart
  <2>6. \A h \in Hand : Held(h)' = Held(h)
    BY <2>1, Hands
  <2>7. Owned'
    BY <2>1, <2>6 DEF Own, Owned
  <2>8. Unborn'
    BY <2>1, <2>4 DEF Own, Unborn, OnList, TypeInv, TypeOK
  <2> QED
    BY <2>5, <2>7, <2>8 DEF Own
<1>2. ASSUME NEW t \in Task, EnqueueMark(t) PROVE Own'
  <2>1. /\ UNCHANGED <<pending, processing, dropped, drain, inflight>>
        /\ api' = [api EXCEPT ![t] = "marked"]
    BY <1>2 DEF EnqueueMark, sessVars
  <2>2. \A u \in Task : api'[u] = "idle" => api[u] = "idle"
    BY <2>1 DEF TypeInv, TypeOK
  <2> QED
    BY <2>1, <2>2, OwnStarted
<1>3. ASSUME NEW t \in Task, ExpireQueued(t) PROVE Own'
  <2>1. PICK i \in At(pending, t) : pending' = RemoveFirstEqual(pending, pending[i])
    BY <1>3 DEF ExpireQueued
  <2>2. i \in DOMAIN pending /\ pending[i].task = t
    BY <2>1 DEF At
  <2>3. pending \in Seq(Entry) /\ Once(pending)
    BY DEF TypeInv, TypeOK, Own, Tidy, Store
  <2>4. /\ \A u : InList(pending', u) => InList(pending, u)
        /\ Once(pending') /\ ~InList(pending', t)
    BY <2>1, <2>2, <2>3, FirstEqualRemoved
  <2>5. InList(pending, t)
    BY <2>2 DEF InList
  <2>6. dropped' = dropped \cup {t} /\ UNCHANGED <<processing, drain, inflight, api>>
    BY <1>3 DEF ExpireQueued, sessVars
  <2>7. Tidy(Store)'
    BY <2>4, <2>5, <2>6 DEF Own, Tidy, Store, Apart
  <2>8. \A h \in Hand : Held(h)' = Held(h)
    BY <2>6, Hands
  <2>9. Owned'
    BY <2>6, <2>8 DEF Own, Owned
  <2>10. Unborn'
    BY <2>4, <2>5, <2>6, UnbornStep DEF Own, OnList
  <2> QED
    BY <2>7, <2>9, <2>10 DEF Own
<1>4. CASE ReaperScan \/ ReaperCheck \/ ReaperMark
  <2>1. UNCHANGED <<pending, processing, dropped, drain, inflight, api>>
    BY <1>4 DEF ReaperScan, ReaperCheck, ReaperMark, storeVars, sessVars
  <2> QED
    BY <2>1, OwnStarted
<1> QED
  BY <1>1, <1>2, <1>3, <1>4 DEF ThreadStep

\* A process that has died holds nothing.
LEMMA OwnAfterCrash ==
    ASSUME TypeInv, Own, Crash
    PROVE  Own'
<1>1. /\ inflight' = [s \in Session |-> <<>>]
      /\ drain' = [d \in Drainer |-> Idle]
      /\ api' = [t \in Task |-> IF api[t] \in {"idle", "sent"} THEN api[t] ELSE "unsent"]
      /\ UNCHANGED <<pending, processing, dropped>>
  BY DEF Crash, storeVars
<1>2. ASSUME NEW h \in Hand PROVE Held(h)' = <<>>
  <2>1. CASE h \in Drainer
    BY <1>1, <2>1, Hands, IdleTypes
  <2>2. ASSUME NEW s \in Session, h = OfSession(s) PROVE Held(h)' = <<>>
    BY <1>1, <2>2, Hands
  <2> QED
    BY <2>1, <2>2, Hands
<1>3. \A t \in Task : api'[t] = "idle" => api[t] = "idle"
  BY <1>1
<1> QED
  BY <1>1, <1>2, <1>3, EmptyList, OwnUnchanged

\* What the environment does.
LEMMA OwnEnv ==
    ASSUME TypeInv, Own, EnvStep
    PROVE  Own'
<1>1. CASE Crash
  BY <1>1, OwnAfterCrash
<1>2. CASE ~Crash
  <2>1. UNCHANGED <<pending, processing, dropped, inflight, drain, api>>
    BY <1>2 DEF EnvStep, LinkDies, FinishUnreported, Silence, TimePasses, storeVars, sessVars
  <2> QED
    BY <2>1, OwnStarted
<1> QED
  BY <1>1, <1>2

\* What the event loop does.
LEMMA OwnLoop ==
    ASSUME TypeInv, Own, LoopStep
    PROVE  Own'
<1>1. ASSUME NEW t \in Task, ApiDeliver(t) PROVE Own'
  <2>1. /\ UNCHANGED <<pending, processing, dropped, inflight>>
        /\ api' = [api EXCEPT ![t] = "unsent"] \/ api' = [api EXCEPT ![t] = "drain"]
        /\ drain' = drain \/ (reg # 0 /\ drain' = [drain EXCEPT ![ApiDrain] = StartedOn(reg)])
    BY <1>1 DEF ApiDeliver, storeVars, sessVars
  <2>2. \A u \in Task : api'[u] = "idle" => api[u] = "idle"
    BY <2>1 DEF TypeInv, TypeOK
  <2>3. \A e \in Drainer : drain'[e] = drain[e] \/ drain'[e].batch = <<>>
    BY <2>1 DEF TypeInv, TypeOK, StartedOn
  <2> QED
    BY <2>1, <2>2, <2>3, OwnStarted
<1>2. ASSUME NEW d \in Drainer, Draining(d) PROVE Own'
  BY <1>2, OwnPop, OwnSendOk, OwnMark, OwnSendFail, OwnSendFailTorn DEF Draining
<1>3. ASSUME NEW w \in Session, Greeted(w) PROVE Own'
  <2>1. /\ UNCHANGED <<pending, processing, dropped, inflight, api>>
        /\ drain' = [drain EXCEPT ![HelloDrain(w)] = StartedOn(nsess + 1)]
    BY <1>3 DEF Greeted, storeVars
  <2>2. \A e \in Drainer : drain'[e] = drain[e] \/ drain'[e].batch = <<>>
    BY <2>1 DEF TypeInv, TypeOK, StartedOn
  <2> QED
    BY <2>1, <2>2, OwnStarted
<1>4. CASE Hello
  <2>1. nsess \in Nat /\ MaxSessions \in Nat /\ nsess < MaxSessions
    BY <1>4, DeliveryAssumption DEF Hello, TypeInv, TypeOK
  <2>2. nsess + 1 \in Session
    BY <2>1 DEF Session
  <2> QED
    BY <1>3, <1>4, <2>2 DEF Hello
<1>5. CASE HelloAckFails
  <2>1. UNCHANGED <<pending, processing, dropped, inflight, drain, api>>
    BY <1>5 DEF HelloAckFails, storeVars
  <2> QED
    BY <2>1, OwnStarted
<1>6. ASSUME NEW w \in Session, HelloAgain(w) PROVE Own'
  BY <1>3, <1>6 DEF HelloAgain
<1>7. ASSUME NEW w \in Session, HelloAgainAckFails(w) \/ Disconnect(w) PROVE Own'
  BY <1>7, OwnFinally DEF HelloAgainAckFails, Disconnect, Leaves
<1>8. ASSUME NEW w \in Session, Heartbeat(w) PROVE Own'
  <2>1. UNCHANGED <<pending, processing, dropped, inflight, drain, api>>
    BY <1>8 DEF Heartbeat, storeVars
  <2> QED
    BY <2>1, OwnStarted
<1>9. ASSUME NEW w \in Session, DisconnectTorn(w) PROVE Own'
  BY <1>9, OwnDisconnectTorn
<1>10. ASSUME NEW w \in Session, NEW t \in Task, NEW phase \in {"running", "done"}, MotionEvent(w, t, phase)
       PROVE  Own'
  <2>1. UNCHANGED <<pending, processing, dropped, inflight, drain, api>>
    BY <1>10 DEF MotionEvent, sessVars
  <2> QED
    BY <2>1, OwnStarted
<1>11. CASE ReaperDeliver
  <2>1. /\ UNCHANGED <<pending, processing, dropped, inflight, api>>
        /\ drain' = drain \/ drain' = [drain EXCEPT ![ReaperDrain] = StartedOn(reg)]
    BY <1>11 DEF ReaperDeliver, storeVars, sessVars
  <2>2. \A e \in Drainer : drain'[e] = drain[e] \/ drain'[e].batch = <<>>
    BY <2>1 DEF TypeInv, TypeOK, StartedOn
  <2> QED
    BY <2>1, <2>2, OwnStarted
<1>12. CASE ZombieEvict \/ ZombieEvictTorn
  BY <1>12, OwnZombie
<1> QED
  BY <1>1, <1>2, <1>4, <1>5, <1>6, <1>7, <1>8, <1>9, <1>10, <1>11, <1>12 DEF LoopStep

\* Every step, until the stale reaper moves something.
LEMMA OwnStep ==
    ASSUME TypeInv, OwnUntilRecovery, [Next]_vars
    PROVE  OwnUntilRecovery'
<1>1. CASE UNCHANGED vars
  <2>1. UNCHANGED <<pending, processing, dropped, inflight, drain, api, recoveries>>
    BY <1>1 DEF vars, storeVars, sessVars, boundVars
  <2> QED
    BY <2>1, OwnStarted DEF OwnUntilRecovery
<1>2. CASE ReaperMove
  <2>1. \/ recoveries' = recoveries + 1
        \/ UNCHANGED <<pending, processing, recoveries>>
    BY <1>2 DEF ReaperMove
  <2>2. UNCHANGED <<dropped, inflight, drain, api>>
    BY <1>2 DEF ReaperMove, sessVars
  <2>3. recoveries \in Nat
    BY DeliveryAssumption DEF TypeInv, TypeOK
  <2> QED
    BY <2>1, <2>2, <2>3, OwnStarted DEF OwnUntilRecovery
<1>3. CASE Next /\ ~ReaperMove
  <2>1. recoveries' = recoveries
    <3>1. CASE ThreadStep
      BY <1>3, <3>1 DEF ThreadStep, EnqueuePush, EnqueueMark, ExpireQueued, ReaperScan, ReaperCheck, ReaperMark, boundVars
    <3>2. CASE EnvStep
      BY <3>2 DEF EnvStep, LinkDies, FinishUnreported, Silence, TimePasses, Crash, boundVars
    <3>3. ASSUME NEW d \in Drainer, DrainClaim(d) PROVE recoveries' = recoveries
      BY <3>3 DEF DrainClaim, boundVars
    <3>4. CASE LoopStep
      BY <3>4 DEF LoopStep, ApiDeliver, Draining, DrainPop, SendOk, MarkDispatched, SendFail, SendFailTorn,
                  Hello, HelloAckFails, Greeted, HelloAgain, HelloAgainAckFails, Finally, HandlerEnds, Heartbeat,
                  Disconnect, DisconnectTorn, MotionEvent, ReaperDeliver, ZombieEvict, ZombieEvictTorn, Evicted,
                  boundVars
    <3> QED
      BY <1>3, <3>1, <3>2, <3>3, <3>4 DEF Next
  <2>2. ASSUME Own PROVE Own'
    BY <1>3, <2>2, OwnThread, OwnEnv, OwnClaim, OwnLoop DEF Next
  <2> QED
    BY <2>1, <2>2 DEF OwnUntilRecovery
<1> QED
  BY <1>1, <1>2, <1>3

\* What the inductive invariant says of one task.
LEMMA OwnGivesSingleOwner == TypeOK /\ OwnUntilRecovery => SingleOwner
<1> SUFFICES ASSUME TypeOK, Own, NEW t \in Task
             PROVE  /\ Copies(t) <= 1
                    /\ Cardinality(Holders(t)) <= 1
                    /\ Holders(t) # {} => InList(processing, t)
                    /\ t \in dropped => Copies(t) = 0
  BY DEF SingleOwner, OwnUntilRecovery
<1> DEFINE p == Cardinality(At(pending, t))
           q == Cardinality(At(processing, t))
<1>1. /\ p \in Nat /\ q \in Nat /\ p <= 1 /\ q <= 1
      /\ p = 0 <=> ~InList(pending, t)
      /\ q = 0 <=> ~InList(processing, t)
  <2>1. pending \in Seq(Entry) /\ processing \in Seq(Entry) /\ Once(pending) /\ Once(processing)
    BY DEF TypeOK, Own, Tidy, Store
  <2> QED
    BY <2>1, Entries
<1> HIDE DEF p, q
<1>2. ~(InList(pending, t) /\ InList(processing, t))
  BY DEF Own, Tidy, Store, Apart
<1>3. p + q <= 1
  BY <1>1, <1>2
<1>4. t \in dropped => p + q = 0
  BY <1>1 DEF Own, Tidy, Store
<1>5. \A h : h \in Holders(t) <=> h \in Hand /\ InList(Held(h), t)
  BY Hands DEF Holders, OfSession
<1>6. \A g, h \in Holders(t) : g = h
  BY <1>5 DEF Own, Owned, Apart
<1>7. Cardinality(Holders(t)) <= 1
  <2>1. CASE Holders(t) = {}
    BY <2>1, FS_EmptySet
  <2>2. ASSUME NEW h \in Holders(t) PROVE Cardinality(Holders(t)) = 1
    <3>1. Holders(t) = {h}
      BY <1>6
    <3> QED
      BY <3>1, FS_Singleton
  <2> QED
    BY <2>1, <2>2
<1>8. Holders(t) # {} => InList(processing, t)
  BY <1>5 DEF Own, Owned
<1> QED
  BY <1>3, <1>4, <1>7, <1>8 DEF Copies, p, q

\* Until the stale reaper has moved something, a task is in the lists at most
\* once, at most one coroutine or session may put it back, and while one may
\* its entry is in processing; a task given up on is in neither list.
THEOREM OneOwner == Spec => []Consistent
<1>1. Init => OwnUntilRecovery
  <2> SUFFICES ASSUME Init PROVE Own
    BY DEF OwnUntilRecovery
  <2>1. pending = <<>> /\ processing = <<>> /\ dropped = {}
    BY DEF Init
  <2>2. Tidy(Store)
    BY <2>1, EmptyList DEF Tidy, Store, Apart
  <2>3. \A h \in Hand : Held(h) = <<>>
    BY Hands, IdleTypes DEF Init
  <2>4. Owned
    BY <2>3, EmptyList DEF Owned, Apart
  <2>5. Unborn
    BY <2>1, EmptyList DEF Unborn, OnList
  <2> QED
    BY <2>2, <2>4, <2>5 DEF Own
<1>2. TypeInv /\ OwnUntilRecovery /\ [Next]_vars => OwnUntilRecovery'
  BY OwnStep
<1>3. TypeInv /\ OwnUntilRecovery => Consistent
  BY OwnGivesSingleOwner DEF TypeInv, Consistent
<1> QED
  BY <1>1, <1>2, <1>3, TypeCorrect, PTL DEF Spec
=============================================================================
