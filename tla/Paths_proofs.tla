------------------------------ MODULE Paths_proofs ------------------------------
(* Theorems about Paths, for every text of the font, every drawing, every    *)
(* workspace and every tolerance.                                            *)
EXTENDS Paths, FiniteSetTheorems, NaturalsInduction, WellFoundedInduction, TLAPS

-----------------------------------------------------------------------------
(* Least and greatest.                                                     *)

\* A nonempty set of natural numbers has a least element.
LEMMA LeastElement ==
    ASSUME NEW S \in SUBSET Nat, NEW n \in S
    PROVE  \E m \in S : \A l \in S : m <= l
<1> DEFINE R == OpToRel(<, Nat)
<1>1. \A x, y \in Nat : <<x, y>> \in R <=> x < y
  BY DEF OpToRel
<1>2. PICK m \in S : \A y \in S : <<y, m>> \notin R
  <2>1. IsWellFoundedOn(R, Nat)
    BY NatLessThanWellFounded
  <2> HIDE DEF R
  <2> QED
    BY <2>1, WFMin
<1> HIDE DEF R
<1>3. ASSUME NEW y \in S PROVE m <= y
  <2>1. m \in Nat /\ y \in Nat
    OBVIOUS
  <2>2. ~(y < m)
    BY <1>1, <1>2, <2>1
  <2> QED
    BY <2>1, <2>2
<1> QED
  BY <1>3

\* m is the first of a..b at which f is least
FirstLeast(f, a, b, m) ==
    m \in a..b /\ \A k \in a..b : f[m] < f[k] \/ (f[m] = f[k] /\ m <= k)

\* A row of integers has a first least one.
LEMMA FirstLeastExists ==
    ASSUME NEW a \in Nat, NEW b \in Nat, a <= b, NEW f, \A k \in a..b : f[k] \in Int
    PROVE  \E m \in a..b : FirstLeast(f, a, b, m)
<1> DEFINE Bad == {c \in a..b : ~ \E m \in a..c : FirstLeast(f, a, c, m)}
<1>1. Bad \subseteq Nat
  OBVIOUS
<1>2. ASSUME NEW c \in Bad PROVE FALSE
  <2>1. PICK d \in Bad : \A l \in Bad : d <= l
    <3> HIDE DEF Bad
    <3> QED
      BY <1>1, <1>2, LeastElement
  <2>2. d \in a..b /\ ~ \E m \in a..d : FirstLeast(f, a, d, m)
    OBVIOUS
  <2>3. CASE d = a
    <3>1. a..d = {a}
      BY <2>3
    <3>2. FirstLeast(f, a, d, a)
      <4>1. \A k \in a..d : f[a] = f[k] /\ a <= k
        BY <3>1
      <4>2. a \in a..d
        BY <3>1
      <4> QED
        BY <4>1, <4>2 DEF FirstLeast
    <3> QED
      BY <2>2, <3>1, <3>2
  <2>4. CASE d # a
    <3>1. d - 1 \in a..b /\ d - 1 \notin Bad /\ a..d = (a..(d - 1)) \cup {d}
      <4>1. d - 1 \in a..b /\ ~(d <= d - 1)
        BY <2>2, <2>4
      <4>2. d - 1 \notin Bad
        <5> HIDE DEF Bad
        <5> QED
          BY <2>1, <4>1
      <4> QED
        BY <2>2, <2>4, <4>1, <4>2
    <3>2. PICK m \in a..(d - 1) : FirstLeast(f, a, d - 1, m)
      BY <3>1
    <3> HIDE DEF Bad
    <3>3. f[m] \in Int /\ f[d] \in Int /\ m \in a..d /\ d \in a..d /\ m < d
      BY <2>2, <3>2
    <3>4. \A k \in a..(d - 1) : f[k] \in Int /\ (f[m] < f[k] \/ (f[m] = f[k] /\ m <= k))
      BY <2>2, <3>2 DEF FirstLeast
    <3>5. CASE f[d] < f[m]
      <4>1. FirstLeast(f, a, d, d)
        BY <3>1, <3>3, <3>4, <3>5 DEF FirstLeast
      <4> QED
        BY <2>2, <3>3, <4>1
    <3>6. CASE ~(f[d] < f[m])
      <4>1. FirstLeast(f, a, d, m)
        BY <3>1, <3>3, <3>4, <3>6 DEF FirstLeast
      <4> QED
        BY <2>2, <3>3, <4>1
    <3> QED
      BY <3>5, <3>6
  <2> QED
    BY <2>3, <2>4
<1>3. b \notin Bad /\ b \in a..b
  BY <1>2
<1> QED
  BY <1>3

\* The least and the greatest of the values of a row.
LEMMA Extremes ==
    ASSUME NEW n \in Nat \ {0}, NEW f, \A k \in 1..n : f[k] \in Int,
           NEW S, S = {f[k] : k \in 1..n}
    PROVE  /\ Least(S) \in S /\ \A x \in S : Least(S) <= x
           /\ Greatest(S) \in S /\ \A x \in S : Greatest(S) >= x
<1>1. PICK m \in 1..n : FirstLeast(f, 1, n, m)
  BY FirstLeastExists
<1>2. f[m] \in S /\ \A x \in S : f[m] <= x
  BY <1>1 DEF FirstLeast
<1> DEFINE g == [k \in 1..n |-> -f[k]]
<1>3. \A k \in 1..n : g[k] \in Int /\ g[k] = -f[k]
  OBVIOUS
<1> HIDE DEF g
<1>4. PICK l \in 1..n : FirstLeast(g, 1, n, l)
  BY <1>3, FirstLeastExists
<1>5. f[l] \in S /\ \A x \in S : f[l] >= x
  <2> SUFFICES ASSUME NEW x \in S PROVE f[l] >= x
    OBVIOUS
  <2>1. PICK k \in 1..n : x = f[k]
    OBVIOUS
  <2>2. -f[l] <= -f[k] /\ f[l] \in Int /\ f[k] \in Int
    BY <1>3, <1>4 DEF FirstLeast
  <2> QED
    BY <2>1, <2>2
<1> QED
  BY <1>2, <1>5 DEF Least, Greatest

\* The same of a nonempty set of positions.
LEMMA ExtremesOfPositions ==
    ASSUME NEW n \in Nat, NEW S \in SUBSET (1..n), S # {}
    PROVE  /\ Least(S) \in S /\ \A x \in S : Least(S) <= x
           /\ Greatest(S) \in S /\ \A x \in S : Greatest(S) >= x
<1>1. \E m \in S : \A l \in S : m <= l
  <2>1. S \in SUBSET Nat
    BY SMT
  <2> QED
    BY <2>1, LeastElement
<1> DEFINE T == {n - i : i \in S}
<1>2. PICK m \in T : \A l \in T : m <= l
  <2>1. T \in SUBSET Nat /\ T # {}
    <3>1. \A i \in S : n - i \in Nat
      OBVIOUS
    <3> QED
      BY <3>1
  <2> HIDE DEF T
  <2> QED
    BY <2>1, LeastElement
<1>3. PICK i \in S : m = n - i
  BY <1>2
<1>4. \A j \in S : i >= j
  <2> SUFFICES ASSUME NEW j \in S PROVE i >= j
    OBVIOUS
  <2>1. n - i <= n - j
    BY <1>2, <1>3
  <2> QED
    BY <2>1
<1> QED
  BY <1>1, <1>3, <1>4 DEF Least, Greatest
-----------------------------------------------------------------------------
(* The positions that are picked.                                          *)

Rank(S, i) == Cardinality({j \in S : j <= i})

\* Positions are counted by numbers.
LEMMA RankIsNumber ==
    ASSUME NEW n \in Nat, NEW S \in SUBSET (1..n)
    PROVE  /\ IsFiniteSet(S) /\ Cardinality(S) \in Nat
           /\ \A i : Rank(S, i) \in Nat /\ Rank(S, i) <= Cardinality(S)
<1>1. IsFiniteSet(1..n)
  BY FS_Interval
<1>2. IsFiniteSet(S)
  BY <1>1, FS_Subset
<1>3. Cardinality(S) \in Nat
  BY <1>2, FS_CardinalityType
<1>4. ASSUME NEW i PROVE Rank(S, i) \in Nat /\ Rank(S, i) <= Cardinality(S)
  <2>1. {j \in S : j <= i} \in SUBSET S
    OBVIOUS
  <2>2. IsFiniteSet({j \in S : j <= i}) /\ Cardinality({j \in S : j <= i}) <= Cardinality(S)
    BY <1>2, <2>1, FS_Subset
  <2> QED
    BY <2>2, FS_CardinalityType DEF Rank
<1> QED
  BY <1>2, <1>3, <1>4

\* The k-th of a set of positions exists.
LEMMA AtExists ==
    ASSUME NEW n \in Nat, NEW S \in SUBSET (1..n), NEW k \in 1..Cardinality(S)
    PROVE  At(S, k) \in S /\ Rank(S, At(S, k)) = k
<1>1. /\ IsFiniteSet(S) /\ Cardinality(S) \in Nat
      /\ \A i : Rank(S, i) \in Nat /\ Rank(S, i) <= Cardinality(S)
  BY RankIsNumber
<1>2. S # {}
  BY <1>1, FS_EmptySet
<1> DEFINE T == {i \in S : Rank(S, i) >= k}
<1>3. T # {}
  <2>1. Greatest(S) \in S /\ \A x \in S : Greatest(S) >= x
    BY <1>2, ExtremesOfPositions
  <2>2. {j \in S : j <= Greatest(S)} = S
    BY <2>1
  <2>3. Rank(S, Greatest(S)) = Cardinality(S)
    BY <2>2 DEF Rank
  <2> QED
    BY <1>1, <2>1, <2>3
<1>4. PICK i \in T : \A l \in T : i <= l
  <2>1. T \in SUBSET Nat
    <3>1. \A i \in S : i \in Nat
      OBVIOUS
    <3> QED
      BY <3>1
  <2> HIDE DEF T
  <2> QED
    BY <1>3, <2>1, LeastElement
<1>5. i \in S /\ Rank(S, i) >= k /\ i \in Nat
  OBVIOUS
<1> DEFINE B == {j \in S : j < i}
<1>6. Rank(S, i) = Cardinality(B) + 1 /\ Cardinality(B) \in Nat
  <2>1. B \in SUBSET S /\ i \notin B /\ {j \in S : j <= i} = B \cup {i}
    <3>1. \A j \in S : j <= i <=> j < i \/ j = i
      BY <1>5
    <3>2. {j \in S : j <= i} = B \cup {i}
      BY <1>5, <3>1
    <3> QED
      BY <1>5, <3>2
  <2> HIDE DEF B
  <2>2. IsFiniteSet(B)
    BY <1>1, <2>1, FS_Subset
  <2>3. Cardinality(B \cup {i}) = Cardinality(B) + 1
    BY <2>1, <2>2, FS_AddElement
  <2> QED
    BY <2>1, <2>2, <2>3, FS_CardinalityType DEF Rank
<1>7. Cardinality(B) < k
  <2>1. CASE B = {}
    BY <2>1, FS_EmptySet
  <2>2. CASE B # {}
    <3>1. B \in SUBSET (1..n)
      OBVIOUS
    <3>2. Greatest(B) \in B /\ \A x \in B : Greatest(B) >= x
      <4> HIDE DEF B
      <4> QED
        BY <2>2, <3>1, ExtremesOfPositions
    <3>3. PICK g \in B : \A x \in B : g >= x
      BY <3>2
    <3>4. {j \in S : j <= g} = B
      <4>1. g \in Nat /\ g < i
        BY <3>3
      <4>2. ASSUME NEW j \in S PROVE j <= g <=> j < i
        <5>1. CASE j < i
          BY <3>3, <5>1
        <5>2. CASE ~(j < i)
          BY <1>5, <4>1, <5>2
        <5> QED
          BY <5>1, <5>2
      <4> QED
        BY <4>2
    <3>5. g \in S /\ g < i
      BY <3>3
    <3>6. g \notin T
      <4>1. ~(i <= g)
        BY <1>5, <3>5
      <4> HIDE DEF T
      <4> QED
        BY <1>4, <4>1
    <3>7. ~(Rank(S, g) >= k)
      BY <3>5, <3>6
    <3>8. Rank(S, g) = Cardinality(B)
      BY <3>4 DEF Rank
    <3> QED
      BY <1>1, <3>7, <3>8
  <2> QED
    BY <2>1, <2>2
<1>8. Rank(S, i) = k
  BY <1>1, <1>5, <1>6, <1>7
<1>9. \E l \in S : Rank(S, l) = k
  BY <1>5, <1>8
<1>10. At(S, k) = CHOOSE l \in S : Rank(S, l) = k
  BY DEF At, Rank
<1> QED
  BY <1>9, <1>10

\* What is picked is a path of as many points as there are positions, each a
\* point of the path it was picked from.
LEMMA PickedTyped ==
    ASSUME NEW p \in Seq(Points), NEW S \in SUBSET (DOMAIN p)
    PROVE  /\ Picked(p, S) \in Seq(Points) /\ Len(Picked(p, S)) = Cardinality(S)
           /\ \A k \in DOMAIN Picked(p, S) : \E i \in S : Picked(p, S)[k] = p[i]
           /\ S # {} => Picked(p, S) # <<>>
<1>1. Len(p) \in Nat /\ DOMAIN p = 1..Len(p) /\ S \in SUBSET (1..Len(p))
  OBVIOUS
<1>2. Cardinality(S) \in Nat /\ IsFiniteSet(S)
  BY <1>1, RankIsNumber
<1>3. \A k \in 1..Cardinality(S) : At(S, k) \in S
  BY <1>1, AtExists
<1> DEFINE n == Cardinality(S)
           q == [k \in 1..n |-> p[At(S, k)]]
<1>4. Picked(p, S) = q
  BY DEF Picked
<1>5. \A k \in 1..n : q[k] = p[At(S, k)] /\ q[k] \in Points
  BY <1>3
<1>6. q \in [1..n -> Points]
  BY <1>5
<1> HIDE DEF q
<1>7. q \in Seq(Points) /\ Len(q) = n /\ DOMAIN q = 1..n
  BY <1>2, <1>6
<1>8. S # {} => n # 0
  BY <1>2, FS_EmptySet
<1> HIDE DEF n
<1> QED
  BY <1>3, <1>4, <1>5, <1>7, <1>8 DEF n
-----------------------------------------------------------------------------
(* The types of a path on its way.                                         *)

\* The parameters have their types.
LEMMA Parameters ==
    /\ PerMm \in Nat \ {0} /\ Offset \in Nat /\ MaxPoints \in Nat \ {0}
    /\ MaxMm \in Nat /\ Margin \in Nat /\ Tolerance \in Nat
    /\ PerMm * MaxMm \in Nat
  BY PathsAssumption

\* A path that a job may carry.
Path(p) == p \in Seq(Points) /\ p # <<>>

\* Coordinates and marks of the points of a path.
LEMMA PathPoints ==
    ASSUME NEW p, Path(p)
    PROVE  /\ Len(p) \in Nat \ {0} /\ DOMAIN p = 1..Len(p)
           /\ \A i \in DOMAIN p : /\ p[i] \in Points /\ p[i].x \in Int /\ p[i].y \in Int
                                  /\ p[i].up \in BOOLEAN
<1>1. Len(p) \in Nat \ {0} /\ DOMAIN p = 1..Len(p)
  BY DEF Path
<1>2. \A i \in DOMAIN p : p[i] \in Points
  BY DEF Path
<1> QED
  BY <1>1, <1>2 DEF Points

\* A row of points is a path.
LEMMA RowIsPath ==
    ASSUME NEW n \in Nat \ {0}, NEW p \in [1..n -> Points]
    PROVE  Path(p) /\ Len(p) = n /\ DOMAIN p = 1..n
<1>1. p \in Seq(Points) /\ Len(p) = n
  OBVIOUS
<1> QED
  BY <1>1 DEF Path

\* A text that is decimated is still a path.
LEMMA DecimatedTyped ==
    ASSUME NEW p \in Texts
    PROVE  Path(p) /\ Path(Decimated(p))
<1>1. Path(p) /\ p[1].up
  BY PathsAssumption DEF Path
<1>2. ASSUME NEW n PROVE Path(WithTolerance(p, n))
  <2> DEFINE S == {i \in DOMAIN p : Stays(p, i, n)}
  <2>1. 1 \in S
    <3>1. 1 \in DOMAIN p
      BY <1>1, PathPoints
    <3> QED
      BY <1>1, <3>1 DEF Stays
  <2>2. S \in SUBSET (DOMAIN p) /\ S # {}
    BY <2>1
  <2>3. WithTolerance(p, n) = Picked(p, S)
    BY DEF WithTolerance
  <2> HIDE DEF S
  <2> QED
    BY <1>1, <2>2, <2>3, PickedTyped DEF Path
<1> QED
  BY <1>1, <1>2 DEF Decimated

\* A point that is moved is a point, and one that is moved nowhere the same.
LEMMA Placed ==
    ASSUME NEW pt
    PROVE  /\ \A x, y \in Int : pt.up \in BOOLEAN =>
                /\ MovedTo(pt, x, y) \in Points
                /\ MovedTo(pt, x, y).x = x /\ MovedTo(pt, x, y).y = y
           /\ pt \in Points => MovedTo(pt, pt.x, pt.y) = pt
  BY DEF MovedTo, Points

\* A path that is clamped is a path.
LEMMA ClampedTyped ==
    ASSUME NEW p, Path(p)
    PROVE  Path(Clamped(p))
<1> DEFINE most == MaxMm * PerMm
           within(n) == IF n > most THEN most ELSE IF n < -most THEN -most ELSE n
           m == IF Len(p) < MaxPoints THEN Len(p) ELSE MaxPoints
           q == [i \in 1..m |-> MovedTo(p[i], within(p[i].x), within(p[i].y))]
<1>1. most \in Nat /\ m \in Nat \ {0} /\ 1..m \subseteq DOMAIN p
  BY Parameters, PathPoints
<1>2. \A n \in Int : within(n) \in Int
  BY <1>1
<1> HIDE DEF most, within, m
<1>3. ASSUME NEW i \in 1..m PROVE MovedTo(p[i], within(p[i].x), within(p[i].y)) \in Points
  <2>1. p[i].up \in BOOLEAN /\ within(p[i].x) \in Int /\ within(p[i].y) \in Int
    BY <1>1, <1>2, PathPoints
  <2> QED
    BY <2>1, Placed
<1>4. q \in [1..m -> Points]
  BY <1>3
<1>5. Clamped(p) = q
  BY DEF Clamped, q, m, within, most
<1> HIDE DEF q
<1> QED
  BY <1>1, <1>4, <1>5, RowIsPath

\* A path that is drawn several times is a path.
LEMMA MultiPassTyped ==
    ASSUME NEW p, Path(p), NEW n \in Nat \ {0}
    PROVE  /\ Path(MultiPass(p, n))
           /\ n = 1 => MultiPass(p, n) = p
<1> DEFINE m == n * Len(p)
           at(i) == ((i - 1) % Len(p)) + 1
           shift(i) == ((i - 1) \div Len(p)) * Offset
           q == [i \in 1..m |-> MovedTo(p[at(i)], p[at(i)].x + shift(i), p[at(i)].y)]
<1>1. Len(p) \in Nat \ {0} /\ m \in Nat \ {0}
  BY PathPoints
<1>2. ASSUME NEW i \in 1..m
      PROVE  at(i) \in DOMAIN p /\ shift(i) \in Nat
  <2>1. i - 1 \in Nat
    BY <1>1
  <2>2. (i - 1) % Len(p) \in 0..(Len(p) - 1) /\ (i - 1) \div Len(p) \in Nat
    BY <1>1, <2>1
  <2>3. at(i) \in 1..Len(p)
    BY <1>1, <2>2
  <2>4. shift(i) \in Nat
    BY <2>2, Parameters
  <2> QED
    BY <2>3, <2>4, PathPoints
<1>3. ASSUME NEW i \in 1..Len(p), n = 1 PROVE at(i) = i /\ shift(i) = 0
  <2>1. i - 1 \in Nat /\ i - 1 < Len(p)
    BY <1>1
  <2>2. (i - 1) % Len(p) = i - 1 /\ (i - 1) \div Len(p) = 0
    BY <1>1, <2>1
  <2> QED
    BY <2>2, Parameters
<1>4. MultiPass(p, n) = q
  BY DEF MultiPass
<1>5. n = 1 => m = Len(p)
  BY <1>1
<1> HIDE DEF m, at, shift
<1>6. ASSUME NEW i \in 1..m PROVE MovedTo(p[at(i)], p[at(i)].x + shift(i), p[at(i)].y) \in Points
  <2>1. p[at(i)].up \in BOOLEAN /\ p[at(i)].x + shift(i) \in Int /\ p[at(i)].y \in Int
    BY <1>2, PathPoints
  <2> QED
    BY <2>1, Placed
<1>7. q \in [1..m -> Points]
  BY <1>6
<1>8. n = 1 => q = p
  <2> SUFFICES ASSUME n = 1 PROVE q = p
    OBVIOUS
  <2>1. ASSUME NEW i \in 1..Len(p) PROVE MovedTo(p[at(i)], p[at(i)].x + shift(i), p[at(i)].y) = p[i]
    <3>1. at(i) = i /\ shift(i) = 0 /\ p[i] \in Points /\ p[i].x \in Int
      BY <1>3, PathPoints
    <3>2. p[i].x + 0 = p[i].x
      BY <3>1
    <3>3. MovedTo(p[i], p[i].x, p[i].y) = p[i]
      BY <3>1, Placed
    <3> QED
      BY <3>1, <3>2, <3>3
  <2>2. p = [i \in 1..Len(p) |-> p[i]]
    BY PathPoints DEF Path
  <2> QED
    BY <1>5, <2>1, <2>2
<1> HIDE DEF q
<1> QED
  BY <1>1, <1>4, <1>7, <1>8, RowIsPath
-----------------------------------------------------------------------------
(* The workspace.                                                          *)

\* What is rounded is a whole number.
LEMMA RoundedTyped ==
    ASSUME NEW d \in Nat \ {0}, NEW n \in Int
    PROVE  Rounded(n, d) \in Int
<1>1. 2 * n + d \in Int /\ 2 * d \in Nat \ {0}
  OBVIOUS
<1>2. \A a \in Int, b \in Nat \ {0} : a \div b \in Int
  OBVIOUS
<1> QED
  BY <1>1, <1>2 DEF Rounded

\* Rounding to the nearest stays under a whole bound.
LEMMA RoundedFits ==
    ASSUME NEW d \in Nat \ {0}, NEW room \in Nat, NEW n \in Nat, n <= room * d
    PROVE  Rounded(n, d) \in Nat /\ Rounded(n, d) <= room
<1> DEFINE a == 2 * n + d
           q == a \div (2 * d)
<1>1. a \in Nat /\ 2 * d \in Nat \ {0}
  OBVIOUS
<1>2. q \in Nat /\ q * (2 * d) <= a
  BY <1>1
<1>3. a < (room + 1) * (2 * d)
  <2>1. room * d \in Nat /\ (room + 1) * (2 * d) = 2 * (room * d) + 2 * d
    OBVIOUS
  <2> QED
    BY <2>1
<1>4. q < room + 1
  <2>1. CASE q >= room + 1
    <3>1. q * (2 * d) >= (room + 1) * (2 * d)
      <4> HIDE DEF q, a
      <4>1. PICK e \in Nat : q = (room + 1) + e
        <5>1. q - (room + 1) \in Nat /\ q = (room + 1) + (q - (room + 1))
          BY <1>2, <2>1
        <5> QED
          BY <5>1
      <4>2. q * (2 * d) = (room + 1) * (2 * d) + e * (2 * d) /\ e * (2 * d) \in Nat
        BY <4>1
      <4> QED
        BY <4>2
    <3>2. q * (2 * d) \in Nat /\ (room + 1) * (2 * d) \in Nat
      BY <1>2
    <3> HIDE DEF q, a
    <3> QED
      BY <1>1, <1>2, <1>3, <3>1, <3>2
  <2> HIDE DEF q, a
  <2> QED
    BY <1>2, <2>1
<1>5. Rounded(n, d) = q
  BY DEF Rounded
<1> HIDE DEF q, a
<1> QED
  BY <1>2, <1>4, <1>5

\* A fraction, and when one is not more than another.
Fractions == Int \X (Nat \ {0})

NotMore(c, d) == c[1] * d[2] <= d[1] * c[2]

\* Fractions are ordered.
LEMMA FractionsOrdered ==
    ASSUME NEW a \in Fractions, NEW b \in Fractions, NEW c \in Fractions
    PROVE  /\ NotMore(a, a) /\ (NotMore(a, b) \/ NotMore(b, a))
           /\ NotMore(a, b) /\ NotMore(b, c) => NotMore(a, c)
<1>1. /\ a[1] \in Int /\ a[2] \in Nat \ {0} /\ b[1] \in Int /\ b[2] \in Nat \ {0}
      /\ c[1] \in Int /\ c[2] \in Nat \ {0}
  BY DEF Fractions
<1>2. \A x \in Int, y \in Nat \ {0} : x * y \in Int
  OBVIOUS
<1>3. NotMore(a, a) /\ (NotMore(a, b) \/ NotMore(b, a))
  BY <1>1, <1>2 DEF NotMore
<1>4. \A x, y \in Int, z \in Nat \ {0} : x <= y => x * z <= y * z
  <2> SUFFICES ASSUME NEW x \in Int, NEW y \in Int, NEW z \in Nat \ {0}, x <= y
               PROVE  x * z <= y * z
    OBVIOUS
  <2>1. y - x \in Nat /\ y = x + (y - x)
    OBVIOUS
  <2>2. y * z = x * z + (y - x) * z /\ (y - x) * z \in Nat /\ x * z \in Int
    BY <2>1
  <2> QED
    BY <2>2
<1>5. \A x, y \in Int, z \in Nat \ {0} : x * z <= y * z => x <= y
  <2> SUFFICES ASSUME NEW x \in Int, NEW y \in Int, NEW z \in Nat \ {0}, x > y
               PROVE  x * z > y * z
    OBVIOUS
  <2>1. x - y \in Nat \ {0} /\ x = y + (x - y)
    OBVIOUS
  <2>2. x * z = y * z + (x - y) * z /\ (x - y) * z > 0 /\ y * z \in Int
    BY <2>1
  <2> QED
    BY <2>2
<1>6. ASSUME NotMore(a, b), NotMore(b, c) PROVE NotMore(a, c)
  <2>1. ASSUME NEW x \in Int, NEW y \in Nat \ {0}, NEW z \in Int, NEW u \in Nat \ {0},
               NEW v \in Int, NEW w \in Nat \ {0}, x * u <= z * y, z * w <= v * u
        PROVE  (x * w) * u <= (v * y) * u
    <3>1. (x * u) * w <= (z * y) * w
      <4>1. x * u \in Int /\ z * y \in Int
        OBVIOUS
      <4> QED
        BY <1>4, <2>1, <4>1
    <3>2. (z * w) * y <= (v * u) * y
      <4>1. z * w \in Int /\ v * u \in Int
        OBVIOUS
      <4> QED
        BY <1>4, <2>1, <4>1
    <3>3. (x * u) * w = (x * w) * u /\ (z * y) * w = (z * w) * y /\ (v * u) * y = (v * y) * u
      OBVIOUS
    <3>4. (x * w) * u \in Int /\ (z * w) * y \in Int /\ (v * y) * u \in Int
      OBVIOUS
    <3> QED
      BY <3>1, <3>2, <3>3, <3>4
  <2>2. (a[1] * c[2]) * b[2] <= (c[1] * a[2]) * b[2]
    BY <1>1, <1>6, <2>1 DEF NotMore
  <2>3. a[1] * c[2] \in Int /\ c[1] * a[2] \in Int
    BY <1>1
  <2> QED
    BY <1>1, <1>5, <2>2, <2>3 DEF NotMore
<1> QED
  BY <1>3, <1>6

\* The scale is a fraction, and where there is room one that fits the width and
\* the height.
LEMMA ScaleFits ==
    ASSUME NEW p, Path(p), NEW room, room.w \in Int, room.h \in Int,
           Span(Xs(p)) \in Nat, Span(Ys(p)) \in Nat
    PROVE  /\ Scale(p, room) \in Fractions
           /\ room.w \in Nat /\ room.h \in Nat =>
                /\ Scale(p, room)[1] \in Nat
                /\ Scale(p, room)[1] * Span(Xs(p)) <= room.w * Scale(p, room)[2]
                /\ Scale(p, room)[1] * Span(Ys(p)) <= room.h * Scale(p, room)[2]
<1> DEFINE sx == Span(Xs(p))
           sy == Span(Ys(p))
           one == <<1, 1>>
           b == IF sx > 0 THEN <<room.w, sx>> ELSE one
           c == IF sy > 0 THEN <<room.h, sy>> ELSE one
           all == {<<1, 1>>} \cup (IF sx > 0 THEN {<<room.w, sx>>} ELSE {})
                             \cup (IF sy > 0 THEN {<<room.h, sy>>} ELSE {})
<1> HIDE DEF sx, sy
<1>0. sx \in Nat /\ sy \in Nat
  BY DEF sx, sy
<1>1. one \in Fractions /\ b \in Fractions /\ c \in Fractions
  BY <1>0 DEF Fractions
<1>2. all = {one, b, c}
  OBVIOUS
<1>3. Scale(p, room) = CHOOSE e \in all : \A d \in all : NotMore(e, d)
  BY DEF Scale, NotMore, sx, sy
<1>4. /\ (sx > 0 => b = <<room.w, sx>>) /\ (sy > 0 => c = <<room.h, sy>>)
      /\ room.w \in Nat /\ room.h \in Nat => one[1] \in Nat /\ b[1] \in Nat /\ c[1] \in Nat
  BY <1>0
<1> HIDE DEF one, b, c, all
<1>5. \E e \in all : \A d \in all : NotMore(e, d)
  <2>1. \A x, y, z \in {one, b, c} :
          /\ NotMore(x, x) /\ (NotMore(x, y) \/ NotMore(y, x))
          /\ NotMore(x, y) /\ NotMore(y, z) => NotMore(x, z)
    BY <1>1, FractionsOrdered
  <2>2. \E e \in {one, b, c} : \A d \in {one, b, c} : NotMore(e, d)
    BY <2>1, Zenon
  <2> QED
    BY <1>2, <2>2
<1> DEFINE e == Scale(p, room)
<1>6. e \in all /\ \A d \in all : NotMore(e, d)
  BY <1>3, <1>5
<1> HIDE DEF e
<1>7. e \in Fractions /\ e[1] \in Int /\ e[2] \in Nat \ {0}
  BY <1>1, <1>2, <1>6 DEF Fractions
<1>8. ASSUME room.w \in Nat, room.h \in Nat
      PROVE  e[1] \in Nat /\ e[1] * sx <= room.w * e[2] /\ e[1] * sy <= room.h * e[2]
  <2>1. e[1] \in Nat
    BY <1>2, <1>4, <1>6, <1>8
  <2>2. e[1] * sx <= room.w * e[2]
    <3>1. CASE sx > 0
      <4>1. NotMore(e, b) /\ b[1] = room.w /\ b[2] = sx
        BY <1>2, <1>4, <1>6, <3>1
      <4> QED
        BY <4>1 DEF NotMore
    <3>2. CASE sx = 0
      <4>1. e[1] * 0 = 0 /\ room.w * e[2] \in Nat
        BY <1>7, <1>8, <2>1
      <4> QED
        BY <3>2, <4>1
    <3> QED
      BY <1>0, <3>1, <3>2
  <2>3. e[1] * sy <= room.h * e[2]
    <3>1. CASE sy > 0
      <4>1. NotMore(e, c) /\ c[1] = room.h /\ c[2] = sy
        BY <1>2, <1>4, <1>6, <3>1
      <4> QED
        BY <4>1 DEF NotMore
    <3>2. CASE sy = 0
      <4>1. e[1] * 0 = 0 /\ room.h * e[2] \in Nat
        BY <1>7, <1>8, <2>1
      <4> QED
        BY <3>2, <4>1
    <3> QED
      BY <1>0, <3>1, <3>2
  <2> QED
    BY <2>1, <2>2, <2>3
<1> QED
  BY <1>7, <1>8 DEF e, sx, sy

\* One coordinate that is scaled into its room.
LEMMA CoordinateFits ==
    ASSUME NEW num \in Nat, NEW den \in Nat \ {0}, NEW span \in Nat, NEW room \in Nat,
           num * span <= room * den, NEW n \in Nat, n <= span
    PROVE  Rounded(n * num, den) \in Nat /\ Rounded(n * num, den) <= room
<1>1. n * num \in Nat /\ n * num <= num * span
  <2>1. PICK e \in Nat : span = n + e
    <3>1. span - n \in Nat /\ span = n + (span - n)
      OBVIOUS
    <3> QED
      BY <3>1
  <2>2. num * span = n * num + e * num /\ e * num \in Nat /\ n * num \in Nat
    BY <2>1
  <2> QED
    BY <2>2
<1>2. n * num <= room * den
  <2>1. room * den \in Nat /\ num * span \in Nat
    OBVIOUS
  <2> QED
    BY <1>1, <2>1
<1> QED
  BY <1>1, <1>2, RoundedFits

\* A path that is normalized is a path, and lies in the workspace unless the
\* margins leave no room.
LEMMA NormalizedFits ==
    ASSUME NEW p, Path(p), NEW w \in Workspaces
    PROVE  Path(Normalized(p, w)) /\ (~Narrow(w) => Within(Normalized(p, w), w, 1))
<1> DEFINE room == [w |-> (w.w - 2 * Margin) * PerMm, h |-> (w.h - 2 * Margin) * PerMm]
           scale == Scale(p, room)
           fit(n, least) == Margin * PerMm + Rounded((n - least) * scale[1], scale[2])
           q == [i \in DOMAIN p |->
                   MovedTo(p[i], fit(p[i].x, Least(Xs(p))), fit(p[i].y, Least(Ys(p))))]
<1>1. /\ Len(p) \in Nat \ {0} /\ DOMAIN p = 1..Len(p)
      /\ \A i \in DOMAIN p : p[i].x \in Int /\ p[i].y \in Int /\ p[i].up \in BOOLEAN
  BY PathPoints
<1>2. /\ Least(Xs(p)) \in Int /\ Span(Xs(p)) \in Nat
      /\ \A i \in DOMAIN p : p[i].x - Least(Xs(p)) \in 0..Span(Xs(p))
  <2> DEFINE f == [i \in 1..Len(p) |-> p[i].x]
  <2>1. (\A k \in 1..Len(p) : f[k] \in Int) /\ Xs(p) = {f[k] : k \in 1..Len(p)}
    BY <1>1 DEF Xs
  <2> HIDE DEF f
  <2>2. /\ Least(Xs(p)) \in Xs(p) /\ \A x \in Xs(p) : Least(Xs(p)) <= x
        /\ Greatest(Xs(p)) \in Xs(p) /\ \A x \in Xs(p) : Greatest(Xs(p)) >= x
    BY <1>1, <2>1, Extremes
  <2>3. \A i \in DOMAIN p : p[i].x \in Xs(p) /\ p[i].x \in Int
    BY <1>1 DEF Xs
  <2>4. Least(Xs(p)) \in Int /\ Greatest(Xs(p)) \in Int
    BY <2>1, <2>2
  <2>5. \A x \in Xs(p) : Least(Xs(p)) <= x /\ Greatest(Xs(p)) >= x
    BY <2>2
  <2> QED
    BY <2>2, <2>3, <2>4, <2>5 DEF Span
<1>3. /\ Least(Ys(p)) \in Int /\ Span(Ys(p)) \in Nat
      /\ \A i \in DOMAIN p : p[i].y - Least(Ys(p)) \in 0..Span(Ys(p))
  <2> DEFINE f == [i \in 1..Len(p) |-> p[i].y]
  <2>1. (\A k \in 1..Len(p) : f[k] \in Int) /\ Ys(p) = {f[k] : k \in 1..Len(p)}
    BY <1>1 DEF Ys
  <2> HIDE DEF f
  <2>2. /\ Least(Ys(p)) \in Ys(p) /\ \A y \in Ys(p) : Least(Ys(p)) <= y
        /\ Greatest(Ys(p)) \in Ys(p) /\ \A y \in Ys(p) : Greatest(Ys(p)) >= y
    BY <1>1, <2>1, Extremes
  <2>3. \A i \in DOMAIN p : p[i].y \in Ys(p) /\ p[i].y \in Int
    BY <1>1 DEF Ys
  <2>4. Least(Ys(p)) \in Int /\ Greatest(Ys(p)) \in Int
    BY <2>1, <2>2
  <2>5. \A y \in Ys(p) : Least(Ys(p)) <= y /\ Greatest(Ys(p)) >= y
    BY <2>2
  <2> QED
    BY <2>2, <2>3, <2>4, <2>5 DEF Span
<1>4. /\ PerMm \in Nat \ {0} /\ Margin \in Nat /\ w.w \in Nat /\ w.h \in Nat
      /\ ~Narrow(w) => w.w >= 2 * Margin /\ w.h >= 2 * Margin
  BY PathsAssumption DEF Narrow
<1>5. /\ room.w \in Int /\ room.h \in Int
      /\ Margin * PerMm \in Nat /\ w.w * PerMm \in Nat /\ w.h * PerMm \in Nat
      /\ ~Narrow(w) =>
           /\ room.w \in Nat /\ Margin * PerMm + room.w <= w.w * PerMm
           /\ room.h \in Nat /\ Margin * PerMm + room.h <= w.h * PerMm
  <2>1. ASSUME NEW n \in Nat
        PROVE  /\ (n - 2 * Margin) * PerMm \in Int /\ Margin * PerMm \in Nat /\ n * PerMm \in Nat
               /\ n >= 2 * Margin =>
                    /\ (n - 2 * Margin) * PerMm \in Nat
                    /\ Margin * PerMm + (n - 2 * Margin) * PerMm <= n * PerMm
    <3>1. n - 2 * Margin \in Int /\ (n >= 2 * Margin => n - 2 * Margin \in Nat)
      BY <1>4
    <3>2. /\ (n - 2 * Margin) * PerMm \in Int
          /\ n >= 2 * Margin => (n - 2 * Margin) * PerMm \in Nat
      BY <1>4, <3>1
    <3>3. Margin * PerMm \in Nat /\ n * PerMm \in Nat
      BY <1>4
    <3>4. (n - 2 * Margin) * PerMm = n * PerMm - 2 * (Margin * PerMm)
      BY <1>4
    <3> QED
      BY <3>2, <3>3, <3>4
  <2>2. room.w = (w.w - 2 * Margin) * PerMm /\ room.h = (w.h - 2 * Margin) * PerMm
    OBVIOUS
  <2> HIDE DEF room
  <2> QED
    BY <1>4, <2>1, <2>2
<1>6. Normalized(p, w) = q
  BY DEF Normalized
<1> HIDE DEF room
<1>7. /\ scale \in Fractions
      /\ ~Narrow(w) => /\ scale[1] \in Nat
                       /\ scale[1] * Span(Xs(p)) <= room.w * scale[2]
                       /\ scale[1] * Span(Ys(p)) <= room.h * scale[2]
  BY <1>2, <1>3, <1>5, ScaleFits
<1> HIDE DEF scale
<1>8. scale[1] \in Int /\ scale[2] \in Nat \ {0}
  BY <1>7 DEF Fractions
<1>9. ASSUME NEW i \in DOMAIN p
      PROVE  /\ fit(p[i].x, Least(Xs(p))) \in Int /\ fit(p[i].y, Least(Ys(p))) \in Int
             /\ ~Narrow(w) => /\ fit(p[i].x, Least(Xs(p))) \in 0..(w.w * PerMm)
                              /\ fit(p[i].y, Least(Ys(p))) \in 0..(w.h * PerMm)
  <2> DEFINE x == p[i].x - Least(Xs(p))
             y == p[i].y - Least(Ys(p))
  <2>1. x \in Nat /\ x <= Span(Xs(p)) /\ y \in Nat /\ y <= Span(Ys(p))
    BY <1>2, <1>3
  <2>2. /\ fit(p[i].x, Least(Xs(p))) = Margin * PerMm + Rounded(x * scale[1], scale[2])
        /\ fit(p[i].y, Least(Ys(p))) = Margin * PerMm + Rounded(y * scale[1], scale[2])
    OBVIOUS
  <2> HIDE DEF x, y, fit
  <2>3. Rounded(x * scale[1], scale[2]) \in Int /\ Rounded(y * scale[1], scale[2]) \in Int
    <3>1. x * scale[1] \in Int /\ y * scale[1] \in Int
      BY <1>8, <2>1
    <3> QED
      BY <1>8, <3>1, RoundedTyped
  <2>4. ASSUME ~Narrow(w)
        PROVE  /\ Rounded(x * scale[1], scale[2]) \in Nat
               /\ Rounded(x * scale[1], scale[2]) <= room.w
               /\ Rounded(y * scale[1], scale[2]) \in Nat
               /\ Rounded(y * scale[1], scale[2]) <= room.h
    <3>1. scale[1] \in Nat /\ room.w \in Nat /\ room.h \in Nat
      BY <1>5, <1>7, <2>4
    <3>2. /\ Rounded(x * scale[1], scale[2]) \in Nat
          /\ Rounded(x * scale[1], scale[2]) <= room.w
      BY <1>2, <1>7, <1>8, <2>1, <2>4, <3>1, CoordinateFits
    <3>3. /\ Rounded(y * scale[1], scale[2]) \in Nat
          /\ Rounded(y * scale[1], scale[2]) <= room.h
      BY <1>3, <1>7, <1>8, <2>1, <2>4, <3>1, CoordinateFits
    <3> QED
      BY <3>2, <3>3
  <2>5. fit(p[i].x, Least(Xs(p))) \in Int /\ fit(p[i].y, Least(Ys(p))) \in Int
    BY <1>5, <2>2, <2>3
  <2>6. ASSUME ~Narrow(w)
        PROVE  /\ fit(p[i].x, Least(Xs(p))) \in 0..(w.w * PerMm)
               /\ fit(p[i].y, Least(Ys(p))) \in 0..(w.h * PerMm)
    BY <1>5, <2>2, <2>4, <2>6
  <2> QED
    BY <2>5, <2>6
<1> HIDE DEF fit
<1>10. ASSUME NEW i \in DOMAIN p
       PROVE  /\ q[i] \in Points
              /\ ~Narrow(w) => q[i].x \in 0..(w.w * PerMm) /\ q[i].y \in 0..(w.h * PerMm)
  <2>1. q[i] = MovedTo(p[i], fit(p[i].x, Least(Xs(p))), fit(p[i].y, Least(Ys(p))))
    OBVIOUS
  <2> HIDE DEF q
  <2> QED
    BY <1>1, <1>9, <2>1, Placed
<1>11. q \in [1..Len(p) -> Points]
  BY <1>1, <1>10
<1> HIDE DEF q
<1>12. Path(q) /\ DOMAIN q = DOMAIN p
  BY <1>1, <1>11, RowIsPath
<1>13. ~Narrow(w) => Within(q, w, 1)
  BY <1>5, <1>10, <1>12 DEF Within
<1> QED
  BY <1>6, <1>12, <1>13

\* A path that is smoothed is a path, and does not leave the workspace.
LEMMA AveragedFits ==
    ASSUME NEW p, Path(p), NEW w \in Workspaces, NEW g \in Nat
    PROVE  /\ Path(Averaged(p))
           /\ Within(p, w, g) => Within(Averaged(p), w, 4 * g)
<1> DEFINE of(i, a, b, c) == IF i \in {1, Len(p)} THEN 4 * b ELSE a + 2 * b + c
           near(i, k) == p[IF k \in DOMAIN p THEN k ELSE i]
           q == [i \in DOMAIN p |->
                   MovedTo(p[i], of(i, near(i, i - 1).x, p[i].x, near(i, i + 1).x),
                                 of(i, near(i, i - 1).y, p[i].y, near(i, i + 1).y))]
<1>1. /\ Len(p) \in Nat \ {0} /\ DOMAIN p = 1..Len(p)
      /\ \A i \in DOMAIN p : p[i].x \in Int /\ p[i].y \in Int /\ p[i].up \in BOOLEAN
  BY PathPoints
<1>2. Averaged(p) = q
  BY DEF Averaged
<1>3. \A i \in DOMAIN p, k \in Int : \E j \in DOMAIN p : near(i, k) = p[j]
  OBVIOUS
<1>4. \A i \in DOMAIN p : i - 1 \in Int /\ i + 1 \in Int
  BY <1>1
<1>5. \A i, a, b, c \in Int :
        /\ of(i, a, b, c) \in Int
        /\ \A m \in Int : a \in 0..m /\ b \in 0..m /\ c \in 0..m => of(i, a, b, c) \in 0..(4 * m)
  <2> SUFFICES ASSUME NEW i \in Int, NEW a \in Int, NEW b \in Int, NEW c \in Int
               PROVE  /\ of(i, a, b, c) \in Int
                      /\ \A m \in Int : a \in 0..m /\ b \in 0..m /\ c \in 0..m =>
                                          of(i, a, b, c) \in 0..(4 * m)
    OBVIOUS
  <2>1. of(i, a, b, c) = 4 * b \/ of(i, a, b, c) = a + 2 * b + c
    OBVIOUS
  <2> HIDE DEF of
  <2> QED
    BY <2>1
<1> HIDE DEF near, of
<1>6. ASSUME NEW i \in DOMAIN p
      PROVE  /\ q[i] \in Points
             /\ q[i].x = of(i, near(i, i - 1).x, p[i].x, near(i, i + 1).x)
             /\ q[i].y = of(i, near(i, i - 1).y, p[i].y, near(i, i + 1).y)
  <2>1. /\ near(i, i - 1).x \in Int /\ near(i, i + 1).x \in Int
        /\ near(i, i - 1).y \in Int /\ near(i, i + 1).y \in Int
    BY <1>1, <1>3, <1>4
  <2>2. /\ of(i, near(i, i - 1).x, p[i].x, near(i, i + 1).x) \in Int
        /\ of(i, near(i, i - 1).y, p[i].y, near(i, i + 1).y) \in Int
    <3>1. i \in Int /\ p[i].x \in Int /\ p[i].y \in Int
      BY <1>1
    <3> HIDE DEF q
    <3> QED
      BY <1>5, <2>1, <3>1
  <2>3. q[i] = MovedTo(p[i], of(i, near(i, i - 1).x, p[i].x, near(i, i + 1).x),
                             of(i, near(i, i - 1).y, p[i].y, near(i, i + 1).y))
    OBVIOUS
  <2> HIDE DEF q
  <2> QED
    BY <1>1, <2>2, <2>3, Placed
<1>7. q \in [1..Len(p) -> Points]
  BY <1>1, <1>6
<1>8. Path(q) /\ DOMAIN q = DOMAIN p
  <2> HIDE DEF q
  <2> QED
    BY <1>1, <1>7, RowIsPath
<1>9. ASSUME Within(p, w, g) PROVE Within(q, w, 4 * g)
  <2> HIDE DEF q
  <2>1. /\ PerMm \in Nat /\ w.w \in Nat /\ w.h \in Nat
    BY PathsAssumption
  <2> DEFINE mx == w.w * PerMm * g
             my == w.h * PerMm * g
  <2>2. /\ mx \in Nat /\ my \in Nat
        /\ w.w * PerMm * (4 * g) = 4 * mx /\ w.h * PerMm * (4 * g) = 4 * my
    <3>1. w.w * PerMm \in Nat /\ w.h * PerMm \in Nat
      BY <2>1
    <3> QED
      BY <3>1
  <2>3. \A i \in DOMAIN p : p[i].x \in 0..mx /\ p[i].y \in 0..my
    BY <1>1, <1>9 DEF Within
  <2> HIDE DEF mx, my
  <2>4. ASSUME NEW i \in DOMAIN p PROVE q[i].x \in 0..(4 * mx) /\ q[i].y \in 0..(4 * my)
    <3>1. /\ near(i, i - 1).x \in 0..mx /\ near(i, i + 1).x \in 0..mx
          /\ near(i, i - 1).y \in 0..my /\ near(i, i + 1).y \in 0..my
      BY <1>3, <1>4, <2>3
    <3>2. i \in Int /\ p[i].x \in 0..mx /\ p[i].y \in 0..my
      BY <1>1, <2>3
    <3>3. \A a, b, c, m \in Int : a \in 0..m /\ b \in 0..m /\ c \in 0..m => of(i, a, b, c) \in 0..(4 * m)
      BY <1>5, <3>2
    <3>4. \A m \in Nat : m \in Int /\ \A n \in 0..m : n \in Int
      OBVIOUS
    <3>5. of(i, near(i, i - 1).x, p[i].x, near(i, i + 1).x) \in 0..(4 * mx)
      BY <2>2, <3>1, <3>2, <3>3, <3>4
    <3>6. of(i, near(i, i - 1).y, p[i].y, near(i, i + 1).y) \in 0..(4 * my)
      BY <2>2, <3>1, <3>2, <3>3, <3>4
    <3> QED
      BY <1>6, <3>5, <3>6
  <2>5. \A i \in DOMAIN q : /\ 0 <= q[i].x /\ q[i].x <= w.w * PerMm * (4 * g)
                            /\ 0 <= q[i].y /\ q[i].y <= w.h * PerMm * (4 * g)
    BY <1>8, <2>2, <2>4
  <2> QED
    BY <2>5 DEF Within
<1> QED
  BY <1>2, <1>8, <1>9

\* A part of a path lies where the path lies.
LEMMA PickedFits ==
    ASSUME NEW p, Path(p), NEW S \in SUBSET (DOMAIN p), S # {}, NEW w \in Workspaces
    PROVE  /\ Path(Picked(p, S))
           /\ Within(p, w, 1) => Within(Picked(p, S), w, 1)
<1>1. /\ Picked(p, S) \in Seq(Points) /\ Picked(p, S) # <<>>
      /\ \A k \in DOMAIN Picked(p, S) : \E i \in S : Picked(p, S)[k] = p[i]
  BY PickedTyped DEF Path
<1>2. Within(p, w, 1) => Within(Picked(p, S), w, 1)
  BY <1>1 DEF Within
<1> QED
  BY <1>1, <1>2 DEF Path
-----------------------------------------------------------------------------
(* The loop of compress.                                                   *)

\* no two entries of the stack are the same
Distinct(st) == \A k, l \in DOMAIN st : st[k] = st[l] => k = l

\* What is left of a stack when its last entry is taken.
LEMMA StackPop ==
    ASSUME NEW S, NEW st \in Seq(S), st # <<>>, Distinct(st)
    PROVE  /\ Last(st) \in ToSet(st) /\ Last(st) \in S
           /\ Front(st) \in Seq(S) /\ Distinct(Front(st))
           /\ ToSet(Front(st)) = ToSet(st) \ {Last(st)}
<1> DEFINE n == Len(st)
           f == SubSeq(st, 1, n - 1)
<1>1. n \in Nat \ {0} /\ DOMAIN st = 1..n /\ \A k \in 1..n : st[k] \in S
  OBVIOUS
<1>2. /\ f \in Seq(S) /\ Len(f) = n - 1 /\ DOMAIN f = 1..(n - 1)
      /\ \A k \in 1..(n - 1) : f[k] = st[k]
  BY <1>1
<1>3. Front(st) = f /\ Last(st) = st[n]
  BY DEF Front, Last
<1> HIDE DEF n, f
<1>4. Last(st) \in ToSet(st) /\ Last(st) \in S
  BY <1>1, <1>3 DEF ToSet
<1>5. Distinct(f)
  BY <1>1, <1>2 DEF Distinct
<1>6. ToSet(f) = ToSet(st) \ {st[n]}
  <2>1. ASSUME NEW x \in ToSet(f) PROVE x \in ToSet(st) /\ x # st[n]
    <3>1. PICK k \in 1..(n - 1) : x = f[k]
      BY <1>2, <2>1 DEF ToSet
    <3>2. k \in 1..n /\ n \in 1..n /\ k # n /\ x = st[k]
      BY <1>1, <1>2, <3>1
    <3> QED
      BY <1>1, <3>2 DEF ToSet, Distinct
  <2>2. ASSUME NEW x \in ToSet(st), x # st[n] PROVE x \in ToSet(f)
    <3>1. PICK k \in 1..n : x = st[k]
      BY <1>1, <2>2 DEF ToSet
    <3>2. k \in 1..(n - 1)
      BY <1>1, <2>2, <3>1
    <3> QED
      BY <1>2, <3>1, <3>2 DEF ToSet
  <2> QED
    BY <2>1, <2>2
<1> QED
  BY <1>2, <1>3, <1>4, <1>5, <1>6

\* What a stack holds when two entries are pushed.
LEMMA StackPush ==
    ASSUME NEW S, NEW st \in Seq(S), NEW x \in S, NEW y \in S, Distinct(st),
           x \notin ToSet(st), y \notin ToSet(st), x # y
    PROVE  /\ st \o <<x, y>> \in Seq(S) /\ Distinct(st \o <<x, y>>)
           /\ ToSet(st \o <<x, y>>) = ToSet(st) \cup {x, y}
<1> DEFINE n == Len(st)
           f == st \o <<x, y>>
<1>1. n \in Nat /\ DOMAIN st = 1..n /\ \A k \in 1..n : st[k] \in S /\ st[k] \in ToSet(st)
  BY DEF ToSet
<1>2. /\ f \in Seq(S) /\ DOMAIN f = 1..(n + 2)
      /\ \A k \in 1..n : f[k] = st[k]
      /\ f[n + 1] = x /\ f[n + 2] = y
  OBVIOUS
<1> HIDE DEF f, n
<1>3. \A k \in 1..(n + 2) : k \in 1..n \/ k = n + 1 \/ k = n + 2
  BY <1>1
<1>4. Distinct(f)
  <2> SUFFICES ASSUME NEW k \in 1..(n + 2), NEW l \in 1..(n + 2), f[k] = f[l] PROVE k = l
    BY <1>2 DEF Distinct
  <2>1. CASE k \in 1..n
    BY <1>1, <1>2, <1>3, <2>1 DEF Distinct
  <2>2. CASE k = n + 1
    BY <1>1, <1>2, <1>3, <2>2
  <2>3. CASE k = n + 2
    BY <1>1, <1>2, <1>3, <2>3
  <2> QED
    BY <1>3, <2>1, <2>2, <2>3
<1>5. ToSet(f) = ToSet(st) \cup {x, y}
  <2>1. ASSUME NEW z \in ToSet(f) PROVE z \in ToSet(st) \cup {x, y}
    <3>1. PICK k \in 1..(n + 2) : z = f[k]
      BY <1>2, <2>1 DEF ToSet
    <3> QED
      BY <1>1, <1>2, <1>3, <3>1
  <2>2. ASSUME NEW z \in ToSet(st) PROVE z \in ToSet(f)
    <3>1. PICK k \in 1..n : z = st[k]
      BY <1>1, <2>2 DEF ToSet
    <3>2. k \in 1..(n + 2)
      BY <1>1
    <3> QED
      BY <1>2, <3>1, <3>2 DEF ToSet
  <2>3. n + 1 \in 1..(n + 2) /\ n + 2 \in 1..(n + 2)
    BY <1>1
  <2>4. x \in ToSet(f) /\ y \in ToSet(f)
    BY <1>2, <2>3 DEF ToSet
  <2> QED
    BY <2>1, <2>2, <2>4
<1> QED
  BY <1>2, <1>4, <1>5 DEF f

\* Distances are integers.
LEMMA DistanceTyped ==
    ASSUME NEW p, Path(p), NEW i \in DOMAIN p, NEW j \in DOMAIN p, NEW k \in DOMAIN p
    PROVE  FromChord(p[k], p[i], p[j]) \in Int /\ Chord(p[i], p[j]) \in Nat \ {0}
<1>1. /\ p[i].x \in Int /\ p[i].y \in Int /\ p[j].x \in Int /\ p[j].y \in Int
      /\ p[k].x \in Int /\ p[k].y \in Int
  BY PathPoints
<1>2. \A n \in Int : Square(n) \in Nat /\ (n # 0 => Square(n) \in Nat \ {0})
  BY DEF Square
<1>3. Apart(p[i], p[j]) \in Nat /\ Apart(p[k], p[i]) \in Nat /\ Apart(p[k], p[j]) \in Nat
  BY <1>1, <1>2 DEF Apart
<1>4. Chord(p[i], p[j]) \in Nat \ {0}
  <2>1. CASE p[i].x = p[j].x /\ p[i].y = p[j].y
    BY <2>1 DEF Chord
  <2>2. CASE p[i].x # p[j].x
    <3>1. p[i].x - p[j].x \in Int /\ p[i].x - p[j].x # 0 /\ p[i].y - p[j].y \in Int
      BY <1>1, <2>2
    <3>2. Apart(p[i], p[j]) \in Nat \ {0}
      BY <1>2, <3>1 DEF Apart
    <3> QED
      BY <2>2, <3>2 DEF Chord
  <2>3. CASE p[i].y # p[j].y
    <3>1. p[i].x - p[j].x \in Int /\ p[i].y - p[j].y # 0 /\ p[i].y - p[j].y \in Int
      BY <1>1, <2>3
    <3>2. Apart(p[i], p[j]) \in Nat \ {0}
      BY <1>2, <3>1 DEF Apart
    <3> QED
      BY <2>3, <3>2 DEF Chord
  <2> QED
    BY <2>1, <2>2, <2>3
<1> DEFINE dot == (p[k].x - p[i].x) * (p[j].x - p[i].x) + (p[k].y - p[i].y) * (p[j].y - p[i].y)
           cross == (p[k].x - p[i].x) * (p[j].y - p[i].y) - (p[k].y - p[i].y) * (p[j].x - p[i].x)
<1>5. dot \in Int /\ cross \in Int
  <2>1. \A a, b, c, d \in Int : a * b + c * d \in Int /\ a * b - c * d \in Int
    OBVIOUS
  <2>2. /\ p[k].x - p[i].x \in Int /\ p[j].x - p[i].x \in Int
        /\ p[k].y - p[i].y \in Int /\ p[j].y - p[i].y \in Int
    BY <1>1
  <2> QED
    BY <2>1, <2>2
<1>6. FromChord(p[k], p[i], p[j]) = IF dot <= 0 THEN Apart(p[k], p[i]) * Chord(p[i], p[j])
                                  ELSE IF dot >= Apart(p[i], p[j]) THEN Apart(p[k], p[j]) * Chord(p[i], p[j])
                                  ELSE Square(cross)
  BY DEF FromChord
<1> HIDE DEF dot, cross
<1>7. /\ Apart(p[k], p[i]) * Chord(p[i], p[j]) \in Int /\ Apart(p[k], p[j]) * Chord(p[i], p[j]) \in Int
      /\ Square(cross) \in Int
  BY <1>2, <1>3, <1>4, <1>5
<1> QED
  BY <1>4, <1>6, <1>7

\* The farthest point exists, and when it is near, all points between are.
LEMMA FarthestIs ==
    ASSUME NEW p, Path(p), NEW i \in DOMAIN p, NEW j \in DOMAIN p, j > i + 1, NEW n
    PROVE  /\ Farthest(p, i, j) \in (i + 1)..(j - 1)
           /\ n \in Nat /\ ~Beyond(p[Farthest(p, i, j)], p[i], p[j], n) =>
                \A k \in (i + 1)..(j - 1) : ~Beyond(p[k], p[i], p[j], n)
<1>1. DOMAIN p = 1..Len(p) /\ Len(p) \in Nat \ {0}
  BY PathPoints
<1>2. /\ i + 1 \in Nat /\ j - 1 \in Nat /\ i + 1 <= j - 1
      /\ \A k \in (i + 1)..(j - 1) : k \in DOMAIN p
  BY <1>1
<1> DEFINE g == [k \in (i + 1)..(j - 1) |-> -FromChord(p[k], p[i], p[j])]
<1>3. \A k \in (i + 1)..(j - 1) :
        /\ FromChord(p[k], p[i], p[j]) \in Int
        /\ g[k] = -FromChord(p[k], p[i], p[j]) /\ g[k] \in Int
  <2>1. \A k \in (i + 1)..(j - 1) : FromChord(p[k], p[i], p[j]) \in Int
    BY <1>2, DistanceTyped
  <2> QED
    BY <2>1
<1> HIDE DEF g
<1>4. PICK m \in (i + 1)..(j - 1) : FirstLeast(g, i + 1, j - 1, m)
  BY <1>2, <1>3, FirstLeastExists
<1>5. \A k \in (i + 1)..(j - 1) :
        \/ FromChord(p[k], p[i], p[j]) < FromChord(p[m], p[i], p[j])
        \/ FromChord(p[k], p[i], p[j]) = FromChord(p[m], p[i], p[j]) /\ m <= k
  <2> SUFFICES ASSUME NEW k \in (i + 1)..(j - 1)
               PROVE  \/ FromChord(p[k], p[i], p[j]) < FromChord(p[m], p[i], p[j])
                      \/ FromChord(p[k], p[i], p[j]) = FromChord(p[m], p[i], p[j]) /\ m <= k
    OBVIOUS
  <2>1. g[m] < g[k] \/ (g[m] = g[k] /\ m <= k)
    BY <1>4 DEF FirstLeast
  <2>2. /\ g[k] = -FromChord(p[k], p[i], p[j]) /\ FromChord(p[k], p[i], p[j]) \in Int
        /\ g[m] = -FromChord(p[m], p[i], p[j]) /\ FromChord(p[m], p[i], p[j]) \in Int
    BY <1>3
  <2> QED
    BY <2>1, <2>2
<1> DEFINE q == Farthest(p, i, j)
<1>6. /\ q \in (i + 1)..(j - 1)
      /\ \A k \in (i + 1)..(j - 1) :
           \/ FromChord(p[k], p[i], p[j]) < FromChord(p[q], p[i], p[j])
           \/ FromChord(p[k], p[i], p[j]) = FromChord(p[q], p[i], p[j]) /\ q <= k
  BY <1>4, <1>5 DEF Farthest
<1> HIDE DEF q
<1>7. ASSUME n \in Nat, ~Beyond(p[q], p[i], p[j], n), NEW k \in (i + 1)..(j - 1)
      PROVE  ~Beyond(p[k], p[i], p[j], n)
  <2>1. /\ FromChord(p[k], p[i], p[j]) \in Int /\ FromChord(p[q], p[i], p[j]) \in Int
        /\ FromChord(p[k], p[i], p[j]) <= FromChord(p[q], p[i], p[j])
    BY <1>3, <1>6
  <2>2. Square(n * PerMm) * Chord(p[i], p[j]) \in Int
    <3>1. n * PerMm \in Nat
      BY <1>7, Parameters
    <3>2. Square(n * PerMm) \in Nat
      BY <3>1 DEF Square
    <3> QED
      BY <3>2, DistanceTyped
  <2>3. ~(16 * FromChord(p[q], p[i], p[j]) > Square(n * PerMm) * Chord(p[i], p[j]))
    BY <1>7 DEF Beyond
  <2>4. ~(16 * FromChord(p[k], p[i], p[j]) > Square(n * PerMm) * Chord(p[i], p[j]))
    BY <2>1, <2>2, <2>3
  <2> QED
    BY <2>4 DEF Beyond
<1> QED
  BY <1>6, <1>7 DEF q
-----------------------------------------------------------------------------
(* The recursion of _simplify_points.                                      *)

\* one turn of the recursion, with s for what it returns
Turn(p, n, s, i, j) ==
    IF j - i < 2 THEN i..j
    ELSE IF Beyond(p[Farthest(p, i, j)], p[i], p[j], n)
         THEN s[<<i, Farthest(p, i, j)>>] \cup s[<<Farthest(p, i, j), j>>]
         ELSE {i, j}

\* s is right for the intervals that are no longer than d
RightUpTo(p, n, s, d) ==
    \A i, j \in DOMAIN p : j - i <= d => s[<<i, j>>] = Turn(p, n, s, i, j)

\* One more turn is right for intervals that are longer by one.
LEMMA OneTurn ==
    ASSUME NEW p, Path(p), NEW n, NEW s, NEW d \in Nat, RightUpTo(p, n, s, d),
           NEW t, \A i, j \in DOMAIN p : t[<<i, j>>] = Turn(p, n, s, i, j)
    PROVE  RightUpTo(p, n, t, d + 1)
<1> SUFFICES ASSUME NEW i \in DOMAIN p, NEW j \in DOMAIN p, j - i <= d + 1
             PROVE  t[<<i, j>>] = Turn(p, n, t, i, j)
  BY DEF RightUpTo
<1>1. i \in Nat /\ j \in Nat /\ DOMAIN p = 1..Len(p) /\ Len(p) \in Nat
  BY PathPoints
<1>2. t[<<i, j>>] = Turn(p, n, s, i, j)
  OBVIOUS
<1>3. CASE j - i < 2
  BY <1>2, <1>3 DEF Turn
<1>4. CASE ~(j - i < 2)
  <2> DEFINE m == Farthest(p, i, j)
  <2>1. m \in (i + 1)..(j - 1)
    <3>1. j > i + 1
      BY <1>1, <1>4
    <3> QED
      BY <3>1, FarthestIs
  <2> HIDE DEF m
  <2>2. m \in DOMAIN p /\ m - i <= d /\ j - m <= d
    BY <1>1, <2>1
  <2>3. s[<<i, m>>] = Turn(p, n, s, i, m) /\ s[<<m, j>>] = Turn(p, n, s, m, j)
    BY <2>2 DEF RightUpTo
  <2>4. t[<<i, m>>] = Turn(p, n, s, i, m) /\ t[<<m, j>>] = Turn(p, n, s, m, j)
    BY <2>2
  <2>5. t[<<i, m>>] = s[<<i, m>>] /\ t[<<m, j>>] = s[<<m, j>>]
    BY <2>3, <2>4
  <2> QED
    BY <1>2, <1>4, <2>5 DEF Turn, m
<1> QED
  BY <1>3, <1>4

\* There is a function that is right for all intervals up to any length.
LEMMA RightExists ==
    ASSUME NEW p, Path(p), NEW n, NEW d \in Nat
    PROVE  \E s : RightUpTo(p, n, s, d)
<1> DEFINE Bad == {e \in Nat : ~ \E s : RightUpTo(p, n, s, e)}
<1>1. ASSUME NEW e \in Bad PROVE FALSE
  <2>1. PICK l \in Bad : \A k \in Bad : l <= k
    <3>1. Bad \in SUBSET Nat
      OBVIOUS
    <3> HIDE DEF Bad
    <3> QED
      BY <1>1, <3>1, LeastElement
  <2>2. l \in Nat /\ ~ \E s : RightUpTo(p, n, s, l)
    OBVIOUS
  <2>3. CASE l = 0
    <3> DEFINE s == [c \in (DOMAIN p) \X (DOMAIN p) |-> c[1]..c[2]]
    <3>1. \A i, j \in DOMAIN p : s[<<i, j>>] = i..j
      OBVIOUS
    <3> HIDE DEF s
    <3>2. \A i, j \in DOMAIN p : j - i <= 0 => j - i < 2
      BY PathPoints
    <3>3. RightUpTo(p, n, s, 0)
      BY <3>1, <3>2 DEF RightUpTo, Turn
    <3> QED
      BY <2>2, <2>3, <3>3
  <2>4. CASE l # 0
    <3>1. l - 1 \in Nat /\ (l - 1) + 1 = l /\ ~(l <= l - 1)
      BY <2>2, <2>4
    <3>2. l - 1 \notin Bad
      <4> HIDE DEF Bad
      <4> QED
        BY <2>1, <3>1
    <3>3. PICK s : RightUpTo(p, n, s, l - 1)
      BY <3>1, <3>2
    <3> DEFINE t == [c \in (DOMAIN p) \X (DOMAIN p) |-> Turn(p, n, s, c[1], c[2])]
    <3>4. \A i, j \in DOMAIN p : t[<<i, j>>] = Turn(p, n, s, i, j)
      OBVIOUS
    <3> HIDE DEF t
    <3>5. RightUpTo(p, n, t, (l - 1) + 1)
      BY <3>1, <3>3, <3>4, OneTurn
    <3> QED
      BY <2>2, <3>1, <3>5
  <2> QED
    BY <2>3, <2>4
<1> QED
  BY <1>1

\* What the recursion returns for an interval is what its next turn returns.
LEMMA SimplifiedTurns ==
    ASSUME NEW p, Path(p), NEW n
    PROVE  \A i, j \in DOMAIN p : Simplified(p, n)[<<i, j>>] = Turn(p, n, Simplified(p, n), i, j)
<1> DEFINE F(s) == [c \in (DOMAIN p) \X (DOMAIN p) |-> Turn(p, n, s, c[1], c[2])]
<1>1. Simplified(p, n) = CHOOSE s : s = F(s)
  BY DEF Simplified, Turn
<1>2. PICK s : RightUpTo(p, n, s, Len(p))
  BY PathPoints, RightExists
<1> DEFINE t == F(s)
<1>3. \A i, j \in DOMAIN p : t[<<i, j>>] = Turn(p, n, s, i, j)
  OBVIOUS
<1> HIDE DEF t
<1>4. RightUpTo(p, n, t, Len(p) + 1)
  BY <1>2, <1>3, PathPoints, OneTurn
<1>5. \A i, j \in DOMAIN p : j - i <= Len(p) /\ j - i <= Len(p) + 1
  BY PathPoints
<1>6. \A i, j \in DOMAIN p : Turn(p, n, t, i, j) = Turn(p, n, s, i, j)
  BY <1>3, <1>4, <1>5 DEF RightUpTo
<1>7. F(t) = F(s)
  BY <1>6
<1>8. t = F(t)
  BY <1>7 DEF t
<1>9. Simplified(p, n) = F(Simplified(p, n))
  <2> HIDE DEF F
  <2> QED
    BY <1>1, <1>8
<1> DEFINE r == Simplified(p, n)
<1>10. r = [c \in (DOMAIN p) \X (DOMAIN p) |-> Turn(p, n, r, c[1], c[2])]
  BY <1>9
<1> HIDE DEF r
<1>11. \A i, j \in DOMAIN p : r[<<i, j>>] = Turn(p, n, r, i, j)
  <2> DEFINE u == [c \in (DOMAIN p) \X (DOMAIN p) |-> Turn(p, n, r, c[1], c[2])]
  <2>1. \A i, j \in DOMAIN p : u[<<i, j>>] = Turn(p, n, r, i, j)
    OBVIOUS
  <2>2. r = u
    BY <1>10
  <2> HIDE DEF u
  <2> QED
    BY <2>1, <2>2
<1> QED
  BY <1>11 DEF r

\* The ends of an interval stay.
LEMMA EndsStay ==
    ASSUME NEW p, Path(p), NEW n, NEW i \in DOMAIN p, NEW j \in DOMAIN p, i <= j
    PROVE  {i, j} \subseteq Simplified(p, n)[<<i, j>>]
<1> DEFINE r == Simplified(p, n)
           Ends(a, b) == {a, b} \subseteq r[<<a, b>>]
           Bad == {d \in Nat : \E a, b \in DOMAIN p : a <= b /\ b - a = d /\ ~Ends(a, b)}
<1> HIDE DEF r
<1>0. DOMAIN p = 1..Len(p) /\ Len(p) \in Nat
  BY PathPoints
<1>1. \A a, b \in DOMAIN p : r[<<a, b>>] = Turn(p, n, r, a, b)
  BY SimplifiedTurns DEF r
<1>2. ASSUME NEW e \in Bad PROVE FALSE
  <2>1. PICK d \in Bad : \A k \in Bad : d <= k
    <3>1. Bad \in SUBSET Nat
      OBVIOUS
    <3> HIDE DEF Bad
    <3> QED
      BY <1>2, <3>1, LeastElement
  <2>2. PICK a \in DOMAIN p, b \in DOMAIN p : a <= b /\ b - a = d /\ ~Ends(a, b)
    OBVIOUS
  <2>3. ASSUME NEW x \in DOMAIN p, NEW y \in DOMAIN p, x <= y, y - x < d PROVE Ends(x, y)
    <3>1. y - x \in Nat /\ ~(d <= y - x)
      BY <1>0, <2>2, <2>3
    <3>2. y - x \notin Bad
      <4> HIDE DEF Bad
      <4> QED
        BY <2>1, <3>1
    <3> HIDE DEF Ends
    <3> QED
      BY <2>3, <3>1, <3>2
  <2>4. CASE b - a < 2
    <3>1. r[<<a, b>>] = a..b
      BY <1>1, <2>2, <2>4 DEF Turn
    <3> QED
      BY <1>0, <2>2, <3>1
  <2>5. CASE ~(b - a < 2) /\ ~Beyond(p[Farthest(p, a, b)], p[a], p[b], n)
    <3>1. r[<<a, b>>] = {a, b}
      BY <1>1, <2>2, <2>5 DEF Turn
    <3> QED
      BY <2>2, <3>1
  <2>6. CASE ~(b - a < 2) /\ Beyond(p[Farthest(p, a, b)], p[a], p[b], n)
    <3> DEFINE m == Farthest(p, a, b)
    <3>1. m \in (a + 1)..(b - 1)
      BY <1>0, <2>2, <2>6, FarthestIs
    <3>2. r[<<a, b>>] = r[<<a, m>>] \cup r[<<m, b>>]
      BY <1>1, <2>2, <2>6 DEF Turn
    <3> HIDE DEF m
    <3>3. m \in DOMAIN p /\ a <= m /\ m <= b /\ m - a < d /\ b - m < d
      BY <1>0, <2>2, <3>1
    <3>4. Ends(a, m) /\ Ends(m, b)
      BY <2>2, <2>3, <3>3
    <3> QED
      BY <2>2, <3>2, <3>4
  <2> QED
    BY <2>4, <2>5, <2>6
<1>3. Ends(i, j)
  <2>1. j - i \in Nat
    BY <1>0
  <2>2. j - i \notin Bad
    <3> HIDE DEF Bad
    <3> QED
      BY <1>2
  <2> QED
    BY <2>1, <2>2
<1> QED
  BY <1>3 DEF r
-----------------------------------------------------------------------------
(* The loop of compress: what holds of the positions K that are kept and the *)
(* intervals S that are still on the stack.                                *)

Near(p, a, b) == \A k \in (a + 1)..(b - 1) : ~Beyond(p[k], p[a], p[b], Tolerance)

\* intervals between kept positions, with no kept position inside
Clear(K, S) ==
    /\ \A c \in S : c \in K \X K /\ c[1] <= c[2]
    /\ \A c \in S, l \in K : ~(c[1] < l /\ l < c[2])

\* a gap between kept positions is looked at again, or near its chord
GapsNear(p, K, S) ==
    \A a, b \in K : a < b /\ (\A l \in K : ~(a < l /\ l < b)) => <<a, b>> \in S \/ Near(p, a, b)

\* what is kept, and what the recursion would keep of the intervals that are
\* left, is what it keeps of the whole
Covered(p, K, S) ==
    K \cup UNION {Simplified(p, Tolerance)[c] : c \in S} = Simplified(p, Tolerance)[<<1, Len(p)>>]

Sound(p, K, S) ==
    /\ K \in SUBSET (DOMAIN p) /\ 1 \in K /\ Len(p) \in K
    /\ Clear(K, S) /\ GapsNear(p, K, S) /\ Covered(p, K, S)

\* The loop begins with the whole path.
LEMMA Opened ==
    ASSUME NEW p, Path(p)
    PROVE  Sound(p, {1, Len(p)}, {<<1, Len(p)>>})
<1> DEFINE K == {1, Len(p)}
           c == <<1, Len(p)>>
<1>1. 1 \in DOMAIN p /\ Len(p) \in DOMAIN p /\ 1 <= Len(p) /\ Len(p) \in Nat
  BY PathPoints
<1>2. K \in SUBSET (DOMAIN p) /\ 1 \in K /\ Len(p) \in K
  BY <1>1
<1>3. Clear(K, {c})
  BY <1>1 DEF Clear
<1>4. GapsNear(p, K, {c})
  <2> SUFFICES ASSUME NEW a \in K, NEW b \in K, a < b PROVE <<a, b>> = c
    BY DEF GapsNear
  <2> QED
    BY <1>1
<1>5. Covered(p, K, {c})
  <2>1. {1, Len(p)} \subseteq Simplified(p, Tolerance)[c]
    BY <1>1, Parameters, EndsStay
  <2>2. UNION {Simplified(p, Tolerance)[d] : d \in {c}} = Simplified(p, Tolerance)[c]
    OBVIOUS
  <2> QED
    BY <2>1, <2>2 DEF Covered
<1> QED
  BY <1>2, <1>3, <1>4, <1>5 DEF Sound

\* An interval whose points are near its chord may be taken from the stack.
LEMMA Narrowed ==
    ASSUME NEW p, Path(p), NEW K, NEW S, Sound(p, K, S), NEW c \in S,
           ~(c[2] > c[1] + 1 /\ Beyond(p[Farthest(p, c[1], c[2])], p[c[1]], p[c[2]], Tolerance))
    PROVE  Sound(p, K, S \ {c})
<1> DEFINE i == c[1]
           j == c[2]
           R == Simplified(p, Tolerance)
<1>1. c \in K \X K /\ i \in K /\ j \in K /\ i <= j /\ c = <<i, j>>
  BY DEF Sound, Clear
<1>2. DOMAIN p = 1..Len(p) /\ i \in DOMAIN p /\ j \in DOMAIN p /\ i \in Nat /\ j \in Nat
  BY <1>1, PathPoints DEF Sound
<1>3. Clear(K, S \ {c})
  BY DEF Sound, Clear
<1>4. Near(p, i, j)
  <2>1. CASE ~(j > i + 1)
    <3>1. (i + 1)..(j - 1) = {}
      BY <1>2, <2>1
    <3> QED
      BY <3>1 DEF Near
  <2>2. CASE j > i + 1
    <3>1. ~Beyond(p[Farthest(p, i, j)], p[i], p[j], Tolerance)
      BY <2>2
    <3> QED
      BY <1>2, <2>2, <3>1, Parameters, FarthestIs DEF Near
  <2> QED
    BY <2>1, <2>2
<1>5. GapsNear(p, K, S \ {c})
  <2> SUFFICES ASSUME NEW a \in K, NEW b \in K, a < b, \A l \in K : ~(a < l /\ l < b)
               PROVE  <<a, b>> \in S \ {c} \/ Near(p, a, b)
    BY DEF GapsNear
  <2>1. <<a, b>> \in S \/ Near(p, a, b)
    BY DEF Sound, GapsNear
  <2>2. CASE <<a, b>> = c
    <3>1. a = i /\ b = j
      BY <1>1, <2>2
    <3> QED
      BY <1>4, <3>1
  <2> QED
    BY <2>1, <2>2
<1>6. R[<<i, j>>] \subseteq K
  <2>1. R[<<i, j>>] = Turn(p, Tolerance, R, i, j)
    BY <1>2, Parameters, SimplifiedTurns
  <2>2. CASE j - i < 2
    <3>1. R[<<i, j>>] = i..j
      BY <2>1, <2>2 DEF Turn
    <3>2. \A k \in i..j : k = i \/ k = j
      BY <1>1, <1>2, <2>2
    <3> QED
      BY <1>1, <3>1, <3>2
  <2>3. CASE ~(j - i < 2)
    <3>1. ~Beyond(p[Farthest(p, i, j)], p[i], p[j], Tolerance)
      BY <1>2, <2>3
    <3>2. R[<<i, j>>] = {i, j}
      BY <2>1, <2>3, <3>1 DEF Turn
    <3> QED
      BY <1>1, <3>2
  <2> QED
    BY <2>2, <2>3
<1>7. Covered(p, K, S \ {c})
  <2> DEFINE T == UNION {R[d] : d \in S}
             U == UNION {R[d] : d \in S \ {c}}
  <2>1. T = U \cup R[c]
    OBVIOUS
  <2>2. K \cup T = R[<<1, Len(p)>>]
    BY DEF Sound, Covered
  <2>3. R[c] \subseteq K
    BY <1>1, <1>6
  <2> HIDE DEF T, U
  <2>4. K \cup U = R[<<1, Len(p)>>]
    BY <2>1, <2>2, <2>3
  <2> QED
    BY <2>4 DEF Covered, U
<1> QED
  BY <1>3, <1>5, <1>7 DEF Sound

\* An interval may be divided at the farthest point if that is too far.
LEMMA Divided ==
    ASSUME NEW p, Path(p), NEW K, NEW S, Sound(p, K, S), NEW c \in S, c[2] > c[1] + 1,
           NEW m, m = Farthest(p, c[1], c[2]), Beyond(p[m], p[c[1]], p[c[2]], Tolerance)
    PROVE  /\ m \notin K /\ m \in DOMAIN p /\ c[1] < m /\ m < c[2]
           /\ Sound(p, K \cup {m}, (S \ {c}) \cup {<<c[1], m>>, <<m, c[2]>>})
<1> DEFINE i == c[1]
           j == c[2]
           R == Simplified(p, Tolerance)
           L == K \cup {m}
           Q == (S \ {c}) \cup {<<i, m>>, <<m, j>>}
<1>1. c \in K \X K /\ i \in K /\ j \in K /\ c = <<i, j>>
  BY DEF Sound, Clear
<1>2. /\ DOMAIN p = 1..Len(p) /\ i \in DOMAIN p /\ j \in DOMAIN p /\ Len(p) \in Nat
      /\ K \in SUBSET (DOMAIN p) /\ \A l \in K : l \in Nat
  BY <1>1, PathPoints DEF Sound
<1>3. m \in (i + 1)..(j - 1)
  BY <1>2, Parameters, FarthestIs
<1>4. m \in DOMAIN p /\ m \in Nat /\ i < m /\ m < j /\ i \in Nat /\ j \in Nat
  BY <1>2, <1>3
<1>5. \A l \in K : ~(i < l /\ l < j)
  BY DEF Sound, Clear
<1>6. m \notin K
  BY <1>4, <1>5
<1>7. Clear(L, Q)
  <2>1. \A d \in Q : d \in L \X L /\ d[1] <= d[2]
    <3>1. \A d \in S : d \in K \X K /\ d[1] <= d[2]
      BY DEF Sound, Clear
    <3>2. <<i, m>> \in L \X L /\ <<m, j>> \in L \X L /\ i <= m /\ m <= j
      BY <1>1, <1>4
    <3> QED
      BY <3>1, <3>2
  <2>2. ASSUME NEW d \in S \ {c}, NEW l \in L PROVE ~(d[1] < l /\ l < d[2])
    <3>1. d \in K \X K /\ d = <<d[1], d[2]>> /\ d[1] \in K /\ d[2] \in K /\ d[1] \in Nat /\ d[2] \in Nat
      BY <1>2 DEF Sound, Clear
    <3>2. \A k \in K : ~(d[1] < k /\ k < d[2])
      BY DEF Sound, Clear
    <3>3. CASE l = m
      <4> SUFFICES ASSUME d[1] < m, m < d[2] PROVE FALSE
        BY <3>3
      <4>1. d[1] <= i /\ d[2] >= j
        BY <1>4, <1>5, <3>1
      <4>2. d[1] >= i /\ d[2] <= j
        BY <1>1, <1>4, <3>1, <3>2
      <4>3. d[1] = i /\ d[2] = j
        BY <1>4, <3>1, <4>1, <4>2
      <4> QED
        BY <1>1, <3>1, <4>3
    <3> QED
      BY <3>2, <3>3
  <2>3. ASSUME NEW l \in L PROVE ~(i < l /\ l < m) /\ ~(m < l /\ l < j)
    <3>1. CASE l = m
      BY <1>4, <3>1
    <3>2. CASE l \in K
      <4>1. l \in Nat /\ ~(i < l /\ l < j)
        BY <1>2, <1>5, <3>2
      <4> QED
        BY <1>4, <4>1
    <3> QED
      BY <3>1, <3>2
  <2>4. \A d \in Q, l \in L : ~(d[1] < l /\ l < d[2])
    BY <2>2, <2>3
  <2> QED
    BY <2>1, <2>4 DEF Clear
<1>8. GapsNear(p, L, Q)
  <2> SUFFICES ASSUME NEW a \in L, NEW b \in L, a < b, \A l \in L : ~(a < l /\ l < b)
               PROVE  <<a, b>> \in Q \/ Near(p, a, b)
    BY DEF GapsNear
  <2>1. CASE a = m
    <3>1. b \in K /\ b \in Nat
      BY <1>2, <1>4, <2>1
    <3>2. b = j
      BY <1>1, <1>4, <1>5, <2>1, <3>1
    <3> QED
      BY <2>1, <3>2
  <2>2. CASE b = m
    <3>1. a \in K /\ a \in Nat
      BY <1>2, <1>4, <2>2
    <3>2. a = i
      BY <1>1, <1>4, <1>5, <2>2, <3>1
    <3> QED
      BY <2>2, <3>2
  <2>3. CASE a # m /\ b # m
    <3>1. a \in K /\ b \in K /\ \A l \in K : ~(a < l /\ l < b)
      BY <2>3
    <3>2. <<a, b>> \in S \/ Near(p, a, b)
      BY <3>1 DEF Sound, GapsNear
    <3>3. <<a, b>> # c
      <4> SUFFICES ASSUME a = i, b = j PROVE FALSE
        BY <1>1
      <4> QED
        BY <1>4
    <3> QED
      BY <3>2, <3>3
  <2> QED
    BY <2>1, <2>2, <2>3
<1>9. Covered(p, L, Q)
  <2> DEFINE T == UNION {R[d] : d \in S}
             U == UNION {R[d] : d \in S \ {c}}
             V == UNION {R[d] : d \in Q}
  <2>1. T = U \cup R[c]
    OBVIOUS
  <2>2. V = U \cup R[<<i, m>>] \cup R[<<m, j>>]
    OBVIOUS
  <2>3. R[c] = R[<<i, m>>] \cup R[<<m, j>>]
    <3>1. R[<<i, j>>] = Turn(p, Tolerance, R, i, j)
      BY <1>2, Parameters, SimplifiedTurns
    <3>2. ~(j - i < 2)
      BY <1>4
    <3> QED
      BY <1>1, <3>1, <3>2 DEF Turn
  <2>4. m \in R[<<i, m>>]
    <3>1. i <= m
      BY <1>4
    <3>2. {i, m} \subseteq R[<<i, m>>]
      <4> HIDE DEF i, j
      <4> QED
        BY <1>2, <1>4, <3>1, Parameters, EndsStay
    <3> QED
      BY <3>2
  <2>5. K \cup T = R[<<1, Len(p)>>]
    BY DEF Sound, Covered
  <2> HIDE DEF T, U, V, R
  <2>6. L \cup V = R[<<1, Len(p)>>]
    BY <2>1, <2>2, <2>3, <2>4, <2>5
  <2> QED
    BY <2>6 DEF Covered, V, R
<1>10. L \in SUBSET (DOMAIN p) /\ 1 \in L /\ Len(p) \in L
  BY <1>2, <1>4 DEF Sound
<1> QED
  BY <1>4, <1>6, <1>7, <1>8, <1>9, <1>10 DEF Sound

\* When the stack is empty, what was left out is near what was kept, and the
\* recursion keeps the same.
LEMMA Finished ==
    ASSUME NEW p, Path(p), NEW K, Sound(p, K, {})
    PROVE  /\ K = Simplified(p, Tolerance)[<<1, Len(p)>>]
           /\ \A i \in DOMAIN p \ K :
                LET a == CHOOSE k \in K : k < i /\ \A l \in K : l < i => l <= k
                    b == CHOOSE k \in K : k > i /\ \A l \in K : l > i => l >= k
                IN ~Beyond(p[i], p[a], p[b], Tolerance)
<1>1. K = Simplified(p, Tolerance)[<<1, Len(p)>>]
  <2>1. UNION {Simplified(p, Tolerance)[d] : d \in {}} = {}
    OBVIOUS
  <2> QED
    BY <2>1 DEF Sound, Covered
<1>2. DOMAIN p = 1..Len(p) /\ Len(p) \in Nat /\ K \in SUBSET (1..Len(p)) /\ 1 \in K /\ Len(p) \in K
  BY PathPoints DEF Sound
<1>3. ASSUME NEW i \in DOMAIN p \ K
      PROVE  LET a == CHOOSE k \in K : k < i /\ \A l \in K : l < i => l <= k
                 b == CHOOSE k \in K : k > i /\ \A l \in K : l > i => l >= k
             IN ~Beyond(p[i], p[a], p[b], Tolerance)
  <2> DEFINE a == CHOOSE k \in K : k < i /\ \A l \in K : l < i => l <= k
             b == CHOOSE k \in K : k > i /\ \A l \in K : l > i => l >= k
             A == {k \in K : k < i}
             B == {k \in K : k > i}
  <2>1. i \in Nat /\ 1 < i /\ i < Len(p) /\ 1 \in A /\ Len(p) \in B
    BY <1>2
  <2>2. A \in SUBSET (1..Len(p)) /\ A # {} /\ B \in SUBSET (1..Len(p)) /\ B # {}
    BY <1>2, <2>1
  <2>3. Greatest(A) \in A /\ \A x \in A : Greatest(A) >= x
    <3> HIDE DEF A
    <3> QED
      BY <1>2, <2>2, ExtremesOfPositions
  <2>4. Least(B) \in B /\ \A x \in B : Least(B) <= x
    <3> HIDE DEF B
    <3> QED
      BY <1>2, <2>2, ExtremesOfPositions
  <2>5. a \in K /\ a < i /\ \A l \in K : l < i => l <= a
    <3>1. \E k \in K : k < i /\ \A l \in K : l < i => l <= k
      BY <2>3
    <3> QED
      BY <3>1
  <2>6. b \in K /\ b > i /\ \A l \in K : l > i => l >= b
    <3>1. \E k \in K : k > i /\ \A l \in K : l > i => l >= k
      BY <2>4
    <3> QED
      BY <3>1
  <2> HIDE DEF a, b, A, B
  <2>7. a \in Nat /\ b \in Nat /\ a < b /\ i \in (a + 1)..(b - 1)
    BY <1>2, <2>1, <2>5, <2>6
  <2>8. \A l \in K : ~(a < l /\ l < b)
    <3> SUFFICES ASSUME NEW l \in K, a < l, l < b PROVE FALSE
      OBVIOUS
    <3>1. l \in Nat /\ l # i
      BY <1>2
    <3> QED
      BY <2>1, <2>5, <2>6, <2>7, <3>1
  <2>9. Near(p, a, b)
    BY <2>5, <2>6, <2>7, <2>8 DEF Sound, GapsNear
  <2>10. ~Beyond(p[i], p[a], p[b], Tolerance)
    BY <2>7, <2>9 DEF Near
  <2> QED
    BY <2>10 DEF a, b
<1> QED
  BY <1>1, <1>3
-----------------------------------------------------------------------------
(* Strokes that are shortened.                                              *)

\* Later positions have a higher rank.
LEMMA RankGrows ==
    ASSUME NEW n \in Nat, NEW S \in SUBSET (1..n), NEW i \in S, NEW j \in S, i < j
    PROVE  Rank(S, i) < Rank(S, j)
<1> DEFINE A == {l \in S : l <= i}
           B == {l \in S : l <= j}
<1>1. i \in Nat /\ j \in Nat /\ \A l \in S : l \in Nat
  OBVIOUS
<1>2. B \in SUBSET S /\ A \in SUBSET B /\ j \in B /\ j \notin A
  <2>1. \A l \in S : l <= i => l <= j
    BY <1>1
  <2>2. A \in SUBSET B
    BY <2>1
  <2>3. j \in B /\ j \notin A
    BY <1>1
  <2> QED
    BY <2>2, <2>3
<1>3. Rank(S, i) = Cardinality(A) /\ Rank(S, j) = Cardinality(B)
  BY DEF Rank
<1> HIDE DEF A, B
<1>4. IsFiniteSet(S)
  BY RankIsNumber
<1>5. IsFiniteSet(B)
  BY <1>2, <1>4, FS_Subset
<1>6. /\ Cardinality(A) <= Cardinality(B) /\ Cardinality(B) # Cardinality(A)
      /\ IsFiniteSet(A)
  <2>1. A # B
    BY <1>2
  <2> QED
    BY <1>2, <1>5, <2>1, FS_Subset
<1>7. Cardinality(A) \in Nat /\ Cardinality(B) \in Nat
  BY <1>5, <1>6, FS_CardinalityType
<1> QED
  BY <1>3, <1>6, <1>7

\* A position is the one that its rank counts.
LEMMA AtRank ==
    ASSUME NEW n \in Nat, NEW S \in SUBSET (1..n), NEW i \in S
    PROVE  Rank(S, i) \in 1..Cardinality(S) /\ At(S, Rank(S, i)) = i
<1> DEFINE r == Rank(S, i)
<1>1. /\ IsFiniteSet(S) /\ Cardinality(S) \in Nat /\ r \in Nat /\ r <= Cardinality(S)
  BY RankIsNumber
<1>2. r # 0
  <2> DEFINE A == {l \in S : l <= i}
  <2>1. A \in SUBSET S /\ i \in A
    OBVIOUS
  <2>2. r = Cardinality(A)
    BY DEF Rank
  <2> HIDE DEF A, r
  <2>3. IsFiniteSet(A)
    BY <1>1, <2>1, FS_Subset
  <2> QED
    BY <2>1, <2>2, <2>3, FS_EmptySet
<1>3. r \in 1..Cardinality(S)
  BY <1>1, <1>2
<1> HIDE DEF r
<1> DEFINE k == At(S, r)
<1>4. k \in S /\ Rank(S, k) = r
  BY <1>3, AtExists
<1>5. k \in Nat /\ i \in Nat /\ Rank(S, i) = r
  <2>1. \A l \in S : l \in Nat
    OBVIOUS
  <2>2. k \in Nat /\ i \in Nat
    BY <1>4, <2>1
  <2> QED
    BY <2>2 DEF r
<1> HIDE DEF k
<1>6. ~(k < i)
  <2>1. k < i => Rank(S, k) < Rank(S, i)
    BY <1>4, RankGrows
  <2> QED
    BY <1>1, <1>4, <1>5, <2>1
<1>7. ~(i < k)
  <2>1. i < k => Rank(S, i) < Rank(S, k)
    BY <1>4, RankGrows
  <2> QED
    BY <1>1, <1>4, <1>5, <2>1
<1>8. k = i
  BY <1>5, <1>6, <1>7
<1> QED
  BY <1>3, <1>8 DEF k, r

\* Positions are picked in order.
LEMMA AtGrows ==
    ASSUME NEW n \in Nat, NEW S \in SUBSET (1..n),
           NEW k \in 1..Cardinality(S), NEW l \in 1..Cardinality(S)
    PROVE  /\ At(S, k) \in S /\ At(S, l) \in S /\ At(S, k) \in Nat /\ At(S, l) \in Nat
           /\ k < l <=> At(S, k) < At(S, l)
           /\ k = l <=> At(S, k) = At(S, l)
<1> DEFINE a == At(S, k)
           b == At(S, l)
<1>1. a \in S /\ b \in S /\ Rank(S, a) = k /\ Rank(S, b) = l
  BY AtExists
<1>2. a \in Nat /\ b \in Nat
  <2>1. \A i \in S : i \in Nat
    OBVIOUS
  <2> QED
    BY <1>1, <2>1
<1> HIDE DEF a, b
<1>3. a < b => k < l
  BY <1>1, RankGrows
<1>4. b < a => l < k
  BY <1>1, RankGrows
<1>5. k \in Int /\ l \in Int
  <2>1. Cardinality(S) \in Nat
    BY RankIsNumber
  <2> QED
    BY <2>1
<1>6. a = b => k = l
  BY <1>1
<1>7. (k < l <=> a < b) /\ (k = l <=> a = b)
  BY <1>2, <1>3, <1>4, <1>5, <1>6
<1> QED
  BY <1>1, <1>2, <1>7 DEF a, b

\* the places at which the positions of T are picked with those of S
Places(S, T) == {k \in 1..Cardinality(S) : At(S, k) \in T}

\* There is a place for each of them.
LEMMA PlacesCounted ==
    ASSUME NEW n \in Nat, NEW S \in SUBSET (1..n), NEW T \in SUBSET S
    PROVE  Cardinality(Places(S, T)) = Cardinality(T)
<1> DEFINE U == Places(S, T)
           f == [k \in U |-> At(S, k)]
<1>1. \A k \in U : k \in 1..Cardinality(S) /\ At(S, k) \in T
  BY DEF Places
<1>2. f \in [U -> T] /\ \A k \in U : f[k] = At(S, k)
  BY <1>1
<1>3. ASSUME NEW k \in U, NEW l \in U, f[k] = f[l] PROVE k = l
  BY <1>1, <1>2, <1>3, AtGrows
<1>4. ASSUME NEW i \in T PROVE \E k \in U : f[k] = i
  <2>1. Rank(S, i) \in 1..Cardinality(S) /\ At(S, Rank(S, i)) = i
    BY AtRank
  <2>2. Rank(S, i) \in U
    BY <2>1 DEF Places
  <2> QED
    BY <1>2, <2>1, <2>2
<1> HIDE DEF f, U
<1>5. f \in Bijection(U, T)
  BY <1>2, <1>3, <1>4 DEF Bijection, Injection, Surjection, IsInjective
<1>6. ExistsBijection(U, T)
  BY <1>5 DEF ExistsBijection
<1>7. IsFiniteSet(U)
  <2>1. Cardinality(S) \in Nat
    BY RankIsNumber
  <2>2. IsFiniteSet(1..Cardinality(S))
    BY <2>1, FS_Interval
  <2>3. U \in SUBSET (1..Cardinality(S))
    BY <1>1
  <2> QED
    BY <2>2, <2>3, FS_Subset
<1> QED
  BY <1>6, <1>7, FS_Bijection DEF U

\* The c-th of these places is where the c-th of T is picked.
LEMMA PlacesAgree ==
    ASSUME NEW n \in Nat, NEW S \in SUBSET (1..n), NEW T \in SUBSET S,
           NEW c \in 1..Cardinality(T)
    PROVE  /\ At(Places(S, T), c) \in Places(S, T)
           /\ At(S, At(Places(S, T), c)) = At(T, c)
<1> DEFINE U == Places(S, T)
           u == At(U, c)
           t == At(S, u)
           T1 == {j \in T : j <= t}
<1>1. Cardinality(S) \in Nat /\ U \in SUBSET (1..Cardinality(S)) /\ Cardinality(U) = Cardinality(T)
  BY RankIsNumber, PlacesCounted DEF Places
<1>2. u \in U /\ Rank(U, u) = c
  <2> HIDE DEF U
  <2> QED
    BY <1>1, AtExists
<1>3. u \in 1..Cardinality(S) /\ t \in T
  BY <1>2 DEF Places
<1>4. {v \in U : v <= u} = Places(S, T1)
  <2>1. ASSUME NEW v \in 1..Cardinality(S) PROVE v <= u <=> At(S, v) <= t
    <3>1. (v < u <=> At(S, v) < t) /\ (v = u <=> At(S, v) = t)
      BY <1>3, AtGrows
    <3>2. At(S, v) \in Nat /\ t \in Nat
      BY <1>3, AtGrows
    <3>3. v \in Nat /\ u \in Nat
      BY <1>1, <1>3
    <3> HIDE DEF u, t
    <3> QED
      BY <3>1, <3>2, <3>3
  <2> HIDE DEF u, t
  <2> QED
    BY <2>1 DEF Places
<1>5. Rank(U, u) = Cardinality(T1)
  <2>1. T1 \in SUBSET S
    OBVIOUS
  <2>2. Cardinality(Places(S, T1)) = Cardinality(T1)
    <3> HIDE DEF T1
    <3> QED
      BY <2>1, PlacesCounted
  <2> QED
    BY <1>4, <2>2 DEF Rank
<1>6. Rank(T, t) = c
  BY <1>2, <1>5 DEF Rank
<1> HIDE DEF U, u, t
<1>7. At(T, c) = t
  <2>1. T \in SUBSET (1..n)
    OBVIOUS
  <2> QED
    BY <1>3, <1>6, <2>1, AtRank
<1> QED
  BY <1>2, <1>7 DEF U, u, t

\* a point at which a stroke ends: the first after its start that is the last
\* point, or has a start behind it
StrokeEnd(p, a, e) ==
    /\ e \in a..Len(p) /\ (e = Len(p) \/ e + 1 \in Starts(p))
    /\ \A b \in a..(e - 1) : b + 1 \notin Starts(p)

\* The stroke of a start begins there, and goes on to its end.
LEMMA StrokeOfStart ==
    ASSUME NEW p, Path(p), NEW a \in Starts(p)
    PROVE  /\ StrokeAt(p, a)[1] = a /\ StrokeEnd(p, a, StrokeAt(p, a)[2])
           /\ \A e : StrokeEnd(p, a, e) => e = StrokeAt(p, a)[2]
<1> DEFINE n == Len(p)
           A == {x \in Starts(p) : x <= a}
           B == {b \in a..n : b = n \/ b + 1 \in Starts(p)}
<1>1. n \in Nat \ {0} /\ DOMAIN p = 1..n /\ Starts(p) \in SUBSET (1..n) /\ a \in 1..n
  BY PathPoints DEF Starts
<1>2. StrokeAt(p, a) = <<Greatest(A), Least(B)>>
  BY DEF StrokeAt
<1>3. Greatest(A) = a
  <2>1. A \in SUBSET (1..n) /\ a \in A /\ \A x \in A : x <= a
    BY <1>1
  <2> HIDE DEF A
  <2>2. Greatest(A) \in A /\ Greatest(A) >= a
    BY <1>1, <2>1, ExtremesOfPositions
  <2>3. Greatest(A) <= a /\ Greatest(A) \in Nat
    <3>1. \A x \in A : x \in Nat
      BY <2>1
    <3> QED
      BY <2>1, <2>2, <3>1
  <2> QED
    BY <1>1, <2>2, <2>3
<1>4. Least(B) \in B /\ \A b \in B : Least(B) <= b
  <2>1. B \in SUBSET (1..n) /\ n \in B
    BY <1>1
  <2> HIDE DEF B
  <2> QED
    BY <1>1, <2>1, ExtremesOfPositions
<1> DEFINE l == Least(B)
<1>5. l \in a..n /\ (l = n \/ l + 1 \in Starts(p)) /\ \A b \in B : l <= b
  BY <1>4
<1> HIDE DEF l
<1>6. StrokeEnd(p, a, l)
  <2>1. ASSUME NEW b \in a..(l - 1), b + 1 \in Starts(p) PROVE FALSE
    <3>0. a \in Nat /\ l \in Nat /\ n \in Nat /\ l <= n
      <4>1. a \in Nat /\ n \in Nat
        BY <1>1
      <4> QED
        BY <1>5, <4>1
    <3>1. b \in a..n /\ ~(l <= b)
      BY <3>0
    <3>2. b \in B
      BY <2>1, <3>1
    <3> QED
      BY <1>5, <3>1, <3>2
  <2> QED
    BY <1>5, <2>1 DEF StrokeEnd
<1>7. ASSUME NEW e, StrokeEnd(p, a, e) PROVE e = l
  <2>1. /\ e \in a..n /\ (e = n \/ e + 1 \in Starts(p))
        /\ \A b \in a..(e - 1) : b + 1 \notin Starts(p)
    BY <1>7 DEF StrokeEnd
  <2>2. l <= e
    BY <1>5, <2>1
  <2>3. a \in Nat /\ l \in Nat /\ e \in Nat /\ n \in Nat /\ a <= l /\ e <= n
    <3>1. a \in Nat /\ n \in Nat
      BY <1>1
    <3> QED
      BY <1>5, <2>1, <3>1
  <2>4. ~(l < e)
    <3>1. l < e => l \in a..(e - 1) /\ l # n
      BY <2>3
    <3> QED
      BY <1>5, <2>1, <3>1
  <2> QED
    BY <2>2, <2>3, <2>4
<1> QED
  BY <1>2, <1>3, <1>6, <1>7 DEF l

\* The end of a stroke stays, or the stroke was there before.
LEMMA EndStaysOrCloses ==
    ASSUME NEW p, Path(p), NEW a \in Starts(p), p[a].up, NEW n,
           ~Stays(p, StrokeAt(p, a)[2], n)
    PROVE  Closed(p, StrokeAt(p, a))
<1> DEFINE e == StrokeAt(p, a)[2]
           r == StrokeAt(p, e)
<1>1. /\ Len(p) \in Nat \ {0} /\ DOMAIN p = 1..Len(p)
      /\ Starts(p) \in SUBSET (1..Len(p)) /\ a \in 1..Len(p)
  BY PathPoints DEF Starts
<1>2. StrokeAt(p, a)[1] = a /\ StrokeEnd(p, a, e)
  BY StrokeOfStart
<1> HIDE DEF e
<1>3. /\ e \in a..Len(p) /\ (e = Len(p) \/ e + 1 \in Starts(p))
      /\ \A b \in a..(e - 1) : b + 1 \notin Starts(p)
  BY <1>2 DEF StrokeEnd
<1>0. /\ Len(p) \in Nat /\ a \in Nat /\ e \in Nat /\ 1 <= a /\ a <= e /\ e <= Len(p)
      /\ \A x \in Starts(p) : x \in Nat
  <2>1. a \in Nat /\ 1 <= a /\ Len(p) \in Nat
    BY <1>1
  <2>2. e \in Nat /\ a <= e /\ e <= Len(p)
    BY <1>3, <2>1
  <2>3. \A x \in 1..Len(p) : x \in Nat
    BY <2>1
  <2> QED
    BY <1>1, <2>1, <2>2, <2>3
<1>4. r[1] = a
  <2> DEFINE A == {x \in Starts(p) : x <= e}
  <2>1. a \in A /\ A \in SUBSET (1..Len(p))
    BY <1>0, <1>1
  <2>2. \A x \in A : x <= a
    <3> SUFFICES ASSUME NEW x \in Starts(p), x <= e, x > a PROVE FALSE
      BY <1>0
    <3>0. x \in Nat
      BY <1>0
    <3>1. x - 1 \in a..(e - 1) /\ (x - 1) + 1 = x
      BY <1>0, <3>0
    <3> QED
      BY <1>3, <3>1
  <2> HIDE DEF A
  <2>3. Greatest(A) \in A /\ Greatest(A) >= a
    BY <1>1, <2>1, ExtremesOfPositions
  <2>4. Greatest(A) = a
    <3>1. Greatest(A) \in 1..Len(p)
      BY <2>1, <2>3
    <3>2. Greatest(A) \in Nat
      BY <1>0, <3>1
    <3> QED
      BY <1>0, <2>2, <2>3, <3>2
  <2> QED
    BY <2>4 DEF StrokeAt, A
<1>5. r[2] = e
  <2> DEFINE B == {b \in e..Len(p) : b = Len(p) \/ b + 1 \in Starts(p)}
  <2>1. B \in SUBSET (1..Len(p)) /\ e \in B /\ \A b \in B : e <= b
    <3>1. \A b \in e..Len(p) : b \in 1..Len(p) /\ e <= b
      BY <1>0
    <3>2. e \in e..Len(p)
      BY <1>0
    <3> QED
      BY <1>3, <3>1, <3>2
  <2> HIDE DEF B
  <2>2. Least(B) \in B /\ Least(B) <= e
    BY <1>1, <2>1, ExtremesOfPositions
  <2>3. Least(B) = e
    <3>1. Least(B) \in 1..Len(p)
      BY <2>1, <2>2
    <3>2. Least(B) \in Nat
      BY <1>0, <3>1
    <3> QED
      BY <1>0, <2>1, <2>2, <3>2
  <2> QED
    BY <2>3 DEF StrokeAt, B
<1> HIDE DEF r
<1>6. ~Stays(p, e, n)
  BY DEF e
<1>7. /\ ~p[e].up /\ ~(e - (a + 1) < 2)
      /\ ~(/\ \E k \in Simplified(p, n)[<<a + 1, e>>] : p[k] = p[e]
           /\ \A j \in (a + 1)..(e - 1) : p[j] # p[e])
  BY <1>4, <1>5, <1>6 DEF Stays, r
<1>8. e \in Simplified(p, n)[<<a + 1, e>>]
  <2>1. a + 1 \in 1..Len(p) /\ e \in 1..Len(p) /\ a + 1 <= e
    BY <1>0, <1>7
  <2> QED
    BY <1>1, <2>1, EndsStay
<1>9. PICK j \in (a + 1)..(e - 1) : p[j] = p[e]
  BY <1>7, <1>8
<1>10. j \in a..(e - 1) /\ ~p[j].up
  BY <1>0, <1>7, <1>9
<1> QED
  BY <1>2, <1>9, <1>10 DEF Closed, e

\* Shortened, a path has a stroke for each that it had.
LEMMA StrokesKept ==
    ASSUME NEW p, Path(p), p[1].up, NEW n, NEW q, q = WithTolerance(p, n)
    PROVE  /\ Cardinality(Starts(q)) = Cardinality(Starts(p))
           /\ \A c \in 1..Cardinality(Starts(p)) :
                LET old == StrokeAt(p, At(Starts(p), c))
                    new == StrokeAt(q, At(Starts(q), c))
                IN q[new[1]] = p[old[1]] /\ (q[new[2]] = p[old[2]] \/ Closed(p, old))
<1> DEFINE N == Len(p)
           S == {i \in DOMAIN p : Stays(p, i, n)}
           m == Cardinality(S)
           T == Starts(p)
           U == Starts(q)
<1>1. /\ N \in Nat \ {0} /\ DOMAIN p = 1..N /\ S \in SUBSET (1..N)
      /\ \A i \in 1..N : i \notin S => ~Stays(p, i, n)
  BY PathPoints
<1>2. T \in SUBSET S /\ 1 \in T /\ \A i \in 1..N : i \in T <=> p[i].up
  BY <1>1 DEF Starts, Stays
<1>3. q = Picked(p, S)
  BY DEF WithTolerance
<1> HIDE DEF S
<1>4. /\ m \in Nat /\ DOMAIN q = 1..m /\ Len(q) = m /\ Path(q)
      /\ \A k \in 1..m : q[k] = p[At(S, k)]
  <2>1. m \in Nat
    BY <1>1, RankIsNumber
  <2>2. q = [k \in 1..m |-> p[At(S, k)]]
    BY <1>3 DEF Picked
  <2>3. q \in Seq(Points) /\ q # <<>> /\ Len(q) = m
    BY <1>1, <1>2, <1>3, PickedTyped DEF Path
  <2> QED
    BY <2>1, <2>2, <2>3 DEF Path
<1>5. \A k \in 1..m : At(S, k) \in S /\ At(S, k) \in 1..N
  BY <1>1, AtExists
<1>6. 1 \in 1..m /\ At(S, 1) = 1
  <2>1. Rank(S, 1) = 1
    <3>1. \A j \in 1..N : j <= 1 <=> j = 1
      BY <1>1
    <3>2. {j \in S : j <= 1} = {1}
      BY <1>1, <1>2, <3>1
    <3> QED
      BY <3>2, FS_Singleton DEF Rank
  <2>2. Rank(S, 1) \in 1..m /\ At(S, Rank(S, 1)) = 1
    <3>1. 1 \in S
      BY <1>2
    <3> QED
      BY <1>1, <3>1, AtRank
  <2> QED
    BY <2>1, <2>2
<1>7. U = Places(S, T)
  <2>1. U = {1} \cup {k \in 1..m : q[k].up}
    BY <1>4 DEF Starts
  <2>2. ASSUME NEW k \in 1..m PROVE k \in U <=> At(S, k) \in T
    <3>1. q[k].up <=> At(S, k) \in T
      BY <1>2, <1>4, <1>5
    <3>2. k = 1 => At(S, k) \in T
      BY <1>2, <1>6
    <3> QED
      BY <2>1, <3>1, <3>2
  <2> QED
    BY <1>6, <2>1, <2>2 DEF Places
<1>8. Cardinality(U) = Cardinality(T)
  BY <1>1, <1>2, <1>7, PlacesCounted
<1> HIDE DEF m, T, U
<1>9. ASSUME NEW c \in 1..Cardinality(T)
      PROVE  LET old == StrokeAt(p, At(T, c))
                 new == StrokeAt(q, At(U, c))
             IN q[new[1]] = p[old[1]] /\ (q[new[2]] = p[old[2]] \/ Closed(p, old))
  <2> DEFINE a == At(T, c)
             b == At(U, c)
             e == StrokeAt(p, a)[2]
             r == Rank(S, e)
  <2>1. a \in T /\ b \in U /\ At(S, b) = a
    <3>1. T \in SUBSET (1..N)
      BY <1>1, <1>2
    <3>2. a \in T
      BY <1>1, <3>1, AtExists
    <3>3. At(Places(S, T), c) \in Places(S, T) /\ At(S, At(Places(S, T), c)) = At(T, c)
      <4>1. N \in Nat /\ S \in SUBSET (1..N) /\ T \in SUBSET S /\ c \in 1..Cardinality(T)
        BY <1>1, <1>2
      <4> HIDE DEF N
      <4> QED
        BY <4>1, PlacesAgree
    <3> QED
      BY <1>7, <3>2, <3>3
  <2>2. b \in 1..m /\ a \in 1..N /\ p[a].up /\ q[b] = p[a]
    BY <1>1, <1>2, <1>4, <1>7, <2>1 DEF Places, m
  <2> HIDE DEF a, b
  <2>3. StrokeAt(p, a)[1] = a /\ StrokeEnd(p, a, e)
    BY <2>1, StrokeOfStart DEF T
  <2>4. StrokeAt(q, b)[1] = b /\ \A l : StrokeEnd(q, b, l) => l = StrokeAt(q, b)[2]
    BY <1>4, <2>1, StrokeOfStart DEF U
  <2> HIDE DEF e, r
  <2>5. /\ e \in a..N /\ (e = N \/ e + 1 \in T)
        /\ \A x \in a..(e - 1) : x + 1 \notin T
    BY <2>3 DEF StrokeEnd, T
  <2>6. /\ a \in Nat /\ b \in Nat /\ e \in Nat /\ a <= e /\ e <= N /\ 1 <= b /\ b <= m
        /\ e \in 1..N
    <3>1. a \in Nat /\ b \in Nat /\ 1 <= a /\ 1 <= b /\ b <= m
      BY <1>1, <1>4, <2>2
    <3>2. e \in Nat /\ a <= e /\ e <= N
      <4>1. e \in a..N /\ N \in Nat
        BY <1>1, <2>5
      <4> QED
        BY <3>1, <4>1
    <3> QED
      BY <1>1, <3>1, <3>2
  <2>7. CASE e \notin S
    <3>1. ~Stays(p, e, n)
      BY <1>1, <2>6, <2>7
    <3>2. Closed(p, StrokeAt(p, a))
      BY <2>1, <2>2, <3>1, EndStaysOrCloses DEF T, e
    <3> QED
      BY <2>2, <2>3, <2>4, <3>2 DEF a, b
  <2>8. CASE e \in S
    <3>1. r \in 1..m /\ At(S, r) = e
      BY <1>1, <2>8, AtRank DEF m, r
    <3>2. r \in Nat /\ r <= m /\ b <= r
      <4>1. r \in Nat /\ r <= m
        BY <1>4, <3>1
      <4>2. ~(r < b)
        <5>1. r < b => e < a
          BY <1>1, <2>1, <2>2, <3>1, AtGrows DEF m
        <5> QED
          BY <2>6, <5>1
      <4> QED
        BY <2>6, <4>1, <4>2
    <3>3. r = m \/ r + 1 \in U
      <4> SUFFICES ASSUME r # m PROVE r + 1 \in U
        OBVIOUS
      <4> DEFINE y == At(S, r + 1)
      <4>1. r + 1 \in 1..m
        BY <1>4, <3>2
      <4>2. y \in S /\ y \in 1..N /\ e < y
        <5>1. r < r + 1
          BY <3>2
        <5> QED
          BY <1>1, <1>5, <3>1, <4>1, <5>1, AtGrows DEF m
      <4> HIDE DEF y
      <4>3. e # N /\ e + 1 \in T
        <5>1. e # N
          <6>1. N \in Nat
            BY <1>1
          <6> QED
            BY <2>6, <4>2, <6>1
        <5> QED
          BY <2>5, <5>1
      <4> DEFINE z == Rank(S, e + 1)
      <4>4. z \in 1..m /\ At(S, z) = e + 1
        BY <1>1, <1>2, <4>3, AtRank DEF m
      <4> HIDE DEF z
      <4>5. r < z
        <5>1. e < e + 1
          BY <2>6
        <5>2. r < z <=> At(S, r) < At(S, z)
          BY <1>1, <3>1, <4>4, AtGrows DEF m
        <5> QED
          BY <3>1, <4>4, <5>1, <5>2
      <4>6. ~(r + 1 < z)
        <5>1. r + 1 < z <=> y < At(S, z)
          BY <1>1, <4>1, <4>4, AtGrows DEF m, y
        <5>2. y \in Nat
          BY <1>1, <4>2
        <5> QED
          BY <2>6, <4>2, <4>4, <5>1, <5>2
      <4>7. z = r + 1
        <5>1. z \in Nat
          BY <1>4, <4>4
        <5> QED
          BY <3>2, <4>5, <4>6, <5>1
      <4> QED
        BY <1>7, <4>1, <4>3, <4>4, <4>7 DEF Places, m
    <3>4. ASSUME NEW v \in b..(r - 1), v + 1 \in U PROVE FALSE
      <4> DEFINE w == v + 1
                 x == At(S, w)
      <4>1. v \in Nat /\ b < w /\ w <= r /\ w \in 1..m
        <5>1. v \in Nat
          BY <2>6, <3>2
        <5> QED
          BY <1>4, <2>6, <3>2, <5>1
      <4>2. x \in T
        BY <1>7, <3>4 DEF Places
      <4> HIDE DEF w
      <4>3. a < x /\ x <= e /\ x \in Nat
        <5>1. a < x
          BY <1>1, <2>1, <2>2, <4>1, AtGrows DEF m
        <5>2. (w < r <=> x < e) /\ (w = r <=> x = e)
          BY <1>1, <3>1, <4>1, AtGrows DEF m
        <5>3. x \in Nat
          BY <1>1, <1>5, <4>1
        <5>4. w < r \/ w = r
          BY <1>4, <3>2, <4>1
        <5> HIDE DEF x
        <5> QED
          BY <2>6, <5>1, <5>2, <5>3, <5>4
      <4> HIDE DEF x
      <4>4. x - 1 \in a..(e - 1) /\ (x - 1) + 1 = x
        BY <2>6, <4>3
      <4> QED
        BY <2>5, <4>2, <4>4
    <3>5. StrokeEnd(q, b, r)
      <4>1. r \in b..m
        BY <1>4, <2>6, <3>2
      <4> QED
        BY <1>4, <3>3, <3>4, <4>1 DEF StrokeEnd, U
    <3>6. StrokeAt(q, b)[2] = r /\ q[r] = p[e]
      BY <1>4, <2>4, <3>1, <3>5
    <3> QED
      BY <2>2, <2>3, <2>4, <3>6 DEF a, b, e
  <2> QED
    BY <2>7, <2>8
<1> QED
  BY <1>8, <1>9 DEF T, U
-----------------------------------------------------------------------------
(* What holds of every state, as far as the stages of a job need it.        *)

\* the path of a job that is under way
OnItsWay ==
    /\ stage = "text" => path \in Texts
    /\ stage \in {"decimated", "clamped", "normalized", "compress", "compressed"} => Path(path)

\* the loop of compress, and after it
Compressing ==
    /\ stage \in {"compress", "compressed"} => Path(before)
    /\ stage = "compress" =>
         path = before /\ Distinct(stack) /\ Sound(before, keep, ToSet(stack))
    /\ stage = "compressed" =>
         path = Picked(before, keep) /\ Sound(before, keep, {})

\* a path that is drawn once does not leave the workspace that it was put into
Inside ==
    /\ passes = 1 /\ stage \in {"normalized", "compress", "compressed"} => Within(path, ws, 1)
    /\ stage = "rejected" => passes > 1 \/ Narrow(ws)

\* there is a stroke that was chosen last, and the strokes have points
Ordering ==
    stage = "order" =>
        /\ ordered # <<>> /\ Last(ordered) # <<>>
        /\ \A i \in DOMAIN remaining : remaining[i] # <<>>

PathInv == TypeOK /\ OnItsWay /\ Compressing /\ Inside /\ Ordering
-----------------------------------------------------------------------------
(* The two greedy searches.                                                *)

\* A stroke that is drawn: a nonempty row of points.
Stroke(s) == s \in Seq(Points) /\ s # <<>>

\* Both ends of a stroke are points, and it may be turned round.
LEMMA StrokeEnds ==
    ASSUME NEW s, Stroke(s)
    PROVE  /\ Head(s) \in Points /\ Last(s) \in Points
           /\ Stroke(Reverse(s))
<1> DEFINE n == Len(s)
           r == [i \in 1..n |-> s[(n - i) + 1]]
<1>1. n \in Nat \ {0} /\ DOMAIN s = 1..n /\ \A i \in 1..n : s[i] \in Points
  BY DEF Stroke
<1>2. Reverse(s) = r /\ Last(s) = s[n] /\ Head(s) = s[1]
  BY <1>1 DEF Reverse, Last, Stroke
<1> HIDE DEF n
<1>3. \A i \in 1..n : (n - i) + 1 \in 1..n
  BY <1>1
<1>4. r \in [1..n -> Points]
  BY <1>1, <1>3
<1> HIDE DEF r
<1>5. Stroke(r)
  BY <1>1, <1>4, RowIsPath DEF Stroke, Path
<1> QED
  BY <1>1, <1>2, <1>5

\* The travel to a stroke is an integer.
LEMMA TravelTyped ==
    ASSUME remaining \in Seq(Seq(Points)), ordered \in Seq(Seq(Points)), Ordering, stage = "order"
    PROVE  \A i \in DOMAIN remaining : Travel(i, TRUE) \in Int /\ Travel(i, FALSE) \in Int
<1>1. Stroke(Last(ordered))
  <2>1. Len(ordered) \in DOMAIN ordered /\ ordered[Len(ordered)] \in Seq(Points)
    BY DEF Ordering
  <2> QED
    BY <2>1 DEF Ordering, Stroke, Last
<1>2. Pen \in Points
  BY <1>1, StrokeEnds DEF Pen
<1>3. \A a, b \in Points : Apart(a, b) \in Int
  <2>1. \A k \in Int : Square(k) \in Int
    BY DEF Square
  <2> SUFFICES ASSUME NEW a \in Points, NEW b \in Points PROVE Apart(a, b) \in Int
    OBVIOUS
  <2>2. a.x - b.x \in Int /\ a.y - b.y \in Int
    BY DEF Points
  <2>3. Square(a.x - b.x) \in Int /\ Square(a.y - b.y) \in Int
    BY <2>1, <2>2
  <2> QED
    BY <2>3 DEF Apart
<1> SUFFICES ASSUME NEW i \in DOMAIN remaining
             PROVE  Travel(i, TRUE) \in Int /\ Travel(i, FALSE) \in Int
  OBVIOUS
<1>4. Stroke(remaining[i])
  BY DEF Ordering, Stroke
<1>5. Head(remaining[i]) \in Points /\ Last(remaining[i]) \in Points
  BY <1>4, StrokeEnds
<1> QED
  BY <1>2, <1>3, <1>5 DEF Travel

\* c is an entry that is nearest, and of those the first
Foremost(c) ==
    \A d \in (DOMAIN remaining) \X BOOLEAN :
        \/ Travel(c[1], c[2]) < Travel(d[1], d[2])
        \/ /\ Travel(c[1], c[2]) = Travel(d[1], d[2])
           /\ c[1] < d[1] \/ (c[1] = d[1] /\ (c[2] => d[2]))

\* The search over entries and the search over strokes find the same.
LEMMA SameStroke ==
    ASSUME remaining \in Seq(Seq(Points)), ordered \in Seq(Seq(Points)), Ordering, stage = "order",
           remaining # <<>>
    PROVE  Nearest = Cheapest /\ Nearest \in (DOMAIN remaining) \X BOOLEAN
<1> DEFINE n == Len(remaining)
           rev(i) == Travel(i, TRUE) < Travel(i, FALSE)
           cost(i) == Travel(i, rev(i))
           first(k) == \A l \in DOMAIN remaining : cost(k) < cost(l) \/ (cost(k) = cost(l) /\ k <= l)
           m == CHOOSE k \in DOMAIN remaining : first(k)
<1>1. n \in Nat \ {0} /\ DOMAIN remaining = 1..n
  OBVIOUS
<1>2. \A i \in 1..n : Travel(i, TRUE) \in Int /\ Travel(i, FALSE) \in Int
  BY <1>1, TravelTyped
<1>3. \A i : rev(i) \in BOOLEAN
  OBVIOUS
<1>4. ASSUME NEW i \in 1..n
      PROVE  /\ cost(i) \in Int /\ cost(i) <= Travel(i, TRUE) /\ cost(i) <= Travel(i, FALSE)
             /\ cost(i) = Travel(i, FALSE) => ~rev(i)
  <2>1. cost(i) = IF rev(i) THEN Travel(i, TRUE) ELSE Travel(i, FALSE)
    BY DEF Travel
  <2> DEFINE e == Travel(i, TRUE)
             f == Travel(i, FALSE)
  <2>2. e \in Int /\ f \in Int
    BY <1>2
  <2>3. cost(i) = IF e < f THEN e ELSE f
    BY <2>1
  <2> HIDE DEF cost, e, f
  <2>4. cost(i) \in Int /\ cost(i) <= e /\ cost(i) <= f /\ (cost(i) = f => ~(e < f))
    BY <2>2, <2>3
  <2> QED
    BY <2>4 DEF e, f
<1>5. Cheapest = <<m, rev(m)>>
  BY DEF Cheapest
<1> HIDE DEF rev, n
<1>6. m \in 1..n /\ first(m)
  <2> DEFINE f == [k \in 1..n |-> cost(k)]
  <2>1. \A k \in 1..n : f[k] = cost(k) /\ f[k] \in Int
    BY <1>4
  <2> HIDE DEF f, cost
  <2>2. PICK k \in 1..n : FirstLeast(f, 1, n, k)
    <3>1. 1 <= n /\ n \in Nat /\ 1 \in Nat
      BY <1>1
    <3> HIDE DEF n
    <3> QED
      BY <2>1, <3>1, FirstLeastExists
  <2>3. first(k)
    BY <1>1, <2>1, <2>2 DEF FirstLeast
  <2> HIDE DEF first
  <2> QED
    BY <1>1, <2>3
<1> HIDE DEF m
<1>7. Foremost(<<m, rev(m)>>)
  <2> SUFFICES ASSUME NEW l \in 1..n, NEW b \in BOOLEAN
               PROVE  \/ cost(m) < Travel(l, b)
                      \/ cost(m) = Travel(l, b) /\ (m < l \/ (m = l /\ (rev(m) => b)))
    BY <1>1 DEF Foremost
  <2>1. cost(m) < cost(l) \/ (cost(m) = cost(l) /\ m <= l)
    BY <1>1, <1>6
  <2>2. /\ Travel(l, b) \in Int /\ cost(l) \in Int /\ cost(m) \in Int /\ cost(l) <= Travel(l, b)
        /\ cost(l) = Travel(l, FALSE) => ~rev(l)
    <3>1. b = TRUE \/ b = FALSE
      OBVIOUS
    <3> HIDE DEF cost
    <3> QED
      BY <1>2, <1>4, <1>6, <3>1
  <2> HIDE DEF cost
  <2>3. CASE cost(m) < Travel(l, b)
    BY <2>3
  <2>4. CASE ~(cost(m) < Travel(l, b))
    <3>1. cost(m) = Travel(l, b) /\ cost(m) = cost(l) /\ m <= l
      BY <2>1, <2>2, <2>4
    <3>2. CASE m = l
      <4>1. b = FALSE => ~rev(m)
        BY <2>2, <3>1, <3>2
      <4>2. rev(m) => b
        BY <4>1
      <4> QED
        BY <3>1, <3>2, <4>2
    <3>3. CASE m # l
      BY <1>1, <1>6, <3>1, <3>3
    <3> QED
      BY <3>2, <3>3
  <2> QED
    BY <2>3, <2>4
<1>8. ASSUME NEW c \in (DOMAIN remaining) \X BOOLEAN, NEW d \in (DOMAIN remaining) \X BOOLEAN,
             Foremost(c), Foremost(d)
      PROVE  c = d
  <2>1. /\ c = <<c[1], c[2]>> /\ c[1] \in 1..n /\ c[2] \in BOOLEAN
        /\ d = <<d[1], d[2]>> /\ d[1] \in 1..n /\ d[2] \in BOOLEAN
    BY <1>1
  <2>2. Travel(c[1], c[2]) \in Int /\ Travel(d[1], d[2]) \in Int
    <3>1. \A b \in BOOLEAN : b = TRUE \/ b = FALSE
      OBVIOUS
    <3> QED
      BY <1>2, <2>1, <3>1
  <2>3. \/ Travel(c[1], c[2]) < Travel(d[1], d[2])
        \/ /\ Travel(c[1], c[2]) = Travel(d[1], d[2])
           /\ c[1] < d[1] \/ (c[1] = d[1] /\ (c[2] => d[2]))
    BY <1>8 DEF Foremost
  <2>4. \/ Travel(d[1], d[2]) < Travel(c[1], c[2])
        \/ /\ Travel(d[1], d[2]) = Travel(c[1], c[2])
           /\ d[1] < c[1] \/ (d[1] = c[1] /\ (d[2] => c[2]))
    BY <1>8 DEF Foremost
  <2>5. c[1] = d[1] /\ (c[2] => d[2]) /\ (d[2] => c[2])
    BY <1>1, <2>1, <2>2, <2>3, <2>4
  <2>6. c[2] = d[2]
    BY <2>1, <2>5
  <2> QED
    BY <2>1, <2>5, <2>6
<1>9. <<m, rev(m)>> \in (DOMAIN remaining) \X BOOLEAN
  BY <1>1, <1>3, <1>6
<1>10. Nearest = CHOOSE c \in (DOMAIN remaining) \X BOOLEAN : Foremost(c)
  BY DEF Nearest, Foremost
<1>11. Nearest = <<m, rev(m)>>
  BY <1>7, <1>8, <1>9, <1>10
<1> QED
  BY <1>5, <1>9, <1>11

\* A row is a row of whatever its entries are.
LEMMA RowOf ==
    ASSUME NEW S, NEW T, NEW st \in Seq(S), \A c \in ToSet(st) : c \in T
    PROVE  st \in Seq(T) /\ \A k \in DOMAIN st : st[k] \in ToSet(st)
<1>1. DOMAIN st = 1..Len(st) /\ Len(st) \in Nat /\ \A k \in DOMAIN st : st[k] \in ToSet(st)
  BY DEF ToSet
<1>2. \A k \in 1..Len(st) : st[k] \in T
  BY <1>1
<1> QED
  BY <1>1, <1>2

\* A stack with the intervals that Sound is about has its type.
LEMMA StackTyped ==
    ASSUME NEW p, NEW K, NEW S, NEW st \in Seq(S), Sound(p, K, ToSet(st))
    PROVE  st \in Seq(K \X K) /\ \A k \in DOMAIN st : st[k][1] <= st[k][2]
<1>1. \A c \in ToSet(st) : c \in K \X K /\ c[1] <= c[2]
  BY DEF Sound, Clear
<1> QED
  BY <1>1, RowOf

\* A row from which an entry is removed has no others.
LEMMA Removed ==
    ASSUME NEW S, NEW s \in Seq(S), NEW i \in DOMAIN s
    PROVE  /\ RemoveAt(s, i) \in Seq(S)
           /\ \A k \in DOMAIN RemoveAt(s, i) : \E h \in DOMAIN s : RemoveAt(s, i)[k] = s[h]
<1> DEFINE n == Len(s)
           l == SubSeq(s, 1, i - 1)
           r == SubSeq(s, i + 1, n)
<1>1. n \in Nat \ {0} /\ DOMAIN s = 1..n /\ i \in 1..n
  OBVIOUS
<1>2. /\ l \in Seq(S) /\ Len(l) = i - 1
      /\ \A k \in 1..(i - 1) : l[k] = s[k]
  BY <1>1
<1>3. /\ r \in Seq(S) /\ Len(r) = n - i
      /\ \A k \in 1..(n - i) : r[k] = s[k + i]
  BY <1>1
<1>4. RemoveAt(s, i) = l \o r
  BY DEF RemoveAt
<1> HIDE DEF n, l, r
<1>5. /\ l \o r \in Seq(S) /\ DOMAIN (l \o r) = 1..(n - 1)
      /\ \A k \in 1..(n - 1) : (l \o r)[k] = IF k <= i - 1 THEN l[k] ELSE r[k - (i - 1)]
  BY <1>1, <1>2, <1>3
<1>6. ASSUME NEW k \in 1..(n - 1) PROVE \E h \in 1..n : (l \o r)[k] = s[h]
  <2>1. CASE k <= i - 1
    BY <1>1, <1>2, <1>5, <2>1
  <2>2. CASE ~(k <= i - 1)
    <3>1. k - (i - 1) \in 1..(n - i) /\ (k - (i - 1)) + i = k + 1 /\ k + 1 \in 1..n
      BY <1>1, <2>2
    <3> QED
      BY <1>3, <1>5, <2>2, <3>1
  <2> QED
    BY <2>1, <2>2
<1> QED
  BY <1>1, <1>4, <1>5, <1>6

\* The invariant holds of every state.
LEMMA PathInvariant == Spec => []PathInv
<1>1. Init => PathInv
  <2> SUFFICES ASSUME Init PROVE PathInv
    OBVIOUS
  <2> USE DEF Init
  <2>1. CASE stage = "text"
    <3>1. path \in Texts /\ traced = <<>> /\ remaining = <<>> /\ ordered = <<>>
      BY <2>1
    <3>2. path \in Seq(Points)
      BY <3>1, PathsAssumption
    <3>3. TypeOK
      BY <2>1, <3>1, <3>2 DEF TypeOK
    <3> QED
      BY <2>1, <3>1, <3>3 DEF PathInv, OnItsWay, Compressing, Inside, Ordering
  <2>2. CASE stage = "order"
    <3>1. /\ path = <<>> /\ traced \in Drawings
          /\ remaining = Tail(traced) /\ ordered = <<Head(traced)>>
      BY <2>2
    <3>2. /\ traced \in Seq(Seq(Points)) /\ traced # <<>>
          /\ \A i \in DOMAIN traced : traced[i] # <<>>
      BY <3>1, PathsAssumption
    <3>3. /\ remaining \in Seq(Seq(Points))
          /\ \A i \in DOMAIN remaining : remaining[i] # <<>>
      <4>1. DOMAIN remaining = 1..(Len(traced) - 1) /\ DOMAIN traced = 1..Len(traced)
        BY <3>1, <3>2
      <4>2. \A i \in 1..(Len(traced) - 1) : remaining[i] = traced[i + 1] /\ i + 1 \in 1..Len(traced)
        BY <3>1, <3>2
      <4>3. remaining \in Seq(Seq(Points))
        BY <3>1, <3>2
      <4> QED
        BY <3>2, <4>1, <4>2, <4>3
    <3>4. /\ ordered \in Seq(Seq(Points)) /\ ordered # <<>> /\ Last(ordered) # <<>>
      <4>1. 1 \in DOMAIN traced /\ Head(traced) = traced[1] /\ traced[1] \in Seq(Points)
        BY <3>2
      <4>2. ordered = <<traced[1]>>
        BY <3>1, <4>1
      <4>3. Len(ordered) = 1 /\ ordered[1] = traced[1]
        BY <4>2
      <4> QED
        BY <3>2, <4>1, <4>2, <4>3 DEF Last
    <3>5. TypeOK
      BY <2>2, <3>1, <3>2, <3>3, <3>4 DEF TypeOK
    <3> QED
      BY <2>2, <3>3, <3>4, <3>5 DEF PathInv, OnItsWay, Compressing, Inside, Ordering
  <2> QED
    BY <2>1, <2>2
<1>2. PathInv /\ [Next]_vars => PathInv'
  <2> SUFFICES ASSUME PathInv, [Next]_vars PROVE PathInv'
    OBVIOUS
  <2> USE DEF PathInv
  <2>1. CASE Decimate
    <3>1. Path(path')
      BY <2>1, DecimatedTyped DEF Decimate, OnItsWay
    <3>2. TypeOK'
      BY <2>1, <3>1 DEF Decimate, TypeOK, Path, orderVars
    <3> QED
      BY <2>1, <3>1, <3>2 DEF Decimate, OnItsWay, Compressing, Inside, Ordering, orderVars
  <2>2. CASE Clamp
    <3>1. Path(path')
      BY <2>2, ClampedTyped DEF Clamp, OnItsWay
    <3>2. TypeOK'
      BY <2>2, <3>1 DEF Clamp, TypeOK, Path, orderVars
    <3> QED
      BY <2>2, <3>1, <3>2 DEF Clamp, OnItsWay, Compressing, Inside, Ordering, orderVars
  <2>3. CASE Normalize
    <3>1. Path(path) /\ ws \in Workspaces
      BY <2>3 DEF Normalize, OnItsWay, TypeOK
    <3>2. /\ path' = Normalized(path, ws) /\ ws' = ws
          /\ stage' = IF Within(path', ws, 1) THEN "normalized" ELSE "rejected"
      BY <2>3 DEF Normalize
    <3>3. Path(path') /\ (~Narrow(ws) => Within(path', ws, 1))
      BY <3>1, <3>2, NormalizedFits
    <3>4. Inside'
      <4>1. CASE Within(path', ws, 1)
        <5>1. stage' = "normalized" /\ Within(path', ws', 1)
          BY <3>2, <4>1
        <5>2. Within(path, ws, 1)'
          BY <5>1 DEF Within
        <5> QED
          BY <5>1, <5>2 DEF Inside
      <4>2. CASE ~Within(path', ws, 1)
        BY <3>2, <3>3, <4>2 DEF Inside, Narrow
      <4> QED
        BY <4>1, <4>2
    <3>5. TypeOK'
      BY <2>3, <3>2, <3>3 DEF Normalize, TypeOK, Path, orderVars
    <3> QED
      BY <2>3, <3>2, <3>3, <3>4, <3>5 DEF Normalize, OnItsWay, Compressing, Ordering, orderVars
  <2>4. CASE AddPasses
    <3> DEFINE q == path'
    <3>1. Path(path) /\ passes \in Nat \ {0}
      BY <2>4, PathsAssumption DEF AddPasses, OnItsWay, TypeOK
    <3>2. /\ q = MultiPass(path, passes) /\ before' = q /\ stage' = "compress" /\ keep' = {1, Len(q)}
          /\ stack' = <<<<1, Len(q)>>>> /\ ws' = ws /\ passes' = passes
      BY <2>4 DEF AddPasses
    <3>3. Path(q) /\ (passes = 1 => q = path)
      BY <3>1, <3>2, MultiPassTyped
    <3> HIDE DEF q
    <3>4. Distinct(stack') /\ ToSet(stack') = {<<1, Len(q)>>}
      <4>1. DOMAIN stack' = {1} /\ stack'[1] = <<1, Len(q)>>
        BY <3>2
      <4> QED
        BY <4>1 DEF Distinct, ToSet
    <3>5. Sound(q, keep', ToSet(stack'))
      BY <3>2, <3>3, <3>4, Opened
    <3>6. Compressing'
      BY <3>2, <3>3, <3>4, <3>5 DEF Compressing, q
    <3>7. TypeOK'
      <4>1. stack' \in Seq({<<1, Len(q)>>})
        BY <3>2
      <4>2. stack' \in Seq(keep' \X keep') /\ \A k \in DOMAIN stack' : stack'[k][1] <= stack'[k][2]
        BY <3>5, <4>1, StackTyped
      <4>3. keep' \subseteq DOMAIN before' /\ path' \in Seq(Points) /\ before' \in Seq(Points)
        BY <3>2, <3>3, <3>5 DEF Sound, Path, q
      <4> QED
        BY <2>4, <3>2, <4>2, <4>3 DEF AddPasses, TypeOK, orderVars
    <3>8. Inside'
      <4>1. passes' = 1 => Within(path', ws', 1)
        BY <2>4, <3>2, <3>3 DEF Inside, AddPasses, q
      <4>2. passes' = 1 => Within(path, ws, 1)'
        BY <4>1 DEF Within
      <4> QED
        BY <3>2, <4>2 DEF Inside
    <3> QED
      BY <2>4, <3>2, <3>3, <3>6, <3>7, <3>8 DEF AddPasses, OnItsWay, Ordering, orderVars, q
  <2>5. CASE Split
    <3> DEFINE c == Last(stack)
               i == c[1]
               j == c[2]
               m == Farthest(before, i, j)
               far == j > i + 1 /\ Beyond(before[m], before[i], before[j], Tolerance)
               S == ToSet(stack)
    <3>1. /\ stage = "compress" /\ stack # <<>> /\ Path(before) /\ Distinct(stack)
          /\ Sound(before, keep, S) /\ stack \in Seq(keep \X keep)
      BY <2>5 DEF Split, Compressing, TypeOK
    <3>2. /\ c \in S /\ c \in keep \X keep /\ Front(stack) \in Seq(keep \X keep)
          /\ Distinct(Front(stack)) /\ ToSet(Front(stack)) = S \ {c}
      BY <3>1, StackPop
    <3>3. /\ before' = before /\ path' = path /\ stage' = stage /\ ws' = ws /\ passes' = passes
          /\ UNCHANGED orderVars
      BY <2>5 DEF Split
    <3>4. Distinct(stack') /\ Sound(before, keep', ToSet(stack')) /\ \E T : stack' \in Seq(T)
      <4>1. CASE ~far
        <5>1. stack' = Front(stack) /\ keep' = keep
          BY <2>5, <4>1 DEF Split
        <5>2. Sound(before, keep, S \ {c})
          <6> HIDE DEF c, S
          <6> QED
            BY <3>1, <3>2, <4>1, Narrowed
        <5> QED
          BY <3>2, <5>1, <5>2
      <4>2. CASE far
        <5>1. stack' = Front(stack) \o <<<<i, m>>, <<m, j>>>> /\ keep' = keep \cup {m}
          BY <2>5, <4>2 DEF Split, BothSides
        <5>2. /\ m \notin keep /\ m \in DOMAIN before /\ i < m /\ m < j
              /\ Sound(before, keep \cup {m}, (S \ {c}) \cup {<<i, m>>, <<m, j>>})
          <6>1. c[2] > c[1] + 1 /\ m = Farthest(before, c[1], c[2])
            BY <4>2
          <6>2. Beyond(before[m], before[c[1]], before[c[2]], Tolerance)
            BY <4>2
          <6>3. Path(before) /\ Sound(before, keep, S) /\ c \in S
            BY <3>1, <3>2
          <6> HIDE DEF c, S, m
          <6>4. /\ m \notin keep /\ m \in DOMAIN before /\ c[1] < m /\ m < c[2]
                /\ Sound(before, keep \cup {m}, (S \ {c}) \cup {<<c[1], m>>, <<m, c[2]>>})
            BY <6>1, <6>2, <6>3, Divided
          <6> QED
            BY <6>4
        <5>3. i \in keep /\ j \in keep /\ i \in Nat /\ j \in Nat /\ m \in Nat
          <6>1. keep \subseteq Nat
            BY <3>1, PathPoints DEF Sound
          <6>2. i \in keep /\ j \in keep
            BY <3>2
          <6>3. m \in Nat
            <7> HIDE DEF m
            <7> QED
              BY <3>1, <5>2, PathPoints
          <6> HIDE DEF i, j, m
          <6> QED
            BY <6>1, <6>2, <6>3
        <5> HIDE DEF c, i, j, m, S
        <5> DEFINE T == (keep \cup {m}) \X (keep \cup {m})
        <5>4. \A d \in S \ {c} : d \in keep \X keep
          BY <3>1 DEF Sound, Clear
        <5>5. Front(stack) \in Seq(T)
          BY <3>2, <5>4, RowOf
        <5>6. /\ <<i, m>> \in T /\ <<m, j>> \in T /\ <<i, m>> # <<m, j>>
              /\ <<i, m>> \notin S \ {c} /\ <<m, j>> \notin S \ {c}
          BY <5>2, <5>3, <5>4
        <5> HIDE DEF T
        <5>7. /\ stack' \in Seq(T) /\ Distinct(stack')
              /\ ToSet(stack') = (S \ {c}) \cup {<<i, m>>, <<m, j>>}
          <6> DEFINE st == Front(stack)
                     x == <<i, m>>
                     y == <<m, j>>
          <6>1. /\ st \in Seq(T) /\ x \in T /\ y \in T /\ Distinct(st) /\ x # y
                /\ x \notin ToSet(st) /\ y \notin ToSet(st) /\ ToSet(st) = S \ {c}
            BY <3>2, <5>5, <5>6 DEF S, c
          <6>2. stack' = st \o <<x, y>>
            BY <5>1 DEF i, j, m
          <6> HIDE DEF st, x, y
          <6>3. /\ st \o <<x, y>> \in Seq(T) /\ Distinct(st \o <<x, y>>)
                /\ ToSet(st \o <<x, y>>) = ToSet(st) \cup {x, y}
            BY <6>1, StackPush
          <6> QED
            BY <6>1, <6>2, <6>3 DEF x, y
        <5> QED
          BY <5>1, <5>2, <5>7
      <4> QED
        BY <4>1, <4>2
    <3>5. TypeOK'
      <4>1. stack' \in Seq(keep' \X keep') /\ \A k \in DOMAIN stack' : stack'[k][1] <= stack'[k][2]
        BY <3>4, StackTyped
      <4>2. keep' \subseteq DOMAIN before
        BY <3>4 DEF Sound
      <4> QED
        BY <3>3, <4>1, <4>2 DEF TypeOK, orderVars
    <3>6. Compressing'
      <4>1. path = before
        BY <3>1 DEF Compressing
      <4> QED
        BY <3>1, <3>3, <3>4, <4>1 DEF Compressing
    <3>7. Inside'
      <4>1. passes = 1 => Within(path, ws, 1)
        BY <3>1 DEF Inside
      <4>2. passes' = 1 => Within(path, ws, 1)'
        BY <3>3, <4>1 DEF Within
      <4> QED
        BY <3>1, <3>3, <4>2 DEF Inside
    <3> QED
      BY <3>1, <3>3, <3>5, <3>6, <3>7 DEF OnItsWay, Ordering
  <2>6. CASE EndCompress
    <3>1. /\ stage = "compress" /\ stack = <<>> /\ Path(before) /\ path = before
          /\ Sound(before, keep, ToSet(stack))
      BY <2>6 DEF EndCompress, Compressing
    <3>2. /\ stage' = "compressed" /\ path' = Picked(before, keep) /\ before' = before
          /\ keep' = keep /\ stack' = stack /\ ws' = ws /\ passes' = passes
          /\ UNCHANGED orderVars
      BY <2>6 DEF EndCompress
    <3>3. Sound(before, keep, {})
      <4>1. ToSet(stack) = {}
        BY <3>1 DEF ToSet
      <4> QED
        BY <3>1, <4>1
    <3>4. keep \in SUBSET (DOMAIN before) /\ keep # {} /\ ws \in Workspaces
      BY <3>3 DEF Sound, TypeOK
    <3>5. Path(path') /\ (Within(before, ws, 1) => Within(path', ws, 1))
      BY <3>1, <3>2, <3>4, PickedFits
    <3>6. TypeOK'
      BY <3>2, <3>5 DEF TypeOK, Path, orderVars
    <3>7. Inside'
      <4>1. passes' = 1 => Within(path', ws', 1)
        BY <3>1, <3>2, <3>5 DEF Inside
      <4>2. passes' = 1 => Within(path, ws, 1)'
        BY <4>1 DEF Within
      <4> QED
        BY <3>2, <4>2 DEF Inside
    <3> QED
      BY <3>1, <3>2, <3>3, <3>5, <3>6, <3>7 DEF OnItsWay, Compressing, Ordering
  <2>7. CASE Smooth
    <3>1. Path(path) /\ ws \in Workspaces /\ passes \in Nat \ {0} /\ stage = "compressed"
      BY <2>7, PathsAssumption DEF Smooth, OnItsWay, TypeOK
    <3>2. /\ path' = Averaged(Averaged(path)) /\ before' = before /\ keep' = keep /\ stack' = stack
          /\ ws' = ws /\ passes' = passes /\ UNCHANGED orderVars
          /\ stage' = IF Within(path', ws, Grain) THEN "rendered" ELSE "rejected"
      BY <2>7 DEF Smooth
    <3>3. Path(Averaged(path)) /\ (Within(path, ws, 1) => Within(Averaged(path), ws, 4 * 1))
      BY <3>1, AveragedFits
    <3>4. Path(path') /\ (Within(Averaged(path), ws, 4) => Within(path', ws, 4 * 4))
      BY <3>1, <3>2, <3>3, AveragedFits
    <3>5. passes = 1 => Within(path', ws, Grain)
      <4>1. 4 * 1 = 4 /\ 4 * 4 = 16
        OBVIOUS
      <4> QED
        BY <3>1, <3>3, <3>4, <4>1 DEF Inside, Grain
    <3>6. TypeOK'
      BY <3>2, <3>4 DEF TypeOK, Path, orderVars
    <3>7. Inside'
      <4>1. stage' = "rejected" => passes # 1
        BY <3>2, <3>5
      <4>2. passes # 1 => passes > 1
        BY <3>1
      <4> QED
        BY <3>2, <4>1, <4>2 DEF Inside
    <3> QED
      BY <3>2, <3>6, <3>7 DEF OnItsWay, Compressing, Ordering
  <2>8. CASE Choose
    <3> DEFINE c == Nearest
               i == c[1]
               stroke == remaining[i]
               turned == IF c[2] THEN Reverse(stroke) ELSE stroke
    <3>1. /\ stage = "order" /\ remaining # <<>>
          /\ remaining \in Seq(Seq(Points)) /\ ordered \in Seq(Seq(Points))
      BY <2>8 DEF Choose, TypeOK
    <3>2. /\ ordered' = Append(ordered, turned) /\ remaining' = RemoveAt(remaining, i)
          /\ stage' = stage /\ ws' = ws /\ passes' = passes /\ traced' = traced
          /\ path' = path /\ before' = before /\ keep' = keep /\ stack' = stack
      BY <2>8 DEF Choose, Without, textVars
    <3>3. i \in DOMAIN remaining
      BY <3>1, SameStroke
    <3> HIDE DEF c, i
    <3>4. Stroke(stroke)
      BY <3>1, <3>3 DEF Ordering, Stroke
    <3>5. Stroke(turned)
      BY <3>4, StrokeEnds
    <3> HIDE DEF turned
    <3>6. /\ ordered' \in Seq(Seq(Points)) /\ ordered' # <<>> /\ Last(ordered') = turned
      <4>1. turned \in Seq(Points)
        BY <3>5 DEF Stroke
      <4>2. /\ Append(ordered, turned) \in Seq(Seq(Points))
            /\ Len(Append(ordered, turned)) = Len(ordered) + 1
            /\ Append(ordered, turned)[Len(ordered) + 1] = turned
            /\ Append(ordered, turned) # <<>>
        <5> DEFINE T == Seq(Points)
        <5>1. ordered \in Seq(T) /\ turned \in T
          BY <3>1, <4>1
        <5> HIDE DEF T
        <5>2. Append(ordered, turned) \in Seq(T) /\ Len(Append(ordered, turned)) = Len(ordered) + 1
          BY <5>1
        <5>3. Append(ordered, turned)[Len(ordered) + 1] = turned /\ Len(ordered) \in Nat
          BY <5>1
        <5>4. Append(ordered, turned) # <<>>
          BY <5>2, <5>3
        <5> QED
          BY <5>2, <5>3, <5>4 DEF T
      <4> QED
        BY <3>2, <4>2 DEF Last
    <3>7. remaining' \in Seq(Seq(Points)) /\ \A k \in DOMAIN remaining' : remaining'[k] # <<>>
      <4> DEFINE T == Seq(Points)
      <4>1. remaining \in Seq(T) /\ i \in DOMAIN remaining
        BY <3>1, <3>3
      <4> HIDE DEF T
      <4>2. /\ remaining' \in Seq(T)
            /\ \A k \in DOMAIN remaining' : \E h \in DOMAIN remaining : remaining'[k] = remaining[h]
        BY <3>2, <4>1, Removed
      <4>3. remaining' \in Seq(Seq(Points))
        BY <4>2 DEF T
      <4> QED
        BY <3>1, <4>2, <4>3 DEF Ordering
    <3>8. TypeOK'
      BY <3>2, <3>6, <3>7 DEF TypeOK
    <3>9. Ordering'
      BY <3>5, <3>6, <3>7 DEF Ordering, Stroke
    <3> QED
      BY <3>1, <3>2, <3>8, <3>9 DEF OnItsWay, Compressing, Inside
  <2>9. CASE EndOrder
    <3>1. TypeOK'
      BY <2>9 DEF EndOrder, TypeOK, textVars, orderVars
    <3> QED
      BY <2>9, <3>1 DEF EndOrder, OnItsWay, Compressing, Inside, Ordering, textVars, orderVars
  <2>10. CASE UNCHANGED vars
    <3> USE <2>10 DEF vars, textVars, orderVars
    <3>1. TypeOK'
      BY DEF TypeOK
    <3>2. OnItsWay' /\ Compressing' /\ Ordering'
      BY DEF OnItsWay, Compressing, Ordering
    <3>3. Inside'
      BY DEF Inside, Within
    <3> QED
      BY <3>1, <3>2, <3>3
  <2> QED
    BY <2>1, <2>2, <2>3, <2>4, <2>5, <2>6, <2>7, <2>8, <2>9, <2>10 DEF Next
<1> QED
  BY <1>1, <1>2, PTL DEF Spec
-----------------------------------------------------------------------------
(* The theorems.                                                           *)

\* The stack of compress holds intervals between points it keeps, and what it
\* leaves out is near what it keeps (path_optimizer.py:39-68), for every
\* text, workspace and tolerance.
THEOREM WhatIsDroppedIsNear == Spec => []CompressionSound
<1>1. PathInv => CompressionSound
  <2> SUFFICES ASSUME PathInv PROVE CompressionSound
    OBVIOUS
  <2>1. TypeOK
    BY DEF PathInv
  <2>2. DroppedIsNear
    <3> SUFFICES ASSUME stage = "compressed" PROVE DroppedIsNear
      BY DEF DroppedIsNear
    <3>1. Path(before) /\ Sound(before, keep, {})
      BY DEF PathInv, Compressing
    <3> QED
      BY <3>1, Finished DEF DroppedIsNear
  <2> QED
    BY <2>1, <2>2 DEF CompressionSound
<1> QED
  BY <1>1, PathInvariant, PTL

\* The loop with a stack keeps what the recursion keeps, and the two greedy
\* searches choose the same stroke in the same direction
\* (path_optimizer.py of the gateway and of xiaozhi_drawing).
THEOREM TheTwinsAgree == Spec => []TwinsAgree
<1>1. PathInv => TwinsAgree
  <2> SUFFICES ASSUME PathInv PROVE TwinsAgree
    OBVIOUS
  <2>1. LoopIsRecursion
    <3> SUFFICES ASSUME stage = "compressed" PROVE LoopIsRecursion
      BY DEF LoopIsRecursion
    <3>1. Path(before) /\ Sound(before, keep, {}) /\ path = Picked(before, keep)
      BY DEF PathInv, Compressing
    <3>2. keep = Simplified(before, Tolerance)[<<1, Len(before)>>]
      BY <3>1, Finished
    <3> QED
      BY <3>1, <3>2 DEF LoopIsRecursion
  <2>2. OrdersAgree
    <3> SUFFICES ASSUME stage = "order", remaining # <<>> PROVE Nearest = Cheapest
      BY DEF OrdersAgree
    <3> QED
      BY SameStroke DEF PathInv, TypeOK
  <2> QED
    BY <2>1, <2>2 DEF TwinsAgree
<1> QED
  BY <1>1, PathInvariant, PTL

\* In a workspace that is not narrower than the two margins a text that is
\* drawn once is never rejected: the normalization puts it into the workspace,
\* and neither compress nor smooth takes it out (path_pipeline.py:105-190).
THEOREM OnePassIsDrawn == Spec => []OnlyPassesReject
<1>1. PathInv => OnlyPassesReject
  BY DEF PathInv, Inside, OnlyPassesReject
<1> QED
  BY <1>1, PathInvariant, PTL

\* The decimation shortens every stroke on its own: none is lost, merged or
\* divided, and each keeps its travel and its ends unless it was there before
\* (path_decimate.py:8-81).
THEOREM NoStrokeIsLost == Spec => StrokesSurvive
<1> DEFINE Kept ==
             /\ Cardinality(Starts(path')) = Cardinality(Starts(path))
             /\ \A k \in 1..Cardinality(Starts(path)) :
                  LET old == StrokeAt(path, At(Starts(path), k))
                      new == StrokeAt(path', At(Starts(path'), k))
                  IN /\ path'[new[1]] = path[old[1]]
                     /\ path'[new[2]] = path[old[2]] \/ Closed(path, old)
<1>1. PathInv /\ [Next]_vars => [stage = "text" => Kept]_vars
  <2> SUFFICES ASSUME PathInv, [Next]_vars, stage = "text", vars' # vars PROVE Kept
    OBVIOUS
  <2>1. Decimate
    BY DEF Next, Clamp, Normalize, AddPasses, Split, EndCompress, Smooth, Choose, EndOrder
  <2>2. path' = Decimated(path) /\ path \in Texts
    BY <2>1 DEF Decimate, PathInv, OnItsWay
  <2>3. Path(path) /\ path[1].up
    BY <2>2, PathsAssumption DEF Path
  <2>4. CASE path' = path
    BY <2>4
  <2>5. CASE \E n : path' = WithTolerance(path, n)
    <3>1. PICK n : path' = WithTolerance(path, n)
      BY <2>5
    <3> QED
      BY <2>3, <3>1, StrokesKept
  <2> QED
    BY <2>2, <2>4, <2>5 DEF Decimated
<1> QED
  BY <1>1, PathInvariant, PTL DEF Spec, StrokesSurvive
=============================================================================
