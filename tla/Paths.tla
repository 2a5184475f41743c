--------------------------------- MODULE Paths ---------------------------------
(***************************************************************************)
(* From strokes to a motion path: what render_text_task does with the      *)
(* strokes of the font (device_gateway/path_pipeline.py, path_decimate.py, *)
(* path_optimizer.py), and how the strokes of a traced image are ordered   *)
(* (xiaozhi_drawing/path_ordering.py).                                     *)
(*                                                                         *)
(* A point is [x, y, up], up for z > 0.  Coordinates are integers: the     *)
(* code rounds to 1/100 mm, the model to 1/PerMm.  Distances are compared  *)
(* as squares over the length of the chord they are measured from, so      *)
(* every comparison is one of integers.  The smoothing divides by 4 twice; *)
(* the model multiplies everything else instead (grain).                   *)
(***************************************************************************)
EXTENDS Integers, Sequences, FiniteSets, SequencesExt

CONSTANTS
    Texts,       \* paths of the font that may be rendered
    Drawings,    \* traced images: sequences of polylines
    PerMm,       \* 100 in the code
    Tolerance,   \* of compress, in quarters of a mm (2)
    Doublings,   \* how often the tolerance of the decimation doubles (21)
    MaxPoints,   \* MAX_PATH_POINTS (200)
    MaxMm,       \* MAX_WORKSPACE_MM (200)
    Margin,      \* of the normalization, mm (2)
    Workspaces,  \* [w, h] of the plotters, mm
    Passes,      \* numbers of passes that may be asked for
    Offset       \* of a pass, in points' units (offset_mm)

Points == [x : Int, y : Int, up : BOOLEAN]

\* the point pt somewhere else
MovedTo(pt, x, y) == [x |-> x, y |-> y, up |-> pt.up]

\* Every glyph begins with a reposition; that of a space is two of them.
ASSUME PathsAssumption ==
    /\ \A p \in Texts : p \in Seq(Points) /\ p # <<>> /\ p[1].up
    /\ \A d \in Drawings : /\ d \in Seq(Seq(Points)) /\ d # <<>>
                           /\ \A i \in DOMAIN d : d[i] # <<>>
    /\ \A w \in Workspaces : w.w \in Nat \ {0} /\ w.h \in Nat \ {0}
    /\ Passes \subseteq Nat \ {0}
    /\ PerMm \in Nat \ {0} /\ Offset \in Nat /\ MaxPoints \in Nat \ {0}
    /\ MaxMm \in Nat /\ Margin \in Nat /\ Tolerance \in Nat /\ Doublings \in Nat

VARIABLES
    stage,      \* how far the job is
    path,       \* the path so far
    before,     \* the path that compress was given
    ws, passes, \* workspace and passes of the job
    keep, stack,\* local variables of compress
    traced,     \* the polylines the ordering was given
    remaining, ordered  \* local variables of the ordering

textVars == <<path, before, keep, stack>>
orderVars == <<traced, remaining, ordered>>
vars == <<stage, ws, passes, textVars, orderVars>>
-----------------------------------------------------------------------------
(* Distances.                                                              *)

Square(n) == n * n

Apart(p, q) == Square(p.x - q.x) + Square(p.y - q.y)

\* _point_to_line_distance, _perpendicular_distance: the square of the distance
\* of p from the segment from a to b, times Chord(a, b)
Chord(a, b) == IF a.x = b.x /\ a.y = b.y THEN 1 ELSE Apart(a, b)

FromChord(p, a, b) ==
    LET dot == (p.x - a.x) * (b.x - a.x) + (p.y - a.y) * (b.y - a.y)
        cross == (p.x - a.x) * (b.y - a.y) - (p.y - a.y) * (b.x - a.x)
    IN IF dot <= 0 THEN Apart(p, a) * Chord(a, b)
       ELSE IF dot >= Apart(a, b) THEN Apart(p, b) * Chord(a, b)
       ELSE Square(cross)

\* is p more than n quarters of a mm from the segment?
Beyond(p, a, b, n) == 16 * FromChord(p, a, b) > Square(n * PerMm) * Chord(a, b)

\* the first of the points between i and j that is farthest from their chord
Farthest(p, i, j) ==
    LET far(k) == FromChord(p[k], p[i], p[j])
    IN CHOOSE m \in (i + 1)..(j - 1) : \A k \in (i + 1)..(j - 1) :
          far(k) < far(m) \/ (far(k) = far(m) /\ m <= k)
-----------------------------------------------------------------------------
(* Decimation: path_decimate.py.                                           *)

\* _simplify_points: the recursion; of the points from c[1] to c[2] those that stay
Simplified(p, n) ==
    LET s[c \in (DOMAIN p) \X (DOMAIN p)] ==
          LET m == Farthest(p, c[1], c[2])
          IN IF c[2] - c[1] < 2 THEN c[1]..c[2]
             ELSE IF Beyond(p[m], p[c[1]], p[c[2]], n)
                  THEN s[<<c[1], m>>] \cup s[<<m, c[2]>>] ELSE {c[1], c[2]}
    IN s

\* the k-th position of S, in order
At(S, k) == CHOOSE i \in S : Cardinality({j \in S : j <= i}) = k

\* the points of p whose positions are in S, in order
Picked(p, S) == [k \in 1..Cardinality(S) |-> p[At(S, k)]]

Least(S) == CHOOSE n \in S : \A k \in S : n <= k
Greatest(S) == CHOOSE n \in S : \A k \in S : n >= k

\* _split_strokes: where the strokes begin, and the stroke that point i is in,
\* from its first point to its last
Starts(p) == {1} \cup {i \in DOMAIN p : p[i].up}

StrokeAt(p, i) ==
    <<Greatest({a \in Starts(p) : a <= i}),
      Least({b \in i..Len(p) : b = Len(p) \/ b + 1 \in Starts(p)})>>

\* mutant: the strokes are not told apart
StaysMerged(p, i, n) == i \in Simplified(p, n)[<<1, Len(p)>>]

\* _simplify_stroke: a marker stays; of points that draw and have the same
\* coordinates only the first
Stays(p, i, n) ==
    LET first == IF p[StrokeAt(p, i)[1]].up THEN StrokeAt(p, i)[1] + 1 ELSE StrokeAt(p, i)[1]
        last == StrokeAt(p, i)[2]
    IN \/ p[i].up
       \/ last - first < 2
       \/ /\ \E k \in Simplified(p, n)[<<first, last>>] : p[k] = p[i]
          /\ \A j \in first..(i - 1) : p[j] # p[i]

WithTolerance(p, n) == Picked(p, {i \in DOMAIN p : Stays(p, i, n)})

\* decimate_to_max_points: the first tolerance that fits, or else the last
Decimated(p) ==
    LET fits(k) == Len(WithTolerance(p, 2^k)) <= MaxPoints
        last == CHOOSE k \in 0..Doublings :
                  /\ fits(k) \/ k = Doublings
                  /\ \A l \in 0..(k - 1) : ~fits(l)
    IN IF Len(p) <= MaxPoints THEN p ELSE WithTolerance(p, 2^last)

\* clamp_path
Clamped(p) ==
    LET most == MaxMm * PerMm
        within(n) == IF n > most THEN most ELSE IF n < -most THEN -most ELSE n
    IN [i \in 1..(IF Len(p) < MaxPoints THEN Len(p) ELSE MaxPoints) |->
          MovedTo(p[i], within(p[i].x), within(p[i].y))]
-----------------------------------------------------------------------------
(* The tail of render_text_task and render_svg_task.                       *)

Xs(p) == {p[i].x : i \in DOMAIN p}
Ys(p) == {p[i].y : i \in DOMAIN p}
Span(S) == Greatest(S) - Least(S)

Rounded(n, d) == (2 * n + d) \div (2 * d)

\* mutant: only the width counts
ScaleOfWidth(p, room) == IF Span(Xs(p)) > Greatest({room.w, 0}) THEN <<room.w, Span(Xs(p))>> ELSE <<1, 1>>

\* as a fraction; an axis on which the path has no extent does not count, and
\* one that has no room between the margins makes the scale negative
Scale(p, room) ==
    LET all == {<<1, 1>>} \cup (IF Span(Xs(p)) > 0 THEN {<<room.w, Span(Xs(p))>>} ELSE {})
                          \cup (IF Span(Ys(p)) > 0 THEN {<<room.h, Span(Ys(p))>>} ELSE {})
    IN CHOOSE c \in all : \A d \in all : c[1] * d[2] <= d[1] * c[2]

\* _normalize_path_to_workspace
Normalized(p, w) ==
    LET scale == Scale(p, [w |-> (w.w - 2 * Margin) * PerMm, h |-> (w.h - 2 * Margin) * PerMm])
        fit(n, least) == Margin * PerMm + Rounded((n - least) * scale[1], scale[2])
    IN [i \in DOMAIN p |-> MovedTo(p[i], fit(p[i].x, Least(Xs(p))), fit(p[i].y, Least(Ys(p))))]

\* _assert_path_within_workspace, for coordinates of the given grain
Within(p, w, grain) ==
    \A i \in DOMAIN p : /\ 0 <= p[i].x /\ p[i].x <= w.w * PerMm * grain
                        /\ 0 <= p[i].y /\ p[i].y <= w.h * PerMm * grain

\* apply_multi_pass
MultiPass(p, n) ==
    [i \in 1..(n * Len(p)) |->
        LET pt == p[((i - 1) % Len(p)) + 1]
        IN MovedTo(pt, pt.x + ((i - 1) \div Len(p)) * Offset, pt.y)]

\* one iteration of smooth, in a grain four times as fine
Averaged(p) ==
    LET of(i, a, b, c) == IF i \in {1, Len(p)} THEN 4 * b ELSE a + 2 * b + c
        near(i, k) == p[IF k \in DOMAIN p THEN k ELSE i]
    IN [i \in DOMAIN p |->
          MovedTo(p[i], of(i, near(i, i - 1).x, p[i].x, near(i, i + 1).x),
                        of(i, near(i, i - 1).y, p[i].y, near(i, i + 1).y))]

Grain == 16
-----------------------------------------------------------------------------
(* Rendering a text.                                                       *)

Init ==
    /\ ws \in Workspaces /\ passes \in Passes
    /\ before = <<>> /\ keep = {} /\ stack = <<>>
    /\ \/ /\ stage = "text" /\ path \in Texts
          /\ traced = <<>> /\ remaining = <<>> /\ ordered = <<>>
       \/ /\ stage = "order" /\ path = <<>>
          /\ traced \in Drawings
          /\ remaining = Tail(traced) /\ ordered = <<Head(traced)>>

\* text_to_path: decimate_to_max_points, clamp_path
Decimate ==
    /\ stage = "text" /\ stage' = "decimated"
    /\ path' = Decimated(path)
    /\ UNCHANGED <<ws, passes, before, keep, stack, orderVars>>

Clamp ==
    /\ stage = "decimated" /\ stage' = "clamped"
    /\ path' = Clamped(path)
    /\ UNCHANGED <<ws, passes, before, keep, stack, orderVars>>

Normalize ==
    /\ stage = "clamped"
    /\ path' = Normalized(path, ws)
    /\ stage' = IF Within(path', ws, 1) THEN "normalized" ELSE "rejected"
    /\ UNCHANGED <<ws, passes, before, keep, stack, orderVars>>

\* apply_multi_pass, and compress up to its loop
AddPasses ==
    /\ stage = "normalized" /\ stage' = "compress"
    /\ path' = MultiPass(path, passes)
    /\ before' = path'
    /\ keep' = {1, Len(path')} /\ stack' = <<<<1, Len(path')>>>>
    /\ UNCHANGED <<ws, passes, orderVars>>

\* mutant: only one side of the kept point is looked at again
LeftSide(i, m, j) == <<<<i, m>>>>

\* what is pushed when the point m between i and j stays
BothSides(i, m, j) == <<<<i, m>>, <<m, j>>>>

\* one turn of the loop of compress
Split ==
    /\ stage = "compress" /\ stack # <<>>
    /\ LET i == Last(stack)[1]
           j == Last(stack)[2]
           m == Farthest(before, i, j)
       IN IF j > i + 1 /\ Beyond(before[m], before[i], before[j], Tolerance)
          THEN /\ keep' = keep \cup {m}
               /\ stack' = Front(stack) \o BothSides(i, m, j)
          ELSE /\ stack' = Front(stack)
               /\ UNCHANGED keep
    /\ UNCHANGED <<stage, path, before, ws, passes, orderVars>>

EndCompress ==
    /\ stage = "compress" /\ stack = <<>> /\ stage' = "compressed"
    /\ path' = Picked(before, keep)
    /\ UNCHANGED <<ws, passes, before, keep, stack, orderVars>>

\* smooth, and the last check
Smooth ==
    /\ stage = "compressed"
    /\ path' = Averaged(Averaged(path))
    /\ stage' = IF Within(path', ws, Grain) THEN "rendered" ELSE "rejected"
    /\ UNCHANGED <<ws, passes, before, keep, stack, orderVars>>
-----------------------------------------------------------------------------
(* Ordering the strokes of an image.                                       *)

Pen == Last(Last(ordered))

\* the travel to stroke i, entered at its end if rev
Travel(i, rev) == Apart(Pen, IF rev THEN Last(remaining[i]) ELSE Head(remaining[i]))

\* reorder_polylines_nearest_neighbor: the first of the nearest entries, the
\* start of a stroke before its end
Nearest ==
    CHOOSE c \in (DOMAIN remaining) \X BOOLEAN : \A d \in (DOMAIN remaining) \X BOOLEAN :
        \/ Travel(c[1], c[2]) < Travel(d[1], d[2])
        \/ /\ Travel(c[1], c[2]) = Travel(d[1], d[2])
           /\ c[1] < d[1] \/ (c[1] = d[1] /\ (c[2] => d[2]))

\* mutant: the end of a stroke is taken as soon as it is near enough
CheapestByEnd ==
    LET rev(i) == Travel(i, TRUE) <= Travel(i, FALSE)
        cost(i) == Travel(i, rev(i))
        i == CHOOSE k \in DOMAIN remaining : \A l \in DOMAIN remaining :
                cost(k) < cost(l) \/ (cost(k) = cost(l) /\ k <= l)
    IN <<i, rev(i)>>

\* _reorder_segments_greedy of the gateway's PathOptimizer: the first of the
\* strokes whose nearer end is nearest, reversed if its end is nearer
Cheapest ==
    LET rev(i) == Travel(i, TRUE) < Travel(i, FALSE)
        cost(i) == Travel(i, rev(i))
        i == CHOOSE k \in DOMAIN remaining : \A l \in DOMAIN remaining :
                cost(k) < cost(l) \/ (cost(k) = cost(l) /\ k <= l)
    IN <<i, rev(i)>>

\* remaining.pop(i)
Without(i) == RemoveAt(remaining, i)

Choose ==
    /\ stage = "order" /\ remaining # <<>>
    /\ LET c == Nearest
           stroke == remaining[c[1]]
       IN /\ ordered' = Append(ordered, IF c[2] THEN Reverse(stroke) ELSE stroke)
          /\ remaining' = Without(c[1])
    /\ UNCHANGED <<stage, ws, passes, textVars, traced>>

EndOrder ==
    /\ stage = "order" /\ remaining = <<>> /\ stage' = "ordered"
    /\ UNCHANGED <<ws, passes, textVars, orderVars>>

Next ==
    \/ Decimate \/ Clamp \/ Normalize \/ AddPasses \/ Split \/ EndCompress \/ Smooth
    \/ Choose \/ EndOrder

Spec == Init /\ [][Next]_vars
-----------------------------------------------------------------------------
(* Properties.                                                             *)

TypeOK ==
    /\ stage \in {"text", "decimated", "clamped", "normalized", "compress", "compressed",
                  "rendered", "rejected", "order", "ordered"}
    /\ path \in Seq(Points) /\ before \in Seq(Points)
    /\ ws \in Workspaces /\ passes \in Passes
    /\ keep \subseteq DOMAIN before
    /\ stack \in Seq(keep \X keep) /\ \A k \in DOMAIN stack : stack[k][1] <= stack[k][2]
    /\ traced \in Seq(Seq(Points)) /\ remaining \in Seq(Seq(Points)) /\ ordered \in Seq(Seq(Points))

\* The loop with a stack in path_optimizer.py keeps the points that the
\* recursion in xiaozhi_drawing/path_optimizer.py keeps.
LoopIsRecursion ==
    stage = "compressed" =>
        path = Picked(before, Simplified(before, Tolerance)[<<1, Len(before)>>])

\* A point that compress leaves out lies within the tolerance of the segment
\* between its neighbours that stay.  This is about places alone: compress does
\* not look at the pen, and PenIsLifted below shows what that does to a drawing.
DroppedIsNear ==
    stage = "compressed" =>
        \A i \in DOMAIN before \ keep :
            LET a == CHOOSE k \in keep : k < i /\ \A l \in keep : l < i => l <= k
                b == CHOOSE k \in keep : k > i /\ \A l \in keep : l > i => l >= k
            IN ~Beyond(before[i], before[a], before[b], Tolerance)

\* the stroke returns to the point at which it ends
Closed(p, stroke) ==
    \E i \in stroke[1]..(stroke[2] - 1) : ~p[i].up /\ p[i] = p[stroke[2]]

\* The decimation shortens every stroke on its own (path_decimate.py:8-9):
\* there are as many as before, each with its travel and its two ends, unless
\* it returns to a point it was at: of equal points only the first stays.
StrokesSurvive ==
    [][stage = "text" =>
         /\ Cardinality(Starts(path')) = Cardinality(Starts(path))
         /\ \A k \in 1..Cardinality(Starts(path)) :
              LET old == StrokeAt(path, At(Starts(path), k))
                  new == StrokeAt(path', At(Starts(path'), k))
              IN /\ path'[new[1]] = path[old[1]]
                 /\ path'[new[2]] = path[old[2]] \/ Closed(path, old)]_vars

\* the margins leave no room between them
Narrow(w) == w.w < 2 * Margin \/ w.h < 2 * Margin

\* A text that is drawn once is rejected in no workspace but one that is
\* narrower than the two margins: elsewhere the normalized path lies in the
\* workspace, and compressing and smoothing do not take it out again.
OnlyPassesReject == stage = "rejected" => passes > 1 \/ Narrow(ws)

\* The two greedy searches of the repository choose the same stroke in the
\* same direction, whatever the ties.
OrdersAgree == stage = "order" /\ remaining # <<>> => Nearest = Cheapest

\* The repository writes the polyline simplification twice and the greedy
\* search for the next stroke twice, and the two of a pair agree.
TwinsAgree == LoopIsRecursion /\ OrdersAgree

\* The stack of compress holds intervals between points it keeps, and every
\* point it leaves out is near the segment that replaces it.
CompressionSound == TypeOK /\ DroppedIsNear

\* "stroke/glyph repositioning moves get z = PEN_UP_Z (travel at safe height)"
\* (path_pipeline.py:56-57): where the font moves on by more than a
\* millimetre without drawing, the plotter does.
PenIsLifted ==
    stage = "compressed" =>
        \A i \in 2..Len(before) :
            before[i].up /\ Apart(before[i - 1], before[i]) > Square(PerMm) => i \in keep
=============================================================================
