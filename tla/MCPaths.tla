-------------------------------- MODULE MCPaths --------------------------------
(* Instances of Paths for TLC. *)
EXTENDS Paths, TLC

CONSTANTS Xmax, Ymax, StrokesOf

U == TRUE
D == FALSE

\* a text of at most five points anywhere on a small grid
Short == {<<U, D>>, <<U, U>>, <<U, D, D, D, D>>, <<U, D, U, D, D>>, <<U, D, D, U, D>>}
Grid == {<<x, y>> : x \in {0, 1, Xmax}, y \in {0, Ymax}} \ {<<1, Ymax>>}

\* a text of six on a line and beside its end: two strokes one of which loses
\* points, and a space before, behind and between the strokes
Long == {<<U, D, D, D, U, D>>, <<U, U, U, D, D, D>>,
         <<U, D, D, D, U, U>>, <<U, D, U, U, U, D>>}
Corner == {<<0, 0>>, <<1, 0>>, <<Xmax, 0>>, <<Xmax, Ymax>>}

\* the texts with the pen of one of the shapes, from the left margin on
Written(shapes, places) ==
    UNION {{[i \in DOMAIN s |-> [x |-> at[i][1], y |-> at[i][2], up |-> s[i]]] :
               at \in {a \in [DOMAIN s -> places] : a[1][1] = 0}} : s \in shapes}

MCTexts == Written(Short, Grid) \cup Written(Long, Corner)

Entry == [x : {0, 1, Xmax}, y : {0}, up : {FALSE}]
MCDrawings == UNION {[1..n -> [1..2 -> Entry]] : n \in 1..StrokesOf}

MCWorkspaces ==
    {[w |-> 7, h |-> 6], [w |-> 4, h |-> 3], [w |-> 4, h |-> 2], [w |-> 1, h |-> 6]}
=============================================================================
