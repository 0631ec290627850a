-------------------------------- MODULE Grid --------------------------------
(***************************************************************************)
(* The raster all terrain algorithms work on: its cells, the eight         *)
(* directions D8_OFFSETS of app/services/catchment_delineation.py, and     *)
(* what "connected" and "near" mean for sets of cells.                     *)
(***************************************************************************)
EXTENDS Integers, FiniteSets, FiniteSetsExt

CONSTANTS
    Rows,  \* dem_data.height
    Cols   \* dem_data.width

ASSUME GridAssumption == Rows \in Nat \ {0} /\ Cols \in Nat \ {0}

\* A cell is <<row, col>>, counted from 0.
Cells == (0 .. Rows - 1) \X (0 .. Cols - 1)

\* East, north-east, and on against the clock; the code counts from 0.
D8 == << <<0, 1>>, <<-1, 1>>, <<-1, 0>>, <<-1, -1>>,
         <<0, -1>>, <<1, -1>>, <<1, 0>>, <<1, 1>> >>

Directions == 1..8

\* -1 in the code: no neighbour is lower.
Pit == 0

\* Where direction k leads from c; it may lie outside the raster.
Toward(c, k) == <<c[1] + D8[k][1], c[2] + D8[k][2]>>

\* Row by row, as NumPy scans.
Before(c, d) == c[1] < d[1] \/ (c[1] = d[1] /\ c[2] < d[2])

Apart2(c, d) == (c[1] - d[1]) * (c[1] - d[1]) + (c[2] - d[2]) * (c[2] - d[2])

\* The part of S that is connected with c, where corners connect:
\* ndi.label() with a structure of ones.
Part(S, c) ==
    LET grown[reached \in SUBSET S] ==
            LET wider == {d \in S : \E e \in reached : Apart2(d, e) <= 2}
            IN  IF wider = reached THEN reached ELSE grown[wider]
    IN  grown[{c}]

Parts(S) == {Part(S, c) : c \in S}
=============================================================================
