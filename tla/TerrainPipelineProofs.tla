----------------------- MODULE TerrainPipelineProofs ------------------------
(***************************************************************************)
(* Proofs about TerrainPipeline, for rasters of any size, any contours and *)
(* tiles, any scores and any no-build zones.                               *)
(***************************************************************************)
EXTENDS TerrainPipeline, FiniteSetTheorems, TLAPS

\* What was parsed is what was uploaded; nothing runs before the survey.
Origins ==
    /\ source \in Files \cup {Tiles}
    /\ stage = "parsed" => source \in Files /\ contours = Parsed(source) /\ contours # <<>>
    /\ stage \in {"received", "parsed", "failed"} => flow = "none"
    /\ flow = "none" => k = 1 /\ \A c \in Cells : fdir[c] = Pit

RoutesInv == TypeOK /\ Origins /\ WaterFallsDown

\* What has been traced so far: all of it drains to the pour point, and what
\* drains to a cell that has left the queue is in it.
TraceInv ==
    flow \in {"tracing", "traced"} /\ method = "basin_approximation" =>
        /\ snapped \in basin
        /\ frontier \subseteq basin
        /\ flow = "traced" => frontier = {}
        /\ \A c \in basin \ {snapped} : Drains(c) /\ Below(c) \in basin
        /\ \A c \in Cells : Drains(c) /\ Below(c) \in basin \ frontier => c \in basin

(***************************************************************************)
(* A cell that drains to c is looked at when c leaves the queue of the     *)
(* trace: the neighbours of the eight directions are all its neighbours.   *)
(***************************************************************************)
LEMMA BackAgain ==
    ASSUME NEW c \in Cells, NEW j \in Directions
    PROVE  \E i \in Directions : Toward(Toward(c, j), i) = c
<1> DEFINE i == IF j <= 4 THEN j + 4 ELSE j - 4
<1>1. i \in Directions
  BY DEF Directions
<1>2. PICK x \in Int, y \in Int : c = <<x, y>>
  BY GridAssumption DEF Cells
<1>3. Toward(Toward(c, j), i) = c
  <2>1. j \in {1, 2, 3, 4, 5, 6, 7, 8}
    BY DEF Directions
  <2>2. Toward(c, j) = <<x + D8[j][1], y + D8[j][2]>>
    BY <1>2 DEF Toward
  <2>3. D8[j][1] \in Int /\ D8[j][2] \in Int
    BY <2>1 DEF D8
  <2>4. D8[i][1] = -D8[j][1] /\ D8[i][2] = -D8[j][2]
    BY <2>1 DEF D8
  <2>5. Toward(Toward(c, j), i) = <<(x + D8[j][1]) + D8[i][1], (y + D8[j][2]) + D8[i][2]>>
    BY <2>2 DEF Toward
  <2>6. QED
    BY <1>2, <2>3, <2>4, <2>5
<1>4. QED
  BY <1>1, <1>3

LEMMA CellsFinite == IsFiniteSet(Cells)
<1>1. IsFiniteSet(0 .. Rows - 1) /\ IsFiniteSet(0 .. Cols - 1)
  BY FS_Interval, GridAssumption
<1>2. QED
  BY <1>1, FS_Product DEF Cells

(***************************************************************************)
(* Type correctness, and with it that water falls down: of the directions, *)
(* the counts, the queues and the catchment, through every stage.          *)
(***************************************************************************)
LEMMA RoutesInvariant == Spec => []RoutesInv
<1>1. Init => RoutesInv
  BY DEF Init, FlowInit, RoutesInv, TypeOK, Origins, WaterFallsDown, Drains, Directions, Pit
<1>2. RoutesInv /\ [Next]_vars => RoutesInv'
  <2> SUFFICES ASSUME RoutesInv, [Next]_vars PROVE RoutesInv'
    OBVIOUS
  <2> USE DEF RoutesInv, TypeOK, Origins, WaterFallsDown, Drains, Below,
              flowVars, routeVars, traceVars, groundVars
  <2>1. ASSUME NEW surface \in [Cells -> Int], Survey(surface), stage' = "terrain", UNCHANGED groundVars
        PROVE  RoutesInv'
    BY <2>1 DEF Survey, Directions
  <2>2. CASE Parse
    BY <2>2 DEF Parse, Fail
  <2>3. CASE Build
    <3>1. PICK surface \in Surfaces(contours) : Survey(surface)
      BY <2>3 DEF Build
    <3>2. surface \in [Cells -> Int]
      BY <2>3, <3>1, InputAssumption DEF Build
    <3>3. QED
      BY <2>1, <2>3, <3>1, <3>2 DEF Build
  <2>4. CASE BuildFails
    BY <2>4 DEF BuildFails, Fail
  <2>5. CASE FetchTiles
    BY <2>1, <2>5, InputAssumption DEF FetchTiles, Fail
  <2>6. CASE Analyse
    BY <2>6 DEF Analyse, Scores
  <2>7. CASE Exclude
    BY <2>7 DEF Exclude
  <2>8. CASE RankSites
    BY <2>8 DEF RankSites
  <2>9. CASE NoCandidate
    BY <2>9 DEF NoCandidate
  <2>10. CASE Delineate
    BY <2>10 DEF Delineate, Ask
  <2>11. CASE Flow
    <3> USE <2>11 DEF Flow
    <3>1. CASE Compare
      <4>1. fdir' \in [Cells -> Directions \cup {Pit}]
        BY <3>1 DEF Compare
      <4>2. ASSUME NEW c \in Cells, fdir'[c] # Pit
            PROVE  /\ Toward(c, fdir'[c]) \in Cells
                   /\ dem[Toward(c, fdir'[c])] < dem[c]
        <5>1. CASE Steeper(c, k)
          <6>1. fdir'[c] = k /\ Toward(c, k) \in Cells /\ dem[c] - dem[Toward(c, k)] > 0
            BY <3>1, <5>1 DEF Compare, Steeper, Fall
          <6>2. dem[c] \in Int /\ dem[Toward(c, k)] \in Int
            BY <6>1
          <6>3. QED
            BY <6>1, <6>2
        <5>2. CASE ~Steeper(c, k)
          BY <3>1, <4>2, <5>2 DEF Compare
        <5>3. QED
          BY <5>1, <5>2
      <4>3. k' \in 1..9 /\ (flow' = "directing" => k' \in Directions)
        BY <3>1 DEF Compare, Directions
      <4>4. QED
        BY <3>1, <4>1, <4>2, <4>3 DEF Compare
    <3>2. CASE CountInflows
      <4>1. ASSUME NEW c \in Cells PROVE Cardinality(Sources(c)) \in Int
        <5>1. Sources(c) \subseteq Cells
          BY DEF Sources
        <5>2. Cardinality(Sources(c)) \in Nat
          BY <5>1, CellsFinite, FS_Subset, FS_CardinalityType
        <5>3. QED
          BY <5>2
      <4>2. degree' \in [Cells -> Int]
        BY <3>2, <4>1 DEF CountInflows
      <4>3. QED
        BY <3>2, <4>2 DEF CountInflows
    <3>3. CASE Drained
      BY <3>3 DEF Drained
    <3>4. CASE PyshedsAnswers
      BY <3>4 DEF PyshedsAnswers
    <3>5. CASE Snap
      BY <3>5 DEF Snap, Window
    <3>6. CASE Traced
      BY <3>6 DEF Traced
    <3>7. ASSUME NEW c \in Cells, PassOn(c) PROVE RoutesInv'
      <4>1. UNCHANGED <<flow, dem, k, fdir, traceVars, stage, groundVars>>
        BY <3>7 DEF PassOn
      <4>2. ready' \subseteq Cells
        BY <3>7 DEF PassOn
      <4>3. accum' \in [Cells -> Nat]
        <5>1. CASE Drains(c)
          <6>1. accum' = [accum EXCEPT ![Below(c)] = accum[Below(c)] + accum[c]]
            BY <3>7, <5>1 DEF PassOn
          <6>2. accum[Below(c)] + accum[c] \in Nat
            BY <5>1
          <6>3. QED
            BY <6>1, <6>2
        <5>2. CASE ~Drains(c)
          BY <3>7, <5>2 DEF PassOn
        <5>3. QED
          BY <5>1, <5>2
      <4>4. degree' \in [Cells -> Int]
        BY <3>7 DEF PassOn
      <4>5. QED
        BY <4>1, <4>2, <4>3, <4>4
    <3>8. ASSUME NEW c \in Cells, Trace(c) PROVE RoutesInv'
      BY <3>8 DEF Trace, Upstream
    <3>9. QED
      BY <3>1, <3>2, <3>3, <3>4, <3>5, <3>6, <3>7, <3>8 DEF FlowNext
  <2>12. CASE UNCHANGED vars
    BY <2>12 DEF vars
  <2>13. QED
    BY <2>2, <2>3, <2>4, <2>5, <2>6, <2>7, <2>8, <2>9, <2>10, <2>11, <2>12 DEF Next
<1>3. QED
  BY <1>1, <1>2, PTL DEF Spec

(***************************************************************************)
(* The variables of the terrain stages have their types.                   *)
(***************************************************************************)
THEOREM TypeCorrect == Spec => []TypeOK
BY RoutesInvariant, PTL DEF RoutesInv

(***************************************************************************)
(* Water runs from a cell to a lower one, through every stage: the native  *)
(* D8 directions hold no circle, so the accumulation can be completed.     *)
(***************************************************************************)
THEOREM WaterFallsDownCorrect == Spec => []WaterFallsDown
BY RoutesInvariant, PTL DEF RoutesInv

(***************************************************************************)
(* The trace invariant survives every step of every stage.                 *)
(***************************************************************************)
LEMMA TraceInvariant == Spec => []TraceInv
<1>1. Init => TraceInv
  BY DEF Init, FlowInit, TraceInv
<1>2. RoutesInv /\ TraceInv /\ [Next]_vars => TraceInv'
  <2> SUFFICES ASSUME RoutesInv, TraceInv, [Next]_vars PROVE TraceInv'
    OBVIOUS
  <2>1. ASSUME UNCHANGED <<flow, fdir, traceVars>> PROVE TraceInv'
    BY <2>1 DEF TraceInv, traceVars, Drains, Below
  <2>2. ASSUME flow' \notin {"tracing", "traced"} PROVE TraceInv'
    BY <2>2 DEF TraceInv
  <2>3. ASSUME NEW surface, Survey(surface) PROVE TraceInv'
    BY <2>2, <2>3 DEF Survey
  <2>4. CASE Parse \/ BuildFails \/ Analyse \/ Exclude \/ RankSites \/ NoCandidate \/ UNCHANGED vars
    BY <2>1, <2>4 DEF Parse, BuildFails, Analyse, Exclude, RankSites, NoCandidate, vars, flowVars, routeVars
  <2>5. CASE Build \/ FetchTiles
    BY <2>1, <2>3, <2>5 DEF Build, FetchTiles, flowVars, routeVars
  <2>6. CASE Delineate
    BY <2>2, <2>6 DEF Delineate, Ask
  <2>7. CASE Flow
    <3>1. CASE Compare \/ CountInflows \/ Drained
      BY <2>2, <3>1 DEF Compare, CountInflows, Drained
    <3>2. CASE PyshedsAnswers
      BY <3>2 DEF PyshedsAnswers, TraceInv
    <3>3. CASE Snap
      <4>1. PICK s \in Cells : snapped' = s /\ basin' = {s} /\ frontier' = {s}
        BY <3>3 DEF Snap, Window
      <4>2. flow' = "tracing" /\ UNCHANGED fdir
        BY <3>3 DEF Snap, routeVars
      <4>3. QED
        BY <4>1, <4>2 DEF TraceInv
    <3>4. CASE Traced
      BY <3>4 DEF Traced, TraceInv, traceVars, routeVars, Drains, Below
    <3>5. ASSUME NEW c \in Cells, PassOn(c) PROVE TraceInv'
      BY <2>2, <3>5 DEF PassOn
    <3>6. ASSUME NEW c \in Cells, Trace(c) PROVE TraceInv'
      <4> DEFINE came == Upstream(c)
      <4>1. CASE method = "basin_approximation"
        <5>1. /\ basin' = basin \cup came /\ frontier' = (frontier \ {c}) \cup came
              /\ flow = "tracing" /\ c \in frontier
              /\ UNCHANGED <<flow, fdir, snapped, method>>
          BY <3>6 DEF Trace, routeVars, Popped
        <5>2. \A d \in came : d \in Cells /\ Drains(d) /\ Below(d) = c
          BY DEF Upstream
        <5>3. /\ snapped \in basin /\ frontier \subseteq basin
              /\ \A d \in basin \ {snapped} : Drains(d) /\ Below(d) \in basin
              /\ \A d \in Cells : Drains(d) /\ Below(d) \in basin \ frontier => d \in basin
          BY <4>1, <5>1 DEF TraceInv
        <5>4. ASSUME NEW d \in Cells, Drains(d), Below(d) = c PROVE d \in basin \cup came
          <6>1. fdir[d] \in Directions
            BY <5>4 DEF RoutesInv, TypeOK, Drains
          <6>2. PICK i \in Directions : Toward(c, i) = d
            BY <5>4, <6>1, BackAgain DEF Below
          <6>3. QED
            BY <5>4, <6>2 DEF Upstream
        <5>5. \A d : Drains(d)' = Drains(d) /\ Below(d)' = Below(d)
          BY <5>1 DEF Drains, Below
        <5>6. \A d \in basin' \ {snapped} : Drains(d) /\ Below(d) \in basin'
          BY <5>1, <5>2, <5>3
        <5>7. \A d \in Cells : Drains(d) /\ Below(d) \in basin' \ frontier' => d \in basin'
          BY <5>1, <5>3, <5>4
        <5>8. QED
          BY <5>1, <5>3, <5>5, <5>6, <5>7 DEF TraceInv
      <4>2. CASE method # "basin_approximation"
        BY <3>6, <4>2 DEF Trace, TraceInv
      <4>3. QED
        BY <4>1, <4>2
    <3>7. QED
      BY <2>7, <3>1, <3>2, <3>3, <3>4, <3>5, <3>6 DEF Flow, FlowNext
  <2>8. QED
    BY <2>4, <2>5, <2>6, <2>7 DEF Next
<1>3. QED
  BY <1>1, <1>2, RoutesInvariant, PTL DEF Spec

(***************************************************************************)
(* The catchment of the native engine is exactly what drains to the pour   *)
(* point, whatever the terrain.                                            *)
(***************************************************************************)
THEOREM CatchmentCorrect == Spec => []CatchmentExact
<1>1. RoutesInv /\ TraceInv => CatchmentExact
  BY DEF RoutesInv, TypeOK, TraceInv, CatchmentExact, Native
<1>2. QED
  BY <1>1, RoutesInvariant, TraceInvariant, PTL
----------------------------------------------------------------------------
(* The accumulation.  Upper(c) is the ground above c: the least set of     *)
(* cells that holds c and every cell that drains to one of it.             *)

Closed(S) == \A d \in Cells : Drains(d) /\ Below(d) \in S => d \in S

Upper(c) == {d \in Cells : \A S \in SUBSET Cells : c \in S /\ Closed(S) => d \in S}

\* Of any cells, some have the least value.
LEMMA LeastCell ==
    ASSUME NEW T \in SUBSET Cells, T # {}, NEW f \in [Cells -> Int]
    PROVE  \E x \in T : \A y \in T : f[x] <= f[y]
<1> DEFINE lower(x) == {y \in Cells : f[y] < f[x]}
           R == StrictSubsetOrdering(Cells)
           D == {lower(x) : x \in T}
<1>1. IsWellFoundedOn(R, FiniteSubsetsOf(Cells))
  BY FS_StrictSubsetOrderingWellFounded
<1>2. D \subseteq FiniteSubsetsOf(Cells) /\ D # {}
  <2>1. FiniteSubsetsOf(Cells) = SUBSET Cells
    BY CellsFinite, FS_FiniteSubsetsOfFinite
  <2>2. D \subseteq SUBSET Cells /\ D # {}
    OBVIOUS
  <2> HIDE DEF D
  <2>3. QED
    BY <2>1, <2>2
<1>3. PICK m \in D : \A n \in D : <<n, m>> \notin R
  <2> HIDE DEF R, D
  <2>1. QED
    BY <1>1, <1>2, WFMin
<1>4. PICK x \in T : m = lower(x)
  BY <1>3
<1>5. ASSUME NEW y \in T, ~(f[x] <= f[y]) PROVE FALSE
  <2>1. f[x] \in Int /\ f[y] \in Int
    OBVIOUS
  <2>2. lower(y) \subseteq lower(x) /\ y \in lower(x) /\ y \notin lower(y)
    BY <1>5, <2>1
  <2>3. lower(y) \in D /\ lower(y) \in SUBSET Cells /\ lower(x) \in SUBSET Cells
    OBVIOUS
  <2> HIDE DEF lower, D
  <2>4. <<lower(y), lower(x)>> \in R
    BY <2>2, <2>3 DEF StrictSubsetOrdering
  <2>5. QED
    BY <1>3, <1>4, <2>3, <2>4
<1>6. QED
  BY <1>5

\* What the cells above a cell are: it, and what drains to them.
LEMMA UpperIsLeast ==
    ASSUME NEW c \in Cells
    PROVE  /\ c \in Upper(c) /\ Upper(c) \subseteq Cells /\ Closed(Upper(c))
           /\ \A S \in SUBSET Cells : c \in S /\ Closed(S) => Upper(c) \subseteq S
<1>1. c \in Upper(c) /\ Upper(c) \subseteq Cells
  BY DEF Upper
<1>2. \A S \in SUBSET Cells : c \in S /\ Closed(S) => Upper(c) \subseteq S
  BY DEF Upper
<1>3. ASSUME NEW d \in Cells, Drains(d), Below(d) \in Upper(c) PROVE d \in Upper(c)
  <2> SUFFICES ASSUME NEW S \in SUBSET Cells, c \in S, Closed(S) PROVE d \in S
    BY DEF Upper
  <2>1. Below(d) \in S
    BY <1>2, <1>3
  <2>2. QED
    BY <1>3, <2>1 DEF Closed
<1>4. Closed(Upper(c))
  BY <1>3 DEF Closed
<1>5. QED
  BY <1>1, <1>2, <1>4

LEMMA UpperDrains ==
    ASSUME NEW c \in Cells, NEW d \in Upper(c) \ {c}
    PROVE  Drains(d) /\ Below(d) \in Upper(c)
<1> SUFFICES ASSUME ~(Drains(d) /\ Below(d) \in Upper(c)) PROVE FALSE
  OBVIOUS
<1> DEFINE S == Upper(c) \ {d}
<1>1. c \in S /\ S \in SUBSET Cells
  BY UpperIsLeast
<1>2. Closed(S)
  BY UpperIsLeast DEF Closed
<1>3. Upper(c) \subseteq S
  <2> HIDE DEF S
  <2>1. QED
    BY <1>1, <1>2, UpperIsLeast
<1>4. QED
  BY <1>3

LEMMA UpperIsHigher ==
    ASSUME RoutesInv, NEW c \in Cells, NEW d \in Upper(c) \ {c}
    PROVE  dem[c] < dem[d]
<1> DEFINE S == {e \in Cells : e = c \/ dem[c] < dem[e]}
<1>1. dem \in [Cells -> Int]
  BY DEF RoutesInv, TypeOK
<1>2. ASSUME NEW e \in Cells, Drains(e), Below(e) \in S PROVE e \in S
  <2>1. Below(e) \in Cells /\ dem[Below(e)] < dem[e]
    BY <1>2 DEF RoutesInv, WaterFallsDown
  <2>2. Below(e) = c \/ dem[c] < dem[Below(e)]
    BY <1>2
  <2>3. dem[c] < dem[e]
    BY <1>1, <2>1, <2>2
  <2>4. QED
    BY <2>3
<1>3. c \in S /\ S \in SUBSET Cells /\ Closed(S)
  BY <1>2 DEF Closed
<1>4. Upper(c) \subseteq S
  <2> HIDE DEF S
  <2>1. QED
    BY <1>3, UpperIsLeast
<1>5. QED
  BY <1>4

LEMMA SourceIsHigher ==
    ASSUME RoutesInv, NEW c \in Cells, NEW s \in Sources(c)
    PROVE  /\ s \in Cells /\ dem[c] < dem[s] /\ s # c
           /\ c \notin Upper(s) /\ Upper(s) \subseteq Upper(c)
<1>1. s \in Cells /\ Drains(s) /\ Below(s) = c
  BY DEF Sources
<1>2. dem[c] < dem[s] /\ dem[c] \in Int /\ dem[s] \in Int
  BY <1>1 DEF RoutesInv, TypeOK, WaterFallsDown
<1>3. c # s
  BY <1>2
<1>4. c \notin Upper(s)
  <2> SUFFICES ASSUME c \in Upper(s) PROVE FALSE
    OBVIOUS
  <2>1. dem[s] < dem[c]
    BY <1>1, <1>3, UpperIsHigher
  <2>2. QED
    BY <1>2, <2>1
<1>5. s \in Upper(c)
  BY <1>1, UpperIsLeast DEF Closed
<1>6. Upper(s) \subseteq Upper(c)
  BY <1>1, <1>5, UpperIsLeast
<1>7. QED
  BY <1>1, <1>2, <1>3, <1>4, <1>6

\* The grounds above two cells that drain to the same one do not meet.
LEMMA UppersApart ==
    ASSUME RoutesInv, NEW c \in Cells, NEW s \in Sources(c), NEW r \in Sources(c), s # r
    PROVE  Upper(s) \cap Upper(r) = {}
<1> DEFINE T == Upper(s) \ Upper(r)
<1>1. /\ s \in Cells /\ r \in Cells /\ Below(s) = c /\ Below(r) = c
      /\ c \notin Upper(s) /\ c \notin Upper(r)
  BY SourceIsHigher DEF Sources
<1>2. s \notin Upper(r)
  BY <1>1, UpperDrains
<1>3. s \in T /\ T \in SUBSET Cells
  BY <1>1, <1>2, UpperIsLeast
<1>4. ASSUME NEW e \in Cells, Drains(e), Below(e) \in T PROVE e \in T
  <2>1. e \in Upper(s)
    BY <1>1, <1>4, UpperIsLeast DEF Closed
  <2>2. e # r
    BY <1>1, <1>4
  <2>3. e \notin Upper(r)
    BY <1>1, <1>4, <2>2, UpperDrains
  <2>4. QED
    BY <2>1, <2>3
<1>5. Closed(T)
  BY <1>4 DEF Closed
<1>6. Upper(s) \subseteq T
  <2> HIDE DEF T
  <2>1. QED
    BY <1>1, <1>3, <1>5, UpperIsLeast
<1>7. QED
  BY <1>6

\* The ground above c of which c has heard, once the cells of P have passed
\* their water on.
Heard(c, P) == {c} \cup UNION {Upper(s) : s \in Sources(c) \cap P}

LEMMA AllHeard ==
    ASSUME RoutesInv, NEW c \in Cells, NEW P, Sources(c) \subseteq P
    PROVE  Heard(c, P) = Upper(c)
<1> DEFINE S == Heard(c, P)
<1>1. S = {c} \cup UNION {Upper(s) : s \in Sources(c)}
  BY DEF Heard
<1>2. \A s \in Sources(c) : Upper(s) \subseteq Upper(c) /\ s \in Cells
  BY SourceIsHigher
<1>3. S \subseteq Upper(c)
  BY <1>1, <1>2, UpperIsLeast
<1>4. c \in S /\ S \in SUBSET Cells
  BY <1>1, <1>3, UpperIsLeast
<1>5. ASSUME NEW d \in Cells, Drains(d), Below(d) \in S PROVE d \in S
  <2>1. CASE Below(d) = c
    <3>1. d \in Sources(c) /\ d \in Upper(d)
      BY <1>5, <2>1, UpperIsLeast DEF Sources
    <3>2. QED
      BY <1>1, <3>1
  <2>2. CASE Below(d) # c
    <3>1. PICK s \in Sources(c) : Below(d) \in Upper(s)
      BY <1>1, <1>5, <2>2
    <3>2. d \in Upper(s)
      BY <1>2, <1>5, <3>1, UpperIsLeast DEF Closed
    <3>3. QED
      BY <1>1, <3>1, <3>2
  <2>3. QED
    BY <2>1, <2>2
<1>6. Closed(S)
  BY <1>5 DEF Closed
<1>7. Upper(c) \subseteq S
  <2> HIDE DEF S
  <2>1. QED
    BY <1>4, <1>6, UpperIsLeast
<1>8. QED
  BY <1>3, <1>7

\* When c passes its water on, the cell below hears of all the ground above
\* c, and had heard of none of it.
LEMMA HearsOnce ==
    ASSUME RoutesInv, NEW b \in Cells, NEW c \in Sources(b), NEW P, c \notin P
    PROVE  /\ Heard(b, P \cup {c}) = Heard(b, P) \cup Upper(c)
           /\ Heard(b, P) \cap Upper(c) = {}
           /\ IsFiniteSet(Heard(b, P)) /\ IsFiniteSet(Upper(c))
<1>1. Sources(b) \cap (P \cup {c}) = (Sources(b) \cap P) \cup {c}
  OBVIOUS
<1>2. Heard(b, P \cup {c}) = Heard(b, P) \cup Upper(c)
  BY <1>1 DEF Heard
<1>3. \A s \in Sources(b) \cap P : Upper(s) \cap Upper(c) = {}
  BY UppersApart
<1>4. b \notin Upper(c)
  BY SourceIsHigher
<1>5. Heard(b, P) \cap Upper(c) = {}
  BY <1>3, <1>4 DEF Heard
<1>6. \A s \in Sources(b) : s \in Cells /\ Upper(s) \subseteq Cells
  BY SourceIsHigher, UpperIsLeast
<1>7. Heard(b, P) \subseteq Cells /\ Upper(c) \subseteq Cells
  BY <1>6 DEF Heard
<1>8. IsFiniteSet(Heard(b, P)) /\ IsFiniteSet(Upper(c))
  BY <1>7, CellsFinite, FS_Subset
<1>9. QED
  BY <1>2, <1>5, <1>8

\* What the accumulation knows when the cells of P have passed their water on.
Passed(P) ==
    /\ \A c \in Cells : accum[c] = Cardinality(Heard(c, P))
    /\ \A c \in Cells : degree[c] = Cardinality(Sources(c) \ P)
    /\ \A c \in P : Sources(c) \subseteq P
    /\ ready = {c \in Cells \ P : Sources(c) \subseteq P}

AccumInv ==
    /\ flow \in {"none", "directing", "counting"} => \A c \in Cells : accum[c] = 1
    /\ flow = "draining" => \E P \in SUBSET Cells : Passed(P)
    /\ flow \in {"analysed", "asked", "tracing", "traced"} =>
          \A c \in Cells : accum[c] = Cardinality(Upper(c))

\* A step of the accumulation: one cell passes its water on.
LEMMA PassOnStep ==
    ASSUME RoutesInv, NEW P \in SUBSET Cells, Passed(P), NEW c \in Cells, PassOn(c)
    PROVE  Passed(P \cup {c})'
<1> DEFINE Q == P \cup {c}
<1>1. /\ c \in ready /\ c \notin P /\ Sources(c) \subseteq P
      /\ accum \in [Cells -> Nat] /\ degree \in [Cells -> Int]
  BY DEF PassOn, Popped, Passed, RoutesInv, TypeOK
<1>2. UNCHANGED fdir
  BY DEF PassOn
<1>3. /\ \A d : Drains(d)' = Drains(d) /\ Below(d)' = Below(d)
      /\ \A d : Sources(d)' = Sources(d) /\ Upper(d)' = Upper(d)
      /\ \A d, X : Heard(d, X)' = Heard(d, X)
  <2>1. \A d : Drains(d)' = Drains(d) /\ Below(d)' = Below(d)
    BY <1>2 DEF Drains, Below
  <2>2. \A d : Sources(d)' = Sources(d)
    BY <2>1 DEF Sources
  <2>3. \A d : Upper(d)' = Upper(d)
    BY <2>1 DEF Upper, Closed
  <2>4. \A d, X : Heard(d, X)' = Heard(d, X)
    BY <2>2, <2>3 DEF Heard
  <2>5. QED
    BY <2>1, <2>2, <2>3, <2>4
<1>4. SUFFICES /\ \A d \in Cells : accum'[d] = Cardinality(Heard(d, Q))
               /\ \A d \in Cells : degree'[d] = Cardinality(Sources(d) \ Q)
               /\ \A d \in Q : Sources(d) \subseteq Q
               /\ ready' = {d \in Cells \ Q : Sources(d) \subseteq Q}
  BY <1>3 DEF Passed
<1>5. \A d \in Q : Sources(d) \subseteq Q
  BY <1>1 DEF Passed
<1>6. ASSUME NEW d \in Cells, c \notin Sources(d)
      PROVE  /\ Heard(d, Q) = Heard(d, P)
             /\ Sources(d) \ Q = Sources(d) \ P
             /\ Sources(d) \subseteq Q <=> Sources(d) \subseteq P
  BY <1>6 DEF Heard
<1>7. CASE ~Drains(c)
  <2>1. \A d \in Cells : c \notin Sources(d)
    BY <1>7 DEF Sources
  <2>2. ready' = ready \ {c} /\ UNCHANGED <<accum, degree>>
    BY <1>7 DEF PassOn
  <2>3. ready' = {d \in Cells \ Q : Sources(d) \subseteq Q}
    BY <1>6, <2>1, <2>2 DEF Passed
  <2>4. QED
    BY <1>5, <1>6, <2>1, <2>2, <2>3 DEF Passed
<1>8. CASE Drains(c)
  <2> DEFINE b == Below(c)
  <2>1. b \in Cells /\ c \in Sources(b) /\ \A d \in Cells : c \in Sources(d) <=> d = b
    BY <1>8 DEF Sources, RoutesInv, WaterFallsDown
  <2>2. b # c
    BY <2>1, SourceIsHigher
  <2>3. /\ accum' = [accum EXCEPT ![b] = accum[b] + accum[c]]
        /\ degree' = [degree EXCEPT ![b] = degree[b] - 1]
        /\ ready' = (ready \ {c}) \cup {d \in {b} : degree[d] = 1}
    BY <1>8 DEF PassOn
  <2> HIDE DEF b, Q
  <2>4. Cardinality(Heard(b, Q)) = accum[b] + accum[c]
    <3>1. /\ Heard(b, Q) = Heard(b, P) \cup Upper(c)
          /\ Heard(b, P) \cap Upper(c) = {}
          /\ IsFiniteSet(Heard(b, P)) /\ IsFiniteSet(Upper(c))
      BY <1>1, <2>1, HearsOnce DEF Q
    <3>2. Cardinality(Heard(b, Q))
          = Cardinality(Heard(b, P)) + Cardinality(Upper(c)) - Cardinality(Heard(b, P) \cap Upper(c))
      BY <3>1, FS_Union
    <3>3. Cardinality(Heard(b, P) \cap Upper(c)) = 0
      BY <3>1, FS_EmptySet
    <3>4. Heard(c, P) = Upper(c)
      BY <1>1, AllHeard
    <3>5. accum[b] = Cardinality(Heard(b, P)) /\ accum[c] = Cardinality(Upper(c))
      BY <2>1, <3>4 DEF Passed
    <3>6. Cardinality(Heard(b, P)) \in Nat /\ Cardinality(Upper(c)) \in Nat
      BY <3>1, FS_CardinalityType
    <3>7. QED
      BY <3>2, <3>3, <3>5, <3>6
  <2>5. /\ IsFiniteSet(Sources(b) \ P) /\ Sources(b) \ Q = (Sources(b) \ P) \ {c}
        /\ c \in Sources(b) \ P
    <3>1. Sources(b) \subseteq Cells
      BY DEF Sources
    <3>2. IsFiniteSet(Sources(b) \ P)
      BY <3>1, CellsFinite, FS_Subset
    <3>3. QED
      BY <1>1, <2>1, <3>2 DEF Q
  <2>6. Cardinality(Sources(b) \ Q) = degree[b] - 1
    <3>1. Cardinality((Sources(b) \ P) \ {c}) = Cardinality(Sources(b) \ P) - 1
      BY <2>5, FS_RemoveElement
    <3>2. degree[b] = Cardinality(Sources(b) \ P)
      BY <2>1 DEF Passed
    <3>3. QED
      BY <2>5, <3>1, <3>2
  <2>7. degree[b] = 1 <=> Sources(b) \subseteq Q
    <3>1. degree[b] = 1 <=> Cardinality(Sources(b) \ Q) = 0
      BY <1>1, <2>1, <2>6
    <3>2. IsFiniteSet(Sources(b) \ Q)
      BY <2>5, FS_RemoveElement
    <3>3. Cardinality(Sources(b) \ Q) = 0 <=> Sources(b) \ Q = {}
      BY <3>2, FS_EmptySet
    <3>4. QED
      BY <3>1, <3>3
  <2>8. \A d \in Cells : accum'[d] = Cardinality(Heard(d, Q))
    <3>1. ASSUME NEW d \in Cells, d # b PROVE accum'[d] = Cardinality(Heard(d, Q))
      <4>1. Heard(d, Q) = Heard(d, P)
        BY <1>6, <2>1, <3>1
      <4>2. accum'[d] = accum[d]
        BY <1>1, <2>3, <3>1
      <4>3. QED
        BY <4>1, <4>2 DEF Passed
    <3>2. accum'[b] = Cardinality(Heard(b, Q))
      BY <1>1, <2>1, <2>3, <2>4
    <3>3. QED
      BY <3>1, <3>2
  <2>9. \A d \in Cells : degree'[d] = Cardinality(Sources(d) \ Q)
    <3>1. ASSUME NEW d \in Cells, d # b PROVE degree'[d] = Cardinality(Sources(d) \ Q)
      <4>1. Sources(d) \ Q = Sources(d) \ P
        BY <1>6, <2>1, <3>1
      <4>2. degree'[d] = degree[d]
        BY <1>1, <2>3, <3>1
      <4>3. QED
        BY <4>1, <4>2 DEF Passed
    <3>2. degree'[b] = Cardinality(Sources(b) \ Q)
      BY <1>1, <2>1, <2>3, <2>6
    <3>3. QED
      BY <3>1, <3>2
  <2>10. ready' = {d \in Cells \ Q : Sources(d) \subseteq Q}
    <3>1. b \notin Q /\ b \notin ready
      BY <1>1, <2>1, <2>2 DEF Passed, Q
    <3>2. \A d \in Cells \ {b} : d \in ready' <=> d \notin Q /\ Sources(d) \subseteq Q
      BY <1>6, <2>1, <2>3 DEF Passed, Q
    <3>3. b \in ready' <=> Sources(b) \subseteq Q
      BY <2>3, <2>7, <3>1
    <3>4. ready' \subseteq Cells
      BY <2>1, <2>3 DEF Passed
    <3>5. QED
      BY <2>1, <3>1, <3>2, <3>3, <3>4
  <2>11. QED
    BY <1>5, <2>8, <2>9, <2>10 DEF Q
<1>9. QED
  BY <1>7, <1>8

\* With an empty queue every cell has passed its water on: of those that have
\* not, the highest has no source among them, so it would be in the queue.
LEMMA EmptyQueue ==
    ASSUME RoutesInv, NEW P \in SUBSET Cells, Passed(P), ready = {}
    PROVE  P = Cells
<1> SUFFICES ASSUME Cells \ P # {} PROVE FALSE
  OBVIOUS
<1> DEFINE depth == [c \in Cells |-> -dem[c]]
<1>1. dem \in [Cells -> Int]
  BY DEF RoutesInv, TypeOK
<1>2. depth \in [Cells -> Int]
  BY <1>1
<1>3. PICK x \in Cells \ P : \A y \in Cells \ P : depth[x] <= depth[y]
  <2> HIDE DEF depth
  <2>1. QED
    BY <1>2, LeastCell
<1>4. ASSUME NEW s \in Sources(x) PROVE s \in P
  <2>1. s \in Cells /\ dem[x] < dem[s] /\ dem[x] \in Int /\ dem[s] \in Int
    BY <1>1, SourceIsHigher
  <2>2. ~(depth[x] <= depth[s])
    BY <2>1
  <2>3. QED
    BY <1>3, <2>1, <2>2
<1>5. x \in ready
  BY <1>4 DEF Passed
<1>6. QED
  BY <1>5

LEMMA AccumInvariant == Spec => []AccumInv
<1>1. Init => AccumInv
  BY DEF Init, FlowInit, AccumInv
<1>2. RoutesInv /\ AccumInv /\ [Next]_vars => AccumInv'
  <2> SUFFICES ASSUME RoutesInv, AccumInv, [Next]_vars PROVE AccumInv'
    OBVIOUS
  <2>1. ASSUME UNCHANGED fdir
        PROVE  /\ \A d : Sources(d)' = Sources(d) /\ Upper(d)' = Upper(d)
               /\ \A d, X : Heard(d, X)' = Heard(d, X)
    <3>1. \A d : Drains(d)' = Drains(d) /\ Below(d)' = Below(d)
      BY <2>1 DEF Drains, Below
    <3>2. \A d : Sources(d)' = Sources(d)
      BY <3>1 DEF Sources
    <3>3. \A d : Upper(d)' = Upper(d)
      BY <3>1 DEF Upper, Closed
    <3>4. \A d, X : Heard(d, X)' = Heard(d, X)
      BY <3>2, <3>3 DEF Heard
    <3>5. QED
      BY <3>2, <3>3, <3>4
  <2>2. ASSUME UNCHANGED <<flow, fdir, accum, degree, ready>> PROVE AccumInv'
    <3>1. \A P \in SUBSET Cells : Passed(P) => Passed(P)'
      BY <2>1, <2>2 DEF Passed
    <3>2. QED
      BY <2>1, <2>2, <3>1 DEF AccumInv
  <2>3. ASSUME UNCHANGED <<fdir, accum>>,
               \/ /\ flow \in {"none", "directing", "counting"}
                  /\ flow' \in {"none", "directing", "counting"}
               \/ /\ flow \in {"analysed", "asked", "tracing", "traced"}
                  /\ flow' \in {"analysed", "asked", "tracing", "traced"}
        PROVE  AccumInv'
    BY <2>1, <2>3 DEF AccumInv
  <2>4. CASE Parse \/ BuildFails \/ Analyse \/ Exclude \/ RankSites \/ NoCandidate \/ UNCHANGED vars
    BY <2>2, <2>4 DEF Parse, BuildFails, Analyse, Exclude, RankSites, NoCandidate, vars,
                      flowVars, routeVars
  <2>5. CASE Build \/ FetchTiles
    <3>1. CASE \E surface : Survey(surface)
      BY <2>3, <3>1 DEF Survey, routeVars
    <3>2. CASE UNCHANGED flowVars
      BY <2>2, <3>2 DEF flowVars, routeVars
    <3>3. QED
      BY <2>5, <3>1, <3>2 DEF Build, FetchTiles
  <2>6. CASE Delineate
    BY <2>3, <2>6 DEF Delineate, Ask, routeVars
  <2>7. CASE Flow
    <3>1. CASE Compare
      BY <3>1 DEF Compare, AccumInv
    <3>2. CASE CountInflows
      <4>1. \A c \in Cells : Heard(c, {}) = {c} /\ Sources(c) \ {} = Sources(c)
        BY DEF Heard
      <4>2. \A c \in Cells : Cardinality({c}) = 1
        BY FS_Singleton
      <4>3. /\ flow' = "draining" /\ UNCHANGED <<fdir, accum>>
            /\ degree' = [c \in Cells |-> Cardinality(Sources(c))]
            /\ ready' = {c \in Cells : Sources(c) = {}}
            /\ \A c \in Cells : accum[c] = 1
        BY <3>2 DEF CountInflows, AccumInv
      <4>4. /\ \A c \in Cells : accum'[c] = Cardinality(Heard(c, {}))
            /\ \A c \in Cells : degree'[c] = Cardinality(Sources(c) \ {})
            /\ ready' = {c \in Cells \ {} : Sources(c) \subseteq {}}
        BY <4>1, <4>2, <4>3
      <4>5. Passed({})'
        BY <2>1, <4>3, <4>4 DEF Passed
      <4>6. QED
        BY <4>3, <4>5 DEF AccumInv
    <3>3. CASE Drained
      <4>1. /\ flow = "draining" /\ ready = {} /\ flow' = "analysed" /\ UNCHANGED <<fdir, accum>>
        BY <3>3 DEF Drained, routeVars
      <4>2. PICK P \in SUBSET Cells : Passed(P)
        BY <4>1 DEF AccumInv
      <4>3. P = Cells
        BY <4>1, <4>2, EmptyQueue
      <4>4. ASSUME NEW c \in Cells PROVE accum[c] = Cardinality(Upper(c))
        <5>1. Heard(c, P) = Upper(c)
          BY <4>3, AllHeard DEF Sources
        <5>2. QED
          BY <4>2, <5>1 DEF Passed
      <4>5. QED
        BY <2>1, <4>1, <4>4 DEF AccumInv
    <3>4. CASE PyshedsAnswers \/ Snap \/ Traced
      BY <2>3, <3>4 DEF PyshedsAnswers, Snap, Traced, routeVars
    <3>5. ASSUME NEW c \in Cells, PassOn(c) PROVE AccumInv'
      <4>1. flow = "draining" /\ flow' = "draining"
        BY <3>5 DEF PassOn
      <4>2. PICK P \in SUBSET Cells : Passed(P)
        BY <4>1 DEF AccumInv
      <4>3. Passed(P \cup {c})' /\ P \cup {c} \in SUBSET Cells
        BY <3>5, <4>2, PassOnStep
      <4>4. QED
        BY <4>1, <4>3 DEF AccumInv
    <3>6. ASSUME NEW c \in Cells, Trace(c) PROVE AccumInv'
      BY <2>3, <3>6 DEF Trace, routeVars
    <3>7. QED
      BY <2>7, <3>1, <3>2, <3>3, <3>4, <3>5, <3>6 DEF Flow, FlowNext
  <2>8. QED
    BY <2>4, <2>5, <2>6, <2>7 DEF Next
<1>3. QED
  BY <1>1, <1>2, RoutesInvariant, PTL DEF Spec

(***************************************************************************)
(* AreaIsAccumulation: the catchment that is traced upstream has as many   *)
(* cells as the accumulation counted downstream, on every terrain: both    *)
(* are the ground above the pour point.                                    *)
(***************************************************************************)
THEOREM AreaCorrect == Spec => []AreaIsAccumulation
<1>1. RoutesInv /\ TraceInv /\ AccumInv => AreaIsAccumulation
  <2> SUFFICES ASSUME RoutesInv, TraceInv, AccumInv, Native
               PROVE  Cardinality(basin) = accum[snapped]
    BY DEF AreaIsAccumulation
  <2>1. /\ snapped \in basin /\ basin \subseteq Cells
        /\ \A c \in basin \ {snapped} : Drains(c) /\ Below(c) \in basin
        /\ Closed(basin)
    BY DEF RoutesInv, TypeOK, TraceInv, Native, Closed
  <2>2. Upper(snapped) \subseteq basin
    BY <2>1, UpperIsLeast
  <2>3. ASSUME basin \ Upper(snapped) # {} PROVE FALSE
    <3>1. dem \in [Cells -> Int]
      BY DEF RoutesInv, TypeOK
    <3>2. PICK x \in basin \ Upper(snapped) : \A y \in basin \ Upper(snapped) : dem[x] <= dem[y]
      BY <2>1, <2>3, <3>1, LeastCell
    <3>3. x # snapped /\ x \in Cells
      BY <2>1, <3>2, UpperIsLeast
    <3>4. Drains(x) /\ Below(x) \in basin /\ Below(x) \in Cells /\ dem[Below(x)] < dem[x]
      BY <2>1, <3>2, <3>3 DEF RoutesInv, WaterFallsDown
    <3>5. Below(x) \notin Upper(snapped)
      BY <2>1, <3>2, <3>3, <3>4, UpperIsLeast DEF Closed
    <3>6. dem[x] <= dem[Below(x)] /\ dem[x] \in Int /\ dem[Below(x)] \in Int
      BY <3>1, <3>2, <3>3, <3>4, <3>5
    <3>7. QED
      BY <3>4, <3>6
  <2>4. basin = Upper(snapped)
    BY <2>2, <2>3
  <2>5. QED
    BY <2>1, <2>4 DEF AccumInv, Native
<1>2. QED
  BY <1>1, RoutesInvariant, TraceInvariant, AccumInvariant, PTL
----------------------------------------------------------------------------
(* The sites.  Part(S, c) is a recursive function: it is shown to be the    *)
(* least set that holds c and whatever of S touches it.                    *)

\* Of any sets of cells, one holds no other.
LEMMA MinimalSet ==
    ASSUME NEW A \in SUBSET (SUBSET Cells), A # {}
    PROVE  \E S \in A : \A T \in A : T \subseteq S => T = S
<1> DEFINE R == StrictSubsetOrdering(Cells)
<1>1. IsWellFoundedOn(R, FiniteSubsetsOf(Cells))
  BY FS_StrictSubsetOrderingWellFounded
<1>2. FiniteSubsetsOf(Cells) = SUBSET Cells
  BY CellsFinite, FS_FiniteSubsetsOfFinite
<1>3. PICK m \in A : \A n \in A : <<n, m>> \notin R
  <2> HIDE DEF R
  <2>1. QED
    BY <1>1, <1>2, WFMin
<1>4. ASSUME NEW T \in A, T \subseteq m PROVE T = m
  <2>1. <<T, m>> \notin R /\ T \in SUBSET Cells /\ m \in SUBSET Cells
    BY <1>3
  <2>2. QED
    BY <1>4, <2>1 DEF StrictSubsetOrdering
<1>5. QED
  BY <1>4

LEMMA LeastNumber ==
    ASSUME NEW S, S \subseteq Nat, S # {}
    PROVE  \E m \in S : \A n \in S : m <= n
<1> DEFINE R == OpToRel(<, Nat)
<1>1. IsWellFoundedOn(R, Nat)
  BY NatLessThanWellFounded
<1>2. PICK m \in S : \A n \in S : <<n, m>> \notin R
  <2> HIDE DEF R
  <2>1. QED
    BY <1>1, WFMin
<1>3. ASSUME NEW n \in S PROVE m <= n
  <2>1. ~ (n < m)
    BY <1>2 DEF OpToRel
  <2>2. n \in Nat /\ m \in Nat
    OBVIOUS
  <2>3. QED
    BY <2>1, <2>2
<1>4. QED
  BY <1>3

\* T holds whatever of S touches it.
Joined(S, T) == \A d \in S : \A e \in T : Apart2(d, e) <= 2 => d \in T

\* The least such set that holds R.
Reach(S, R) == {d \in S : \A T \in SUBSET S : R \subseteq T /\ Joined(S, T) => d \in T}

Wider(S, R) == {d \in S : \E e \in R : Apart2(d, e) <= 2}

LEMMA Distances ==
    ASSUME NEW c \in Cells, NEW d \in Cells
    PROVE  /\ Apart2(c, d) \in Nat /\ Apart2(c, d) = Apart2(d, c)
           /\ Apart2(c, d) = 0 <=> c = d
<1>1. PICK x \in Int, y \in Int, u \in Int, v \in Int : c = <<x, y>> /\ d = <<u, v>>
  BY GridAssumption DEF Cells
<1>2. /\ Apart2(c, d) = (x - u) * (x - u) + (y - v) * (y - v)
      /\ Apart2(d, c) = (u - x) * (u - x) + (v - y) * (v - y)
  BY <1>1 DEF Apart2
<1>3. \A n \in Int : n * n \in Nat /\ (n * n = 0 <=> n = 0)
  OBVIOUS
<1>4. (x - u) * (x - u) = (u - x) * (u - x) /\ (y - v) * (y - v) = (v - y) * (v - y)
  OBVIOUS
<1>5. /\ (x - u) * (x - u) \in Nat /\ ((x - u) * (x - u) = 0 <=> x = u)
      /\ (y - v) * (y - v) \in Nat /\ ((y - v) * (y - v) = 0 <=> y = v)
  <2>1. x - u \in Int /\ y - v \in Int /\ (x - u = 0 <=> x = u) /\ (y - v = 0 <=> y = v)
    OBVIOUS
  <2>2. QED
    BY <1>3, <2>1
<1>6. QED
  BY <1>1, <1>2, <1>4, <1>5

LEMMA ReachGrows ==
    ASSUME NEW S \in SUBSET Cells, NEW R \in SUBSET S
    PROVE  /\ R \subseteq Wider(S, R) /\ Wider(S, R) \in SUBSET S
           /\ Wider(S, R) = R => Reach(S, R) = R
           /\ Reach(S, Wider(S, R)) = Reach(S, R)
<1>1. R \subseteq Wider(S, R) /\ Wider(S, R) \in SUBSET S
  BY Distances DEF Wider
<1>2. ASSUME Wider(S, R) = R PROVE Reach(S, R) = R
  BY <1>2 DEF Wider, Reach, Joined
<1>3. ASSUME NEW T \in SUBSET S, Joined(S, T) PROVE R \subseteq T <=> Wider(S, R) \subseteq T
  BY <1>1, <1>3 DEF Wider, Joined
<1>4. Reach(S, Wider(S, R)) = Reach(S, R)
  BY <1>3 DEF Reach
<1>5. QED
  BY <1>1, <1>2, <1>4

Grows(g, S) ==
    g = [R \in SUBSET S |->
            LET W == {d \in S : \E e \in R : Apart2(d, e) <= 2}
            IN  IF W = R THEN R ELSE g[W]]

LEMMA PartIsReach ==
    ASSUME NEW S \in SUBSET Cells, NEW c \in S
    PROVE  Part(S, c) = Reach(S, {c})
<1> DEFINE h == [R \in SUBSET S |-> Reach(S, R)]
           grown == CHOOSE g : Grows(g, S)
<1>1. Grows(h, S)
  <2>1. ASSUME NEW R \in SUBSET S
        PROVE  h[R] = IF Wider(S, R) = R THEN R ELSE h[Wider(S, R)]
    BY <2>1, ReachGrows
  <2>2. h = [R \in SUBSET S |-> h[R]]
    OBVIOUS
  <2> HIDE DEF h
  <2>3. QED
    BY <2>1, <2>2 DEF Grows, Wider
<1>2. Grows(grown, S)
  <2> HIDE DEF h
  <2>1. QED
    BY <1>1
<1>3. Part(S, c) = grown[{c}]
  BY DEF Part, Grows
<1> HIDE DEF grown
<1>4. \A R \in SUBSET S : grown[R] = IF Wider(S, R) = R THEN R ELSE grown[Wider(S, R)]
  BY <1>2 DEF Grows, Wider
<1> DEFINE Bad == {R \in SUBSET S : grown[R] # Reach(S, R)}
           Outside == {S \ R : R \in Bad}
<1>5. ASSUME Bad # {} PROVE FALSE
  <2>1. Outside # {} /\ Outside \in SUBSET (SUBSET Cells)
    BY <1>5
  <2>2. PICK V \in Outside : \A W \in Outside : W \subseteq V => W = V
    <3> HIDE DEF Outside
    <3>1. QED
      BY <2>1, MinimalSet
  <2>3. PICK R \in Bad : V = S \ R
    BY <2>2
  <2>4. R \in SUBSET S
    BY <2>3
  <2>5. R \subseteq Wider(S, R) /\ Wider(S, R) \in SUBSET S
    BY <2>4, ReachGrows
  <2>6. CASE Wider(S, R) = R
    BY <1>4, <2>3, <2>4, <2>6, ReachGrows
  <2>7. CASE Wider(S, R) # R
    <3>1. S \ Wider(S, R) \subseteq V /\ S \ Wider(S, R) # V
      BY <2>3, <2>4, <2>5, <2>7
    <3>2. Wider(S, R) \notin Bad
      BY <2>2, <3>1
    <3>3. grown[Wider(S, R)] = Reach(S, Wider(S, R))
      BY <2>5, <3>2
    <3>4. QED
      BY <1>4, <2>3, <2>4, <2>7, <3>3, ReachGrows
  <2>8. QED
    BY <2>6, <2>7
<1>6. QED
  BY <1>3, <1>5

\* Part(S, c) is what c is connected with in S.
LEMMA PartIsLeast ==
    ASSUME NEW S \in SUBSET Cells, NEW c \in S
    PROVE  /\ c \in Part(S, c) /\ Part(S, c) \subseteq S /\ Joined(S, Part(S, c))
           /\ \A T \in SUBSET S : c \in T /\ Joined(S, T) => Part(S, c) \subseteq T
<1>1. Part(S, c) = Reach(S, {c})
  BY PartIsReach
<1>2. c \in Reach(S, {c}) /\ Reach(S, {c}) \subseteq S
  BY DEF Reach
<1>3. \A T \in SUBSET S : c \in T /\ Joined(S, T) => Reach(S, {c}) \subseteq T
  BY DEF Reach
<1>4. Joined(S, Reach(S, {c}))
  <2> SUFFICES ASSUME NEW d \in S, NEW e \in Reach(S, {c}), Apart2(d, e) <= 2,
                      NEW T \in SUBSET S, {c} \subseteq T, Joined(S, T)
               PROVE  d \in T
    BY DEF Joined, Reach
  <2>1. e \in T
    BY DEF Reach
  <2>2. QED
    BY <2>1 DEF Joined
<1>5. QED
  BY <1>1, <1>2, <1>3, <1>4

\* Whoever is connected with c has the same part as c.
LEMMA SamePart ==
    ASSUME NEW S \in SUBSET Cells, NEW c \in S, NEW d \in Part(S, c)
    PROVE  Part(S, d) = Part(S, c)
<1> DEFINE P == Part(S, c)
           Q == Part(S, d)
<1>1. /\ P \subseteq S /\ c \in P /\ Joined(S, P)
      /\ \A T \in SUBSET S : c \in T /\ Joined(S, T) => P \subseteq T
  BY PartIsLeast
<1>2. d \in S
  BY <1>1
<1>3. /\ Q \subseteq S /\ d \in Q /\ Joined(S, Q)
      /\ \A T \in SUBSET S : d \in T /\ Joined(S, T) => Q \subseteq T
  BY <1>2, PartIsLeast
<1> HIDE DEF P, Q
<1>4. Q \subseteq P
  BY <1>1, <1>3 DEF P
<1>5. c \in Q
  <2> SUFFICES ASSUME c \notin Q PROVE FALSE
    OBVIOUS
  <2>1. Joined(S, P \ Q)
    <3> SUFFICES ASSUME NEW x \in S, NEW y \in P \ Q, Apart2(x, y) <= 2 PROVE x \in P \ Q
      BY DEF Joined
    <3>1. x \in P
      BY <1>1 DEF Joined
    <3>2. Apart2(y, x) <= 2 /\ y \in S
      BY <1>1, Distances
    <3>3. x \notin Q
      BY <1>3, <3>2 DEF Joined
    <3>4. QED
      BY <3>1, <3>3
  <2>2. P \subseteq P \ Q
    BY <1>1, <2>1
  <2>3. QED
    BY <1>3, <2>2 DEF P
<1>6. P \subseteq Q
  BY <1>1, <1>3, <1>5
<1>7. QED
  BY <1>4, <1>6 DEF P, Q

\* A part is in one piece.
LEMMA PartIsWhole ==
    ASSUME NEW S \in SUBSET Cells, NEW c \in S, NEW d \in Part(S, c)
    PROVE  Part(Part(S, c), d) = Part(S, c)
<1> DEFINE P == Part(S, c)
           Q == Part(P, d)
<1>1. P = Part(S, d)
  BY SamePart
<1>2. P \subseteq S /\ d \in S
  BY PartIsLeast
<1>3. /\ Joined(S, P)
      /\ \A T \in SUBSET S : d \in T /\ Joined(S, T) => P \subseteq T
  BY <1>1, <1>2, PartIsLeast
<1>4. Q \subseteq P /\ d \in Q /\ Joined(P, Q)
  BY <1>2, PartIsLeast
<1> HIDE DEF P, Q
<1>5. Joined(S, Q)
  <2> SUFFICES ASSUME NEW x \in S, NEW y \in Q, Apart2(x, y) <= 2 PROVE x \in Q
    BY DEF Joined
  <2>1. x \in P
    BY <1>3, <1>4 DEF Joined
  <2>2. QED
    BY <1>4, <2>1 DEF Joined
<1>6. P \subseteq Q
  BY <1>2, <1>3, <1>4, <1>5
<1>7. QED
  BY <1>4, <1>6 DEF P, Q

\* Two parts of S do not touch.
LEMMA PartsDoNotTouch ==
    ASSUME NEW S \in SUBSET Cells, NEW a \in S, NEW b \in S,
           NEW c \in Part(S, a), NEW d \in Part(S, b), Apart2(c, d) <= 2
    PROVE  Part(S, a) = Part(S, b)
<1>1. c \in S
  BY PartIsLeast
<1>2. c \in Part(S, b)
  BY <1>1, PartIsLeast DEF Joined
<1>3. Part(S, c) = Part(S, a)
  BY SamePart
<1>4. Part(S, c) = Part(S, b)
  BY <1>2, SamePart
<1>5. QED
  BY <1>3, <1>4


----------------------------------------------------------------------------
(* Carving: the best cell, and those nearest to it.                        *)

\* Of cells with the least value, the first in the order of the rows.
LEMMA FirstLeast ==
    ASSUME NEW T \in SUBSET Cells, T # {}, NEW f \in [Cells -> Int]
    PROVE  \E x \in T : \A y \in T \ {x} : f[x] < f[y] \/ (f[x] = f[y] /\ Before(x, y))
<1> DEFINE row == [c \in Cells |-> c[1]]
           col == [c \in Cells |-> c[2]]
<1>1. row \in [Cells -> Int] /\ col \in [Cells -> Int]
  BY GridAssumption DEF Cells
<1>2. \A c, d \in Cells : c[1] = d[1] /\ c[2] = d[2] => c = d
  BY DEF Cells
<1>3. PICK u \in T : \A y \in T : f[u] <= f[y]
  BY LeastCell
<1> DEFINE A == {y \in T : f[y] = f[u]}
<1>4. A \in SUBSET Cells /\ A # {}
  BY <1>3
<1>5. PICK v \in A : \A y \in A : row[v] <= row[y]
  <2> HIDE DEF A, row
  <2>1. QED
    BY <1>1, <1>4, LeastCell
<1> DEFINE B == {y \in A : row[y] = row[v]}
<1>6. B \in SUBSET Cells /\ B # {}
  BY <1>4, <1>5
<1>7. PICK x \in B : \A y \in B : col[x] <= col[y]
  <2> HIDE DEF B, col
  <2>1. QED
    BY <1>1, <1>6, LeastCell
<1>8. x \in T /\ f[x] = f[u] /\ row[x] = row[v]
  BY <1>7
<1>9. ASSUME NEW y \in T, y # x PROVE f[x] < f[y] \/ (f[x] = f[y] /\ Before(x, y))
  <2>1. f[x] \in Int /\ f[y] \in Int /\ f[x] <= f[y]
    BY <1>3, <1>8
  <2>2. x \in Cells /\ y \in Cells /\ row[x] = x[1] /\ row[y] = y[1] /\ col[x] = x[2] /\ col[y] = y[2]
    BY <1>8
  <2>3. row[x] \in Int /\ row[y] \in Int /\ col[x] \in Int /\ col[y] \in Int
    BY <1>1, <2>2
  <2>4. f[y] = f[x] => row[x] <= row[y]
    BY <1>5, <1>8
  <2>5. f[y] = f[x] /\ row[y] = row[x] => col[x] <= col[y]
    BY <1>7, <1>8
  <2>6. x[1] # y[1] \/ x[2] # y[2]
    BY <1>2, <1>9, <2>2
  <2> HIDE DEF row, col
  <2>7. QED
    BY <2>1, <2>2, <2>3, <2>4, <2>5, <2>6 DEF Before
<1>10. QED
  BY <1>8, <1>9

\* The best cell of a region is one of its cells.
LEMMA BestCellIsThere ==
    ASSUME NEW S \in SUBSET Cells, S # {}, NEW g \in [Cells -> Int], NEW s \in [Cells -> Int]
    PROVE  BestCell(g, s, S) \in S
<1> DEFINE low == [c \in Cells |-> -s[c]]
<1>1. low \in [Cells -> Int]
  OBVIOUS
<1>2. PICK u \in S : \A y \in S : low[u] <= low[y]
  <2> HIDE DEF low
  <2>1. QED
    BY <1>1, LeastCell
<1> DEFINE A == {y \in S : low[y] = low[u]}
<1>3. A \in SUBSET Cells /\ A # {}
  BY <1>2
<1>4. PICK x \in A : \A y \in A \ {x} : g[x] < g[y] \/ (g[x] = g[y] /\ Before(x, y))
  <2> HIDE DEF A
  <2>1. QED
    BY <1>3, FirstLeast
<1>5. x \in S
  BY <1>4
<1>6. ASSUME NEW y \in S \ {x} PROVE Preferable(g, s, x, y)
  <2>1. /\ low[x] = -s[x] /\ low[y] = -s[y] /\ s[x] \in Int /\ s[y] \in Int
        /\ low[x] <= low[y] /\ low[x] = low[u]
    BY <1>2, <1>4, <1>5
  <2>2. CASE low[x] = low[y]
    <3>1. y \in A \ {x} /\ s[x] = s[y]
      BY <2>1, <2>2
    <3>2. QED
      BY <1>4, <3>1 DEF Preferable
  <2>3. CASE low[x] # low[y]
    <3>1. s[x] > s[y]
      BY <2>1, <2>3
    <3>2. QED
      BY <3>1 DEF Preferable
  <2>4. QED
    BY <2>2, <2>3
<1> HIDE DEF low, A
<1>7. \E c \in S : \A d \in S \ {c} : Preferable(g, s, c, d)
  BY <1>5, <1>6
<1>8. QED
  BY <1>7 DEF BestCell

\* d comes before e if one starts at c.
Nearer(c, d, e) ==
    \/ Apart2(c, d) < Apart2(c, e)
    \/ Apart2(c, d) = Apart2(c, e) /\ Before(d, e)

\* At most n cells are among the n nearest, and the cell itself is.
LEMMA NearestAreFew ==
    ASSUME NEW S \in SUBSET Cells, NEW c \in S, NEW n \in Nat \ {0}
    PROVE  /\ Nearest(S, c, n) \subseteq S /\ c \in Nearest(S, c, n)
           /\ Cardinality(Nearest(S, c, n)) <= n
<1> DEFINE N == Nearest(S, c, n)
           ahead(e) == {d \in S : Nearer(c, d, e)}
           rank == [e \in N |-> Cardinality(ahead(e))]
<1>1. N = {e \in S : Cardinality(ahead(e)) < n}
  BY DEF Nearest, Nearer
<1>2. /\ \A d \in Cells : Apart2(c, d) \in Nat /\ (Apart2(c, d) = 0 <=> c = d)
      /\ \A d \in Cells : d[1] \in Int /\ d[2] \in Int
      /\ \A d, e \in Cells : d[1] = e[1] /\ d[2] = e[2] => d = e
  <2>1. \A d \in Cells : d[1] \in Int /\ d[2] \in Int
    BY GridAssumption DEF Cells
  <2>2. \A d, e \in Cells : d[1] = e[1] /\ d[2] = e[2] => d = e
    BY DEF Cells
  <2>3. QED
    BY <2>1, <2>2, Distances
<1>3. \A e \in Cells : ~Nearer(c, e, e)
  BY <1>2 DEF Nearer, Before
<1>4. \A d, e \in Cells : d # e => Nearer(c, d, e) \/ Nearer(c, e, d)
  BY <1>2 DEF Nearer, Before
<1>5. ASSUME NEW x \in Cells, NEW d \in Cells, NEW e \in Cells,
             Nearer(c, x, d), Nearer(c, d, e)
      PROVE  Nearer(c, x, e)
  <2>1. /\ Apart2(c, x) \in Nat /\ Apart2(c, d) \in Nat /\ Apart2(c, e) \in Nat
        /\ x[1] \in Int /\ x[2] \in Int /\ d[1] \in Int /\ d[2] \in Int
        /\ e[1] \in Int /\ e[2] \in Int
    BY <1>2
  <2>2. QED
    BY <1>5, <2>1 DEF Nearer, Before
<1>6. \A e \in S : ahead(e) \subseteq S /\ IsFiniteSet(ahead(e)) /\ Cardinality(ahead(e)) \in Nat
  BY CellsFinite, FS_Subset, FS_CardinalityType
<1>7. ASSUME NEW d \in S, NEW e \in S, Nearer(c, d, e)
      PROVE  Cardinality(ahead(d)) < Cardinality(ahead(e))
  <2>1. ahead(d) \subseteq ahead(e)
    BY <1>5, <1>7
  <2>2. d \in ahead(e) /\ d \notin ahead(d)
    BY <1>3, <1>7
  <2>3. ahead(d) # ahead(e)
    BY <2>2
  <2>4. /\ IsFiniteSet(ahead(e))
        /\ Cardinality(ahead(d)) \in Nat /\ Cardinality(ahead(e)) \in Nat
    BY <1>6
  <2> HIDE DEF ahead
  <2>5. /\ Cardinality(ahead(d)) <= Cardinality(ahead(e))
        /\ Cardinality(ahead(d)) # Cardinality(ahead(e))
    BY <2>1, <2>3, <2>4, FS_Subset
  <2>6. QED
    BY <2>4, <2>5
<1>8. c \in N
  <2>1. ASSUME NEW d \in S, Nearer(c, d, c) PROVE FALSE
    <3>1. Apart2(c, d) \in Nat /\ Apart2(c, c) = 0 /\ (Apart2(c, d) = 0 => d = c)
      BY <1>2
    <3>2. d = c
      BY <2>1, <3>1 DEF Nearer
    <3>3. QED
      BY <1>3, <2>1, <3>2
  <2>2. Cardinality(ahead(c)) = 0
    <3>1. ahead(c) = {}
      BY <2>1
    <3>2. QED
      BY <3>1, FS_EmptySet
  <2>3. QED
    BY <1>1, <2>2
<1>9. N \subseteq S
  BY <1>1
<1>10. IsFiniteSet(N)
  BY <1>9, CellsFinite, FS_Subset
<1>11. rank \in Injection(N, 0 .. n - 1)
  <2> HIDE DEF ahead, N
  <2>1. ASSUME NEW e \in N PROVE rank[e] \in 0 .. n - 1
    <3>1. e \in S /\ Cardinality(ahead(e)) < n /\ Cardinality(ahead(e)) \in Nat
      BY <1>1, <1>6
    <3>2. QED
      BY <3>1
  <2>2. ASSUME NEW d \in N, NEW e \in N, d # e PROVE rank[d] # rank[e]
    <3>1. d \in S /\ e \in S /\ d \in Cells /\ e \in Cells
      BY <1>9
    <3>2. Cardinality(ahead(d)) \in Nat /\ Cardinality(ahead(e)) \in Nat
      BY <1>6, <3>1
    <3>3. Cardinality(ahead(d)) < Cardinality(ahead(e)) \/ Cardinality(ahead(e)) < Cardinality(ahead(d))
      BY <1>4, <1>7, <2>2, <3>1
    <3>4. QED
      BY <3>2, <3>3
  <2>3. rank \in [N -> 0 .. n - 1]
    BY <2>1
  <2> HIDE DEF rank
  <2>4. QED
    BY <2>2, <2>3 DEF Injection, IsInjective
<1>12. IsFiniteSet(0 .. n - 1) /\ Cardinality(0 .. n - 1) = n
  <2>1. 0 \in Int /\ n - 1 \in Int /\ ~(0 > n - 1) /\ (n - 1) - 0 + 1 = n
    OBVIOUS
  <2>2. QED
    BY <2>1, FS_Interval
<1> HIDE DEF N, rank
<1>13. Cardinality(N) <= n
  BY <1>10, <1>11, <1>12, FS_Injection
<1>14. QED
  BY <1>8, <1>9, <1>13 DEF N


\* A footprint is a piece of its region, in one piece and not too large.
LEMMA FootprintShape ==
    ASSUME NEW g \in [Cells -> Int], NEW s \in [Cells -> Int],
           NEW S \in SUBSET Cells, NEW region \in Parts(S)
    PROVE  /\ Footprint(g, s, region) \subseteq region /\ Footprint(g, s, region) # {}
           /\ Cardinality(Footprint(g, s, region)) <= MaxCells
           /\ \A d \in Footprint(g, s, region) :
                 Part(Footprint(g, s, region), d) = Footprint(g, s, region)
<1>1. PICK a \in S : region = Part(S, a)
  BY DEF Parts
<1>2. region \in SUBSET Cells /\ region # {}
  BY <1>1, PartIsLeast
<1>3. IsFiniteSet(region) /\ Cardinality(region) \in Nat /\ MaxCells \in Nat \ {0}
  BY <1>2, CellsFinite, FS_Subset, FS_CardinalityType, PondAssumption
<1>4. CASE Cardinality(region) > MaxCells
  <2> DEFINE best == BestCell(g, s, region)
             N == Nearest(region, best, MaxCells)
  <2>1. best \in region
    BY <1>2, BestCellIsThere
  <2>2. N \subseteq region /\ best \in N /\ Cardinality(N) <= MaxCells
    BY <1>2, <1>3, <2>1, NearestAreFew
  <2>3. Footprint(g, s, region) = Part(N, best)
    BY <1>4 DEF Footprint, Carved
  <2> HIDE DEF N, best
  <2>4. N \in SUBSET Cells
    BY <1>2, <2>2
  <2>5. best \in Part(N, best) /\ Part(N, best) \subseteq N
    BY <2>2, <2>4, PartIsLeast
  <2>6. \A d \in Part(N, best) : Part(Part(N, best), d) = Part(N, best)
    BY <2>2, <2>4, PartIsWhole
  <2>7. /\ Cardinality(Part(N, best)) <= Cardinality(N)
        /\ Cardinality(Part(N, best)) \in Nat /\ Cardinality(N) \in Nat
    <3>1. IsFiniteSet(N)
      BY <1>3, <2>2, FS_Subset
    <3>2. IsFiniteSet(Part(N, best)) /\ Cardinality(Part(N, best)) <= Cardinality(N)
      BY <2>5, <3>1, FS_Subset
    <3>3. QED
      BY <3>1, <3>2, FS_CardinalityType
  <2>8. Cardinality(Part(N, best)) <= MaxCells
    BY <1>3, <2>2, <2>7
  <2>9. QED
    BY <2>2, <2>3, <2>5, <2>6, <2>8
<1>5. CASE ~(Cardinality(region) > MaxCells)
  <2>1. Footprint(g, s, region) = region
    BY <1>5 DEF Footprint
  <2>2. Cardinality(region) <= MaxCells
    BY <1>3, <1>5
  <2>3. \A d \in region : Part(region, d) = region
    BY <1>1, PartIsWhole
  <2>4. QED
    BY <1>2, <2>1, <2>2, <2>3
<1>6. QED
  BY <1>4, <1>5

----------------------------------------------------------------------------
(* Pins.  The sums over a footprint are recursive folds: one exists, and   *)
(* what it gives is a number.                                              *)

\* f adds the numbers of w up, over every set of cells of S.
Summed(f, w, S) ==
    f = [T \in SUBSET S |-> IF T = {} THEN 0
                            ELSE w[CHOOSE c \in T : TRUE] + f[T \ {CHOOSE c \in T : TRUE}]]

AddsUp(f, w, T) ==
    f[T] = IF T = {} THEN 0 ELSE w[CHOOSE c \in T : TRUE] + f[T \ {CHOOSE c \in T : TRUE}]

OfSize(S, n) == {T \in SUBSET S : Cardinality(T) <= n}

LEMMA OneFewer ==
    ASSUME NEW T \in SUBSET Cells, T # {}
    PROVE  LET c == CHOOSE d \in T : TRUE
           IN  /\ c \in T /\ T \ {c} \in SUBSET Cells
               /\ Cardinality(T) \in Nat /\ Cardinality(T \ {c}) = Cardinality(T) - 1
<1> DEFINE c == CHOOSE d \in T : TRUE
<1>1. c \in T
  OBVIOUS
<1>2. IsFiniteSet(T)
  BY CellsFinite, FS_Subset
<1> HIDE DEF c
<1>3. Cardinality(T) \in Nat /\ Cardinality(T \ {c}) = Cardinality(T) - 1
  BY <1>1, <1>2, FS_CardinalityType, FS_RemoveElement
<1>4. QED
  BY <1>1, <1>3 DEF c

\* Such a function exists: from the sets of n cells to those of n + 1.
LEMMA SumExists ==
    ASSUME NEW S \in SUBSET Cells, NEW w
    PROVE  \E f : Summed(f, w, S)
<1> DEFINE Exists(n) == \E f : \A T \in OfSize(S, n) : AddsUp(f, w, T)
           Bad == {n \in Nat : ~Exists(n)}
<1>1. ASSUME Bad # {} PROVE FALSE
  <2>1. PICK m \in Bad : \A n \in Bad : m <= n
    <3>1. Bad \subseteq Nat
      OBVIOUS
    <3> HIDE DEF Bad
    <3>2. QED
      BY <1>1, <3>1, LeastNumber
  <2>2. \A T \in SUBSET S : IsFiniteSet(T) /\ Cardinality(T) \in Nat
    BY CellsFinite, FS_Subset, FS_CardinalityType
  <2>3. m # 0
    <3> DEFINE f == [T \in SUBSET S |-> 0]
    <3>1. ASSUME NEW T \in OfSize(S, 0) PROVE AddsUp(f, w, T)
      <4>1. IsFiniteSet(T) /\ Cardinality(T) = 0
        BY <2>2 DEF OfSize
      <4>2. T = {}
        BY <4>1, FS_EmptySet
      <4>3. QED
        BY <4>2 DEF AddsUp
    <3> HIDE DEF f
    <3>2. Exists(0)
      BY <3>1
    <3>3. QED
      BY <2>1, <3>2
  <2>4. m \in Nat /\ m - 1 \in Nat /\ ~(m <= m - 1)
    BY <2>1, <2>3
  <2>5. PICK f : \A T \in OfSize(S, m - 1) : AddsUp(f, w, T)
    BY <2>1, <2>4
  <2> DEFINE g == [T \in SUBSET S |-> IF T = {} THEN 0
                     ELSE w[CHOOSE c \in T : TRUE] + f[T \ {CHOOSE c \in T : TRUE}]]
  <2>6. ASSUME NEW T \in OfSize(S, m) PROVE AddsUp(g, w, T)
    <3>1. T \in SUBSET S /\ T \in SUBSET Cells /\ Cardinality(T) <= m
      BY DEF OfSize
    <3>2. CASE T = {}
      BY <3>1, <3>2 DEF AddsUp
    <3>3. CASE T # {}
      <4> DEFINE c == CHOOSE d \in T : TRUE
      <4>1. /\ c \in T /\ T \ {c} \in SUBSET S
            /\ Cardinality(T) \in Nat /\ Cardinality(T \ {c}) = Cardinality(T) - 1
        BY <3>1, <3>3, OneFewer
      <4>2. T \ {c} \in OfSize(S, m - 1)
        <5> HIDE DEF c
        <5>1. QED
          BY <2>4, <3>1, <4>1 DEF OfSize
      <4>3. AddsUp(f, w, T \ {c})
        BY <2>5, <4>2
      <4>4. g[T \ {c}] = f[T \ {c}]
        <5> HIDE DEF c
        <5>1. QED
          BY <4>1, <4>3 DEF AddsUp
      <4>5. g[T] = w[c] + f[T \ {c}]
        BY <3>1, <3>3
      <4>6. g[T] = w[c] + g[T \ {c}]
        <5> HIDE DEF c, g
        <5>1. QED
          BY <4>4, <4>5
      <4> HIDE DEF g
      <4>7. QED
        BY <3>3, <4>6 DEF AddsUp
    <3>4. QED
      BY <3>2, <3>3
  <2> HIDE DEF g
  <2>7. Exists(m)
    BY <2>6
  <2>8. QED
    BY <2>1, <2>7
<1>2. Cardinality(S) \in Nat /\ OfSize(S, Cardinality(S)) = SUBSET S
  <2>1. IsFiniteSet(S)
    BY CellsFinite, FS_Subset
  <2>2. \A T \in SUBSET S : Cardinality(T) <= Cardinality(S)
    BY <2>1, FS_Subset
  <2>3. QED
    BY <2>1, <2>2, FS_CardinalityType DEF OfSize
<1>3. PICK f : \A T \in SUBSET S : AddsUp(f, w, T)
  BY <1>1, <1>2
<1> DEFINE h == [T \in SUBSET S |-> f[T]]
<1>4. ASSUME NEW T \in SUBSET S PROVE AddsUp(h, w, T)
  BY <1>3 DEF AddsUp
<1>5. h = [T \in SUBSET S |-> h[T]]
  OBVIOUS
<1> HIDE DEF h
<1>6. Summed(h, w, S)
  BY <1>4, <1>5 DEF Summed, AddsUp
<1>7. QED
  BY <1>6

\* The sum of natural numbers is one, and of positive ones it is positive.
LEMMA SumIsNatural ==
    ASSUME NEW S \in SUBSET Cells, NEW w, \A c \in S : w[c] \in Nat,
           NEW f, Summed(f, w, S)
    PROVE  /\ f[S] \in Nat
           /\ S # {} /\ (\A c \in S : w[c] > 0) => f[S] > 0
<1>1. \A T \in SUBSET S : AddsUp(f, w, T)
  BY DEF Summed, AddsUp
<1> DEFINE Bad == {T \in SUBSET S : f[T] \notin Nat}
<1>2. ASSUME NEW T \in SUBSET S, T # {}
      PROVE  LET c == CHOOSE d \in T : TRUE
             IN  c \in S /\ T \ {c} \in SUBSET S /\ f[T] = w[c] + f[T \ {c}]
  BY <1>1, <1>2 DEF AddsUp
<1>3. ASSUME Bad # {} PROVE FALSE
  <2>1. PICK T \in Bad : \A U \in Bad : U \subseteq T => U = T
    <3>1. Bad \in SUBSET (SUBSET Cells)
      OBVIOUS
    <3> HIDE DEF Bad
    <3>2. QED
      BY <1>3, <3>1, MinimalSet
  <2>2. CASE T = {}
    BY <1>1, <2>1, <2>2 DEF AddsUp
  <2>3. CASE T # {}
    <3> DEFINE c == CHOOSE d \in T : TRUE
    <3>1. c \in T /\ c \in S /\ T \ {c} \in SUBSET S /\ f[T] = w[c] + f[T \ {c}]
      BY <1>2, <2>1, <2>3
    <3> HIDE DEF c
    <3>2. T \ {c} \notin Bad
      BY <2>1, <3>1
    <3>3. f[T \ {c}] \in Nat /\ w[c] \in Nat
      BY <3>1, <3>2
    <3>4. QED
      BY <2>1, <3>1, <3>3
  <2>4. QED
    BY <2>2, <2>3
<1>4. \A T \in SUBSET S : f[T] \in Nat
  BY <1>3
<1>5. ASSUME S # {}, \A c \in S : w[c] > 0 PROVE f[S] > 0
  <2> DEFINE c == CHOOSE d \in S : TRUE
  <2>1. c \in S /\ f[S] = w[c] + f[S \ {c}]
    BY <1>2, <1>5
  <2> HIDE DEF c
  <2>2. w[c] \in Nat /\ w[c] > 0 /\ f[S \ {c}] \in Nat
    BY <1>4, <1>5, <2>1
  <2>3. QED
    BY <2>1, <2>2
<1>6. QED
  BY <1>4, <1>5


\* The weight of a footprint, and its weighted rows or columns.
Total(s, S) == SumOver(S, LAMBDA c : Weight(s, c))
Centre(s, S, i) == SumOver(S, LAMBDA c : Weight(s, c) * c[i])

LEMMA TotalIsPositive ==
    ASSUME NEW s \in [Cells -> Nat], NEW S \in SUBSET Cells, S # {},
           \A c \in S : s[c] >= Threshold
    PROVE  Total(s, S) \in Nat \ {0}
<1> DEFINE w == [c \in Cells |-> Weight(s, c)]
           fold == CHOOSE f : Summed(f, w, S)
<1>1. Total(s, S) = fold[S]
  <2>1. \A f : Summed(f, w, S) <=>
               f = [T \in SUBSET S |-> IF T = {} THEN 0
                      ELSE Weight(s, CHOOSE c \in T : TRUE) + f[T \ {CHOOSE c \in T : TRUE}]]
    <3>1. \A T \in SUBSET S : T # {} => w[CHOOSE c \in T : TRUE] = Weight(s, CHOOSE c \in T : TRUE)
      OBVIOUS
    <3> HIDE DEF w
    <3>2. QED
      BY <3>1 DEF Summed
  <2>2. QED
    BY <2>1 DEF Total, SumOver, MapThenSumSet, MapThenFoldSet
<1>2. \A c \in S : w[c] \in Nat /\ w[c] > 0
  BY PondAssumption DEF Weight
<1> HIDE DEF w
<1>3. Summed(fold, w, S)
  BY SumExists
<1> HIDE DEF fold
<1>4. fold[S] \in Nat /\ fold[S] > 0
  BY <1>2, <1>3, SumIsNatural
<1>5. QED
  BY <1>1, <1>4

LEMMA CentreIsNatural ==
    ASSUME NEW s \in [Cells -> Nat], NEW S \in SUBSET Cells, NEW i \in {1, 2},
           \A c \in S : s[c] >= Threshold
    PROVE  Centre(s, S, i) \in Nat
<1> DEFINE w == [c \in Cells |-> Weight(s, c) * c[i]]
           fold == CHOOSE f : Summed(f, w, S)
<1>1. Centre(s, S, i) = fold[S]
  <2>1. \A f : Summed(f, w, S) <=>
               f = [T \in SUBSET S |-> IF T = {} THEN 0
                      ELSE Weight(s, CHOOSE c \in T : TRUE) * (CHOOSE c \in T : TRUE)[i]
                           + f[T \ {CHOOSE c \in T : TRUE}]]
    <3>1. \A T \in SUBSET S : T # {} => w[CHOOSE c \in T : TRUE]
                                 = Weight(s, CHOOSE c \in T : TRUE) * (CHOOSE c \in T : TRUE)[i]
      OBVIOUS
    <3> HIDE DEF w
    <3>2. QED
      BY <3>1 DEF Summed
  <2>2. QED
    BY <2>1 DEF Centre, SumOver, MapThenSumSet, MapThenFoldSet
<1>2. \A c \in S : w[c] \in Nat
  <2>1. ASSUME NEW c \in S PROVE w[c] \in Nat
    <3>1. Weight(s, c) \in Nat
      BY PondAssumption DEF Weight
    <3>2. c[i] \in Nat
      BY GridAssumption DEF Cells
    <3>3. \A m, n \in Nat : m * n \in Nat
      OBVIOUS
    <3>4. w[c] = Weight(s, c) * c[i]
      OBVIOUS
    <3> HIDE DEF w
    <3>5. QED
      BY <3>1, <3>2, <3>3, <3>4
  <2>2. QED
    BY <2>1
<1> HIDE DEF w
<1>3. Summed(fold, w, S)
  BY SumExists
<1> HIDE DEF fold
<1>4. fold[S] \in Nat
  BY <1>2, <1>3, SumIsNatural
<1>5. QED
  BY <1>1, <1>4

\* The cell the pin comes to lie in is the one that was tested, or a
\* neighbour of it.
LEMMA MappedIsRounded ==
    ASSUME NEW p \in Nat, NEW q \in Nat \ {0}
    PROVE  /\ Rounded(p, q) \in Int /\ Rounded(p, q) \in Mapped(p, q)
           /\ Mapped(p, q) \subseteq {Rounded(p, q) - 1, Rounded(p, q), Rounded(p, q) + 1}
<1> DEFINE low == p \div q
           r == p % q
           there == (2 * p + q) \div (2 * q)
           over == (2 * p + q) % (2 * q)
<1>1. low \in Int /\ r \in 0 .. q - 1 /\ p = q * low + r
  OBVIOUS
<1>2. there \in Int /\ over \in 0 .. 2 * q - 1 /\ 2 * p + q = (2 * q) * there + over
  OBVIOUS
<1>3. Rounded(p, q) = IF 2 * r < q \/ (2 * r = q /\ low % 2 = 0) THEN low ELSE low + 1
  BY DEF Rounded
<1>4. Mapped(p, q) = IF over = 0 THEN {there, there - 1} ELSE {there}
  BY DEF Mapped
<1> HIDE DEF low, r, there, over
<1>5. 2 * q * (there - low) = 2 * r + q - over
  BY <1>1, <1>2
<1>6. CASE 2 * r < q
  <2>1. there = low /\ over # 0
    BY <1>1, <1>2, <1>5, <1>6
  <2>2. QED
    BY <1>1, <1>3, <1>4, <1>6, <2>1
<1>7. CASE 2 * r = q
  <2>1. there = low + 1
    BY <1>1, <1>2, <1>5, <1>7
  <2>2. over = 0
    BY <1>1, <1>2, <1>5, <1>7, <2>1
  <2>3. QED
    BY <1>1, <1>3, <1>4, <1>7, <2>1, <2>2
<1>8. CASE 2 * r > q
  <2>1. there = low + 1
    BY <1>1, <1>2, <1>5, <1>8
  <2>2. over # 0
    BY <1>1, <1>2, <1>5, <1>8, <2>1
  <2>3. QED
    BY <1>1, <1>3, <1>4, <1>8, <2>1, <2>2
<1>9. QED
  BY <1>1, <1>6, <1>7, <1>8

\* Every site has a pin, on its footprint or on a cell that touches it.
LEMMA PinsAreNear ==
    ASSUME NEW s \in [Cells -> Nat], NEW S \in SUBSET Cells, S # {},
           \A c \in S : s[c] >= Threshold
    PROVE  /\ Pins(s, S) # {}
           /\ \A pin \in Pins(s, S) : \E c \in S : Apart2(pin, c) <= 2
<1> DEFINE q == Total(s, S)
           p(i) == Centre(s, S, i)
           off(c) == (c[1] * q - p(1)) * (c[1] * q - p(1)) + (c[2] * q - p(2)) * (c[2] * q - p(2))
           middle == <<Rounded(p(1), q), Rounded(p(2), q)>>
<1>1. Pins(s, S) = IF middle \in S
                   THEN {c \in Cells : c[1] \in Mapped(p(1), q) /\ c[2] \in Mapped(p(2), q)}
                   ELSE {c \in S : \A d \in S : off(c) < off(d)
                                                \/ (off(c) = off(d) /\ ~Before(d, c))}
  BY DEF Pins, Total, Centre
<1>2. q \in Nat \ {0} /\ p(1) \in Nat /\ p(2) \in Nat
  BY TotalIsPositive, CentreIsNatural
<1>3. \A c \in Cells : c[1] \in Int /\ c[2] \in Int
  BY GridAssumption DEF Cells
<1> HIDE DEF q, p
<1>4. CASE middle \in S
  <2> DEFINE R1 == Rounded(p(1), q)
             R2 == Rounded(p(2), q)
  <2>1. /\ R1 \in Int /\ R1 \in Mapped(p(1), q) /\ Mapped(p(1), q) \subseteq {R1 - 1, R1, R1 + 1}
        /\ R2 \in Int /\ R2 \in Mapped(p(2), q) /\ Mapped(p(2), q) \subseteq {R2 - 1, R2, R2 + 1}
    BY <1>2, MappedIsRounded
  <2>2. middle = <<R1, R2>> /\ middle \in Cells
    BY <1>4
  <2> HIDE DEF R1, R2, middle
  <2>3. middle \in Pins(s, S)
    BY <1>1, <1>4, <2>1, <2>2
  <2>4. ASSUME NEW pin \in Pins(s, S) PROVE Apart2(pin, middle) <= 2
    <3>1. /\ pin[1] \in {R1 - 1, R1, R1 + 1} /\ pin[2] \in {R2 - 1, R2, R2 + 1}
      BY <1>1, <1>4, <2>1
    <3>2. Apart2(pin, middle) = (pin[1] - R1) * (pin[1] - R1) + (pin[2] - R2) * (pin[2] - R2)
      BY <2>2 DEF Apart2
    <3>3. pin[1] - R1 \in {-1, 0, 1} /\ pin[2] - R2 \in {-1, 0, 1}
      BY <2>1, <3>1
    <3>4. \A a, b \in {-1, 0, 1} : a * a + b * b <= 2
      OBVIOUS
    <3>5. QED
      BY <3>2, <3>3, <3>4
  <2>5. QED
    BY <1>4, <2>3, <2>4
<1>5. CASE middle \notin S
  <2> HIDE DEF middle
  <2> DEFINE f == [c \in Cells |-> off(c)]
  <2>1. f \in [Cells -> Int]
    BY <1>2, <1>3
  <2>2. PICK x \in S : \A y \in S \ {x} : f[x] < f[y] \/ (f[x] = f[y] /\ Before(x, y))
    <3> HIDE DEF f
    <3>1. QED
      BY <2>1, FirstLeast
  <2>3. ASSUME NEW d \in S PROVE f[x] < f[d] \/ (f[x] = f[d] /\ ~Before(d, x))
    <3>1. f[x] \in Int /\ x[1] \in Int /\ x[2] \in Int /\ d[1] \in Int /\ d[2] \in Int
      BY <1>3, <2>1
    <3> HIDE DEF f
    <3>2. QED
      BY <2>2, <3>1 DEF Before
  <2>4. x \in Pins(s, S)
    <3>1. f[x] = off(x) /\ \A d \in S : f[d] = off(d)
      OBVIOUS
    <3> HIDE DEF f, off
    <3>2. QED
      BY <1>1, <1>5, <2>3, <3>1
  <2>5. Pins(s, S) \subseteq S
    BY <1>1, <1>5
  <2>6. \A c \in S : Apart2(c, c) <= 2
    BY Distances
  <2>7. QED
    BY <2>4, <2>5, <2>6
<1>6. QED
  BY <1>4, <1>5


----------------------------------------------------------------------------
\* The sites are the footprints of the terrain as it still is.
SitesInv ==
    /\ score \in [Cells -> Nat]
    /\ stage \in {"masked", "ranked"} => \A c \in Cells \cap zone : score[c] = 0
    /\ stage = "ranked" =>
          sites = {[cells |-> S, pins |-> Pins(score, S)] : S \in Footprints(dem, score)}

LEMMA SitesInvariant == Spec => []SitesInv
<1>1. Init => SitesInv
  BY DEF Init, SitesInv, NoScore
<1>2. SitesInv /\ [Next]_vars => SitesInv'
  <2> SUFFICES ASSUME SitesInv, [Next]_vars PROVE SitesInv'
    OBVIOUS
  <2> USE DEF SitesInv, flowVars, routeVars, traceVars, groundVars
  <2>1. CASE Parse \/ Build \/ BuildFails \/ FetchTiles \/ NoCandidate
    BY <2>1 DEF Parse, Build, BuildFails, FetchTiles, NoCandidate, Fail, Survey
  <2>2. CASE Analyse
    BY <2>2, InputAssumption DEF Analyse, Scores
  <2>3. CASE Exclude
    <3>1. score' = [c \in Cells |-> IF c \in zone' THEN 0 ELSE score[c]]
      BY <2>3 DEF Exclude
    <3>2. stage' = "masked"
      BY <2>3 DEF Exclude
    <3>3. QED
      BY <3>1, <3>2
  <2>4. CASE RankSites
    <3>1. /\ sites' = {[cells |-> S, pins |-> Pins(score, S)] : S \in Footprints(dem, score)}
          /\ UNCHANGED <<dem, score, zone>> /\ stage = "masked"
      BY <2>4 DEF RankSites
    <3>2. Footprints(dem, score)' = Footprints(dem', score')
      BY DEF Footprints
    <3>3. QED
      BY <3>1
  <2>5. CASE Delineate
    BY <2>5 DEF Delineate
  <2>6. CASE Flow
    <3>1. UNCHANGED <<dem, stage, score, zone, sites>>
      BY <2>6 DEF Flow, FlowNext, Compare, CountInflows, Drained, PyshedsAnswers, Snap,
                  Traced, PassOn, Trace
    <3>2. QED
      BY <3>1
  <2>7. CASE UNCHANGED vars
    BY <2>7 DEF vars
  <2>8. QED
    BY <2>1, <2>2, <2>3, <2>4, <2>5, <2>6, <2>7 DEF Next
<1>3. QED
  BY <1>1, <1>2, PTL DEF Spec

\* What is so of the footprints of any terrain.
LEMMA FootprintFacts ==
    ASSUME NEW g \in [Cells -> Int], NEW s \in [Cells -> Nat], NEW S \in Footprints(g, s)
    PROVE  /\ S \in SUBSET Cells /\ S # {}
           /\ Cardinality(S) \in MinCells .. MaxCells
           /\ \A c \in S : Part(S, c) = S /\ s[c] >= Threshold /\ ~Steep(g, c)
           /\ \A T \in Footprints(g, s) :
                 T # S => \A c \in S, d \in T : Apart2(c, d) > 2
<1> DEFINE U == Suitable(g, s)
<1>1. /\ U \in SUBSET Cells
      /\ \A c \in U : s[c] >= Threshold /\ ~Steep(g, c)
  BY DEF Suitable
<1>2. s \in [Cells -> Int]
  OBVIOUS
<1>3. \A T \in Footprints(g, s) :
         Cardinality(T) >= MinCells
         /\ \E region \in Parts(U) : T = Footprint(g, s, region)
  BY DEF Footprints, Accepted
<1> HIDE DEF U
<1>4. PICK region \in Parts(U) : S = Footprint(g, s, region)
  BY <1>3
<1>5. /\ S \subseteq region /\ S # {} /\ Cardinality(S) <= MaxCells
      /\ \A d \in S : Part(S, d) = S
  BY <1>1, <1>2, <1>4, FootprintShape
<1>6. \A a \in U : Part(U, a) \subseteq U
  BY <1>1, PartIsLeast
<1>7. S \subseteq U
  BY <1>4, <1>5, <1>6 DEF Parts
<1>8. S \in SUBSET Cells /\ \A c \in S : s[c] >= Threshold /\ ~Steep(g, c)
  BY <1>1, <1>7
<1>9. Cardinality(S) \in MinCells .. MaxCells
  <2>1. IsFiniteSet(S)
    BY <1>8, CellsFinite, FS_Subset
  <2>2. Cardinality(S) \in Nat /\ Cardinality(S) >= MinCells
    BY <1>3, <2>1, FS_CardinalityType
  <2>3. QED
    BY <1>5, <2>2, PondAssumption
<1>10. ASSUME NEW T \in Footprints(g, s), T # S, NEW c \in S, NEW d \in T
       PROVE  Apart2(c, d) > 2
  <2>1. PICK other \in Parts(U) : T = Footprint(g, s, other)
    BY <1>3
  <2>2. T \subseteq other
    BY <1>1, <1>2, <2>1, FootprintShape
  <2>3. PICK a \in U, b \in U : region = Part(U, a) /\ other = Part(U, b)
    BY DEF Parts
  <2>4. c \in Part(U, a) /\ d \in Part(U, b) /\ Part(U, a) # Part(U, b)
    BY <1>4, <1>5, <1>10, <2>1, <2>2, <2>3
  <2>5. ~(Apart2(c, d) <= 2)
    BY <1>1, <2>4, PartsDoNotTouch
  <2>6. c \in Cells /\ d \in Cells
    BY <1>1, <1>6, <2>4
  <2>7. Apart2(c, d) \in Nat
    BY <2>6, Distances
  <2>8. QED
    BY <2>5, <2>7
<1>11. QED
  BY <1>5, <1>8, <1>9, <1>10

(***************************************************************************)
(* FootprintsSound: on any terrain, with any scores and zones, each        *)
(* candidate is in one piece, of a size within the limits, on suitable     *)
(* cells only, apart from the others, and has its pin on or beside it.     *)
(***************************************************************************)
THEOREM FootprintsCorrect == Spec => []FootprintsSound
<1>1. RoutesInv /\ SitesInv => FootprintsSound
  <2> SUFFICES ASSUME RoutesInv, SitesInv, stage = "ranked", NEW s \in sites
               PROVE  /\ Cardinality(s.cells) \in MinCells .. MaxCells
                      /\ \A c \in s.cells : Part(s.cells, c) = s.cells
                      /\ \A c \in s.cells : score[c] >= Threshold /\ ~Steep(dem, c)
                      /\ Threshold > 0 => s.cells \cap zone = {}
                      /\ \A t \in sites \ {s} : \A c \in s.cells, d \in t.cells : Apart2(c, d) > 2
                      /\ s.pins # {}
                      /\ \A pin \in s.pins : \E c \in s.cells : Apart2(pin, c) <= 2
    BY DEF FootprintsSound
  <2>1. dem \in [Cells -> Int] /\ score \in [Cells -> Nat]
    BY DEF RoutesInv, TypeOK, SitesInv
  <2>2. \A t \in sites : t.cells \in Footprints(dem, score) /\ t.pins = Pins(score, t.cells)
                         /\ t = [cells |-> t.cells, pins |-> t.pins]
    BY DEF SitesInv
  <2> DEFINE S == s.cells
  <2>3. S \in Footprints(dem, score) /\ s.pins = Pins(score, S)
    BY <2>2
  <2> HIDE DEF S
  <2>4. /\ S \in SUBSET Cells /\ S # {}
        /\ Cardinality(S) \in MinCells .. MaxCells
        /\ \A c \in S : Part(S, c) = S /\ score[c] >= Threshold /\ ~Steep(dem, c)
        /\ \A T \in Footprints(dem, score) :
              T # S => \A c \in S, d \in T : Apart2(c, d) > 2
    BY <2>1, <2>3, FootprintFacts
  <2>5. s.pins # {} /\ \A pin \in s.pins : \E c \in S : Apart2(pin, c) <= 2
    BY <2>1, <2>3, <2>4, PinsAreNear
  <2>6. ASSUME Threshold > 0 PROVE S \cap zone = {}
    <3>1. \A c \in Cells \cap zone : score[c] = 0
      BY DEF SitesInv
    <3>2. ASSUME NEW c \in S \cap zone PROVE FALSE
      BY <2>1, <2>4, <2>6, <3>1, PondAssumption
    <3>3. QED
      BY <3>2
  <2>7. ASSUME NEW t \in sites \ {s}, NEW c \in S, NEW d \in t.cells PROVE Apart2(c, d) > 2
    <3>1. t.cells \in Footprints(dem, score) /\ t.cells # S
      BY <2>2 DEF S
    <3>2. QED
      BY <2>4, <3>1
  <2>8. QED
    BY <2>4, <2>5, <2>6, <2>7 DEF S
<1>2. QED
  BY <1>1, RoutesInvariant, SitesInvariant, PTL
=============================================================================
