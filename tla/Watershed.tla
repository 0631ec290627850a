----------------------------- MODULE Watershed ------------------------------
(***************************************************************************)
(* Which way the water runs: the native D8 engine of                       *)
(* app/services/catchment_delineation.py.  The directions and the          *)
(* accumulation are computed once, in the terrain stage; the catchment     *)
(* stage reuses them to snap the pour point and to trace what drains to    *)
(* it.  The cells are squares (dx = dy, as both DEM sources build them).   *)
(*                                                                         *)
(* The queues of the code are sets here, of which Popped(queue) is next:    *)
(* no property tells one order from another.                               *)
(***************************************************************************)
EXTENDS Grid

CONSTANT SnapCells  \* search_radius_cells, at least 1

ASSUME SnapAssumption == SnapCells \in Nat

VARIABLES
    flow,      \* how far the engine is
    dem,       \* dem_data.array
    k,         \* the direction compared next
    fdir,      \* flow_dir
    accum,     \* flow_accum
    degree,    \* in_degree
    ready,     \* the queue of compute_native_d8_flow_accumulation()
    pour,      \* (raw_row, raw_col)
    snapped,   \* (snapped_row, snapped_col)
    basin,     \* catchment_mask
    frontier,  \* the queue of delineate_catchment_d8_bfs()
    method     \* method_used

routeVars == <<k, fdir, accum, degree, ready>>
traceVars == <<pour, snapped, basin, frontier, method>>
flowVars == <<flow, dem, routeVars, traceVars>>

NoCell == <<-1, -1>>

\* popleft()
Popped(queue) == CHOOSE c \in queue : TRUE

\* The cell that c drains to, if it does.
Drains(c) == fdir[c] # Pit
Below(c) == Toward(c, fdir[c])

FlowInit ==
    /\ flow = "none"
    /\ dem = [c \in Cells |-> 0]
    /\ k = 1
    /\ fdir = [c \in Cells |-> Pit]
    /\ accum = [c \in Cells |-> 1]
    /\ degree = [c \in Cells |-> 0]
    /\ ready = {}
    /\ pour = NoCell /\ snapped = NoCell
    /\ basin = {} /\ frontier = {}
    /\ method = "none"
----------------------------------------------------------------------------
(* compute_native_d8_flow_direction(): direction by direction, for all      *)
(* cells at once.                                                           *)

\* The squared distance in direction j, 1 or 2.
Run2(j) == D8[j][1] * D8[j][1] + D8[j][2] * D8[j][2]

Fall(c, j) == dem[c] - dem[Toward(c, j)]

\* Slip: level ground counts as downhill.
SteeperOrLevel(c, j) ==
    /\ Toward(c, j) \in Cells
    /\ Fall(c, j) >= 0
    /\ \/ ~Drains(c)
       \/ Fall(c, j) * Fall(c, j) * Run2(fdir[c]) > Fall(c, fdir[c]) * Fall(c, fdir[c]) * Run2(j)

\* The way in direction j is downhill, and steeper than the best so far.
Steeper(c, j) ==
    /\ Toward(c, j) \in Cells
    /\ Fall(c, j) > 0
    /\ \/ ~Drains(c)
       \/ Fall(c, j) * Fall(c, j) * Run2(fdir[c]) > Fall(c, fdir[c]) * Fall(c, fdir[c]) * Run2(j)

\* A terrain comes in.
Survey(surface) ==
    /\ flow = "none"
    /\ dem' = surface
    /\ flow' = "directing"
    /\ UNCHANGED <<routeVars, traceVars>>

Compare ==
    /\ flow = "directing"
    /\ fdir' = [c \in Cells |-> IF Steeper(c, k) THEN k ELSE fdir[c]]
    /\ k' = k + 1
    /\ flow' = IF k = 8 THEN "counting" ELSE flow
    /\ UNCHANGED <<dem, accum, degree, ready, traceVars>>
----------------------------------------------------------------------------
(* compute_native_d8_flow_accumulation() *)

Sources(c) == {d \in Cells : Drains(d) /\ Below(d) = c}

CountInflows ==
    /\ flow = "counting"
    /\ degree' = [c \in Cells |-> Cardinality(Sources(c))]
    /\ ready' = {c \in Cells : Sources(c) = {}}
    /\ flow' = "draining"
    /\ UNCHANGED <<dem, k, fdir, accum, traceVars>>

\* A cell all of whose inflows are known passes its water on.
PassOn(c) ==
    /\ flow = "draining"
    /\ ready # {} /\ c = Popped(ready)
    /\ IF Drains(c)
       THEN /\ accum' = [accum EXCEPT ![Below(c)] = @ + accum[c]]
            /\ degree' = [degree EXCEPT ![Below(c)] = @ - 1]
            /\ ready' = (ready \ {c}) \cup {d \in {Below(c)} : degree[d] = 1}
       ELSE /\ ready' = ready \ {c}
            /\ UNCHANGED <<accum, degree>>
    /\ UNCHANGED <<flow, dem, k, fdir, traceVars>>

Drained ==
    /\ flow = "draining"
    /\ ready = {}
    /\ flow' = "analysed"
    /\ UNCHANGED <<dem, routeVars, traceVars>>
----------------------------------------------------------------------------
(* CatchmentDelineationService.delineate() *)

\* The pour point is the pin of a site.
Ask(pin) ==
    /\ flow = "analysed"
    /\ pour' = pin
    /\ flow' = "asked"
    /\ UNCHANGED <<dem, routeVars, snapped, basin, frontier, method>>

\* Pysheds, if it is asked for and there, answers with a catchment: some
\* cells, for nothing is said of which.
PyshedsAnswers ==
    /\ flow = "asked"
    /\ basin' = Cells
    /\ method' = "flow_accumulation"
    /\ flow' = "traced"
    /\ UNCHANGED <<dem, routeVars, pour, snapped, frontier>>

Window(c) ==
    {s \in Cells : \A i \in {1, 2} : s[i] - c[i] \in -SnapCells .. SnapCells}

\* snap_pour_point_to_stream(): the first of the wettest cells around.
Wettest(c, s) ==
    \A d \in Window(c) : accum[d] < accum[s] \/ (accum[d] = accum[s] /\ ~Before(d, s))

\* Pysheds is not there, raised, or answered with an empty catchment.
Snap ==
    /\ flow = "asked"
    /\ \E s \in Window(pour) :
          /\ Wettest(pour, s)
          /\ snapped' = s
          /\ basin' = {s}
          /\ frontier' = {s}
    /\ method' = "basin_approximation"
    /\ flow' = "tracing"
    /\ UNCHANGED <<dem, routeVars, pour>>

\* Slip: the neighbours on the corners are not looked at.
UpstreamStraight(c) ==
    {d \in Cells \ basin : /\ \E j \in {1, 3, 5, 7} : Toward(c, j) = d
                           /\ Drains(d) /\ Below(d) = c}

\* The neighbours that drain to c and are not yet in the catchment.
Upstream(c) ==
    {d \in Cells \ basin : /\ \E j \in Directions : Toward(c, j) = d
                           /\ Drains(d) /\ Below(d) = c}

\* delineate_catchment_d8_bfs()
Trace(c) ==
    /\ flow = "tracing"
    /\ frontier # {} /\ c = Popped(frontier)
    /\ basin' = basin \cup Upstream(c)
    /\ frontier' = (frontier \ {c}) \cup Upstream(c)
    /\ UNCHANGED <<flow, dem, routeVars, pour, snapped, method>>

Traced ==
    /\ flow = "tracing"
    /\ frontier = {}
    /\ flow' = "traced"
    /\ UNCHANGED <<dem, routeVars, traceVars>>

FlowNext ==
    \/ Compare \/ CountInflows \/ Drained
    \/ PyshedsAnswers \/ Snap \/ Traced
    \/ \E c \in Cells : PassOn(c) \/ Trace(c)
=============================================================================
