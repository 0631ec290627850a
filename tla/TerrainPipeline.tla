-------------------------- MODULE TerrainPipeline ---------------------------
(***************************************************************************)
(* What happens to the ground of one analysis, from the uploaded contours  *)
(* or the elevation tiles to the catchment: the stages of                  *)
(* distributed/stages.py, which the single-node pipeline runs in the same  *)
(* order.  What the analysis does around them is SiteAnalysis.             *)
(***************************************************************************)
EXTENDS Contours, PondSites, Watershed

CONSTANTS
    Tiles,        \* no file: terrain_source is global_dem
    Files,        \* bound: the contour maps that are uploaded
    TileSurfaces, \* bound: the terrains the elevation tiles may show
    ScoreMaps,    \* bound: the suitability scores a terrain may get
    Zones         \* bound: the no-build zones

ASSUME InputAssumption ==
    /\ TileSurfaces \subseteq [Cells -> Int]
    /\ \A file \in Files :
          ~Flat(Sampled(Parsed(file))) => Surfaces(Parsed(file)) \subseteq [Cells -> Int]
    /\ ScoreMaps \subseteq [Cells -> Nat]

VARIABLES
    stage,     \* the stage the analysis is in
    source,    \* the upload, or Tiles
    contours,  \* what was parsed of it
    score,     \* suitability_score
    zone,      \* the cells the no-build zones cover
    sites,     \* the candidates: [cells, pins]
    site       \* the candidate the catchment is traced for

vars == <<flowVars, stage, source, contours, score, zone, sites, site>>
groundVars == <<source, contours, score, zone, sites, site>>

NoSite == [cells |-> {}, pins |-> {}]
NoScore == [c \in Cells |-> 0]

Init ==
    /\ FlowInit
    /\ stage = "received"
    /\ source \in Files \cup {Tiles}
    /\ contours = <<>>
    /\ score = NoScore
    /\ zone = {}
    /\ sites = {}
    /\ site = NoSite

\* An exception of a stage ends the analysis.
Fail == stage' = "failed"
----------------------------------------------------------------------------
\* parse_contours_stage(): a file without contours is an error.
Parse ==
    /\ stage = "received" /\ source # Tiles
    /\ IF Readable(source) /\ Parsed(source) # <<>>
       THEN /\ contours' = Parsed(source)
            /\ stage' = "parsed"
       ELSE Fail /\ UNCHANGED contours
    /\ UNCHANGED <<flowVars, source, score, zone, sites, site>>

\* build_dem_stage()
Build ==
    /\ stage = "parsed"
    /\ ~Flat(Sampled(contours))
    /\ \E surface \in Surfaces(contours) : Survey(surface)
    /\ stage' = "terrain"
    /\ UNCHANGED groundVars

BuildFails ==
    /\ stage = "parsed"
    /\ Flat(Sampled(contours))
    /\ Fail
    /\ UNCHANGED <<flowVars, groundVars>>

\* global_dem_stage(): the tiles come, or one of them does not.
FetchTiles ==
    /\ stage = "received" /\ source = Tiles
    /\ \/ /\ \E surface \in TileSurfaces : Survey(surface)
          /\ stage' = "terrain"
       \/ Fail /\ UNCHANGED flowVars
    /\ UNCHANGED groundVars

\* The weighted sum of three criteria, clipped to 0 .. 100.  The criteria
\* are floating point: any score of the bound may come of them.
Scores == {s \in ScoreMaps : \A c \in Cells : s[c] \in 0..100}

\* analyze_terrain_stage(): routing, and the score of routing and slope.
Analyse ==
    /\ stage = "terrain" /\ flow = "analysed"
    /\ score' \in Scores
    /\ stage' = "analysed"
    /\ UNCHANGED <<flowVars, source, contours, zone, sites, site>>

\* apply_exclusions()
Exclude ==
    /\ stage = "analysed"
    /\ zone' \in Zones
    /\ score' = [c \in Cells |-> IF c \in zone' THEN 0 ELSE score[c]]
    /\ stage' = "masked"
    /\ UNCHANGED <<flowVars, source, contours, sites, site>>

\* rank_pond_sites_stage()
RankSites ==
    /\ stage = "masked"
    /\ sites' = {[cells |-> S, pins |-> Pins(score, S)] : S \in Footprints(dem, score)}
    /\ stage' = "ranked"
    /\ UNCHANGED <<flowVars, source, contours, score, zone, site>>

\* delineate_catchment_stage(): for the first candidate, any of them here.
Delineate ==
    /\ stage = "ranked"
    /\ \E s \in sites : \E pin \in s.pins : site' = s /\ Ask(pin)
    /\ stage' = "catchment"
    /\ UNCHANGED <<source, contours, score, zone, sites>>

NoCandidate ==
    /\ stage = "ranked" /\ sites = {}
    /\ stage' = "no_suitable_site"
    /\ UNCHANGED <<flowVars, groundVars>>

Flow == FlowNext /\ UNCHANGED <<stage, groundVars>>

Next ==
    \/ Parse \/ Build \/ BuildFails \/ FetchTiles
    \/ Analyse \/ Exclude \/ RankSites \/ Delineate \/ NoCandidate
    \/ Flow

Spec == Init /\ [][Next]_vars
----------------------------------------------------------------------------
(* Properties *)

\* The types of the variables; the contours are those of the upload.
TypeOK ==
    /\ stage \in {"received", "parsed", "terrain", "analysed", "masked", "ranked",
                  "catchment", "no_suitable_site", "failed"}
    /\ flow \in {"none", "directing", "counting", "draining", "analysed", "asked",
                 "tracing", "traced"}
    /\ dem \in [Cells -> Int]
    /\ k \in 1..9
    /\ flow = "directing" => k \in Directions
    /\ fdir \in [Cells -> Directions \cup {Pit}]
    /\ accum \in [Cells -> Nat]
    /\ degree \in [Cells -> Int]
    /\ ready \subseteq Cells
    /\ snapped \in Cells \cup {NoCell}
    /\ basin \subseteq Cells /\ frontier \subseteq Cells
    /\ method \in {"none", "flow_accumulation", "basin_approximation"}

\* Water only ever runs to a lower cell of the raster, so it never runs in a
\* circle: what compute_native_d8_flow_accumulation() needs to end with every
\* cell passed on.
WaterFallsDown ==
    \A c \in Cells : Drains(c) => Below(c) \in Cells /\ dem[Below(c)] < dem[c]

Native == flow = "traced" /\ method = "basin_approximation"

\* The catchment is exactly what drains to the snapped pour point: the pour
\* point is in it, and any other cell is if and only if the cell it drains to
\* is.  With WaterFallsDown this leaves no other set of cells.
CatchmentExact ==
    Native =>
        /\ snapped \in basin
        /\ \A c \in Cells \ {snapped} : c \in basin <=> (Drains(c) /\ Below(c) \in basin)

\* The catchment traced upstream in one stage has as many cells as the
\* accumulation computed downstream in another one says: no cell is counted
\* twice, none is left in a cycle, and none is missed.
AreaIsAccumulation == Native => Cardinality(basin) = accum[snapped]

\* Every candidate can be built: its footprint is in one piece, neither too
\* small nor larger than the limit, only of cells that are suitable, no two
\* touch each other, and the pin is on it or on a cell that touches it.  A
\* threshold of 0 lets the zeroed cells of the zones pass.
FootprintsSound ==
    stage = "ranked" =>
        \A s \in sites :
            /\ Cardinality(s.cells) \in MinCells .. MaxCells
            /\ \A c \in s.cells : Part(s.cells, c) = s.cells
            /\ \A c \in s.cells : score[c] >= Threshold /\ ~Steep(dem, c)
            /\ Threshold > 0 => s.cells \cap zone = {}
            /\ \A t \in sites \ {s} : \A c \in s.cells, d \in t.cells : Apart2(c, d) > 2
            /\ s.pins # {}
            /\ \A pin \in s.pins : \E c \in s.cells : Apart2(pin, c) <= 2

\* What a text says of its elevation, in metres.
InMetres(t) == IF t.unit = "ft" THEN t.number \div FeetPerMetre ELSE t.number

\* "Handles units like 'm', 'meters', 'ft', 'feet'": a contour whose name
\* holds its elevation gets it in metres.
ElevationsInMetres ==
    \A i \in DOMAIN contours :
        LET p == contours[i]
        IN  p.data = NoText /\ FromName(p) # NoElevation => Elevation(p) = InMetres(p.name)
=============================================================================
