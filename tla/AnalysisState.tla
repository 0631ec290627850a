--------------------------- MODULE AnalysisState ----------------------------
(***************************************************************************)
(* What the gateway's analysis (distributed/sys4.py) and the single-node   *)
(* pipeline (app/services/pipeline.py) have in common: a request, two      *)
(* lookups that run beside the analysis, and the parts of the answer.      *)
(***************************************************************************)
EXTENDS Siting

\* The storm of a request is none, the default of 100 mm, or another one of
\* the user's own.
CONSTANT Requests   \* bound: the requests that are made

ASSUME RequestAssumption ==
    Requests \subseteq [area: BOOLEAN, global: BOOLEAN, avoid: BOOLEAN, marks: BOOLEAN,
                        storm: {"none", "default", "own"},
                        threshold: Nat, sites: Nat \ {0}]

VARIABLES
    request,       \* params
    apc,           \* how far the analysis is
    infraThread,   \* infra_future: the lookup in its thread
    climateThread, \* climate_future
    infra,         \* what the analysis takes for the answer of the lookup
    land,          \* the terrain, once it is analysed
    kept,          \* the candidates
    top,           \* candidates[0], 0 for none
    storm,         \* params["design_rainfall_mm"]
    rain,          \* the location's rainfall is known
    answer         \* the response

lookupVars == <<infraThread, climateThread>>
siteVars == <<land, kept, top>>
analysisVars == <<request, apc, lookupVars, infra, siteVars, storm, rain, answer>>

Unseen == [dist |-> [r \in Regions |-> 0]]
NoAnswer == [status |-> "none"]

\* The analysis is over and has told so.
Over == apc \in {"answered", "failed"}

NoSite == [status |-> "no_suitable_site", site |-> 0, others |-> {}, traced |-> 0,
           infra |-> infra, rain |-> rain, storm |-> "none"]

\* Slip: the catchment is traced for the best candidate, before the area is
\* looked at.
TracedBest == BestOf(kept, {})

\* The catchment stage traces the first candidate it is sent.
Traced == top

\* The response of an analysis that found sites.
Success(used) ==
    [status |-> "success", site |-> top, others |-> kept \ {top}, traced |-> Traced,
     infra |-> infra, rain |-> rain, storm |-> used]

\* Any exception of the analysis ends it.
Fail ==
    /\ apc' = "failed"
    /\ answer' = [status |-> "error"]
    /\ UNCHANGED <<request, infra, siteVars, storm, rain>>

\* Marked zones are looked at only where an area is selected.
HasZones == request.area /\ (request.avoid \/ request.marks)

\* Without contours, and without a point to build a global DEM around.
NoTerrain == request.global /\ ~request.area

AnalysisInit ==
    /\ request \in Requests
    /\ apc = "start"
    /\ infraThread = "none" /\ climateThread = "none"
    /\ infra = "none"
    /\ land = Unseen /\ kept = {} /\ top = 0
    /\ storm = request.storm
    /\ rain = FALSE
    /\ answer = NoAnswer
----------------------------------------------------------------------------
(* The lookup of the infrastructure. *)

\* fetch_infrastructure() in its thread: it answers, finds no source that
\* does, or raises what it does not catch.
LocalInfra ==
    /\ infraThread = "local"
    /\ infraThread' \in {"ok", "unavailable", "raised"}
    /\ UNCHANGED <<request, apc, climateThread, infra, siteVars, storm, rain, answer>>

\* Slip: after a timeout the answer is still taken for one without features.
AwaitedHopeful ==
    IF infraThread = "none" THEN "disabled"
    ELSE IF infraThread = "unavailable" THEN "unavailable" ELSE "ok"

\* infra_future.result(timeout=INFRASTRUCTURE_WAIT_S): what came in time.
Awaited ==
    IF infraThread = "none" THEN "disabled"
    ELSE IF infraThread = "ok" THEN "ok" ELSE "unavailable"

\* Slip: without a timeout.
CheckPatient ==
    /\ apc = "prepared"
    /\ ~HasZones \/ infraThread \in {"none", "ok", "unavailable"}
    /\ infra' = IF HasZones THEN Awaited ELSE "none"
    /\ apc' = "checked"
    /\ UNCHANGED <<request, lookupVars, siteVars, storm, rain, answer>>

\* An exception of the lookup is raised again where it is waited for.
Check ==
    /\ apc = "prepared"
    /\ infraThread # "raised" \/ ~HasZones
    /\ infra' = IF HasZones THEN Awaited ELSE "none"
    /\ apc' = "checked"
    /\ UNCHANGED <<request, lookupVars, siteVars, storm, rain, answer>>

CheckRaises ==
    /\ apc = "prepared"
    /\ HasZones /\ infraThread = "raised"
    /\ Fail
    /\ UNCHANGED lookupVars

\* What the ranking sees of the zones.
Blocked(l) == Zeroed(l, HasZones /\ request.marks, infra)

\* The candidates become the sites of the answer: those in the area if an
\* area was selected and any lies in it, the nearest first.
Keep(l, candidates) ==
    /\ land' = l
    /\ kept' = IF request.area THEN Nearby(l, candidates) ELSE candidates
    /\ top' = IF request.area THEN Preferred(l, candidates)
              ELSE IF candidates = {} THEN 0 ELSE BestOf(candidates, Blocked(l))
============================================================================
