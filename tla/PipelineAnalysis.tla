-------------------------- MODULE PipelineAnalysis --------------------------
(***************************************************************************)
(* analyze_contour_file() in app/services/pipeline.py: the same analysis   *)
(* in one process.  Only the infrastructure lookup runs beside it.         *)
(***************************************************************************)
EXTENDS AnalysisState

\* The lookup starts with the first stage.
PipelineBegin ==
    /\ apc = "start"
    /\ ~NoTerrain
    /\ infraThread' = IF request.area /\ request.avoid THEN "local" ELSE "none"
    /\ apc' = "begun"
    /\ UNCHANGED <<request, climateThread, infra, siteVars, storm, rain, answer>>

\* The missing point, a file that cannot be parsed, a DEM that cannot be
\* built, terrain that cannot be analysed, or a catchment that cannot be
\* traced.
PipelineFails ==
    /\ \/ apc = "start" /\ NoTerrain
       \/ apc \in {"begun", "prepared", "ranked"}
    /\ Fail
    /\ UNCHANGED lookupVars

\* The default of 100 mm cannot be told from 100 mm that the user asked for.
PipelineStorm(known) ==
    IF known /\ storm \in {"none", "default"} THEN "recommended"
    ELSE IF storm = "none" THEN "default" ELSE storm

\* Parsing, DEM, rainfall and terrain: rainfall that cannot be read is left
\* out.
PipelinePrepare ==
    /\ apc = "begun"
    /\ rain' \in BOOLEAN
    /\ storm' = PipelineStorm(rain')
    /\ apc' = "prepared"
    /\ UNCHANGED <<request, lookupVars, infra, siteVars, answer>>

\* Slip: the fallback runs on the scores it finds, zones or not.
FallbackAnywhere(l, zeroed) == Regions

\* The relaxed fallback: for the first region that passes,
\* identify_candidate_sites() reads slope_percent, which was freed just
\* before.  The exception is swallowed, and there are still no candidates
\* whether a region passes or not.
Fallback(l, zeroed) == {}

PipelineRank ==
    /\ apc = "checked"
    /\ \E l \in Lands :
         LET strict == Strict(l, Blocked(l), request.threshold)
             found == IF strict # {} THEN strict ELSE Fallback(l, Blocked(l))
         IN  Keep(l, TopN(found, Blocked(l), request.sites))
    /\ apc' = "ranked"
    /\ UNCHANGED <<request, lookupVars, infra, storm, rain, answer>>

PipelineAnswer ==
    /\ apc = "ranked"
    /\ answer' = IF kept = {} THEN NoSite ELSE Success(storm)
    /\ apc' = "answered"
    /\ UNCHANGED <<request, lookupVars, infra, siteVars, storm, rain>>

PipelineStage ==
    \/ PipelineBegin \/ PipelinePrepare \/ Check \/ CheckRaises \/ PipelineRank
    \/ PipelineAnswer \/ PipelineFails
============================================================================
