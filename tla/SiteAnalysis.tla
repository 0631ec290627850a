---------------------------- MODULE SiteAnalysis ----------------------------
(***************************************************************************)
(* One analysis, by the gateway of the cluster or by the single-node       *)
(* application.                                                            *)
(***************************************************************************)
EXTENDS GatewayAnalysis, PipelineAnalysis

VARIABLE deployment

vars == <<deployment, analysisVars>>

Init ==
    /\ deployment \in {"gateway", "single"}
    /\ AnalysisInit

\* The thread of the analysis itself.
Stage ==
    /\ \/ deployment = "gateway" /\ GatewayStage
       \/ deployment = "single" /\ PipelineStage
    /\ UNCHANGED deployment

\* The threads of its lookups, which outlive it if they must.
Lookup ==
    /\ \/ deployment = "gateway" /\ GatewayLookup
       \/ deployment = "single" /\ LocalInfra
    /\ UNCHANGED deployment

Next == Stage \/ Lookup

\* Only the analysis has to go on; a lookup may hang.
Spec == Init /\ [][Next]_vars /\ WF_vars(Stage)
----------------------------------------------------------------------------
TypeOK ==
    /\ deployment \in {"gateway", "single"}
    /\ request \in Requests
    /\ apc \in {"start", "begun", "prepared", "checked", "analysed", "ranked",
                "informed", "answered", "failed"}
    /\ infraThread \in {"none", "edge", "local", "ok", "unavailable", "raised"}
    /\ climateThread \in {"none", "edge", "local", "ready"}
    /\ infra \in {"none", "disabled", "ok", "unavailable"}
    /\ land \in Lands \cup {Unseen}
    /\ kept \subseteq Regions
    /\ top \in kept \cup {0}
    /\ storm \in {"none", "default", "own", "recommended"}
    /\ rain \in BOOLEAN
    /\ answer.status \in {"none", "error", "success", "no_suitable_site"}

\* No site of an answer is on ground the answer says was kept free: not in a
\* zone the user marked, and, where the infrastructure is reported as looked
\* up, neither on mapped ground nor outside the circle that was surveyed.
\* The lookup, the zones built from it, the scores they zero and the
\* threshold are four places this can be lost in (sys4.py:376-395,
\* pipeline.py:391-426).  A threshold of 0 does lose it and is left out.
NoBuildKept ==
    answer.status = "success" /\ request.threshold > 0 =>
        \A r \in {answer.site} \cup answer.others :
            /\ land.ground[r] = "marked" => ~(request.area /\ request.marks)
            /\ answer.infra = "ok" => land.ground[r] # "mapped" /\ land.dist[r] <= Survey

\* The infrastructure is reported as looked up only if the lookup answered,
\* and as not checked only if it was to be: a lookup that is late or fails
\* is never taken for one that found nothing (sys4.py:376-393).
StatusHonest ==
    Over /\ answer.status # "error" =>
        /\ answer.infra = "ok" => infraThread = "ok"
        /\ answer.infra = "unavailable" => request.area /\ request.avoid
        /\ answer.infra \in {"none", "disabled"} => ~(request.area /\ request.avoid)

\* The user asked for a storm, and the deployment can tell it from none: the
\* gateway any, the single-node application any but 100 mm.
StormIsUsers ==
    /\ request.storm # "none"
    /\ deployment = "single" => request.storm # "default"

\* The runoff is that of the storm the user asked for, however the rainfall
\* lookup ends: in the gateway for every storm (sys4.py:424), in the
\* single-node application for every storm but 100 mm.  A user's 100 mm is
\* taken for the default there and replaced by the location's storm
\* (pipeline.py:355), against README.md:54, "unless the user overrides it".
StormRespected ==
    answer.status = "success" /\ StormIsUsers => answer.storm = request.storm

\* Every analysis ends, whatever its lookups do: what it waits for it waits
\* for with a timeout (sys4.py:382, :417).
AnalysisEnds == <>Over

\* Where no region meets the criteria but one meets the relaxed ones, the
\* single-node application recommends it: "thresholds were automatically
\* relaxed to identify the best available candidate locations"
\* (ProcessingNotesBanner.jsx:33-34).
RelaxedFallbackHelps ==
    /\ deployment = "single" /\ apc = "answered"
    /\ Strict(land, Blocked(land), request.threshold) = {}
    /\ Relaxed(land, Blocked(land)) # {}
    => answer.status = "success"

Contract == INSTANCE SiteContract WITH
    terrain <- IF answer = NoAnswer THEN Unseen ELSE land,
    Terrains <- Lands

\* Both deployments implement the contract: among the best sites of the
\* terrain that may be built on, the nearest to the selected point, with the
\* catchment of that site, and no site only if there is none.
ImplementsContract == Contract!Spec
=============================================================================
