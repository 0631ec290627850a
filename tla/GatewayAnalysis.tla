-------------------------- MODULE GatewayAnalysis ---------------------------
(***************************************************************************)
(* Gateway.analyze() in distributed/sys4.py: the stages of one analysis,   *)
(* placed on the cluster by the worker pool, and the two lookups it starts *)
(* on the edge node, waits for with a timeout and then leaves to           *)
(* themselves.                                                             *)
(***************************************************************************)
EXTENDS AnalysisState

----------------------------------------------------------------------------
(* The lookup threads.  The edge answers with what it found itself, times   *)
(* out, or fails; only after a failure is the local service asked.          *)

EdgeInfra ==
    /\ infraThread = "edge"
    /\ infraThread' \in {"ok", "unavailable", "local"}
    /\ UNCHANGED <<request, apc, climateThread, infra, siteVars, storm, rain, answer>>

\* rainfall(): here a timeout, too, leads to the local service, which falls
\* back to a regional climatology and never fails.
EdgeClimate ==
    /\ climateThread = "edge"
    /\ climateThread' \in {"ready", "local"}
    /\ UNCHANGED <<request, apc, infraThread, infra, siteVars, storm, rain, answer>>

LocalClimate ==
    /\ climateThread = "local"
    /\ climateThread' = "ready"
    /\ UNCHANGED <<request, apc, infraThread, infra, siteVars, storm, rain, answer>>

GatewayLookup == EdgeInfra \/ LocalInfra \/ EdgeClimate \/ LocalClimate
----------------------------------------------------------------------------
(* analyze() *)

\* The lookups start before the first stage.
GatewayBegin ==
    /\ apc = "start"
    /\ ~NoTerrain
    /\ infraThread' = IF request.area /\ request.avoid THEN "edge" ELSE "none"
    /\ climateThread' = IF request.area THEN "edge" ELSE "none"
    /\ apc' = "begun"
    /\ UNCHANGED <<request, infra, siteVars, storm, rain, answer>>

\* The selected point is missing, or a stage found no node, was rejected or
\* had nothing to work on.
GatewayFails ==
    /\ \/ apc = "start" /\ NoTerrain
       \/ apc \in {"begun", "checked"}
       \/ apc = "informed" /\ kept # {}
    /\ Fail
    /\ UNCHANGED lookupVars

GatewayPrepare ==
    /\ apc = "begun"
    /\ apc' = "prepared"
    /\ UNCHANGED <<request, lookupVars, infra, siteVars, storm, rain, answer>>

\* The analyze stage ranks with the zones it is sent, and the gateway then
\* prefers the selected area.
GatewayAnalyze ==
    /\ apc = "checked"
    /\ \E l \in Lands :
         Keep(l, TopN(Strict(l, Blocked(l), request.threshold), Blocked(l), request.sites))
    /\ apc' = "analysed"
    /\ UNCHANGED <<request, lookupVars, infra, storm, rain, answer>>

\* Slip: 100 mm is taken for the default, as the single-node application does.
StormByValue(known) == IF known /\ storm \in {"none", "default"} THEN "recommended" ELSE storm

\* The storm of the location, unless the user asked for one.
StormIf(known) == IF known /\ storm = "none" THEN "recommended" ELSE storm

\* climate_future.result(timeout=15), or a lookup at the best candidate.  No
\* rainfall, late rainfall and rainfall that cannot be read are all the same.
GatewayClimate ==
    /\ apc = "analysed"
    /\ rain' \in IF climateThread = "ready" \/ (~request.area /\ kept # {})
                 THEN BOOLEAN ELSE {FALSE}
    /\ storm' = StormIf(rain')
    /\ apc' = "informed"
    /\ UNCHANGED <<request, lookupVars, infra, siteVars, answer>>

\* The catchment stage takes 100 mm if it is sent no storm.
\* _public_response() leaves the rainfall out of an answer without sites.
GatewayAnswer ==
    /\ apc = "informed"
    /\ answer' = IF kept = {} THEN [NoSite EXCEPT !.rain = FALSE]
                 ELSE Success(IF storm = "none" THEN "default" ELSE storm)
    /\ apc' = "answered"
    /\ UNCHANGED <<request, lookupVars, infra, siteVars, storm, rain>>

GatewayStage ==
    \/ GatewayBegin \/ GatewayPrepare \/ Check \/ CheckRaises \/ GatewayAnalyze
    \/ GatewayClimate \/ GatewayAnswer \/ GatewayFails
============================================================================
