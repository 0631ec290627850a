------------------------------- MODULE Siting -------------------------------
(***************************************************************************)
(* Where a pond may go: the no-build zones of app/services/exclusions.py,  *)
(* the choice of candidates in app/services/pond_site.py and the           *)
(* preference for the selected area, shared by both deployments.           *)
(*                                                                         *)
(* A region of the terrain is what pond_site.py makes one candidate of.    *)
(* Regions are numbered by their score, 1 being the best, and lie at       *)
(* different distances from the selected point: within Radius of it, in    *)
(* the surveyed ring around that, or beyond.                               *)
(***************************************************************************)
EXTENDS Naturals, FiniteSets

CONSTANTS
    NumRegions,  \* bound: regions of one terrain
    Radius,      \* selected_radius_m
    Survey,      \* survey_radius_for(Radius)
    Farthest     \* bound: the largest distance

ASSUME SitingAssumption ==
    /\ NumRegions \in Nat /\ Radius \in Nat /\ Survey \in Nat /\ Farthest \in Nat
    /\ Radius < Survey

Regions == 1..NumRegions

\* A region passes the criteria of the request, or only the relaxed ones of
\* the fallback; it may lie on mapped infrastructure or in a marked zone.
Lands ==
    {land \in [dist: [Regions -> 1..Farthest],
               ground: [Regions -> {"free", "mapped", "marked"}],
               level: [Regions -> {"strict", "relaxed"}]] :
        \A r, s \in Regions : r # s => land.dist[r] # land.dist[s]}

Inside(land, r) == land.dist[r] <= Radius
----------------------------------------------------------------------------
(* plan_exclusions() and apply_exclusions(): the cells inside a zone and,   *)
(* after a lookup that succeeded, those outside the surveyed circle get     *)
(* the score 0.  marks: the request has marked zones.                       *)

Zeroed(land, marks, status) ==
    {r \in Regions :
        \/ marks /\ land.ground[r] = "marked"
        \/ status = "ok" /\ land.ground[r] = "mapped"
        \/ status = "ok" /\ land.dist[r] > Survey}

\* identify_candidate_sites(): a cell counts if its score reaches the
\* threshold, and 0 reaches 0.
Strict(land, zeroed, threshold) ==
    {r \in Regions : land.level[r] = "strict" /\ (r \notin zeroed \/ threshold = 0)}

\* The fallback of the single-node pipeline: at least 40 points, a quarter of
\* the area and any slope.
Relaxed(land, zeroed) == Regions \ zeroed

\* By score; a region on zeroed cells has the lowest one.
Better(zeroed, r, s) ==
    IF (r \in zeroed) = (s \in zeroed) THEN r < s ELSE s \in zeroed

\* The best max_candidate_sites of them.
TopN(regions, zeroed, n) ==
    {r \in regions : Cardinality({s \in regions : Better(zeroed, s, r)}) < n}

BestOf(regions, zeroed) ==
    CHOOSE r \in regions : \A s \in regions \ {r} : Better(zeroed, r, s)

NearestOf(land, regions) ==
    CHOOSE r \in regions : \A s \in regions : land.dist[r] <= land.dist[s]

\* _prioritize_selected_area(): the candidates inside the area, or all if
\* there is none, the nearest first.
Nearby(land, regions) ==
    LET near == {r \in regions : Inside(land, r)}
    IN  IF near # {} THEN near ELSE regions

\* Slip: the nearest of all regions, not of the candidates.
PreferredAnywhere(land, regions) ==
    IF regions = {} THEN 0 ELSE NearestOf(land, Regions)

\* 0 stands for no site.
Preferred(land, regions) ==
    IF regions = {} THEN 0 ELSE NearestOf(land, Nearby(land, regions))
============================================================================
