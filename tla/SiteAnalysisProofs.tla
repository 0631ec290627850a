------------------------- MODULE SiteAnalysisProofs -------------------------
(***************************************************************************)
(* Proofs about SiteAnalysis, for terrains of any number of regions, any   *)
(* distances and any requests, and for both deployments.                   *)
(***************************************************************************)
EXTENDS SiteAnalysis, WellFoundedInduction, TLAPS

LEMMA SmallestNumber ==
    ASSUME NEW S, S \subseteq Nat, S # {}
    PROVE  \E m \in S : \A n \in S : m <= n
<1> DEFINE R == OpToRel(<, Nat)
<1>1. IsWellFoundedOn(R, Nat)
  BY NatLessThanWellFounded
<1>2. PICK m \in S : \A n \in S : <<n, m>> \notin R
  <2> HIDE DEF R
  <2>1. QED
    BY <1>1, WFMin
<1>3. ASSUME NEW n \in S PROVE m <= n
  <2>1. ~ (n < m)
    BY <1>2 DEF OpToRel
  <2>2. n \in Nat /\ m \in Nat
    OBVIOUS
  <2>3. QED
    BY <2>1, <2>2
<1>4. QED
  BY <1>3

LEMMA SameCardinality ==
    ASSUME NEW S
    PROVE  Contract!Cardinality(S) = Cardinality(S)
BY Zenon DEF Contract!Cardinality, Cardinality

LEMMA Nearest ==
    ASSUME NEW S \in SUBSET Regions, S # {}, NEW l \in Lands
    PROVE  NearestOf(l, S) \in S /\ \A s \in S : l.dist[NearestOf(l, S)] <= l.dist[s]
<1> DEFINE D == {l.dist[s] : s \in S}
<1>1. \A s \in Regions : l.dist[s] \in 1..Farthest
  BY DEF Lands
<1>2. D \subseteq Nat /\ D # {}
  BY <1>1, SitingAssumption
<1>3. PICK d \in D : \A e \in D : d <= e
  <2> HIDE DEF D
  <2>1. QED
    BY <1>2, SmallestNumber
<1>4. \E r \in S : \A s \in S : l.dist[r] <= l.dist[s]
  BY <1>3
<1>5. QED
  BY <1>4 DEF NearestOf

\* Of regions none of which is zeroed, the best is the first.
LEMMA Best ==
    ASSUME NEW S \in SUBSET Regions, S # {}, NEW zeroed, S \cap zeroed = {}
    PROVE  BestOf(S, zeroed) \in S /\ \A s \in S : BestOf(S, zeroed) <= s
<1>1. S \subseteq Nat
  BY SitingAssumption DEF Regions
<1>2. PICK m \in S : \A n \in S : m <= n
  BY <1>1, SmallestNumber
<1>3. \A r, s \in S : Better(zeroed, r, s) <=> r < s
  BY DEF Better
<1>4. \A s \in S \ {m} : Better(zeroed, m, s)
  <2>1. \A s \in S \ {m} : m \in Nat /\ s \in Nat /\ m <= s /\ m # s
    BY <1>1, <1>2
  <2>2. \A s \in S \ {m} : m < s
    BY <2>1
  <2>3. QED
    BY <1>2, <1>3, <2>2
<1>5. BestOf(S, zeroed) \in S /\ \A s \in S \ {BestOf(S, zeroed)} : Better(zeroed, BestOf(S, zeroed), s)
  BY <1>4 DEF BestOf
<1> DEFINE b == BestOf(S, zeroed)
<1>6. b \in S /\ \A s \in S \ {b} : b < s
  BY <1>3, <1>5
<1> HIDE DEF b
<1>7. ASSUME NEW s \in S PROVE b <= s
  BY <1>1, <1>6
<1>8. QED
  BY <1>6, <1>7 DEF b

\* Of any regions, the best is one of them: the first that is not zeroed, or
\* the first if all are.
LEMMA BestIsOne ==
    ASSUME NEW S \in SUBSET Regions, S # {}, NEW zeroed
    PROVE  BestOf(S, zeroed) \in S
<1> DEFINE F == IF S \ zeroed # {} THEN S \ zeroed ELSE S
<1>1. S \subseteq Nat
  BY SitingAssumption DEF Regions
<1>2. PICK m \in F : \A n \in F : m <= n
  <2>1. F \subseteq Nat /\ F # {}
    BY <1>1
  <2> HIDE DEF F
  <2>2. QED
    BY <2>1, SmallestNumber
<1>3. ASSUME NEW s \in S \ {m} PROVE Better(zeroed, m, s)
  <2>1. m \in S /\ m \in Nat /\ s \in Nat
    BY <1>1
  <2>2. CASE s \in F
    <3>1. m < s
      BY <1>2, <2>1, <2>2
    <3>2. m \in zeroed <=> s \in zeroed
      BY <2>2
    <3>3. QED
      BY <3>1, <3>2 DEF Better
  <2>3. CASE s \notin F
    <3>1. s \in zeroed /\ m \notin zeroed
      BY <2>3
    <3>2. QED
      BY <3>1 DEF Better
  <2>4. QED
    BY <2>2, <2>3
<1>4. m \in S
  OBVIOUS
<1>5. QED
  BY <1>3, <1>4 DEF BestOf

(***************************************************************************)
(* The candidates of either deployment are the finalists of the contract:  *)
(* the zones, the zeroed scores and the threshold together keep exactly    *)
(* the regions that may hold a pond.                                       *)
(***************************************************************************)
LEMMA CandidatesAreFinalists ==
    ASSUME NEW l \in Lands, request \in Requests, request.threshold > 0
    PROVE  TopN(Strict(l, Blocked(l), request.threshold), Blocked(l), request.sites)
           = Contract!Finalists(l, infra)
<1> DEFINE strict == Strict(l, Blocked(l), request.threshold)
           held == {r \in 1..NumRegions : Contract!MayHold(l, infra, r)}
<1>1. request.threshold \in Nat /\ request.threshold # 0
  BY RequestAssumption
<1>2. l.dist \in [Regions -> 1..Farthest]
  BY DEF Lands
<1>3. \A r \in Regions : r \notin Blocked(l) /\ l.level[r] = "strict" <=> Contract!MayHold(l, infra, r)
  <2> SUFFICES ASSUME NEW r \in Regions
               PROVE  r \notin Blocked(l) /\ l.level[r] = "strict" <=> Contract!MayHold(l, infra, r)
    OBVIOUS
  <2>1. l.dist[r] \in Nat /\ Survey \in Nat
    BY <1>2, SitingAssumption
  <2>2. ~(l.dist[r] > Survey) <=> l.dist[r] <= Survey
    BY <2>1
  <2>3. r \in Blocked(l) <=> \/ (HasZones /\ request.marks) /\ l.ground[r] = "marked"
                             \/ infra = "ok" /\ l.ground[r] = "mapped"
                             \/ infra = "ok" /\ l.dist[r] > Survey
    BY DEF Blocked, Zeroed
  <2>4. (HasZones /\ request.marks) <=> (request.area /\ request.marks)
    BY DEF HasZones
  <2>5. QED
    BY <2>2, <2>3, <2>4 DEF Contract!MayHold
<1>4. strict = held
  BY <1>1, <1>3 DEF Strict, Regions
<1>5. strict \cap Blocked(l) = {}
  BY <1>1 DEF Strict
<1>6. \A r, s \in strict : Better(Blocked(l), s, r) <=> s < r
  BY <1>5 DEF Better
<1> HIDE DEF strict
<1>7. \A r \in strict : {s \in strict : Better(Blocked(l), s, r)} = {s \in strict : s < r}
  BY <1>6
<1>8. TopN(strict, Blocked(l), request.sites)
      = {r \in strict : Cardinality({s \in strict : s < r}) < request.sites}
  BY <1>7 DEF TopN
<1>9. Contract!Finalists(l, infra)
      = {r \in strict : Cardinality({s \in strict : s < r}) < request.sites}
  <2>1. Contract!Finalists(l, infra)
        = {r \in held : Cardinality({s \in held : s < r}) < request.sites}
    BY SameCardinality DEF Contract!Finalists
  <2> HIDE DEF held
  <2>2. QED
    BY <1>4, <2>1
<1>10. QED
  BY <1>8, <1>9 DEF strict

(***************************************************************************)
(* Of the finalists, the analysis takes the one the contract calls for.    *)
(***************************************************************************)
LEMMA KeepChooses ==
    ASSUME NEW l \in Lands, request \in Requests, request.threshold > 0,
           NEW C, C = Contract!Finalists(l, infra), Keep(l, C)
    PROVE  /\ land' = l /\ kept' \subseteq C
           /\ C = {} => kept' = {} /\ top' = 0
           /\ C # {} => kept' # {} /\ Contract!Chosen(l, infra, top')
<1>1. C \subseteq Regions
  BY DEF Contract!Finalists, Regions
<1>2. C \cap Blocked(l) = {}
  <2> SUFFICES ASSUME NEW r \in C PROVE r \notin Blocked(l)
    OBVIOUS
  <2>1. r \in TopN(Strict(l, Blocked(l), request.threshold), Blocked(l), request.sites)
    BY CandidatesAreFinalists
  <2>2. r \in Strict(l, Blocked(l), request.threshold)
    BY <2>1 DEF TopN
  <2>3. QED
    BY <2>2, RequestAssumption DEF Strict
<1>3. l.dist \in [Regions -> 1..Farthest]
  BY DEF Lands
<1>4. land' = l /\ kept' = IF request.area THEN Nearby(l, C) ELSE C
  BY DEF Keep
<1>5. Nearby(l, C) \subseteq C /\ (C # {} => Nearby(l, C) # {})
  BY DEF Nearby
<1>6. CASE C = {}
  BY <1>4, <1>5, <1>6 DEF Keep, Preferred
<1>7. CASE C # {} /\ request.area
  <2> DEFINE near == Nearby(l, C)
             site == NearestOf(l, near)
  <2>1. top' = site
    BY <1>7 DEF Keep, Preferred
  <2>2. near \subseteq Regions /\ near # {}
    BY <1>1, <1>5, <1>7
  <2> HIDE DEF near
  <2>3. site \in near /\ \A s \in near : l.dist[site] <= l.dist[s]
    BY <2>2, Nearest
  <2>4. ASSUME NEW s \in C PROVE l.dist[site] <= l.dist[s]
    <3>1. CASE s \in near
      BY <2>3, <3>1
    <3>2. CASE s \notin near
      <4>1. site \in {r \in C : Inside(l, r)} /\ ~Inside(l, s)
        BY <2>3, <3>2 DEF near, Nearby
      <4>2. l.dist[site] <= Radius /\ ~(l.dist[s] <= Radius)
        BY <4>1 DEF Inside
      <4>3. l.dist[site] \in Nat /\ l.dist[s] \in Nat
        BY <1>1, <1>3, <2>2, <2>3
      <4>4. QED
        BY <4>2, <4>3, SitingAssumption
    <3>3. QED
      BY <3>1, <3>2
  <2>5. QED
    BY <1>4, <1>5, <1>7, <2>1, <2>2, <2>3, <2>4 DEF Contract!Chosen, near
<1>8. CASE C # {} /\ ~request.area
  <2>1. top' = BestOf(C, Blocked(l))
    BY <1>8 DEF Keep
  <2>2. top' \in C /\ \A s \in C : top' <= s
    BY <1>1, <1>2, <1>8, <2>1, Best
  <2>3. QED
    BY <1>4, <1>8, <2>2 DEF Contract!Chosen
<1>9. QED
  BY <1>6, <1>7, <1>8

Checked == {"checked", "analysed", "ranked", "informed", "answered"}
Ranked == {"analysed", "ranked", "informed", "answered"}

\* A lookup of the infrastructure was started if it was asked for, and what
\* the analysis takes for its answer is one it gave, or none.
LookupState ==
    /\ infra \in {"none", "disabled", "ok", "unavailable"}
    /\ apc = "start" => infraThread = "none"
    /\ apc \notin {"start", "failed"} => (infraThread = "none" <=> ~(request.area /\ request.avoid))
    /\ apc \in Checked => infra \in Contract!Statuses /\ (infra = "ok" => infraThread = "ok")

\* The sites that are kept are those of the contract.
SiteState ==
    /\ apc \in {"start", "begun", "prepared", "checked"} => kept = {} /\ top = 0
    /\ land \in Lands \cup {Unseen}
    /\ apc \in Ranked => land \in Lands
    /\ apc \in Ranked /\ request.threshold > 0 =>
          LET finalists == Contract!Finalists(land, infra)
          IN  /\ kept \subseteq finalists
              /\ kept = {} => finalists = {} /\ top = 0
              /\ kept # {} => Contract!Chosen(land, infra, top)

\* The response says what the analysis knows.
AnswerState ==
    /\ ~Over => answer = NoAnswer
    /\ apc = "failed" => answer = [status |-> "error"]
    /\ apc = "answered" =>
          /\ answer.infra = infra
          /\ \/ kept = {} /\ answer.status = "no_suitable_site" /\ answer.site = 0
             \/ /\ kept # {} /\ answer.status = "success"
                /\ answer.site = top /\ answer.others = kept \ {top} /\ answer.traced = top

AnalysisInv ==
    /\ request \in Requests
    /\ apc \in {"start", "begun", "prepared", "failed"} \cup Checked
    /\ LookupState /\ SiteState /\ AnswerState

LEMMA InitAnalysis == Init => AnalysisInv
BY DEF Init, AnalysisInit, AnalysisInv, LookupState, SiteState, AnswerState,
       Over, Checked, Ranked

\* What the lookup threads do leaves an answer that was taken as it is.
LEMMA LookupStep ==
    ASSUME AnalysisInv, Lookup
    PROVE  AnalysisInv' /\ UNCHANGED <<request, land, answer>>
<1>1. /\ UNCHANGED <<request, apc, infra, siteVars, storm, rain, answer>>
      /\ \/ infraThread \in {"edge", "local"} /\ infraThread' # "none"
         \/ UNCHANGED infraThread
  BY DEF Lookup, GatewayLookup, EdgeInfra, LocalInfra, EdgeClimate, LocalClimate
<1>2. UNCHANGED <<land, kept, top>>
  BY <1>1 DEF siteVars
<1>3. LookupState'
  BY <1>1 DEF AnalysisInv, LookupState, Contract!Statuses, Contract!Asked
<1>4. (SiteState /\ AnswerState)'
  BY <1>1, <1>2
  DEF AnalysisInv, SiteState, AnswerState, Over, Contract!Finalists,
      Contract!MayHold, Contract!Chosen
<1>5. QED
  BY <1>1, <1>2, <1>3, <1>4 DEF AnalysisInv

\* The steps before the ranking, and the rainfall after it: no answer yet.
LEMMA QuietStages ==
    ASSUME AnalysisInv,
           \/ GatewayBegin \/ PipelineBegin \/ GatewayPrepare \/ PipelinePrepare
           \/ Check \/ GatewayClimate
    PROVE  AnalysisInv' /\ UNCHANGED <<request, answer>> /\ answer = NoAnswer
<1> USE DEF AnalysisInv, siteVars, lookupVars
<1>1. CASE GatewayBegin \/ PipelineBegin
  <2>1. /\ apc = "start" /\ apc' = "begun" /\ infra' = infra
        /\ infraThread' = "none" <=> ~(request.area /\ request.avoid)
        /\ UNCHANGED <<request, land, kept, top, storm, answer>>
    BY <1>1 DEF GatewayBegin, PipelineBegin
  <2>2. LookupState'
    BY <2>1 DEF LookupState, Checked
  <2>3. SiteState'
    BY <2>1 DEF SiteState, Ranked
  <2>4. answer = NoAnswer /\ AnswerState'
    BY <2>1 DEF AnswerState, Over
  <2>5. QED
    BY <2>1, <2>2, <2>3, <2>4
<1>2. CASE GatewayPrepare \/ PipelinePrepare
  <2>1. /\ apc = "begun" /\ apc' = "prepared"
        /\ UNCHANGED <<request, infraThread, infra, land, kept, top, answer>>
    BY <1>2 DEF GatewayPrepare, PipelinePrepare
  <2>3. LookupState'
    BY <2>1 DEF LookupState, Checked
  <2>4. SiteState'
    BY <2>1 DEF SiteState, Ranked
  <2>5. answer = NoAnswer /\ AnswerState'
    BY <2>1 DEF AnswerState, Over
  <2>6. QED
    BY <2>1, <2>3, <2>4, <2>5
<1>3. CASE Check
  <2>1. /\ apc = "prepared" /\ apc' = "checked" /\ infra' = IF HasZones THEN Awaited ELSE "none"
        /\ UNCHANGED <<request, infraThread, land, kept, top, storm, answer>>
    BY <1>3 DEF Check
  <2>2. infraThread = "none" <=> ~(request.area /\ request.avoid)
    BY <2>1 DEF LookupState
  <2>3. /\ infra' \in {"none", "disabled", "ok", "unavailable"}
        /\ infra' = "ok" => infraThread = "ok"
    BY <2>1 DEF Awaited
  <2>4. (Contract!Statuses)' = Contract!Statuses /\ infra' \in Contract!Statuses
    BY <2>1, <2>2 DEF Awaited, HasZones, Contract!Statuses, Contract!Asked
  <2>5. LookupState'
    BY <2>1, <2>2, <2>3, <2>4 DEF LookupState
  <2>6. SiteState'
    BY <2>1 DEF SiteState, Ranked
  <2>7. answer = NoAnswer /\ AnswerState'
    BY <2>1 DEF AnswerState, Over
  <2>8. QED
    BY <2>1, <2>5, <2>6, <2>7 DEF Checked
<1>4. CASE GatewayClimate
  <2>1. /\ apc = "analysed" /\ apc' = "informed" /\ storm' = StormIf(rain')
        /\ UNCHANGED <<request, infraThread, infra, land, kept, top, answer>>
    BY <1>4 DEF GatewayClimate
  <2>2. LookupState'
    BY <2>1 DEF LookupState, Checked, Contract!Statuses, Contract!Asked
  <2>3. SiteState'
    BY <2>1 DEF SiteState, Ranked, Contract!Finalists, Contract!MayHold, Contract!Chosen
  <2>5. answer = NoAnswer /\ AnswerState'
    BY <2>1 DEF AnswerState, Over
  <2>6. QED
    BY <2>1, <2>2, <2>3, <2>5 DEF Checked
<1>5. QED
  BY <1>1, <1>2, <1>3, <1>4

\* The ranking of either deployment.
LEMMA RankStages ==
    ASSUME AnalysisInv, GatewayAnalyze \/ PipelineRank
    PROVE  AnalysisInv' /\ UNCHANGED <<request, answer>> /\ answer = NoAnswer
<1> USE DEF AnalysisInv
<1>1. PICK l \in Lands :
        Keep(l, TopN(Strict(l, Blocked(l), request.threshold), Blocked(l), request.sites))
  <2>1. CASE GatewayAnalyze
    BY <2>1 DEF GatewayAnalyze
  <2>2. CASE PipelineRank
    BY <2>2 DEF PipelineRank, Fallback
  <2>3. QED
    BY <2>1, <2>2
<1>2. /\ apc = "checked" /\ apc' \in {"analysed", "ranked"}
      /\ UNCHANGED <<request, infraThread, infra, storm, answer>>
  BY DEF GatewayAnalyze, PipelineRank, lookupVars
<1>3. land' = l /\ l \in Lands
  BY <1>1 DEF Keep
<1>4. ASSUME request.threshold > 0
      PROVE  LET finalists == Contract!Finalists(l, infra)
             IN  /\ kept' \subseteq finalists
                 /\ kept' = {} => finalists = {} /\ top' = 0
                 /\ kept' # {} => Contract!Chosen(l, infra, top')
  <2> DEFINE F == Contract!Finalists(l, infra)
  <2>1. Keep(l, F)
    BY <1>1, <1>4, CandidatesAreFinalists
  <2> HIDE DEF F
  <2>2. /\ kept' \subseteq F
        /\ F = {} => kept' = {} /\ top' = 0
        /\ F # {} => kept' # {} /\ Contract!Chosen(l, infra, top')
    BY <1>4, <2>1, KeepChooses DEF F
  <2>3. QED
    BY <2>2 DEF F
<1>5. SiteState'
  BY <1>2, <1>3, <1>4
  DEF SiteState, Ranked, Contract!Finalists, Contract!MayHold, Contract!Chosen
<1>6. LookupState'
  BY <1>2 DEF LookupState, Checked, Contract!Statuses, Contract!Asked
<1>8. answer = NoAnswer /\ AnswerState'
  BY <1>2 DEF AnswerState, Over
<1>9. QED
  BY <1>2, <1>5, <1>6, <1>8 DEF Checked

\* A failure, and an answer.
LEMMA FailStages ==
    ASSUME AnalysisInv, CheckRaises \/ GatewayFails \/ PipelineFails
    PROVE  /\ AnalysisInv' /\ UNCHANGED <<request, land>>
           /\ answer = NoAnswer /\ answer' = [status |-> "error"]
<1> USE DEF AnalysisInv
<1>1. /\ ~Over /\ apc' = "failed" /\ answer' = [status |-> "error"]
      /\ UNCHANGED <<request, infraThread, infra, land, kept, top, storm>>
  BY DEF CheckRaises, GatewayFails, PipelineFails, Fail, siteVars, lookupVars, Over
<1>2. LookupState'
  BY <1>1 DEF LookupState, Checked
<1>3. SiteState'
  BY <1>1 DEF SiteState, Ranked
<1>4. answer = NoAnswer /\ AnswerState'
  BY <1>1 DEF AnswerState, Over
<1>5. QED
  BY <1>1, <1>2, <1>3, <1>4

LEMMA AnswerStages ==
    ASSUME AnalysisInv, GatewayAnswer \/ PipelineAnswer
    PROVE  /\ AnalysisInv' /\ UNCHANGED <<request, land, infra, kept, top>>
           /\ apc \in Ranked /\ apc' = "answered" /\ answer = NoAnswer /\ answer' # NoAnswer
<1> USE DEF AnalysisInv
<1>1. /\ apc \in {"informed", "ranked"} /\ apc' = "answered"
      /\ UNCHANGED <<request, infraThread, infra, land, kept, top, storm>>
  BY DEF GatewayAnswer, PipelineAnswer, siteVars, lookupVars
<1>2. PICK used, known :
           answer' = IF kept = {} THEN [NoSite EXCEPT !.rain = known] ELSE Success(used)
  <2>1. CASE GatewayAnswer
    BY <2>1 DEF GatewayAnswer
  <2>2. CASE PipelineAnswer
    <3>1. NoSite = [NoSite EXCEPT !.rain = rain]
      BY DEF NoSite
    <3>2. QED
      BY <2>2, <3>1 DEF PipelineAnswer
  <2>3. QED
    BY <2>1, <2>2
<1>3. /\ answer'.infra = infra
      /\ \/ kept = {} /\ answer'.status = "no_suitable_site" /\ answer'.site = 0
         \/ /\ kept # {} /\ answer'.status = "success"
            /\ answer'.site = top /\ answer'.others = kept \ {top} /\ answer'.traced = top
  BY <1>2 DEF NoSite, Success, Traced
<1>4. AnswerState' /\ answer = NoAnswer
  BY <1>1, <1>3 DEF AnswerState, Over
<1>5. answer' # NoAnswer
  BY <1>3 DEF NoAnswer
<1>6. LookupState'
  BY <1>1 DEF LookupState, Checked, Contract!Statuses, Contract!Asked
<1>7. SiteState'
  BY <1>1
  DEF SiteState, Ranked, Contract!Finalists, Contract!MayHold, Contract!Chosen
<1>8. QED
  BY <1>1, <1>4, <1>5, <1>6, <1>7 DEF Checked, Ranked

\* A stage is one of the above.
LEMMA StageIsOne ==
    ASSUME Stage
    PROVE  \/ GatewayBegin \/ PipelineBegin \/ GatewayPrepare \/ PipelinePrepare
           \/ Check \/ GatewayClimate
           \/ GatewayAnalyze \/ PipelineRank
           \/ CheckRaises \/ GatewayFails \/ PipelineFails
           \/ GatewayAnswer \/ PipelineAnswer
BY DEF Stage, GatewayStage, PipelineStage

LEMMA StutterKeeps == AnalysisInv /\ UNCHANGED vars => AnalysisInv'
BY DEF vars, analysisVars, siteVars, lookupVars, AnalysisInv, LookupState, SiteState,
       AnswerState, Over, Contract!Finalists, Contract!MayHold,
       Contract!Chosen, Contract!Statuses, Contract!Asked

(***************************************************************************)
(* Every state of an analysis satisfies the invariant.                     *)
(***************************************************************************)
THEOREM AnalysisCorrect == Spec => []AnalysisInv
<1>1. Init => AnalysisInv
  BY InitAnalysis
<1>2. AnalysisInv /\ [Next]_vars => AnalysisInv'
  <2>1. ASSUME AnalysisInv, Stage PROVE AnalysisInv'
    BY <2>1, StageIsOne, QuietStages, RankStages, FailStages, AnswerStages
  <2>2. ASSUME AnalysisInv, Lookup PROVE AnalysisInv'
    BY <2>2, LookupStep
  <2>3. QED
    BY <2>1, <2>2, StutterKeeps DEF Next
<1>3. QED
  BY <1>1, <1>2, PTL DEF Spec

(***************************************************************************)
(* Whatever the candidates, the site that is put first is one of those     *)
(* that are kept, zeroed ones included.                                    *)
(***************************************************************************)
LEMMA KeepTypes ==
    ASSUME NEW l \in Lands, NEW C \in SUBSET Regions, Keep(l, C)
    PROVE  kept' \subseteq Regions /\ top' \in kept' \cup {0}
<1>1. Nearby(l, C) \subseteq C /\ (C # {} => Nearby(l, C) # {})
  BY DEF Nearby
<1>2. kept' = IF request.area THEN Nearby(l, C) ELSE C
  BY DEF Keep
<1>3. CASE C = {}
  BY <1>1, <1>2, <1>3 DEF Keep, Preferred
<1>4. CASE C # {} /\ request.area
  <2>1. NearestOf(l, Nearby(l, C)) \in Nearby(l, C)
    BY <1>1, <1>4, Nearest
  <2>2. top' = NearestOf(l, Nearby(l, C))
    BY <1>4 DEF Keep, Preferred
  <2>3. QED
    BY <1>1, <1>2, <1>4, <2>1, <2>2
<1>5. CASE C # {} /\ ~request.area
  <2>1. top' = BestOf(C, Blocked(l))
    BY <1>5 DEF Keep
  <2>2. QED
    BY <1>2, <1>5, <2>1, BestIsOne
<1>6. QED
  BY <1>3, <1>4, <1>5

LEMMA LookupTypes ==
    ASSUME TypeOK, AnalysisInv, Lookup
    PROVE  TypeOK'
<1>1. /\ UNCHANGED <<deployment, request, apc, infra, siteVars, storm, rain, answer>>
      /\ infraThread' \in {infraThread, "ok", "unavailable", "local", "raised"}
      /\ climateThread' \in {climateThread, "ready", "local"}
  BY DEF Lookup, GatewayLookup, EdgeInfra, LocalInfra, EdgeClimate, LocalClimate
<1>2. QED
  BY <1>1 DEF TypeOK, siteVars

LEMMA StageTypes ==
    ASSUME TypeOK, AnalysisInv, Stage
    PROVE  TypeOK'
<1> USE DEF siteVars, lookupVars
<1>1. UNCHANGED <<deployment, request>> /\ AnalysisInv'
  BY StageIsOne, QuietStages, RankStages, FailStages, AnswerStages DEF Stage
<1>2. /\ apc' \in {"start", "begun", "prepared", "checked", "analysed", "ranked",
                    "informed", "answered", "failed"}
      /\ infra' \in {"none", "disabled", "ok", "unavailable"}
      /\ land' \in Lands \cup {Unseen}
  BY <1>1 DEF AnalysisInv, LookupState, SiteState, Checked, Unseen, Regions
<1>3. /\ infraThread' \in {infraThread, "edge", "local", "none"}
      /\ climateThread' \in {climateThread, "edge", "none"}
  BY StageIsOne
  DEF GatewayBegin, PipelineBegin, GatewayPrepare, PipelinePrepare, Check, GatewayClimate,
      GatewayAnalyze, PipelineRank, CheckRaises, GatewayFails, PipelineFails, GatewayAnswer,
      PipelineAnswer
<1>4. storm' \in {"none", "default", "own", "recommended"} /\ rain' \in BOOLEAN
  <2>1. CASE GatewayClimate \/ PipelinePrepare
    BY <2>1 DEF GatewayClimate, PipelinePrepare, StormIf, PipelineStorm, TypeOK
  <2>2. CASE ~(GatewayClimate \/ PipelinePrepare)
    <3>1. UNCHANGED <<storm, rain>>
      BY <2>2, StageIsOne
      DEF GatewayBegin, PipelineBegin, GatewayPrepare, Check, GatewayAnalyze, PipelineRank,
          CheckRaises, GatewayFails, PipelineFails, Fail, GatewayAnswer, PipelineAnswer
    <3>2. QED
      BY <3>1 DEF TypeOK
  <2>3. QED
    BY <2>1, <2>2
<1>5. kept' \subseteq Regions /\ top' \in kept' \cup {0}
  <2>1. CASE GatewayAnalyze \/ PipelineRank
    <3>1. PICK l \in Lands :
            Keep(l, TopN(Strict(l, Blocked(l), request.threshold), Blocked(l), request.sites))
      BY <2>1 DEF GatewayAnalyze, PipelineRank, Fallback
    <3>2. TopN(Strict(l, Blocked(l), request.threshold), Blocked(l), request.sites)
          \in SUBSET Regions
      BY DEF TopN, Strict
    <3>3. QED
      BY <3>1, <3>2, KeepTypes
  <2>2. CASE ~(GatewayAnalyze \/ PipelineRank)
    <3>1. UNCHANGED <<kept, top>>
      BY <2>2, StageIsOne
      DEF GatewayBegin, PipelineBegin, GatewayPrepare, PipelinePrepare, Check, GatewayClimate,
          CheckRaises, GatewayFails, PipelineFails, Fail, GatewayAnswer, PipelineAnswer
    <3>2. QED
      BY <3>1 DEF TypeOK
  <2>3. QED
    BY <2>1, <2>2
<1>6. answer'.status \in {"none", "error", "success", "no_suitable_site"}
  BY <1>1, <1>2 DEF AnalysisInv, AnswerState, Over, NoAnswer
<1>7. QED
  BY <1>1, <1>2, <1>3, <1>4, <1>5, <1>6 DEF TypeOK

(***************************************************************************)
(* TypeOK: whatever the terrain, the zones and a threshold, 0 included,    *)
(* the site that is put first is one of those that are kept, or there is   *)
(* none.                                                                   *)
(***************************************************************************)
THEOREM TypeCorrect == Spec => []TypeOK
<1>1. ASSUME Init PROVE TypeOK
  <2>1. /\ deployment \in {"gateway", "single"}
        /\ apc = "start" /\ infraThread = "none" /\ climateThread = "none" /\ infra = "none"
        /\ land = Unseen /\ kept = {} /\ top = 0 /\ rain = FALSE
    BY <1>1 DEF Init, AnalysisInit
  <2>2. request \in Requests /\ storm = request.storm
    BY <1>1 DEF Init, AnalysisInit
  <2>3. storm \in {"none", "default", "own", "recommended"}
    BY <2>2, RequestAssumption
  <2>4. answer.status = "none"
    BY <1>1 DEF Init, AnalysisInit, NoAnswer
  <2>5. QED
    BY <2>1, <2>2, <2>3, <2>4 DEF TypeOK
<1>2. AnalysisInv /\ TypeOK /\ [Next]_vars => TypeOK'
  <2>1. AnalysisInv /\ TypeOK /\ UNCHANGED vars => TypeOK'
    BY DEF TypeOK, vars, analysisVars, siteVars, lookupVars
  <2>2. QED
    BY <2>1, LookupTypes, StageTypes DEF Next
<1>3. QED
  BY <1>1, <1>2, AnalysisCorrect, PTL DEF Spec

(***************************************************************************)
(* NoBuildKept: no site on ground that the answer says was kept free, for  *)
(* any terrain, zones and number of candidates.                            *)
(***************************************************************************)
THEOREM NoBuildCorrect == Spec => []NoBuildKept
<1>1. AnalysisInv => NoBuildKept
  <2> SUFFICES ASSUME AnalysisInv, answer.status = "success", request.threshold > 0,
                      NEW r \in {answer.site} \cup answer.others
               PROVE  /\ land.ground[r] = "marked" => ~(request.area /\ request.marks)
                      /\ answer.infra = "ok" => land.ground[r] # "mapped" /\ land.dist[r] <= Survey
    BY DEF NoBuildKept
  <2>1. apc = "answered"
    BY DEF AnalysisInv, AnswerState, NoAnswer, Over
  <2>2. kept # {} /\ r \in {top} \cup kept /\ answer.infra = infra
    BY <2>1 DEF AnalysisInv, AnswerState
  <2>3. r \in Contract!Finalists(land, infra)
    BY <2>1, <2>2 DEF AnalysisInv, SiteState, Ranked, Contract!Chosen
  <2>4. Contract!MayHold(land, infra, r)
    BY <2>3 DEF Contract!Finalists
  <2>5. QED
    BY <2>2, <2>4 DEF Contract!MayHold
<1>2. QED
  BY <1>1, AnalysisCorrect, PTL

(***************************************************************************)
(* StatusHonest: a lookup that is late, fails or raises is never reported  *)
(* as one that found nothing.                                              *)
(***************************************************************************)
THEOREM StatusCorrect == Spec => []StatusHonest
<1>1. AnalysisInv => StatusHonest
  <2> SUFFICES ASSUME AnalysisInv, Over, answer.status # "error"
               PROVE  /\ answer.infra = "ok" => infraThread = "ok"
                      /\ answer.infra = "unavailable" => request.area /\ request.avoid
                      /\ answer.infra \in {"none", "disabled"} => ~(request.area /\ request.avoid)
    BY DEF StatusHonest
  <2>1. apc = "answered" /\ answer.infra = infra
    BY DEF AnalysisInv, AnswerState, Over
  <2>2. infra \in Contract!Statuses /\ (infra = "ok" => infraThread = "ok")
    BY <2>1 DEF AnalysisInv, LookupState, Checked
  <2>3. QED
    BY <2>1, <2>2 DEF Contract!Statuses, Contract!Asked
<1>2. QED
  BY <1>1, AnalysisCorrect, PTL

\* The storm of a request that must be kept is kept, and a storm that is set
\* is the one the answer is for.
StormState ==
    /\ StormIsUsers => storm = request.storm
    /\ answer.status = "success" /\ storm # "none" => answer.storm = storm

LEMMA StormStep ==
    ASSUME AnalysisInv, StormState, [Next]_vars
    PROVE  StormState'
<1> USE DEF lookupVars, siteVars
<1>1. CASE UNCHANGED vars \/ Lookup
  <2>1. UNCHANGED <<deployment, request, storm, answer>>
    BY <1>1
    DEF vars, analysisVars, Lookup, GatewayLookup, EdgeInfra, LocalInfra, EdgeClimate, LocalClimate
  <2>2. QED
    BY <2>1 DEF StormState, StormIsUsers
<1>2. CASE Stage
  <2>1. UNCHANGED <<deployment, request>>
    BY <1>2, StageIsOne, QuietStages, RankStages, FailStages, AnswerStages DEF Stage
  <2>2. StormIsUsers' = StormIsUsers
    BY <2>1 DEF StormIsUsers
  <2>3. ASSUME UNCHANGED <<storm, answer>> PROVE StormState'
    BY <2>1, <2>2, <2>3 DEF StormState
  <2>4. CASE GatewayBegin \/ PipelineBegin \/ GatewayPrepare \/ Check \/ GatewayAnalyze \/ PipelineRank
    BY <2>3, <2>4 DEF GatewayBegin, PipelineBegin, GatewayPrepare, Check, GatewayAnalyze, PipelineRank
  <2>5. CASE CheckRaises \/ GatewayFails \/ PipelineFails
    <3>1. UNCHANGED storm /\ answer' = [status |-> "error"]
      BY <2>5 DEF CheckRaises, GatewayFails, PipelineFails, Fail
    <3>2. QED
      BY <2>1, <2>2, <3>1 DEF StormState
  <2>6. CASE GatewayClimate
    <3>1. storm' = StormIf(rain') /\ answer' = NoAnswer
      BY <2>6, QuietStages DEF GatewayClimate
    <3>2. StormIsUsers => storm # "none"
      BY DEF StormState, StormIsUsers
    <3>3. QED
      BY <2>1, <2>2, <3>1, <3>2 DEF StormState, StormIf, NoAnswer
  <2>7. CASE deployment = "single" /\ PipelinePrepare
    <3>1. storm' = PipelineStorm(rain') /\ answer' = NoAnswer
      BY <2>7, QuietStages DEF PipelinePrepare
    <3>2. StormIsUsers => storm \notin {"none", "default"}
      BY <2>7 DEF StormState, StormIsUsers
    <3>3. QED
      BY <2>1, <2>2, <3>1, <3>2 DEF StormState, PipelineStorm, NoAnswer
  <2>8. CASE GatewayAnswer \/ PipelineAnswer
    <3>1. UNCHANGED storm
      BY <2>8 DEF GatewayAnswer, PipelineAnswer
    <3>2. answer'.status = "success" /\ storm # "none" => answer'.storm = storm
      BY <2>8 DEF GatewayAnswer, PipelineAnswer, NoSite, Success
    <3>3. QED
      BY <2>1, <2>2, <3>1, <3>2 DEF StormState
  <2>9. QED
    BY <1>2, <2>4, <2>5, <2>6, <2>7, <2>8 DEF Stage, GatewayStage, PipelineStage
<1>3. QED
  BY <1>1, <1>2 DEF Next

(***************************************************************************)
(* StormRespected: the storm the user asked for is the one that is used,   *)
(* by the gateway whatever it is, by the single-node application unless it *)
(* is 100 mm.                                                              *)
(***************************************************************************)
THEOREM StormCorrect == Spec => []StormRespected
<1>1. Init => StormState
  BY DEF Init, AnalysisInit, StormState, NoAnswer
<1>2. StormState => StormRespected
  BY DEF StormState, StormRespected, StormIsUsers
<1>3. QED
  BY <1>1, <1>2, AnalysisCorrect, StormStep, PTL DEF Spec

\* A step of the analysis is a step of the contract, or none.
LEMMA StepRefines ==
    ASSUME AnalysisInv, [Next]_vars
    PROVE  [Contract!Next]_<<request, IF answer = NoAnswer THEN Unseen ELSE land, answer>>
<1> DEFINE terrain == IF answer = NoAnswer THEN Unseen ELSE land
<1>1. CASE UNCHANGED vars
  BY <1>1 DEF vars, analysisVars, siteVars
<1>2. CASE Lookup
  BY <1>2, LookupStep
<1>3. CASE \/ GatewayBegin \/ PipelineBegin \/ GatewayPrepare \/ PipelinePrepare
           \/ Check \/ GatewayClimate \/ GatewayAnalyze \/ PipelineRank
  BY <1>3, QuietStages, RankStages
<1>4. CASE CheckRaises \/ GatewayFails \/ PipelineFails
  <2>1. /\ UNCHANGED <<request, land>> /\ answer = NoAnswer /\ answer' = [status |-> "error"]
    BY <1>4, FailStages
  <2>2. land' \in Lands \cup {Contract!Unseen}
    BY <2>1 DEF AnalysisInv, SiteState, Unseen, Contract!Unseen, Regions
  <2>3. answer' # NoAnswer /\ answer.status = "none"
    BY <2>1 DEF NoAnswer
  <2>4. Contract!Refuse
    BY <2>1, <2>2, <2>3 DEF Contract!Refuse
  <2>5. QED
    BY <2>4 DEF Contract!Next
<1>5. CASE GatewayAnswer \/ PipelineAnswer
  <2>1. /\ AnalysisInv' /\ UNCHANGED <<request, land, infra, kept, top>>
        /\ apc \in Ranked /\ apc' = "answered" /\ answer = NoAnswer /\ answer' # NoAnswer
    BY <1>5, AnswerStages
  <2>2. /\ answer'.infra = infra
        /\ \/ kept = {} /\ answer'.status = "no_suitable_site" /\ answer'.site = 0
           \/ /\ kept # {} /\ answer'.status = "success"
              /\ answer'.site = top /\ answer'.others = kept \ {top} /\ answer'.traced = top
    BY <2>1 DEF AnalysisInv, AnswerState
  <2>3. /\ land \in Lands /\ infra \in Contract!Statuses /\ answer.status = "none"
    BY <2>1 DEF AnalysisInv, SiteState, LookupState, NoAnswer, Checked, Ranked
  <2>4. request.threshold = 0 \/ request.threshold > 0
    BY RequestAssumption DEF AnalysisInv
  <2> DEFINE F == Contract!Finalists(land, infra)
  <2>5. CASE request.threshold = 0
    BY <2>1, <2>2, <2>3, <2>5 DEF Contract!Next, Contract!Reply
  <2>6. CASE request.threshold > 0
    <3>1. /\ kept \subseteq F
          /\ kept = {} => F = {}
          /\ kept # {} => Contract!Chosen(land, infra, top)
      BY <2>1, <2>6 DEF AnalysisInv, SiteState
    <3> HIDE DEF F
    <3>2. \/ F = {} /\ answer'.status = "no_suitable_site" /\ answer'.site = 0
          \/ /\ answer'.status = "success"
             /\ Contract!Chosen(land, infra, answer'.site)
             /\ answer'.others \subseteq F \ {answer'.site}
             /\ answer'.traced = answer'.site
      BY <2>2, <3>1
    <3>3. terrain' = land
      BY <2>1
    <3>4. Contract!Reply
      BY <2>1, <2>2, <2>3, <3>2, <3>3 DEF Contract!Reply, F
    <3>5. QED
      BY <3>4 DEF Contract!Next
  <2>7. QED
    BY <2>4, <2>5, <2>6
<1>6. QED
  BY <1>1, <1>2, <1>3, <1>4, <1>5, StageIsOne DEF Next

(***************************************************************************)
(* Both deployments implement SiteContract: the site of an answer is the   *)
(* one the request calls for, on every terrain.                            *)
(***************************************************************************)
THEOREM ContractCorrect == Spec => ImplementsContract
<1>1. Init => Contract!Init
  BY DEF Init, AnalysisInit, NoAnswer, Unseen, Regions, Contract!Init, Contract!Unseen
<1>2. QED
  BY <1>1, StepRefines, AnalysisCorrect, PTL DEF Spec, ImplementsContract, Contract!Spec
============================================================================
