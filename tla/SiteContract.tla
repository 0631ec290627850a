---------------------------- MODULE SiteContract ----------------------------
(***************************************************************************)
(* What an analysis promises, whichever deployment runs it: one answer,    *)
(* and for the terrain it found, the site that the request calls for.      *)
(***************************************************************************)
EXTENDS Naturals, FiniteSets

CONSTANTS NumRegions, Radius, Survey, Requests, Terrains

VARIABLES request, terrain, answer

Unseen == [dist |-> [r \in 1..NumRegions |-> 0]]
Asked == request.area /\ (request.avoid \/ request.marks)

\* A region that passes the criteria and may be built on, as far as the
\* infrastructure is known.
MayHold(land, status, r) ==
    /\ land.level[r] = "strict"
    /\ land.ground[r] = "marked" => ~(request.area /\ request.marks)
    /\ status = "ok" => land.ground[r] # "mapped" /\ land.dist[r] <= Survey

\* The best of them, as many as were asked for.
Finalists(land, status) ==
    LET held == {r \in 1..NumRegions : MayHold(land, status, r)}
    IN  {r \in held : Cardinality({s \in held : s < r}) < request.sites}

\* The nearest of the finalists if an area was selected, the best otherwise.
Chosen(land, status, site) ==
    /\ site \in Finalists(land, status)
    /\ \A s \in Finalists(land, status) :
         IF request.area THEN land.dist[site] <= land.dist[s] ELSE site <= s

\* What is said of the infrastructure: nothing without zones, and otherwise
\* whether it was looked up.
Statuses ==
    IF ~Asked THEN {"none"} ELSE IF request.avoid THEN {"ok", "unavailable"} ELSE {"disabled"}

\* The form's fields; those that only tune the terrain are in Terrains.
Init == request \in Requests /\ terrain = Unseen /\ answer = [status |-> "none"]

Refuse ==
    /\ answer.status = "none"
    /\ answer' = [status |-> "error"]
    /\ terrain' \in Terrains \cup {Unseen}
    /\ UNCHANGED request

\* An answer names a site if there is one, and the catchment is that of the
\* site.  Nothing is promised to a request whose threshold is 0, which the
\* cells that may not be built on reach as well.
Reply ==
    /\ answer.status = "none"
    /\ terrain' \in Terrains
    /\ answer'.infra \in Statuses
    /\ LET finalists == Finalists(terrain', answer'.infra)
       IN  \/ request.threshold = 0
           \/ /\ finalists = {}
              /\ answer'.status = "no_suitable_site" /\ answer'.site = 0
           \/ /\ answer'.status = "success"
              /\ Chosen(terrain', answer'.infra, answer'.site)
              /\ answer'.others \subseteq finalists \ {answer'.site}
              /\ answer'.traced = answer'.site
    /\ UNCHANGED request

Next == Refuse \/ Reply

Spec == Init /\ [][Next]_<<request, terrain, answer>>
=============================================================================
