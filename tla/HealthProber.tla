---------------------------- MODULE HealthProber ----------------------------
(***************************************************************************)
(* The active health prober of the gateway node and the Nginx routes it    *)
(* writes: scripts/cluster_health_prober.py.                               *)
(*                                                                         *)
(* Each round probes the four nodes, moves their thresholded states and    *)
(* installs a map file when the routes that follow from the states differ  *)
(* from the file on disk.  Nginx sees a file only once it was validated    *)
(* and reloaded: file and loaded are two different things, and the prober  *)
(* may fail, raise or die at every step between them.                      *)
(***************************************************************************)
EXTENDS Naturals, Sequences

CONSTANTS
    MaxFlips,    \* bound: how often nodes start or stop answering
    MaxFailures, \* bound: failed validations and reloads
    MaxCuts      \* bound: crashes and exceptions of the prober

ASSUME ProberAssumption ==
    MaxFlips \in Nat /\ MaxFailures \in Nat /\ MaxCuts \in Nat

VARIABLES
    alive,      \* nodes whose /health answers 200 at the moment
    failures,   \* failures[name]
    successes,  \* successes[name]
    state,      \* state[name]
    seen,       \* history: the last three probes of each node
    ppc,        \* where the prober is
    file,       \* MAP_FILE
    previous,   \* what install_nginx_maps() read before it replaced the file
    loaded,     \* the routes Nginx runs with
    torn,       \* history: an install was cut short and none completed since
    flips, failed, cuts   \* counters for the bounds

routeVars == <<file, previous, loaded, torn>>
probeVars == <<failures, successes, state, seen>>
proberVars == <<alive, probeVars, ppc, routeVars, flips, failed, cuts>>

BACKENDS == {"sys1", "sys2", "sys3", "sys4"}
FAILURE_THRESHOLD == 3
RECOVERY_THRESHOLD == 2

Routes == {"parsing", "terrain", "frontend", "gateway", "edge"}
Targets == BACKENDS \cup {"unavailable"}
NoFile == [r \in Routes |-> "none"]

\* The nodes an Nginx location can be served by, the preferred one first.
Able(r) == CASE r = "parsing"  -> <<"sys2", "sys3">>
             [] r = "terrain"  -> <<"sys3", "sys2">>
             [] r = "frontend" -> <<"sys1">>
             [] r = "gateway"  -> <<"sys4">>
             [] r = "edge"     -> <<"sys1", "sys4">>
AbleSet(r) == {Able(r)[i] : i \in DOMAIN Able(r)}
----------------------------------------------------------------------------
(* nginx_map_text(): the routes that follow from the states. *)

\* Slip: a node of unknown state is taken for an unhealthy one.
UpIfHealthy(s, b) == s[b] = "healthy"

Up(s, b) == s[b] # "unhealthy"

UpOr(s, b, otherwise) == IF Up(s, b) THEN b ELSE otherwise

\* Slip: the edge's routes end with the edge.
MapsNoCover(s) ==
    [r \in Routes |->
        CASE r = "parsing"  -> UpOr(s, "sys2", UpOr(s, "sys3", "unavailable"))
          [] r = "terrain"  -> UpOr(s, "sys3", UpOr(s, "sys2", "unavailable"))
          [] r \in {"frontend", "edge"} -> UpOr(s, "sys1", "unavailable")
          [] r = "gateway"  -> UpOr(s, "sys4", "unavailable")]

Maps(s) ==
    [r \in Routes |->
        CASE r = "parsing"  -> UpOr(s, "sys2", UpOr(s, "sys3", "unavailable"))
          [] r = "terrain"  -> UpOr(s, "sys3", UpOr(s, "sys2", "unavailable"))
          [] r = "frontend" -> UpOr(s, "sys1", "unavailable")
          [] r = "gateway"  -> UpOr(s, "sys4", "unavailable")
          [] r = "edge"     -> UpOr(s, "sys1", UpOr(s, "sys4", "unavailable"))]
----------------------------------------------------------------------------
(* One round of probes. *)

\* Counters are compared with a threshold only, so they stop there.
Bump(n, limit) == IF n < limit THEN n + 1 ELSE n

\* Slip: a success does not end a streak of failures.
NewFailuresKept(b, ok) == IF ok THEN failures[b] ELSE Bump(failures[b], FAILURE_THRESHOLD)

NewFailures(b, ok) == IF ok THEN 0 ELSE Bump(failures[b], FAILURE_THRESHOLD)
NewSuccesses(b, ok) == IF ok THEN Bump(successes[b], RECOVERY_THRESHOLD) ELSE 0

NewState(b, ok) ==
    IF ok
    THEN IF \/ state[b] \in {"unknown", "healthy"}
            \/ NewSuccesses(b, ok) >= RECOVERY_THRESHOLD
         THEN "healthy" ELSE state[b]
    ELSE IF NewFailures(b, ok) >= FAILURE_THRESHOLD THEN "unhealthy" ELSE state[b]

\* What main() starts with, at first and after a crash.
Zero == [b \in BACKENDS |-> 0]
Unknown == [b \in BACKENDS |-> "unknown"]
Unseen == [b \in BACKENDS |-> <<"none", "none", "none">>]

\* The file is shipped with the deployment, or the prober writes the first one.
ProberInit ==
    /\ alive \in SUBSET BACKENDS
    /\ failures = Zero /\ successes = Zero
    /\ state = Unknown /\ seen = Unseen
    /\ ppc = "probe"
    /\ file \in {NoFile, Maps(state)}
    /\ previous = NoFile
    /\ loaded = file
    /\ torn = FALSE
    /\ flips = 0 /\ failed = 0 /\ cuts = 0

\* A node starts or stops answering.  Each node is probed once in a round, so
\* a change during a round is one before it or after it.
Flip(b) ==
    /\ flips < MaxFlips
    /\ flips' = flips + 1
    /\ alive' = IF b \in alive THEN alive \ {b} ELSE alive \cup {b}
    /\ UNCHANGED <<probeVars, ppc, routeVars, failed, cuts>>

Round ==
    /\ ppc = "probe"
    /\ failures' = [b \in BACKENDS |-> NewFailures(b, b \in alive)]
    /\ successes' = [b \in BACKENDS |-> NewSuccesses(b, b \in alive)]
    /\ state' = [b \in BACKENDS |-> NewState(b, b \in alive)]
    /\ seen' = [b \in BACKENDS |->
                  <<seen[b][2], seen[b][3], IF b \in alive THEN "ok" ELSE "bad">>]
    /\ ppc' = "install"
    /\ UNCHANGED <<alive, routeVars, flips, failed, cuts>>
----------------------------------------------------------------------------
(* install_nginx_maps() *)

Keep ==
    /\ ppc = "install"
    /\ file = Maps(state)
    /\ ppc' = "probe"
    /\ UNCHANGED <<alive, probeVars, routeVars, flips, failed, cuts>>

Replace ==
    /\ ppc = "install"
    /\ file # Maps(state)
    /\ previous' = file
    /\ file' = Maps(state)
    /\ ppc' = "validate"
    /\ UNCHANGED <<alive, probeVars, loaded, torn, flips, failed, cuts>>

Validate ==
    /\ ppc = "validate"
    /\ ppc' = "reload"
    /\ UNCHANGED <<alive, probeVars, routeVars, flips, failed, cuts>>

Reload ==
    /\ ppc = "reload"
    /\ loaded' = file
    /\ torn' = FALSE
    /\ previous' = NoFile
    /\ ppc' = "probe"
    /\ UNCHANGED <<alive, probeVars, file, flips, failed, cuts>>

\* Slip: a failed validation or reload leaves the new file where it is.
FailsNoRollback ==
    /\ ppc \in {"validate", "reload"}
    /\ failed < MaxFailures
    /\ failed' = failed + 1
    /\ torn' = (torn \/ previous = NoFile)
    /\ previous' = NoFile
    /\ ppc' = "probe"
    /\ UNCHANGED <<alive, probeVars, file, loaded, flips, cuts>>

\* nginx -t or nginx -s reload fails: roll back, if there was a file before.
Fails ==
    /\ ppc \in {"validate", "reload"}
    /\ failed < MaxFailures
    /\ failed' = failed + 1
    /\ file' = IF previous # NoFile THEN previous ELSE file
    /\ torn' = (torn \/ previous = NoFile)
    /\ previous' = NoFile
    /\ ppc' = "probe"
    /\ UNCHANGED <<alive, probeVars, loaded, flips, cuts>>

\* The file cannot be written, or a command cannot be run: main() swallows the
\* exception, and nothing is undone.
Raises ==
    /\ ppc \in {"install", "validate", "reload"}
    /\ cuts < MaxCuts
    /\ cuts' = cuts + 1
    /\ torn' = (torn \/ ppc # "install")
    /\ previous' = NoFile
    /\ ppc' = "probe"
    /\ UNCHANGED <<alive, probeVars, file, loaded, flips, failed>>

\* The memory is lost; supervisor starts the prober again.
Crash ==
    /\ ppc # "down"
    /\ cuts < MaxCuts
    /\ cuts' = cuts + 1
    /\ torn' = (torn \/ ppc \in {"validate", "reload"})
    /\ previous' = NoFile
    /\ failures' = Zero /\ successes' = Zero
    /\ state' = Unknown /\ seen' = Unseen
    /\ ppc' = "down"
    /\ UNCHANGED <<alive, file, loaded, flips, failed>>

Restart ==
    /\ ppc = "down"
    /\ ppc' = "probe"
    /\ UNCHANGED <<alive, probeVars, routeVars, flips, failed, cuts>>

Work == Round \/ Keep \/ Replace \/ Validate \/ Reload \/ Restart
ProberNext == Work \/ Fails \/ Raises \/ Crash \/ \E b \in BACKENDS : Flip(b)

\* The loop goes on, a command that can succeed does once it no longer fails,
\* and supervisor restarts the prober.
ProberFairness == WF_proberVars(Work)
----------------------------------------------------------------------------
(* Properties *)

ThreeBad == <<"bad", "bad", "bad">>
TwoOk(s) == s[2] = "ok" /\ s[3] = "ok"

(* A node is condemned by exactly three failed probes in a row and pardoned *)
(* by exactly two good ones, counted by what the probes said and not by the *)
(* prober's counters: a flapping node neither leaves the routing nor comes  *)
(* back too early (or too late).                                            *)
Hysteresis ==
    [][ppc = "probe" /\ ppc' = "install" => \A b \in BACKENDS :
         /\ seen'[b] = ThreeBad => state'[b] = "unhealthy"
         /\ TwoOk(seen'[b]) => state'[b] = "healthy"
         /\ state[b] # "unhealthy" /\ state'[b] = "unhealthy" => seen'[b] = ThreeBad
         /\ state[b] = "unhealthy" /\ state'[b] = "healthy" => TwoOk(seen'[b])]_proberVars

(* Between two installs Nginx runs with the file on disk, so that comparing *)
(* the file with the wanted text is as good as asking Nginx, unless an      *)
(* install was cut short by a crash, an exception or a first file that      *)
(* could not be validated.                                                  *)
LoadedIsInstalled == ppc = "probe" => loaded = file \/ torn

(* When Nginx takes up new routes, a location leaves a node it prefers only *)
(* if a thresholded failure removed that node: "unknown state keeps the     *)
(* configured route" through restarts, rollbacks and half-done installs.    *)
OnlyUnhealthyLeave ==
    [][\A r \in Routes : loaded'[r] # loaded[r] =>
         \A b \in AbleSet(r) :
            \/ state[b] = "unhealthy"
            \/ \E i, j \in DOMAIN Able(r) : Able(r)[i] = loaded'[r] /\ Able(r)[j] = b /\ i <= j]_loaded

Served(r) ==
    IF AbleSet(r) \cap alive # {}
    THEN loaded[r] \in AbleSet(r) \cap alive
    ELSE loaded[r] = "unavailable"

(* Once the nodes stop changing, every location ends up at a living node    *)
(* that can serve it, if there is one: failed validations and reloads are   *)
(* retried.  Only an install that was cut short may prevent it.             *)
RoutingFollows == <>[](torn \/ \A r \in Routes : Served(r))
============================================================================
