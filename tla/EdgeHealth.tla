----------------------------- MODULE EdgeHealth -----------------------------
(***************************************************************************)
(* The health prober and a service under the watchdog, together: one of    *)
(* the probed nodes runs its service under scripts/watchdog.py, so whether *)
(* it answers the prober is what the watchdog and the process make of it.  *)
(* The other nodes come and go on their own.                               *)
(***************************************************************************)
EXTENDS HealthProber, Watchdog

CONSTANTS
    Watched,   \* the node whose service the watchdog runs
    MayBeDown  \* bound: the nodes that may be down when the prober starts

ASSUME WatchedAssumption == Watched \in BACKENDS /\ MayBeDown \subseteq BACKENDS

vars == <<proberVars, watchVars>>

Init ==
    /\ ProberInit
    /\ WatchInit
    /\ \E down \in SUBSET MayBeDown : alive = BACKENDS \ (down \cup {Watched})

ProberStep ==
    /\ Work \/ Fails \/ Raises \/ Crash
    /\ UNCHANGED watchVars

NodeStep ==
    /\ \E b \in BACKENDS \ {Watched} : Flip(b)
    /\ UNCHANGED watchVars

WatchStep ==
    /\ WatchNext
    /\ alive' = IF child' = "serving" THEN alive \cup {Watched} ELSE alive \ {Watched}
    /\ UNCHANGED <<probeVars, ppc, routeVars, flips, failed, cuts>>

Next == ProberStep \/ NodeStep \/ WatchStep
Spec == Init /\ [][Next]_vars
FairSpec == Spec /\ ProberFairness /\ WatchFairness

\* What is remembered of three probes or checks.
LastThree == {"none", "ok", "bad"} \X {"none", "ok", "bad"} \X {"none", "ok", "bad"}

TypeOK ==
    /\ alive \subseteq BACKENDS
    /\ failures \in [BACKENDS -> 0..FAILURE_THRESHOLD]
    /\ successes \in [BACKENDS -> 0..RECOVERY_THRESHOLD]
    /\ state \in [BACKENDS -> {"unknown", "healthy", "unhealthy"}]
    /\ seen \in [BACKENDS -> LastThree]
    /\ ppc \in {"probe", "install", "validate", "reload", "down"}
    /\ {file, previous, loaded} \subseteq [Routes -> Targets \cup {"none"}]
    /\ torn \in BOOLEAN
    /\ flips \in 0..MaxFlips /\ failed \in 0..MaxFailures /\ cuts \in 0..MaxCuts
    /\ wpc \in {"start", "watch", "kill", "gone"}
    /\ child \in {"none", "starting", "serving", "hung", "dead"}
    /\ (Watched \in alive <=> child = "serving")
    /\ warmup \in 0..StartChecks
    /\ hfail \in 0..Unanswered
    /\ checks \in LastThree
    /\ troubles \in 0..MaxTroubles
============================================================================
