------------------------------ MODULE Watchdog ------------------------------
(***************************************************************************)
(* The process watchdog: scripts/watchdog.py.  It starts one service,      *)
(* starts it again when it died, and kills and restarts it when three      *)
(* health checks in a row went unanswered.  A service needs a while to     *)
(* come up, and the first checks of a new process find it not ready.       *)
(***************************************************************************)
EXTENDS Naturals, Sequences

CONSTANTS
    StartChecks, \* most checks that a start can take
    MaxTroubles  \* bound: hangs, deaths, lost checks and failed starts

ASSUME WatchdogAssumption == StartChecks \in Nat /\ MaxTroubles \in Nat

VARIABLES
    wpc,        \* where run() is
    child,      \* what the service does
    warmup,     \* checks the starting service may still miss
    hfail,      \* self.consecutive_health_failures
    checks,     \* history: last three checks of the present process
    troubles    \* counter for the bound

watchVars == <<wpc, child, warmup, hfail, checks, troubles>>

NoChecks == <<"none", "none", "none">>
Unanswered == 3   \* consecutive failures that kill the child

WatchInit ==
    /\ wpc = "start"
    /\ child = "none"
    /\ warmup = 0
    /\ hfail = 0
    /\ checks = NoChecks
    /\ troubles = 0
----------------------------------------------------------------------------
(* The service. *)

Ready ==
    /\ child = "starting"
    /\ child' = "serving"
    /\ warmup' = 0
    /\ UNCHANGED <<wpc, hfail, checks, troubles>>

\* It hangs, or it dies by itself.
Trouble ==
    /\ child \in {"starting", "serving"}
    /\ troubles < MaxTroubles
    /\ troubles' = troubles + 1
    /\ child' \in {"hung", "dead"}
    /\ warmup' = 0
    /\ UNCHANGED <<wpc, hfail, checks>>
----------------------------------------------------------------------------
(* run() *)

\* Slip: the count of the old process is held against the new one.
StartCarriesCount ==
    /\ wpc = "start"
    /\ child' = "starting"
    /\ warmup' = StartChecks
    /\ checks' = NoChecks
    /\ wpc' = "watch"
    /\ UNCHANGED <<hfail, troubles>>

\* _start_child() and the sleep that follows it.
Start ==
    /\ wpc = "start"
    /\ child' = "starting"
    /\ warmup' = StartChecks
    /\ hfail' = 0
    /\ checks' = NoChecks
    /\ wpc' = "watch"
    /\ UNCHANGED troubles

\* Popen raises: the first time it ends the watchdog, later the loop goes on
\* with the dead process.
StartFails ==
    /\ wpc = "start"
    /\ troubles < MaxTroubles
    /\ troubles' = troubles + 1
    /\ wpc' = IF child = "none" THEN "gone" ELSE "watch"
    /\ UNCHANGED <<child, warmup, hfail, checks>>

\* process.poll(): it died.
FindsDead ==
    /\ wpc = "watch"
    /\ child = "dead"
    /\ wpc' = "start"
    /\ UNCHANGED <<child, warmup, hfail, checks, troubles>>

Remember(result) == checks' = <<checks[2], checks[3], result>>

\* Slip: failures add up although the service answered in between.
AnsweredKeepsCount ==
    /\ wpc = "watch"
    /\ child = "serving"
    /\ Remember("ok")
    /\ UNCHANGED <<wpc, child, warmup, hfail, troubles>>

Answered ==
    /\ wpc = "watch"
    /\ child = "serving"
    /\ hfail' = 0
    /\ Remember("ok")
    /\ UNCHANGED <<wpc, child, warmup, troubles>>

\* Slip: a check that ends in an exception counts for nothing.
MissedForgiven ==
    /\ wpc = "watch"
    /\ \/ child = "hung" /\ UNCHANGED <<warmup, troubles>>
       \/ child = "starting" /\ warmup > 0 /\ warmup' = warmup - 1 /\ UNCHANGED troubles
    /\ Remember("bad")
    /\ UNCHANGED <<wpc, child, hfail>>

\* The check fails: the service hangs, is not up yet, or answers too late.
Missed ==
    /\ wpc = "watch"
    /\ \/ child = "hung" /\ UNCHANGED <<warmup, troubles>>
       \/ child = "starting" /\ warmup > 0 /\ warmup' = warmup - 1 /\ UNCHANGED troubles
       \/ child = "serving" /\ troubles < MaxTroubles /\ troubles' = troubles + 1 /\ UNCHANGED warmup
    /\ hfail' = hfail + 1
    /\ Remember("bad")
    /\ wpc' = IF hfail + 1 >= Unanswered THEN "kill" ELSE "watch"
    /\ UNCHANGED child

\* _stop_child(): terminate, and kill after five seconds.
Stop ==
    /\ wpc = "kill"
    /\ child' = "dead"
    /\ wpc' = "start"
    /\ UNCHANGED <<warmup, hfail, checks, troubles>>

\* _on_signal()
Terminate ==
    /\ wpc # "gone"
    /\ troubles < MaxTroubles
    /\ troubles' = troubles + 1
    /\ child' = IF child = "none" THEN "none" ELSE "dead"
    /\ wpc' = "gone"
    /\ UNCHANGED <<warmup, hfail, checks>>

Loop == Start \/ FindsDead \/ Answered \/ Missed \/ Stop
WatchNext == Ready \/ Trouble \/ Loop \/ StartFails \/ Terminate

\* The loop goes on, and a service that starts comes up.
WatchFairness == WF_watchVars(Loop) /\ WF_watchVars(Ready)
----------------------------------------------------------------------------
(* The child is killed exactly when the three latest checks of this very   *)
(* process failed: nothing its predecessor did, and nothing it did before  *)
(* it last answered, is held against it.                                   *)
KilledForCause ==
    [][wpc = "watch" /\ child \notin {"none", "dead"} /\ wpc' # "gone"
         => (wpc' = "kill" <=> checks' = <<"bad", "bad", "bad">>)]_watchVars

(* Whatever happens to the service, it answers again, unless the watchdog  *)
(* was told to stop or could not start it in the first place.              *)
ServiceReturns == child # "serving" ~> (child = "serving" \/ wpc = "gone")
============================================================================
