-------------------------- MODULE EdgeHealthProofs --------------------------
(***************************************************************************)
(* Proofs about EdgeHealth, for any node under the watchdog and any bounds *)
(* on flips, failures, crashes and hangs.                                  *)
(***************************************************************************)
EXTENDS EdgeHealth, TLAPS

\* How many of the latest results are r, none counted twice.
Streak(s, r) ==
    IF s[3] # r THEN 0 ELSE IF s[2] # r THEN 1 ELSE IF s[1] # r THEN 2 ELSE 3

\* The counters of the prober say what its last probes said.
CountersRecall ==
    \A b \in BACKENDS :
        /\ failures[b] = Streak(seen[b], "bad")
        /\ successes[b] = IF Streak(seen[b], "ok") > 2 THEN 2 ELSE Streak(seen[b], "ok")

\* So does the counter of the watchdog.
ChecksRecall == hfail = Streak(checks, "bad")

\* A child that is still watched has failures left.
Spared ==
    /\ wpc = "watch" => child # "none"
    /\ wpc = "start" => child \in {"none", "dead"}
    /\ wpc = "watch" /\ child # "dead" => hfail < Unanswered

TypeInv == TypeOK /\ Spared

\* What Nginx runs with at each step of an install, if none was cut short.
InstallState ==
    /\ ppc \in {"probe", "install", "down"} => loaded = file \/ torn
    /\ ppc \in {"validate", "reload"} => loaded = previous \/ torn
    /\ ppc \in {"validate", "reload"} => file = Maps(state)

(***************************************************************************)
(* The routes are targets whatever the states are.                         *)
(***************************************************************************)
LEMMA MapsType == \A s : Maps(s) \in [Routes -> Targets \cup {"none"}]
BY DEF Maps, UpOr, Up, Routes, Targets, BACKENDS

(***************************************************************************)
(* Type correctness of the prober, the watchdog and their composition.     *)
(***************************************************************************)
LEMMA TypeInvariant == Spec => []TypeInv
<1> USE ProberAssumption, WatchdogAssumption, WatchedAssumption DEF TypeOK
<1>1. Init => TypeInv
  <2> SUFFICES ASSUME Init PROVE TypeInv
    OBVIOUS
  <2>1. {file, previous, loaded} \subseteq [Routes -> Targets \cup {"none"}]
    BY MapsType DEF Init, ProberInit, NoFile
  <2>2. alive \subseteq BACKENDS /\ (Watched \in alive <=> child = "serving")
    BY DEF Init, WatchInit
  <2>3. /\ failures \in [BACKENDS -> 0..3] /\ successes \in [BACKENDS -> 0..2]
        /\ state \in [BACKENDS -> {"unknown", "healthy", "unhealthy"}]
        /\ seen \in [BACKENDS -> LastThree]
    BY DEF Init, ProberInit, Zero, Unknown, Unseen, LastThree
  <2>4. /\ wpc = "start" /\ child = "none" /\ warmup = 0 /\ hfail = 0 /\ troubles = 0
        /\ checks \in LastThree
    BY DEF Init, WatchInit, NoChecks, LastThree
  <2>5. ppc = "probe" /\ torn \in BOOLEAN
    BY Zenon DEF Init, ProberInit
  <2>6. flips \in 0..MaxFlips /\ failed \in 0..MaxFailures /\ cuts \in 0..MaxCuts
    BY DEF Init, ProberInit
  <2>7. TypeOK
    BY <2>1, <2>2, <2>3, <2>4, <2>5, <2>6 DEF Unanswered, FAILURE_THRESHOLD, RECOVERY_THRESHOLD
  <2>8. QED
    BY <2>4, <2>7 DEF TypeInv, Spared
<1>2. TypeInv /\ [Next]_vars => TypeInv'
  <2> SUFFICES ASSUME TypeInv, [Next]_vars PROVE TypeInv'
    OBVIOUS
  <2> USE DEF TypeInv, Spared, watchVars, probeVars, routeVars, FAILURE_THRESHOLD, RECOVERY_THRESHOLD
  <2>1. ASSUME Round, UNCHANGED watchVars PROVE TypeInv'
    <3>1. failures' \in [BACKENDS -> 0..3] /\ successes' \in [BACKENDS -> 0..2]
      BY <2>1 DEF Round, NewFailures, NewSuccesses, Bump
    <3>2. state' \in [BACKENDS -> {"unknown", "healthy", "unhealthy"}]
      BY <2>1 DEF Round, NewState
    <3>3. seen' \in [BACKENDS -> LastThree]
      BY <2>1 DEF Round, LastThree
    <3>4. QED
      BY <2>1, <3>1, <3>2, <3>3 DEF Round
  <2>2. ASSUME Keep \/ Validate \/ Restart, UNCHANGED watchVars PROVE TypeInv'
    BY <2>2 DEF Keep, Validate, Restart
  <2>3. ASSUME Replace, UNCHANGED watchVars PROVE TypeInv'
    BY <2>3, MapsType DEF Replace
  <2>4. ASSUME Reload, UNCHANGED watchVars PROVE TypeInv'
    BY <2>4 DEF Reload, NoFile
  <2>5. ASSUME Fails \/ Raises, UNCHANGED watchVars PROVE TypeInv'
    <3>1. CASE Fails
      BY <2>5, <3>1 DEF Fails, NoFile
    <3>2. CASE Raises
      BY <2>5, <3>2 DEF Raises, NoFile
    <3>3. QED
      BY <2>5, <3>1, <3>2
  <2>6. ASSUME Crash, UNCHANGED watchVars PROVE TypeInv'
    BY <2>6 DEF Crash, NoFile, Zero, Unknown, Unseen, LastThree
  <2>7. ASSUME NodeStep PROVE TypeInv'
    BY <2>7 DEF NodeStep, Flip
  <2>8. ASSUME WatchStep PROVE TypeInv'
    <3>1. /\ wpc' \in {"start", "watch", "kill", "gone"}
          /\ child' \in {"none", "starting", "serving", "hung", "dead"}
          /\ warmup' \in 0..StartChecks /\ troubles' \in 0..MaxTroubles
      BY <2>8 DEF WatchStep, WatchNext, Loop, Ready, Trouble, Start, StartFails, FindsDead,
                  Answered, Missed, Stop, Terminate
    <3>2. checks' \in LastThree
      BY <2>8 DEF WatchStep, WatchNext, Loop, Ready, Trouble, Start, StartFails, FindsDead,
                  Answered, Missed, Stop, Terminate, Remember, NoChecks, LastThree
    <3>3. hfail' \in 0..Unanswered /\ Spared'
      BY <2>8 DEF WatchStep, WatchNext, Loop, Ready, Trouble, Start, StartFails, FindsDead,
                  Answered, Missed, Stop, Terminate, Unanswered
    <3>4. alive' \subseteq BACKENDS /\ (Watched \in alive' <=> child' = "serving")
      BY <2>8 DEF WatchStep
    <3>5. QED
      BY <2>8, <3>1, <3>2, <3>3, <3>4 DEF WatchStep
  <2>9. CASE UNCHANGED vars
    BY <2>9 DEF vars, proberVars
  <2>10. QED
    BY <2>1, <2>2, <2>3, <2>4, <2>5, <2>6, <2>7, <2>8, <2>9 DEF Next, ProberStep, Work
<1>3. QED
  BY <1>1, <1>2, PTL DEF Spec

(***************************************************************************)
(* Type correctness, with a threshold no counter passes.                   *)
(***************************************************************************)
THEOREM TypeCorrect == Spec => []TypeOK
<1>1. TypeInv => TypeOK
  BY DEF TypeInv
<1>2. QED
  BY <1>1, TypeInvariant, PTL
----------------------------------------------------------------------------
(***************************************************************************)
(* An install leaves Nginx with the file on disk, or behind it with the    *)
(* file a failure would restore.                                           *)
(***************************************************************************)
LEMMA InstallInvariant == Spec => []InstallState
<1> USE DEF InstallState, watchVars, probeVars, routeVars
<1>1. Init => InstallState
  BY DEF Init, ProberInit
<1>2. TypeInv /\ InstallState /\ [Next]_vars => InstallState'
  <2> SUFFICES ASSUME TypeInv, InstallState, [Next]_vars PROVE InstallState'
    OBVIOUS
  <2>1. ASSUME Round, UNCHANGED watchVars PROVE InstallState'
    BY <2>1 DEF Round
  <2>2. ASSUME Keep, UNCHANGED watchVars PROVE InstallState'
    BY <2>2 DEF Keep, Maps, UpOr, Up
  <2>3. ASSUME Replace, UNCHANGED watchVars PROVE InstallState'
    BY <2>3 DEF Replace, Maps, UpOr, Up
  <2>4. ASSUME Validate, UNCHANGED watchVars PROVE InstallState'
    BY <2>4 DEF Validate, Maps, UpOr, Up
  <2>5. ASSUME Reload, UNCHANGED watchVars PROVE InstallState'
    BY <2>5 DEF Reload
  <2>6. ASSUME Restart, UNCHANGED watchVars PROVE InstallState'
    BY <2>6 DEF Restart
  <2>7. ASSUME Fails, UNCHANGED watchVars PROVE InstallState'
    BY <2>7 DEF Fails
  <2>8. ASSUME Raises, UNCHANGED watchVars PROVE InstallState'
    BY <2>8 DEF Raises
  <2>9. ASSUME Crash, UNCHANGED watchVars PROVE InstallState'
    BY <2>9 DEF Crash, TypeInv, TypeOK
  <2>10. ASSUME UNCHANGED <<probeVars, ppc, routeVars>> PROVE InstallState'
    BY <2>10 DEF Maps, UpOr, Up
  <2>11. [Next]_vars => \/ UNCHANGED watchVars /\ (Work \/ Fails \/ Raises \/ Crash)
                        \/ UNCHANGED <<probeVars, ppc, routeVars>>
    BY DEF Next, ProberStep, NodeStep, Flip, WatchStep, vars, proberVars
  <2>12. QED
    BY <2>1, <2>2, <2>3, <2>4, <2>5, <2>6, <2>7, <2>8, <2>9, <2>10, <2>11 DEF Work
<1>3. QED
  BY <1>1, <1>2, TypeInvariant, PTL DEF Spec

(***************************************************************************)
(* Whatever fails, Nginx runs with the file on disk when the prober goes   *)
(* back to probing, unless an install was cut short.                       *)
(***************************************************************************)
THEOREM InstalledCorrect == Spec => []LoadedIsInstalled
<1>1. InstallState => LoadedIsInstalled
  BY DEF InstallState, LoadedIsInstalled
<1>2. QED
  BY <1>1, InstallInvariant, PTL

(***************************************************************************)
(* Only a thresholded failure takes a location away from a node.           *)
(***************************************************************************)
THEOREM OnlyUnhealthyLeaveCorrect == Spec => OnlyUnhealthyLeave
<1>1. InstallState /\ [Next]_vars
        => [\A r \in Routes : loaded'[r] # loaded[r] =>
              \A b \in AbleSet(r) :
                 \/ state[b] = "unhealthy"
                 \/ \E i, j \in DOMAIN Able(r) :
                       Able(r)[i] = loaded'[r] /\ Able(r)[j] = b /\ i <= j]_loaded
  <2> SUFFICES ASSUME InstallState, [Next]_vars, loaded' # loaded, NEW r \in Routes,
                      NEW b \in AbleSet(r), state[b] # "unhealthy"
               PROVE  \E i, j \in DOMAIN Able(r) :
                         Able(r)[i] = loaded'[r] /\ Able(r)[j] = b /\ i <= j
    OBVIOUS
  <2>1. Reload
    BY DEF Next, ProberStep, NodeStep, WatchStep, Work, vars, proberVars, routeVars,
           Round, Keep, Replace, Validate, Restart, Fails, Raises, Crash, Flip
  <2>2. loaded' = Maps(state)
    BY <2>1 DEF InstallState, Reload
  <2>3. CASE r = "parsing"
    <3>1. Able(r) = <<"sys2", "sys3">> /\ b \in {"sys2", "sys3"}
      BY <2>3 DEF Able, AbleSet
    <3>2. loaded'[r] = "sys2" \/ (loaded'[r] = "sys3" /\ b = "sys3")
      BY <2>2, <2>3, <3>1 DEF Maps, UpOr, Up, Routes
    <3>3. QED
      BY <3>1, <3>2
  <2>4. CASE r = "terrain"
    <3>1. Able(r) = <<"sys3", "sys2">> /\ b \in {"sys2", "sys3"}
      BY <2>4 DEF Able, AbleSet
    <3>2. loaded'[r] = "sys3" \/ (loaded'[r] = "sys2" /\ b = "sys2")
      BY <2>2, <2>4, <3>1 DEF Maps, UpOr, Up, Routes
    <3>3. QED
      BY <3>1, <3>2
  <2>5. CASE r = "frontend"
    <3>1. Able(r) = <<"sys1">> /\ b = "sys1"
      BY <2>5 DEF Able, AbleSet
    <3>2. loaded'[r] = "sys1"
      BY <2>2, <2>5, <3>1 DEF Maps, UpOr, Up, Routes
    <3>3. QED
      BY <3>1, <3>2
  <2>6. CASE r = "gateway"
    <3>1. Able(r) = <<"sys4">> /\ b = "sys4"
      BY <2>6 DEF Able, AbleSet
    <3>2. loaded'[r] = "sys4"
      BY <2>2, <2>6, <3>1 DEF Maps, UpOr, Up, Routes
    <3>3. QED
      BY <3>1, <3>2
  <2>7. CASE r = "edge"
    <3>1. Able(r) = <<"sys1", "sys4">> /\ b \in {"sys1", "sys4"}
      BY <2>7 DEF Able, AbleSet
    <3>2. loaded'[r] = "sys1" \/ (loaded'[r] = "sys4" /\ b = "sys4")
      BY <2>2, <2>7, <3>1 DEF Maps, UpOr, Up, Routes
    <3>3. QED
      BY <3>1, <3>2
  <2>8. QED
    BY <2>3, <2>4, <2>5, <2>6, <2>7 DEF Routes
<1>2. QED
  BY <1>1, InstallInvariant, PTL DEF Spec, OnlyUnhealthyLeave
----------------------------------------------------------------------------
(***************************************************************************)
(* One more result.                                                        *)
(***************************************************************************)
LEMMA StreakStep ==
    ASSUME NEW s, NEW r, NEW new
    PROVE  Streak(<<s[2], s[3], new>>, r) =
             IF new # r THEN 0 ELSE IF Streak(s, r) = 3 THEN 3 ELSE Streak(s, r) + 1
BY DEF Streak

(***************************************************************************)
(* The prober's counters are the streaks of its latest probes, cut off at  *)
(* the thresholds.                                                         *)
(***************************************************************************)
LEMMA CountersInvariant == Spec => []CountersRecall
<1>1. Init => CountersRecall
  BY DEF Init, ProberInit, CountersRecall, Zero, Unseen, Streak
<1>2. CountersRecall /\ [Next]_vars => CountersRecall'
  <2> SUFFICES ASSUME CountersRecall, [Next]_vars PROVE CountersRecall'
    OBVIOUS
  <2>1. ASSUME Round PROVE CountersRecall'
    <3> SUFFICES ASSUME NEW b \in BACKENDS
                 PROVE  /\ failures'[b] = Streak(seen'[b], "bad")
                        /\ successes'[b] = IF Streak(seen'[b], "ok") > 2 THEN 2 ELSE Streak(seen'[b], "ok")
      BY DEF CountersRecall
    <3> DEFINE new == IF b \in alive THEN "ok" ELSE "bad"
    <3>1. seen'[b] = <<seen[b][2], seen[b][3], new>>
      BY <2>1 DEF Round
    <3>2. /\ failures'[b] = NewFailures(b, b \in alive)
          /\ successes'[b] = NewSuccesses(b, b \in alive)
      BY <2>1 DEF Round
    <3>3. /\ failures[b] = Streak(seen[b], "bad")
          /\ successes[b] = IF Streak(seen[b], "ok") > 2 THEN 2 ELSE Streak(seen[b], "ok")
      BY DEF CountersRecall
    <3>4. QED
      BY <3>1, <3>2, <3>3, StreakStep
         DEF NewFailures, NewSuccesses, Bump, FAILURE_THRESHOLD, RECOVERY_THRESHOLD, Streak
  <2>2. ASSUME Crash PROVE CountersRecall'
    BY <2>2 DEF Crash, CountersRecall, Zero, Unseen, Streak
  <2>3. ASSUME UNCHANGED <<failures, successes, seen>> PROVE CountersRecall'
    BY <2>3 DEF CountersRecall, Streak
  <2>4. [Next]_vars => Round \/ Crash \/ UNCHANGED <<failures, successes, seen>>
    BY DEF Next, ProberStep, NodeStep, WatchStep, Work, vars, proberVars, probeVars,
           Keep, Replace, Validate, Reload, Restart, Fails, Raises, Flip
  <2>5. QED
    BY <2>1, <2>2, <2>3, <2>4
<1>3. QED
  BY <1>1, <1>2, PTL DEF Spec

(***************************************************************************)
(* Exactly three failed probes in a row condemn a node and two good ones   *)
(* pardon it, at any moment of any run, crashes of the prober included.    *)
(***************************************************************************)
THEOREM HysteresisCorrect == Spec => Hysteresis
<1> DEFINE Step ==
       ppc = "probe" /\ ppc' = "install" => \A b \in BACKENDS :
         /\ seen'[b] = ThreeBad => state'[b] = "unhealthy"
         /\ TwoOk(seen'[b]) => state'[b] = "healthy"
         /\ state[b] # "unhealthy" /\ state'[b] = "unhealthy" => seen'[b] = ThreeBad
         /\ state[b] = "unhealthy" /\ state'[b] = "healthy" => TwoOk(seen'[b])
<1>1. TypeInv /\ CountersRecall /\ CountersRecall' /\ [Next]_vars => [Step]_proberVars
  <2> SUFFICES ASSUME TypeInv, CountersRecall', [Next]_vars, ppc = "probe", ppc' = "install",
                      NEW b \in BACKENDS
               PROVE  /\ seen'[b] = ThreeBad => state'[b] = "unhealthy"
                      /\ TwoOk(seen'[b]) => state'[b] = "healthy"
                      /\ state[b] # "unhealthy" /\ state'[b] = "unhealthy" => seen'[b] = ThreeBad
                      /\ state[b] = "unhealthy" /\ state'[b] = "healthy" => TwoOk(seen'[b])
    OBVIOUS
  <2>1. Round
    BY DEF Next, ProberStep, NodeStep, WatchStep, Work, vars, proberVars, Keep, Replace,
           Validate, Reload, Restart, Fails, Raises, Crash, Flip
  <2>2. /\ state'[b] = NewState(b, b \in alive)
        /\ seen'[b] = <<seen[b][2], seen[b][3], IF b \in alive THEN "ok" ELSE "bad">>
        /\ failures'[b] = NewFailures(b, b \in alive)
        /\ successes'[b] = NewSuccesses(b, b \in alive)
    BY <2>1 DEF Round
  <2>3. /\ failures'[b] = Streak(seen'[b], "bad")
        /\ successes'[b] = IF Streak(seen'[b], "ok") > 2 THEN 2 ELSE Streak(seen'[b], "ok")
    BY DEF CountersRecall
  <2>4. state[b] \in {"unknown", "healthy", "unhealthy"}
    BY DEF TypeInv, TypeOK
  <2>5. CASE b \in alive
    BY <2>2, <2>3, <2>4, <2>5
       DEF NewState, NewSuccesses, ThreeBad, TwoOk, Streak, RECOVERY_THRESHOLD
  <2>6. CASE b \notin alive
    BY <2>2, <2>3, <2>4, <2>6
       DEF NewState, NewFailures, ThreeBad, TwoOk, Streak, FAILURE_THRESHOLD
  <2>7. QED
    BY <2>5, <2>6
<1>2. QED
  BY <1>1, TypeInvariant, CountersInvariant, PTL DEF Spec, Hysteresis
----------------------------------------------------------------------------
(***************************************************************************)
(* The watchdog's counter is the streak of failed checks of the process it *)
(* watches.                                                                *)
(***************************************************************************)
LEMMA ChecksInvariant == Spec => [](TypeInv /\ ChecksRecall)
<1>1. Init => ChecksRecall
  BY DEF Init, WatchInit, ChecksRecall, NoChecks, Streak
<1>2. TypeInv /\ ChecksRecall /\ [Next]_vars => ChecksRecall'
  <2> SUFFICES ASSUME TypeInv, ChecksRecall, [Next]_vars PROVE ChecksRecall'
    OBVIOUS
  <2>1. ASSUME Start PROVE ChecksRecall'
    BY <2>1 DEF Start, ChecksRecall, NoChecks, Streak
  <2>2. ASSUME Answered PROVE ChecksRecall'
    BY <2>2 DEF Answered, Remember, ChecksRecall, Streak
  <2>3. ASSUME Missed PROVE ChecksRecall'
    <3>1. hfail' = hfail + 1 /\ checks' = <<checks[2], checks[3], "bad">> /\ hfail < 3
      BY <2>3 DEF Missed, Remember, TypeInv, Spared, Unanswered
    <3>2. QED
      BY <3>1, StreakStep DEF ChecksRecall, Streak
  <2>4. ASSUME UNCHANGED <<hfail, checks>> PROVE ChecksRecall'
    BY <2>4 DEF ChecksRecall, Streak
  <2>5. [Next]_vars => Start \/ Answered \/ Missed \/ UNCHANGED <<hfail, checks>>
    BY DEF Next, ProberStep, NodeStep, WatchStep, WatchNext, Loop, vars, watchVars, Ready, Trouble,
           StartFails, FindsDead, Stop, Terminate
  <2>6. QED
    BY <2>1, <2>2, <2>3, <2>4, <2>5
<1>3. QED
  BY <1>1, <1>2, TypeInvariant, PTL DEF Spec

(***************************************************************************)
(* A process is killed after exactly three failed checks of its own.       *)
(***************************************************************************)
THEOREM KilledForCauseCorrect == Spec => KilledForCause
<1> DEFINE Step ==
       wpc = "watch" /\ child \notin {"none", "dead"} /\ wpc' # "gone"
         => (wpc' = "kill" <=> checks' = <<"bad", "bad", "bad">>)
<1>1. TypeInv /\ ChecksRecall /\ ChecksRecall' /\ [Next]_vars => [Step]_watchVars
  <2> SUFFICES ASSUME TypeInv, ChecksRecall, ChecksRecall', [Next]_vars, watchVars' # watchVars,
                      wpc = "watch", child \notin {"none", "dead"}, wpc' # "gone"
               PROVE  wpc' = "kill" <=> checks' = <<"bad", "bad", "bad">>
    BY Zenon
  <2>1. WatchNext
    BY DEF Next, ProberStep, NodeStep, WatchStep, vars
  <2>2. hfail < 3 /\ hfail \in Nat
    BY DEF TypeInv, TypeOK, Spared, Unanswered
  <2>3. checks \in LastThree
    BY DEF TypeInv, TypeOK
  <2>4. ASSUME Missed PROVE wpc' = "kill" <=> checks' = <<"bad", "bad", "bad">>
    <3>1. /\ hfail' = hfail + 1 /\ checks' = <<checks[2], checks[3], "bad">>
          /\ wpc' = IF hfail + 1 >= 3 THEN "kill" ELSE "watch"
      BY <2>4 DEF Missed, Remember, Unanswered
    <3>2. hfail' = 3 <=> checks' = <<"bad", "bad", "bad">>
      BY <3>1 DEF ChecksRecall, Streak
    <3>3. wpc' = "kill" <=> hfail' = 3
      BY <3>1, <2>2
    <3>4. QED
      BY <3>2, <3>3
  <2>5. ASSUME Answered PROVE wpc' # "kill" /\ checks' # <<"bad", "bad", "bad">>
    BY <2>5 DEF Answered, Remember
  <2>6. ASSUME Ready \/ Trouble PROVE wpc' # "kill" /\ checks' # <<"bad", "bad", "bad">>
    BY <2>2, <2>3, <2>6 DEF Ready, Trouble, ChecksRecall, Streak
  <2>7. QED
    BY <2>1, <2>4, <2>5, <2>6
       DEF WatchNext, Loop, Start, StartFails, FindsDead, Stop, Terminate
<1>2. QED
  BY <1>1, ChecksInvariant, PTL DEF Spec, KilledForCause
============================================================================
