------------------------ MODULE AnalysisClientProofs ------------------------
(***************************************************************************)
(* Proofs about AnalysisClient, for any number of points, analyses, taken  *)
(* over storms and restarts of the gateway.                                *)
(***************************************************************************)
EXTENDS AnalysisClient, TLAPS

Asks == [point : Points \cup {None}, file : BOOLEAN, storms : Nat]
Fates == {"new", "accepted", "refused", "succeeded", "failed"}
Open == [phase : {"start", "post", "poll", "reply", "sync"}, asked : Asks,
         seen : Fates \cup {"unknown", None}, alone : BOOLEAN]
Errors == [why : {"incomplete", "network", "refused", "failed", "expired", "timeout"}, call : Calls]
Refused == [why |-> "invalid", call |-> 0]

ClientTypes ==
    /\ deployment \in {"gateway", "single"}
    /\ fate \in [Calls -> Fates] /\ known \subseteq Calls
    /\ endpoint \in {"unknown", "jobs", "none"}
    /\ calls \in Nat /\ calls <= MaxCalls
    /\ call \in Open \cup {NoCall}
    /\ loading \in BOOLEAN
    /\ file \in BOOLEAN /\ selected \in Points \cup {None} /\ storms \in Nat
    /\ result \in [call : Calls, asked : Asks, area : Points \cup {None}] \cup {NoResult}
    /\ error \in Errors \cup {NoError, Refused}

\* A call under way is one of the calls, and an error that App still has is
\* of an earlier one; with none under way, it is of the latest.  What a poll
\* saw has not changed since, since the job was over; and the gateway is never
\* taken for the single-node application.
CallState ==
    /\ call # NoCall => calls \in Calls /\ call.alone
    /\ error \in Errors => IF call = NoCall THEN error.call = calls ELSE error.call < calls
    /\ deployment = "gateway" => endpoint # "none" /\ (call # NoCall => call.phase # "sync")
    /\ call # NoCall /\ call.phase = "reply" =>
          /\ call.seen \in {"succeeded", "failed"} => fate[calls] = call.seen
          /\ call.seen = "unknown" => calls \notin known

\* The area of a result is the point that was asked for.
AreaIsPoint == result # NoResult => result.area \in {result.asked.point, None}

\* What is reported of the jobs.
JobsAreTrue ==
    deployment = "gateway" =>
        /\ result # NoResult => fate[result.call] = "succeeded"
        /\ error.why = "failed" => fate[error.call] = "failed"
        /\ error.why = "expired" => error.call \notin known

ClientInv == ClientTypes /\ CallState /\ AreaIsPoint /\ LoadingIsCall /\ JobsAreTrue

LEMMA ErrorIsOne ==
    /\ NoError \notin Errors /\ Refused \notin Errors
    /\ NoError.why \notin {"failed", "expired"} /\ Refused.why \notin {"failed", "expired"}
BY DEF NoError, Refused, Errors, None

LEMMA OpenIsCall == ASSUME NEW c \in Open PROVE c # NoCall /\ c.phase # None
<1>1. c.phase \in {"start", "post", "poll", "reply", "sync"}
  BY DEF Open
<1>2. NoCall.phase = None
  BY DEF NoCall
<1>3. QED
  BY <1>1, <1>2 DEF None

LEMMA ResultIsOne ==
    ASSUME NEW r \in [call : Calls, asked : Asks, area : Points \cup {None}]
    PROVE  r # NoResult
<1>1. r.call # 0
  BY DEF Calls
<1>2. NoResult.call = 0
  BY DEF NoResult
<1>3. QED
  BY <1>1, <1>2

LEMMA InitClient == ClientInit => ClientInv
<1> SUFFICES ASSUME ClientInit PROVE ClientInv
  OBVIOUS
<1> USE DEF ClientInit
<1>1. ClientTypes
  <2>1. fate \in [Calls -> Fates] /\ known \subseteq Calls
    BY DEF Server!Init, Fates
  <2>2. calls \in Nat /\ calls <= MaxCalls
    BY ClientAssumption
  <2>3. QED
    BY <2>1, <2>2 DEF ClientTypes
<1>2. CallState /\ AreaIsPoint
  BY ErrorIsOne DEF CallState, AreaIsPoint, None
<1>3. LoadingIsCall /\ JobsAreTrue
  BY ErrorIsOne DEF LoadingIsCall, JobsAreTrue, None
<1>4. QED
  BY <1>1, <1>2, <1>3 DEF ClientInv

\* The user asks for an analysis, and App keeps its last error or not.
LEMMA AnalyzeStep ==
    ASSUME ClientInv, NEW point \in Points \cup {None}, NEW amount \in Nat,
           Analyze(point, amount), error' \in {error, NoError}, UNCHANGED result,
           UNCHANGED <<deployment, serverVars, endpoint, file>>,
           selected' \in Points \cup {None}, storms' \in Nat
    PROVE  ClientInv'
<1> USE DEF ClientInv
<1>0. UNCHANGED <<fate, known>>
  BY DEF serverVars
<1>1. (AreaIsPoint /\ JobsAreTrue)'
  BY <1>0, ErrorIsOne DEF AreaIsPoint, JobsAreTrue
<1>2. CASE panel = "loading"
  <2>1. UNCHANGED <<calls, call, panel, loading>>
    BY <1>2 DEF Analyze
  <2>2. ClientTypes'
    BY <1>0, <2>1 DEF ClientTypes
  <2>3. CallState'
    BY <1>0, <2>1, ErrorIsOne DEF CallState
  <2>4. LoadingIsCall'
    BY <2>1 DEF LoadingIsCall
  <2>5. QED
    BY <1>1, <2>2, <2>3, <2>4
<1>3. CASE panel # "loading"
  <2> DEFINE new == [phase |-> "start", seen |-> None, alone |-> call = NoCall,
                     asked |-> [point |-> point, file |-> file, storms |-> amount]]
  <2>0. /\ calls < MaxCalls /\ calls' = calls + 1
        /\ call' = new /\ panel' = "loading" /\ loading' = TRUE
    BY <1>3 DEF Analyze, Start
  <2>1. call = NoCall
    BY <1>3 DEF LoadingIsCall
  <2>2. new \in Open /\ new.phase = "start" /\ new.alone
    BY <2>1 DEF Open, Asks, ClientTypes
  <2>3. calls' \in Calls
    BY <2>0, ClientAssumption DEF Calls, ClientTypes
  <2>4. call' # NoCall
    BY <2>0, <2>2, OpenIsCall
  <2>5. ClientTypes'
    BY <1>0, <2>0, <2>2, <2>3, ClientAssumption DEF ClientTypes, Calls
  <2>6. error' \in Errors => error'.call < calls'
    BY <2>0, <2>1, ErrorIsOne DEF CallState, ClientTypes
  <2>7. CallState'
    <3>1. endpoint' = endpoint /\ deployment' = deployment
      OBVIOUS
    <3>2. call'.phase = "start" /\ call'.alone
      BY <2>0, <2>2
    <3>3. QED
      BY <2>3, <2>4, <2>6, <3>1, <3>2 DEF CallState
  <2>8. LoadingIsCall'
    BY <2>0, <2>2, <2>4 DEF LoadingIsCall
  <2>9. QED
    BY <1>1, <2>5, <2>7, <2>8
<1>4. QED
  BY <1>2, <1>3

\* A call that ends with an error.
LEMMA FailsStep ==
    ASSUME ClientInv, NEW why, Fails(why), call # NoCall,
           UNCHANGED <<deployment, calls, inputVars>>,
           endpoint' \in {"unknown", "jobs", "none"},
           deployment = "gateway" => endpoint' # "none",
           why \in {"incomplete", "network", "refused", "failed", "expired", "timeout"},
           fate' \in [Calls -> Fates], known' \subseteq Calls,
           \A j \in Calls : fate[j] \in {"succeeded", "failed"} => fate'[j] = fate[j],
           deployment = "gateway" /\ why = "failed" => fate'[calls] = "failed",
           deployment = "gateway" /\ why = "expired" => calls \notin known'
    PROVE  ClientInv'
<1> USE DEF ClientInv
<1>0. /\ call' = NoCall /\ panel' = "error" /\ loading' = FALSE
      /\ error' = [why |-> why, call |-> calls]
      /\ UNCHANGED result
  BY DEF Fails, Settled
<1>5. error' \in Errors
  BY <1>0 DEF Errors, CallState
<1>1. ClientTypes'
  BY <1>0, <1>5 DEF ClientTypes, inputVars
<1>2. CallState'
  BY <1>0 DEF CallState
<1>3. (AreaIsPoint /\ LoadingIsCall)'
  BY <1>0 DEF AreaIsPoint, LoadingIsCall
<1>4. JobsAreTrue'
  <2>1. result # NoResult => result.call \in Calls
    BY DEF ClientTypes
  <2>2. QED
    BY <1>0, <2>1 DEF JobsAreTrue
<1>6. QED
  BY <1>1, <1>2, <1>3, <1>4

\* A call that ends with a result.
LEMMA SucceedStep ==
    ASSUME ClientInv, NEW where \in {call.asked.point, None}, Succeed(where), call # NoCall,
           UNCHANGED <<deployment, serverVars, endpoint, calls, inputVars>>,
           deployment = "gateway" => fate[calls] = "succeeded"
    PROVE  ClientInv'
<1> USE DEF ClientInv
<1> DEFINE new == [asked |-> call.asked, area |-> where, call |-> calls]
<1>0. /\ call' = NoCall /\ panel' = "success" /\ loading' = FALSE /\ error' = NoError
      /\ result' = new
  BY DEF Succeed, Settled
<1>1. call.asked \in Asks /\ call.asked.point \in Points \cup {None}
  BY DEF ClientTypes, Open, Asks
<1>2. new \in [call : Calls, asked : Asks, area : Points \cup {None}]
  BY <1>1 DEF CallState
<1>3. ClientTypes'
  BY <1>0, <1>2 DEF ClientTypes, inputVars, serverVars
<1>4. CallState'
  BY <1>0, ErrorIsOne DEF CallState, serverVars
<1>5. (AreaIsPoint /\ LoadingIsCall /\ JobsAreTrue)'
  BY <1>0, ErrorIsOne DEF AreaIsPoint, LoadingIsCall, JobsAreTrue, serverVars
<1>6. QED
  BY <1>3, <1>4, <1>5

\* What the gateway does to its jobs: an end is final, and no job comes back.
LEMMA ServerStep ==
    ASSUME ClientInv,
           UNCHANGED <<deployment, endpoint, calls, call, inputVars, shownVars>>,
           fate' \in [Calls -> Fates], known' \subseteq known,
           \A j \in Calls : fate[j] \in {"succeeded", "failed"} => fate'[j] = fate[j]
    PROVE  ClientInv'
<1> USE DEF ClientInv, inputVars, shownVars
<1>1. ClientTypes'
  BY DEF ClientTypes
<1>2. CallState'
  BY DEF CallState
<1>3. (AreaIsPoint /\ LoadingIsCall)'
  BY DEF AreaIsPoint, LoadingIsCall
<1>4. JobsAreTrue'
  <2>1. result # NoResult => result.call \in Calls
    BY DEF ClientTypes
  <2>2. error.why \in {"failed", "expired"} => error.call \in Calls
    BY ErrorIsOne DEF ClientTypes, Errors
  <2>3. QED
    BY <2>1, <2>2 DEF JobsAreTrue
<1>5. QED
  BY <1>1, <1>2, <1>3, <1>4

\* A step of the call that goes on to a next phase.
LEMMA PhaseStep ==
    ASSUME ClientInv, call # NoCall,
           UNCHANGED <<deployment, calls, inputVars, shownVars>>,
           NEW phase \in {"start", "post", "poll", "reply", "sync"},
           NEW seen \in Fates \cup {"unknown", None},
           call' = [call EXCEPT !.phase = phase, !.seen = seen],
           endpoint' \in {"unknown", "jobs", "none"},
           fate' \in [Calls -> Fates], known' \subseteq Calls, known' \subseteq known \cup {calls},
           \A j \in Calls : fate[j] \in {"succeeded", "failed"} => fate'[j] = fate[j],
           deployment = "gateway" => endpoint' # "none" /\ phase # "sync",
           phase = "reply" =>
              /\ seen \in {"succeeded", "failed"} => fate'[calls] = seen
              /\ seen = "unknown" => calls \notin known'
    PROVE  ClientInv'
<1> USE DEF ClientInv, inputVars, shownVars
<1>1. call \in Open
  BY DEF ClientTypes
<1>2. call' \in Open /\ call'.phase = phase /\ call'.seen = seen /\ call'.alone = call.alone
  BY <1>1 DEF Open
<1>3. call' # NoCall
  BY <1>2, OpenIsCall
<1>4. ClientTypes'
  BY <1>2 DEF ClientTypes
<1>5. CallState'
  BY <1>2, <1>3 DEF CallState
<1>6. (AreaIsPoint /\ LoadingIsCall)'
  BY <1>2, <1>3 DEF AreaIsPoint, LoadingIsCall
<1>7. JobsAreTrue'
  <2>1. result # NoResult => result.call \in Calls
    BY DEF ClientTypes
  <2>2. error.why \in {"failed", "expired"} => error.call \in Calls /\ error.call # calls
    BY ErrorIsOne DEF ClientTypes, CallState, Errors, Calls
  <2>3. QED
    BY <2>1, <2>2 DEF JobsAreTrue
<1>8. QED
  BY <1>4, <1>5, <1>6, <1>7

\* The steps of the call itself.
LEMMA CallStep ==
    ASSUME ClientInv, CallGoesOn
    PROVE  ClientInv'
<1> USE DEF ClientInv
<1>1. ASSUME call # NoCall PROVE call \in Open /\ calls \in Calls /\ fate \in [Calls -> Fates]
  BY <1>1 DEF ClientTypes, CallState
<1>2. ASSUME NEW phase, CallIs(phase), phase # None PROVE call # NoCall /\ call.phase = phase
  BY <1>2 DEF CallIs, NoCall
<1>3. CASE Build
  <2>0. CallIs("start") /\ UNCHANGED <<deployment, serverVars, endpoint, calls, inputVars>>
    BY <1>3 DEF Build
  <2>1. call # NoCall
    BY <1>2, <2>0 DEF None
  <2>2. CASE Fails("incomplete")
    BY <2>0, <2>1, <2>2, FailsStep DEF ClientTypes, CallState, serverVars
  <2>3. CASE /\ call' = [call EXCEPT !.phase = IF endpoint = "none" THEN "sync" ELSE "post"]
             /\ UNCHANGED shownVars
    <3> DEFINE ph == IF endpoint = "none" THEN "sync" ELSE "post"
    <3>1. call' = [call EXCEPT !.phase = ph, !.seen = call.seen]
      BY <1>1, <2>1, <2>3 DEF Open
    <3>2. call.seen \in Fates \cup {"unknown", None}
      BY <1>1, <2>1 DEF Open
    <3>3. ph \in {"start", "post", "poll", "reply", "sync"} /\ ph # "reply"
      OBVIOUS
    <3>4. deployment = "gateway" => endpoint' # "none" /\ ph # "sync"
      BY <2>0 DEF CallState
    <3>5. /\ endpoint' \in {"unknown", "jobs", "none"}
          /\ fate' \in [Calls -> Fates] /\ known' \subseteq Calls /\ UNCHANGED <<fate, known>>
      BY <2>0 DEF ClientTypes, serverVars
    <3> HIDE DEF ph
    <3>6. QED
      BY <2>0, <2>1, <2>3, <3>1, <3>2, <3>3, <3>4, <3>5, PhaseStep
  <2>4. QED
    BY <1>3, <2>2, <2>3 DEF Build
<1>4. CASE PostNoQueue
  <2>0. /\ CallIs("post") /\ deployment = "single" /\ endpoint' = "none"
        /\ call' = [call EXCEPT !.phase = "sync"]
        /\ UNCHANGED <<deployment, serverVars, calls, inputVars, shownVars>>
    BY <1>4 DEF PostNoQueue
  <2>1. call # NoCall
    BY <1>2, <2>0 DEF None
  <2>2. call.seen \in Fates \cup {"unknown", None}
    BY <1>1, <2>1 DEF Open
  <2>3. call' = [call EXCEPT !.phase = "sync", !.seen = call.seen]
    BY <1>1, <2>0, <2>1 DEF Open
  <2>4. fate' \in [Calls -> Fates] /\ known' \subseteq Calls /\ UNCHANGED <<fate, known>>
    BY <2>0 DEF ClientTypes, serverVars
  <2>5. QED
    BY <2>0, <2>1, <2>2, <2>3, <2>4, PhaseStep
<1>5. ASSUME CallIs("post"), fate' = [fate EXCEPT ![calls] = "accepted"],
             known' = known \cup {calls}, Server!Accept(calls)
      PROVE  /\ call # NoCall
             /\ fate' \in [Calls -> Fates] /\ known' \subseteq Calls
             /\ \A j \in Calls : fate[j] \in {"succeeded", "failed"} => fate'[j] = fate[j]
  <2>1. call # NoCall
    BY <1>2, <1>5 DEF None
  <2>2. fate[calls] = "new"
    BY <1>5 DEF Server!Accept
  <2>3. known \subseteq Calls
    BY DEF ClientTypes
  <2>4. QED
    BY <1>1, <1>5, <2>1, <2>2, <2>3 DEF Fates
<1>6. CASE PostAccepted
  <2>0. /\ CallIs("post") /\ deployment = "gateway" /\ endpoint' = "jobs"
        /\ fate' = [fate EXCEPT ![calls] = "accepted"]
        /\ known' = known \cup {calls} /\ Server!Accept(calls)
        /\ call' = [call EXCEPT !.phase = "poll"]
        /\ UNCHANGED <<deployment, calls, inputVars, shownVars>>
    BY <1>6 DEF PostAccepted
  <2>1. call.seen \in Fates \cup {"unknown", None}
    BY <1>1, <1>5, <2>0 DEF Open
  <2>2. call' = [call EXCEPT !.phase = "poll", !.seen = call.seen]
    BY <1>1, <1>5, <2>0 DEF Open
  <2>3. QED
    BY <1>5, <2>0, <2>1, <2>2, PhaseStep
<1>7. CASE PostReplyLost
  <2>0. /\ CallIs("post") /\ deployment = "gateway"
        /\ fate' = [fate EXCEPT ![calls] = "accepted"]
        /\ known' = known \cup {calls} /\ Server!Accept(calls)
        /\ Fails("network")
        /\ UNCHANGED <<deployment, endpoint, calls, inputVars>>
    BY <1>7 DEF PostReplyLost
  <2>1. endpoint' \in {"unknown", "jobs", "none"} /\ endpoint' # "none"
    BY <2>0 DEF ClientTypes, CallState
  <2>2. QED
    BY <1>5, <2>0, <2>1, FailsStep
<1>8. ASSUME NEW phase \in {"post", "sync", "poll"}, CallIs(phase),
             NEW why \in {"refused", "timeout"}, Fails(why),
             UNCHANGED <<deployment, serverVars, endpoint, calls, inputVars>>
      PROVE  ClientInv'
  <2>1. call # NoCall
    BY <1>2, <1>8 DEF None
  <2>2. QED
    BY <1>8, <2>1, FailsStep DEF ClientTypes, CallState, serverVars
<1>9. CASE PostRefused
  BY <1>8, <1>9 DEF PostRefused
<1>10. CASE Sync
  <2>0. CallIs("sync") /\ UNCHANGED <<deployment, serverVars, endpoint, calls, inputVars>>
    BY <1>10 DEF Sync
  <2>1. call # NoCall /\ call.phase = "sync"
    BY <1>2, <2>0 DEF None
  <2>2. deployment # "gateway"
    BY <2>1 DEF CallState
  <2>3. ASSUME NEW where \in {call.asked.point, None}, Succeed(where) PROVE ClientInv'
    BY <2>0, <2>1, <2>2, <2>3, SucceedStep
  <2>4. QED
    BY <1>8, <1>10, <2>0, <2>3 DEF Sync
<1>11. QED
  BY <1>3, <1>4, <1>6, <1>7, <1>9, <1>10 DEF CallGoesOn

\* The polls and their deadline.
LEMMA PollStep ==
    ASSUME ClientInv, PollGoesOn \/ Deadline
    PROVE  ClientInv'
<1> USE DEF ClientInv
<1>1. ASSUME CallIs("poll") \/ CallIs("reply")
      PROVE  /\ call # NoCall /\ call \in Open /\ calls \in Calls
             /\ call.seen \in Fates \cup {"unknown", None} /\ call.phase # "sync"
             /\ fate \in [Calls -> Fates] /\ known \subseteq Calls
             /\ endpoint \in {"unknown", "jobs", "none"}
             /\ deployment = "gateway" => endpoint # "none"
  <2>1. call # NoCall /\ call.phase # "sync"
    BY <1>1 DEF CallIs, NoCall, None
  <2>2. QED
    BY <2>1 DEF ClientTypes, CallState, Open
<1>2. CASE PollRead
  <2> DEFINE seen == IF calls \in known THEN fate[calls] ELSE "unknown"
  <2>0. /\ CallIs("poll") /\ call' = [call EXCEPT !.phase = "reply", !.seen = seen]
        /\ UNCHANGED <<deployment, serverVars, endpoint, calls, inputVars, shownVars>>
    BY <1>2 DEF PollRead
  <2>1. seen \in Fates \cup {"unknown", None}
    BY <1>1, <2>0
  <2>2. (seen \in {"succeeded", "failed"} => fate[calls] = seen) /\ (seen = "unknown" => calls \notin known)
    BY <1>1, <2>0 DEF Fates
  <2> HIDE DEF seen
  <2>3. UNCHANGED <<fate, known>>
    BY <2>0 DEF serverVars
  <2>4. QED
    BY <1>1, <2>0, <2>1, <2>2, <2>3, PhaseStep
<1>3. CASE PollAgain
  <2>0. /\ CallIs("reply") /\ call' = [call EXCEPT !.phase = "poll", !.seen = None]
        /\ UNCHANGED <<deployment, fate, known, endpoint, calls, inputVars, shownVars>>
    BY <1>3 DEF PollAgain, serverVars
  <2>1. QED
    BY <1>1, <2>0, PhaseStep
<1>4. ASSUME CallIs("reply") PROVE call.phase = "reply"
  BY <1>4 DEF CallIs
<1>5. CASE PollSucceeded
  <2>0. /\ CallIs("reply") /\ call.seen = "succeeded" /\ Succeed(call.asked.point)
        /\ UNCHANGED <<deployment, serverVars, endpoint, calls, inputVars>>
    BY <1>5 DEF PollSucceeded
  <2>1. fate[calls] = "succeeded"
    BY <1>1, <1>4, <2>0 DEF CallState
  <2>2. QED
    BY <1>1, <2>0, <2>1, SucceedStep
<1>6. CASE PollFailed
  <2>0. /\ CallIs("reply") /\ Told # None /\ Fails(Told)
        /\ UNCHANGED <<deployment, fate, known, endpoint, calls, inputVars>>
    BY <1>6 DEF PollFailed, serverVars
  <2>1. /\ Told \in {"failed", "expired"}
        /\ Told = "failed" => call.seen = "failed"
        /\ Told = "expired" => call.seen = "unknown"
    BY <2>0 DEF Told, None
  <2>2. (Told = "failed" => fate[calls] = "failed") /\ (Told = "expired" => calls \notin known)
    BY <1>1, <1>4, <2>0, <2>1 DEF CallState
  <2>3. QED
    BY <1>1, <2>0, <2>1, <2>2, FailsStep
<1>7. CASE Deadline
  <2>0. /\ CallIs("poll") /\ Fails("timeout")
        /\ UNCHANGED <<deployment, fate, known, endpoint, calls, inputVars>>
    BY <1>7 DEF Deadline, serverVars
  <2>1. QED
    BY <1>1, <2>0, FailsStep
<1>8. QED
  BY <1>2, <1>3, <1>5, <1>6, <1>7 DEF PollGoesOn

\* A step of the user that asks for nothing, and at most clears what is shown.
LEMMA QuietStep ==
    ASSUME ClientInv, UNCHANGED <<deployment, serverVars, endpoint, calls, call>>,
           file' \in BOOLEAN, selected' \in Points \cup {None}, storms' \in Nat,
           result' \in {result, NoResult}, error' \in {error, NoError, Refused},
           call # NoCall => error' \in {error, NoError},
           call # NoCall => UNCHANGED <<loading, panel>>,
           call = NoCall => loading' \in {loading, FALSE} /\ panel' \in {panel, "idle", "error"}
    PROVE  ClientInv'
<1> USE DEF ClientInv
<1>0. UNCHANGED <<fate, known>>
  BY DEF serverVars
<1>1. loading' \in BOOLEAN /\ LoadingIsCall'
  <2>1. CASE call # NoCall
    BY <2>1 DEF LoadingIsCall, ClientTypes
  <2>2. CASE call = NoCall
    <3>1. loading = FALSE /\ panel # "loading"
      BY <2>2 DEF LoadingIsCall, ClientTypes
    <3>2. loading' = FALSE /\ panel' # "loading"
      BY <2>2, <3>1
    <3>3. QED
      BY <2>2, <3>2 DEF LoadingIsCall
  <2>3. QED
    BY <2>1, <2>2
<1>2. ClientTypes'
  BY <1>0, <1>1 DEF ClientTypes
<1>3. CallState'
  BY <1>0, ErrorIsOne DEF CallState
<1>4. (AreaIsPoint /\ JobsAreTrue)'
  BY <1>0, ErrorIsOne DEF AreaIsPoint, JobsAreTrue
<1>5. QED
  BY <1>1, <1>2, <1>3, <1>4

LEMMA UserStep ==
    ASSUME ClientInv, User
    PROVE  ClientInv'
<1> USE DEF ClientInv
<1>0. file \in BOOLEAN /\ selected \in Points \cup {None} /\ storms \in Nat
  BY DEF ClientTypes
<1>1. ASSUME NEW p \in Points, SelectPoint(p) PROVE ClientInv'
  <2>0. selected' = p /\ UNCHANGED <<deployment, serverVars, endpoint, file, storms>>
    BY <1>1 DEF SelectPoint
  <2>1. CASE UNCHANGED <<calls, call, shownVars>>
    BY <1>0, <2>0, <2>1, QuietStep DEF shownVars
  <2>2. CASE Request(p, storms)
    BY <1>0, <2>0, <2>2, AnalyzeStep DEF Request
  <2>3. QED
    BY <1>1, <2>1, <2>2 DEF SelectPoint
<1>2. CASE ClearPoint
  BY <1>0, <1>2, QuietStep DEF ClearPoint, shownVars
<1>3. CASE Press
  <2>1. /\ Request(selected, storms)
        /\ UNCHANGED <<deployment, serverVars, endpoint, file, selected, storms>>
    BY <1>3 DEF Press, inputVars
  <2>2. QED
    BY <1>0, <2>1, AnalyzeStep DEF Request
<1>8. CASE PressPanel
  <2>1. /\ Analyze(selected, storms) /\ UNCHANGED <<result, error>>
        /\ UNCHANGED <<deployment, serverVars, endpoint, file, selected, storms>>
    BY <1>8 DEF PressPanel, inputVars
  <2>2. QED
    BY <1>0, <2>1, AnalyzeStep
<1>4. CASE TakeStorm
  <2>1. /\ storms' = storms + 1 /\ Request(selected, storms')
        /\ UNCHANGED <<deployment, serverVars, endpoint, file, selected>>
    BY <1>4 DEF TakeStorm
  <2>2. QED
    BY <1>0, <2>1, AnalyzeStep DEF Request
<1>5. CASE ChooseFile
  <2>0. /\ call = NoCall /\ result' = NoResult
        /\ UNCHANGED <<deployment, serverVars, endpoint, calls, call, selected, storms>>
    BY <1>5 DEF ChooseFile, LoadingIsCall
  <2>1. CASE /\ file' = TRUE /\ error' = NoError
             /\ panel' = IF panel = "error" THEN "idle" ELSE panel
             /\ UNCHANGED loading
    BY <1>0, <2>0, <2>1, QuietStep
  <2>2. CASE file' = FALSE /\ panel' = "error" /\ error' = Refused /\ loading' = FALSE
    BY <1>0, <2>0, <2>2, QuietStep
  <2>3. CASE file' = FALSE /\ panel' = "idle" /\ error' = NoError /\ loading' = FALSE
    BY <1>0, <2>0, <2>3, QuietStep
  <2>4. QED
    BY <1>5, <2>1, <2>2, <2>3 DEF ChooseFile, Refused
<1>6. CASE Restore
  BY <1>0, <1>6, QuietStep DEF Restore
<1>7. QED
  BY <1>1, <1>2, <1>3, <1>4, <1>5, <1>6, <1>8 DEF User

LEMMA ServerSteps ==
    ASSUME ClientInv, ServerEnds \/ ServerForgets \/ ServerRestarts
    PROVE  ClientInv'
<1> USE DEF ClientInv
<1>0. fate \in [Calls -> Fates]
  BY DEF ClientTypes
<1>1. CASE ServerEnds
  <2>1. PICK j \in Calls : Server!Finish(j)
    BY <1>1 DEF ServerEnds
  <2>2. /\ fate[j] = "accepted" /\ UNCHANGED known
        /\ \E end \in {"succeeded", "failed"} : fate' = [fate EXCEPT ![j] = end]
    BY <2>1 DEF Server!Finish
  <2>3. /\ fate' \in [Calls -> Fates]
        /\ \A i \in Calls : fate[i] \in {"succeeded", "failed"} => fate'[i] = fate[i]
    BY <1>0, <2>2 DEF Fates
  <2>4. QED
    BY <1>1, <2>2, <2>3, ServerStep DEF ServerEnds
<1>2. CASE ServerForgets
  <2>1. known' \subseteq known /\ UNCHANGED fate
    BY <1>2 DEF ServerForgets, Server!Forget
  <2>2. QED
    BY <1>0, <1>2, <2>1, ServerStep DEF ServerForgets
<1>3. CASE ServerRestarts
  BY <1>0, <1>3, ServerStep DEF ServerRestarts
<1>4. QED
  BY <1>1, <1>2, <1>3

(***************************************************************************)
(* Every state of the browser satisfies the invariant.                     *)
(***************************************************************************)
THEOREM ClientCorrect == ClientSpec => []ClientInv
<1>1. ClientInit => ClientInv
  BY InitClient
<1>2. ClientInv /\ [ClientNext]_vars => ClientInv'
  <2> SUFFICES ASSUME ClientInv, [ClientNext]_vars PROVE ClientInv'
    OBVIOUS
  <2>1. CASE ClientNext
    BY <2>1, CallStep, PollStep, UserStep, ServerSteps DEF ClientNext
  <2>2. CASE UNCHANGED vars
    <3>1. UNCHANGED <<deployment, endpoint, calls, call, inputVars, shownVars, fate, known>>
      BY <2>2 DEF vars, serverVars
    <3>2. fate \in [Calls -> Fates]
      BY DEF ClientInv, ClientTypes
    <3>3. QED
      BY <3>1, <3>2, ServerStep
  <2>3. QED
    BY <2>1, <2>2
<1>3. QED
  BY <1>1, <1>2, PTL DEF ClientSpec

(***************************************************************************)
(* LoadingIsCall: the two memories of an analysis under way agree with     *)
(* each other and with the call, so that no second one starts beside it.   *)
(***************************************************************************)
THEOREM LoadingCorrect == ClientSpec => []LoadingIsCall
<1>1. ClientInv => LoadingIsCall
  BY DEF ClientInv
<1>2. QED
  BY <1>1, ClientCorrect, PTL

(***************************************************************************)
(* JobsAreTrue: what the browser reports of a job is so, for any number *)
(* of analyses and restarts, whatever replies are late or lost.            *)
(***************************************************************************)
THEOREM ReportsCorrect == ClientSpec => []ReportsAreTrue
<1>1. ClientInv => ReportsAreTrue
  <2> SUFFICES ASSUME ClientInv, Header = "failed"
               PROVE  error.call = calls \/ error.why = "invalid"
    BY DEF ClientInv, JobsAreTrue, ReportsAreTrue
  <2>1. ~ loading /\ error # NoError
    BY DEF Header
  <2>2. call = NoCall
    BY <2>1 DEF ClientInv, LoadingIsCall
  <2>3. QED
    BY <2>1, <2>2 DEF ClientInv, ClientTypes, CallState, Refused
<1>2. QED
  BY <1>1, ClientCorrect, PTL

(***************************************************************************)
(* ReadyIsHere: a result is called ready only for the point it is of.      *)
(***************************************************************************)
THEOREM ReadyCorrect == ClientSpec => []ReadyIsHere
<1>1. ClientInv => ReadyIsHere
  <2> SUFFICES ASSUME ClientInv, Header = "ready", selected # None
               PROVE  result.asked.point = selected
    BY DEF ReadyIsHere
  <2>1. result # NoResult /\ Matches
    BY DEF Header, None
  <2>2. result.area = selected
    BY <2>1 DEF Matches
  <2>3. QED
    BY <2>1, <2>2 DEF ClientInv, AreaIsPoint
<1>2. QED
  BY <1>1, ClientCorrect, PTL
============================================================================
