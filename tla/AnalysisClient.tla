--------------------------- MODULE AnalysisClient ---------------------------
(***************************************************************************)
(* The browser: runAnalysis() in frontend/src/api/catchmentApi.js, which   *)
(* hands an analysis to the gateway's job queue and polls for its end, or  *)
(* to the single-node application where there is no queue, and the state   *)
(* of App.jsx and UploadPanel.jsx around it.                               *)
(*                                                                         *)
(* The queue is the one of JobLifecycle, which JobQueue implements; its    *)
(* replies may be late or lost and the gateway may restart.                *)
(***************************************************************************)
EXTENDS Naturals, FiniteSets

CONSTANTS
    Points,      \* bound: the points a user can select
    MaxCalls,    \* bound: analyses of one session
    MaxStorms,   \* bound: times the user takes over a design storm
    MaxRestarts  \* bound: restarts of the gateway

ASSUME ClientAssumption ==
    MaxCalls \in Nat /\ MaxStorms \in Nat /\ MaxRestarts \in Nat

None == "none"
ASSUME NoPoint == None \notin Points

Calls == 1..MaxCalls

VARIABLES
    deployment, \* what is behind the address: "gateway" or "single"
    fate, known, \* the job queue of the gateway
    restarts,   \* restarts of the gateway so far
    endpoint,   \* jobsEndpointAvailable: "unknown", "jobs" or "none"
    calls,      \* runAnalysis() calls so far
    call,       \* the one under way: [phase, asked, seen], and history: alone,
                \* no other was under way when it started
    panel,      \* status of UploadPanel
    loading,    \* isLoading of App
    file,       \* a contour file is chosen
    selected,   \* selection
    storms,     \* design_rainfall_mm, as the number of times it was taken over
    result,     \* analysisResult: what it was asked for, where, by which call
    error       \* analysisError of App: why, and history: the call it is of

\* The browser polls and never waits for a signal.
Server == INSTANCE JobLifecycle WITH Jobs <- Calls, ended <- {}

serverVars == <<fate, known, restarts>>
inputVars == <<file, selected, storms>>
shownVars == <<panel, loading, result, error>>
vars == <<deployment, serverVars, endpoint, calls, call, inputVars, shownVars>>

NoCall == [phase |-> None]
NoResult == [call |-> 0]
NoError == [why |-> None, call |-> 0]

ClientInit ==
    /\ deployment \in {"gateway", "single"}
    /\ Server!Init /\ restarts = 0
    /\ endpoint = "unknown"
    /\ calls = 0 /\ call = NoCall
    /\ panel = "idle" /\ loading = FALSE
    /\ file = FALSE /\ selected = None /\ storms = 0
    /\ result = NoResult /\ error = NoError
----------------------------------------------------------------------------
(* The job queue. *)

ServerEnds ==
    /\ \E j \in Calls : Server!Finish(j)
    /\ UNCHANGED <<deployment, restarts, endpoint, calls, call, inputVars, shownVars>>

ServerForgets ==
    /\ \E kept \in SUBSET known : kept # known /\ known' = kept
    /\ Server!Forget
    /\ UNCHANGED <<deployment, restarts, endpoint, calls, call, inputVars, shownVars>>

\* The jobs are kept in memory only.
ServerRestarts ==
    /\ deployment = "gateway" /\ restarts < MaxRestarts
    /\ known' = {} /\ restarts' = restarts + 1
    /\ UNCHANGED <<deployment, fate, endpoint, calls, call, inputVars, shownVars>>
----------------------------------------------------------------------------
(* UploadPanel and App around a call. *)

\* An analysis starts.  Also a slip for Analyze: with one under way, too.
Start(point, amount) ==
    /\ calls < MaxCalls
    /\ calls' = calls + 1
    /\ call' = [phase |-> "start", asked |-> [point |-> point, file |-> file, storms |-> amount],
                seen |-> None, alone |-> call = NoCall]
    /\ panel' = "loading" /\ loading' = TRUE

\* handleAnalyze() of UploadPanel: dropped while an analysis is under way.
Analyze(point, amount) ==
    \/ panel = "loading" /\ UNCHANGED <<calls, call, panel, loading>>
    \/ panel # "loading" /\ Start(point, amount)

\* requestAnalysis() of App takes its error away before the panel analyses.
Request(point, amount) ==
    Analyze(point, amount) /\ error' = NoError /\ UNCHANGED result

Settled(ending) == panel' = ending /\ loading' = FALSE

\* where: the selected_area of the response.
Succeed(where) ==
    /\ Settled("success")
    /\ result' = [asked |-> call.asked, area |-> where, call |-> calls]
    /\ error' = NoError
    /\ call' = NoCall

Fails(why) ==
    /\ Settled("error")
    /\ error' = [why |-> why, call |-> calls]
    /\ call' = NoCall
    /\ UNCHANGED result
----------------------------------------------------------------------------
(* runAnalysis() *)

CallIs(phase) == call.phase = phase

\* buildAnalysisForm() wants a file or an area; without a queue the
\* synchronous endpoint is taken at once.
Build ==
    /\ CallIs("start")
    /\ IF call.asked.point = None /\ ~call.asked.file
       THEN Fails("incomplete")
       ELSE /\ call' = [call EXCEPT !.phase = IF endpoint = "none" THEN "sync" ELSE "post"]
            /\ UNCHANGED shownVars
    /\ UNCHANGED <<deployment, serverVars, endpoint, calls, inputVars>>

\* The single-node application answers 404 or 405.
PostNoQueue ==
    /\ CallIs("post") /\ deployment = "single"
    /\ endpoint' = "none"
    /\ call' = [call EXCEPT !.phase = "sync"]
    /\ UNCHANGED <<deployment, serverVars, calls, inputVars, shownVars>>

PostAccepted ==
    /\ CallIs("post") /\ deployment = "gateway"
    /\ fate' = [fate EXCEPT ![calls] = "accepted"]
    /\ known' = known \cup {calls}
    /\ Server!Accept(calls)
    /\ endpoint' = "jobs"
    /\ call' = [call EXCEPT !.phase = "poll"]
    /\ UNCHANGED <<deployment, restarts, calls, inputVars, shownVars>>

\* The job is queued, but the reply does not arrive: nobody polls for it.
PostReplyLost ==
    /\ CallIs("post") /\ deployment = "gateway"
    /\ fate' = [fate EXCEPT ![calls] = "accepted"]
    /\ known' = known \cup {calls}
    /\ Server!Accept(calls)
    /\ Fails("network")
    /\ UNCHANGED <<deployment, restarts, endpoint, calls, inputVars>>

\* The queue is full, or the request never got there.
PostRefused ==
    /\ CallIs("post")
    /\ Fails("refused")
    /\ UNCHANGED <<deployment, serverVars, endpoint, calls, inputVars>>

\* GET /v1/jobs/<id>: what the gateway says, on its way to the browser.
PollRead ==
    /\ CallIs("poll")
    /\ call' = [call EXCEPT !.phase = "reply",
                            !.seen = IF calls \in known THEN fate[calls] ELSE "unknown"]
    /\ UNCHANGED <<deployment, serverVars, endpoint, calls, inputVars, shownVars>>

\* The job is still under way, or the poll was lost: once more.
PollAgain ==
    /\ CallIs("reply")
    /\ call' = [call EXCEPT !.phase = "poll", !.seen = None]
    /\ UNCHANGED <<deployment, serverVars, endpoint, calls, inputVars, shownVars>>

PollSucceeded ==
    /\ CallIs("reply") /\ call.seen = "succeeded"
    /\ Succeed(call.asked.point)
    /\ UNCHANGED <<deployment, serverVars, endpoint, calls, inputVars>>

\* Slip: an id the server does not know is taken for a failed analysis.
ToldGone == IF call.seen \in {"failed", "unknown"} THEN "failed" ELSE None

\* What a final reply without a result is reported as.
Told ==
    CASE call.seen = "failed" -> "failed"
      [] call.seen = "unknown" -> "expired"
      [] OTHER -> None

PollFailed ==
    /\ CallIs("reply") /\ Told # None
    /\ Fails(Told)
    /\ UNCHANGED <<deployment, serverVars, endpoint, calls, inputVars>>

\* Slip: only polls for a job that is gone run into the deadline.
DeadlineIfLost ==
    /\ CallIs("poll") /\ calls \notin known
    /\ Fails("timeout")
    /\ UNCHANGED <<deployment, serverVars, endpoint, calls, inputVars>>

\* Six minutes after the job was accepted, the time it was queued included.
Deadline ==
    /\ CallIs("poll")
    /\ Fails("timeout")
    /\ UNCHANGED <<deployment, serverVars, endpoint, calls, inputVars>>

\* POST /analyzeContour: a response or an error within three minutes.  A
\* response without sites does not say which area was selected.
Sync ==
    /\ CallIs("sync")
    /\ \/ \E where \in {call.asked.point, None} : Succeed(where)
       \/ Fails("refused")
    /\ UNCHANGED <<deployment, serverVars, endpoint, calls, inputVars>>

CallGoesOn == Build \/ PostNoQueue \/ PostAccepted \/ PostReplyLost \/ PostRefused \/ Sync
PollGoesOn == PollRead \/ PollAgain \/ PollSucceeded \/ PollFailed
----------------------------------------------------------------------------
(* The user. *)

\* A click on the map.  With auto-recommend it is also a request, unless an
\* analysis is under way.
SelectPoint(p) ==
    /\ p # selected /\ selected' = p
    /\ \/ UNCHANGED <<calls, call, shownVars>>
       \/ ~loading /\ Request(p, storms)
    /\ UNCHANGED <<deployment, serverVars, endpoint, file, storms>>

ClearPoint ==
    /\ selected # None /\ ~loading
    /\ selected' = None
    /\ UNCHANGED <<deployment, serverVars, endpoint, calls, call, file, storms, shownVars>>

\* The button of App and the one on the map, disabled while an analysis runs.
Press ==
    /\ selected # None \/ file
    /\ ~loading
    /\ Request(selected, storms)
    /\ UNCHANGED <<deployment, serverVars, endpoint, inputVars>>

\* "Analyze" and "Retry analysis" of the panel, there for a chosen file, call
\* handleAnalyze() themselves: the error of App stays.
PressPanel ==
    /\ file /\ panel # "loading"
    /\ Analyze(selected, storms)
    /\ UNCHANGED <<deployment, serverVars, endpoint, inputVars, result, error>>

\* "Use as design storm" is a request, too, and is not disabled.
TakeStorm ==
    /\ storms < MaxStorms
    /\ storms' = storms + 1
    /\ Request(selected, storms')
    /\ UNCHANGED <<deployment, serverVars, endpoint, file, selected>>

\* Another contour file, one that is refused, or none, and the results are
\* gone.
ChooseFile ==
    /\ panel # "loading"
    /\ \/ /\ file' = TRUE /\ error' = NoError
          /\ panel' = IF panel = "error" THEN "idle" ELSE panel
          /\ UNCHANGED loading
       \/ /\ file' = FALSE /\ panel' = "error" /\ loading' = FALSE
          /\ error' = [why |-> "invalid", call |-> 0]
       \/ file' = FALSE /\ panel' = "idle" /\ error' = NoError /\ loading' = FALSE
    /\ result' = NoResult
    /\ UNCHANGED <<deployment, serverVars, endpoint, calls, call, selected, storms>>

\* An entry of the history: its point, and no results.
Restore ==
    /\ ~loading
    /\ \E p \in Points : selected' = p
    /\ result' = NoResult /\ error' = NoError
    /\ UNCHANGED <<deployment, serverVars, endpoint, calls, call, panel, loading, file, storms>>

User ==
    \/ \E p \in Points : SelectPoint(p)
    \/ ClearPoint \/ Press \/ PressPanel \/ TakeStorm \/ ChooseFile \/ Restore

ClientNext ==
    \/ CallGoesOn \/ PollGoesOn \/ Deadline
    \/ User
    \/ ServerEnds \/ ServerForgets \/ ServerRestarts

\* Requests and polls end because the browser limits them, and the deadline
\* comes between two polls.  Nothing is assumed of the gateway.
ClientSpec ==
    /\ ClientInit /\ [][ClientNext]_vars
    /\ WF_vars(CallGoesOn) /\ WF_vars(PollAgain \/ PollSucceeded \/ PollFailed)
    /\ SF_vars(Deadline)
----------------------------------------------------------------------------
\* Slip: whatever is shown counts as the selected point.
MatchesAnything == result # NoResult

\* resultMatchesSelection, the radius being part of the point.
Matches == result # NoResult /\ result.area # None /\ result.area = selected

\* getHeaderStatus()
Header ==
    IF loading THEN "analyzing"
    ELSE IF error # NoError THEN "failed"
    ELSE IF result # NoResult /\ selected # None /\ ~Matches THEN "new point"
    ELSE IF result # NoResult THEN "ready"
    ELSE IF file \/ selected # None THEN "to analyse" ELSE "begin"

\* App and UploadPanel each remember that an analysis runs, and both are
\* right: the buttons, the map and the file input, some disabled by the one
\* and some by the other, never let a second analysis start beside the first
\* (UploadPanel.jsx:190-235, App.jsx:167-206).
LoadingIsCall ==
    /\ loading <=> call # NoCall
    /\ panel = "loading" <=> call # NoCall
    /\ call # NoCall => call.alone

\* What the browser reports of a job is so, however late or lost the replies
\* were: a result is that of an analysis that succeeded, a failure that of
\* one that failed, and only a job that the gateway no longer knows has
\* expired (catchmentApi.js:398-420).  The panel's own buttons leave an old
\* error behind the analysis they start (UploadPanel.jsx:396-417): "Analysis
\* failed" stands, all the same, only over the latest analysis or a file that
\* was refused.
ReportsAreTrue ==
    /\ deployment = "gateway" =>
          /\ result # NoResult => fate[result.call] = "succeeded"
          /\ error.why = "failed" => fate[error.call] = "failed"
          /\ error.why = "expired" => error.call \notin known
    /\ Header = "failed" => error.call = calls \/ error.why = "invalid"

\* "Recommendation ready" stands over a result for the selected point: a
\* point that was selected while the analysis ran, or after it, is told
\* apart (App.jsx:228-251).
ReadyIsHere ==
    Header = "ready" /\ selected # None => result.asked.point = selected

\* Every analysis the user starts comes to an end on the screen, though the
\* gateway may lose the job and the network every reply.
CallsEnd == call # NoCall ~> call = NoCall
=============================================================================
