# Formal model of JalaSetu

JalaSetu finds sites for farm ponds from contour maps.  Its backend runs on
four small nodes (500 MB each): a gateway (sys4) that queues analyses and
places their heavy stages, two stage workers (sys2, sys3) that each run one
stage at a time, and an edge node (sys1) that serves the frontend and two
lookups.  A prober on the gateway's machine rewrites Nginx's routes when a node
fails, a watchdog keeps each service running, and the browser polls for its
result.  The same analysis can also be run by a single-node application.  This
directory holds TLA+ modules for these parts and for the algorithms that turn a
contour map into a site and its catchment, TLC configurations that check them
on small instances, and proofs, checked by TLAPS, that hold for every instance.

All paths below are relative to `src/`.

## The system

| Part | State | Operations | Talks to |
| --- | --- | --- | --- |
| `CapacityGuard` (`distributed/capacity.py`) | slots in use, two counters; the node's memory | `slot()` = `try_acquire`, stage, `release`; `report` | request threads of a worker, job threads of the gateway |
| `JobManager` (`distributed/jobs.py`) | table of jobs, executor queue | `submit`, `_run`, `_prune`, `get`, `queue_position`, `to_public` | HTTP handlers and the executor's threads; runs the orchestration |
| `WorkerPool` (`distributed/scheduler.py`) | what is known of each node, dispatches in flight | `refresh`, `_probe`, `ranked`, `run` | several job threads; HTTP to the workers; the gateway's own guard |
| worker wrapper (`distributed/worker.py`) | none of its own | `heavy`, `/health` | the guard of the worker, the stages |
| `Gateway` (`distributed/sys4.py`) | per analysis: two lookups in flight, what they said, sites, storm | `analyze`, `rainfall`, `infrastructure` | `WorkerPool.run`, the edge, local lookups |
| single-node pipeline (`app/services/pipeline.py`) | the same, with one lookup in flight | `analyze_contour_file` | the algorithms, in its own process |
| edge (`distributed/sys1.py`) | none | routes, a proxy with a hop guard | gateway, lookups |
| infrastructure lookup (`app/services/infrastructure.py`) | cache, fetches in flight, cooldown | `fetch_infrastructure` | Overpass; request threads |
| rainfall lookup (`app/services/rainfall_service.py`) | unlocked cache | `get_rainfall_data` | Open-Meteo; request threads |
| terrain tiles (`app/services/terrain_source.py`) | bounded cache | `_fetch_tile` | tile server |
| health prober (`scripts/cluster_health_prober.py`) | counters and thresholded state of each node, the map file | `main`'s round, `install_nginx_maps` | the nodes' `/health`, Nginx |
| watchdog (`scripts/watchdog.py`) | child process, count of failed checks | `run`, `_start_child`, `_stop_child`, `_on_signal` | one service |
| contour maps (`kml_parser.py`, `dem_builder.py`) | none | `parse`, the four strategies for an elevation, `build_dem` | the stages |
| terrain (`catchment_delineation.py`, `pond_site.py`, `terrain_analysis.py`, all under `app/services/`) | directions and accumulation, kept from one stage to a later one | D8 routing, accumulation, snapping, upstream trace; regions, carving, pins | the stages |
| zones (`app/services/exclusions.py`) | none | `plan_exclusions`, `apply_exclusions` | the ranking |
| browser (`frontend/src`) | one call under way; what App and UploadPanel show | `runAnalysis`, the user's actions | the gateway's job API or the synchronous endpoint |

An analysis is submitted to `JobManager`, which runs it on one of
`JALASETU_MAX_ACTIVE_JOBS` threads.  The thread executes `Gateway.analyze`,
which calls `WorkerPool.run` once for each heavy stage.  `run` ranks the nodes
by what it last heard of them and tries them in turn: a worker over HTTP,
behind the worker's `CapacityGuard`, or the gateway itself behind its own.
Clients poll the job or wait for it.

What is hard here, and what correctness means:

* **Guard**: memory is measured outside the lock and given back after the slot,
  while other threads come and go.  The counter must be exact, nothing may leak.
* **Jobs**: decisions are taken under a lock, jobs are handed over after it,
  and their fields change with no lock at all.  Clients must be told the truth,
  recent results must survive the sweeps, and the bounds must hold.
* **Infrastructure lookup**: threads share one fetch per area; a fetch may
  fail, raise or be evicted at once.  Nobody may fetch without need, wait for a
  fetch that is over, or lose an answer that was just stored.
* **Scheduler**: nodes are ranked from stale knowledge by several threads; calls
  fail, time out or outlive their caller; workers crash.  The count of
  dispatches must stay exact, a busy cluster must not be taken for a dead one,
  a stage must not be computed twice without cause, and every call must end.
* **Edge health**: what Nginx runs with, the file it was told to read and what
  the prober believes are three things, and a failure or a crash can come
  between any two.  Flapping nodes must neither leave nor return too early, and
  traffic must end up where somebody answers.  The watchdog must kill for cause
  only, and the service must come back.
* **Analysis**: lookups run beside it, are waited for with a timeout and then
  left alone; late, failed and empty are three different answers.  The zones
  pass through a lookup, a plan, zeroed scores and a threshold.  The result must
  be the site the request calls for, and must say truly what it rests on.
* **Client**: it has a deadline of its own, replies get lost, the gateway
  forgets its jobs when it restarts, and the user goes on clicking.  One
  analysis at a time, its end always shown, and shown as what it was.
* **Terrain**: results of one stage are used stages later (directions and
  accumulation), rounding decides whether a pin lies on its pond, cutting a
  region may break it, and units of text decide on the height of a contour.

## Modules

| Module | What it is |
| --- | --- |
| `SlotPool` | what a guard promises: a fixed number of slots, each given back |
| `CapacityGuard` | the guard as coded; implements `SlotPool` |
| `CapacityGuardProofs` | its theorems |
| `JobLifecycle` | what the job API promises: accepted or refused, ended once, found until then, its end signalled |
| `JobQueue` | `JobManager`, its executor and the handlers that submit, poll and wait; implements `JobLifecycle` |
| `JobQueueProofs` | its theorems |
| `StageScheduler` | `WorkerPool`, the workers' wrapper and the calls between them |
| `StageSchedulerProofs` | its theorems |
| `InfraLookup` | `fetch_infrastructure()`: cache, shared fetch, cooldown |
| `InfraLookupProofs` | its theorems |
| `HealthProber` | the prober, the map file and what Nginx loaded |
| `Watchdog` | the watchdog and its service |
| `EdgeHealth` | both together: one probed node is run by the watchdog |
| `EdgeHealthProofs` | its theorems |
| `Siting` | regions of a terrain, zones, the choice of candidates, the selected area |
| `AnalysisState` | what the two deployments' analyses share |
| `GatewayAnalysis` | `Gateway.analyze()` with its lookups on the edge |
| `PipelineAnalysis` | `analyze_contour_file()` of the single-node application |
| `SiteContract` | what an analysis promises, whoever runs it |
| `SiteAnalysis` | either of them; implements `SiteContract` |
| `SiteAnalysisProofs` | its theorems |
| `AnalysisClient` | `runAnalysis()`, App and UploadPanel, against the `JobLifecycle` |
| `AnalysisClientProofs` | its theorems |
| `Grid` | cells, the eight directions, connectedness |
| `Contours` | placemarks to contours to the surfaces through them |
| `PondSites` | suitable cells, regions, carving, shape filters, pins |
| `Watershed` | D8 directions, accumulation, snapping, upstream trace |
| `TerrainPipeline` | the stages in their order, over the four modules above |
| `TerrainPipelineProofs` | its theorems |
| `MC*` | instances for TLC |

Operators marked `Slip:` stand for a plausible mistake in the code (a counter
compared the wrong way, a missing `finally`, a list sorted the wrong way round).
No specification uses them; each is put in the place of the definition below it
to see that the properties notice.

### CapacityGuard

`pc[t]` is where a thread is in `slot()`.  `Sample` is line 239 of
`capacity.py`, `Admit` and `Refuse` are what follows under the lock, `Release`
is the locked part of `release()` and `Trim` is `release_memory()` after it.
Memory is `BaseUse` plus `StageUse` for each thread whose stage allocated and
whose memory was not yet collected; a collection by one thread frees what all
finished stages left behind.  `slot()` releases in a `finally`, so a stage that
raises takes the same step as one that returns.  `calls` is a history variable
and bounds the behaviours (`MaxCalls`).

### JobQueue

`at[j]` is where the submitter, and later the executor's thread, is with a job.
`submit()` is two steps: `Register` or `Refuse` with the lock held (both begin
with the sweep, which is why they change `jobs`), and `Enqueue` after it, since
the handover to the executor (line 106) is outside the lock.  `_run()` is
`Start`, `Compute`, `Settle`, `Close`, `Signal`: the points where another
thread can see a job half changed.  The executor hands jobs out first in, first
out, and `Start` lets the threads that took jobs mark them in any order.
Times are stamps: 1, 2, ... in the order of the events; `Expire` lets
`JOB_TTL_SECONDS` pass for a finished job, older ones first.  `Poll` is
`GET /v1/jobs/<id>` and `WaitReturns` the synchronous endpoints; a wait that
times out answers 504 and changes nothing, so it is no step.

Abstracted: `to_public()` reads the fields of a job one after the other without
the lock, and so does `submit()` for other jobs' `state`; both are one step
here.  The progress fields (`stage`, `node`, `waiting`, `stages`) are display
data.  `HasId` lets a client use an id from the moment `submit()` returned.

### StageScheduler

A task is one call of `WorkerPool.run()`.  `Begin`, `Probe`, `Probed` are
`refresh()`, one at a time behind its lock, each probe answered or lost on its
own.  `Rank` computes `ranked()`: the sort key is `Before`, and what headroom
decides, which the model does not know, is any order.  `todo[t]` are the
candidates left; `RunLocally`, `LocalBusy`, `Dispatch` try the first one.
`mail[t]` is the request on the wire and the answer that comes back.  The
worker's side is `Admit`, `AnswerBusy`, `Complete`, plus `Crash` and `Restart`.
`AnswerEnds`, `AnswerFallsThrough` and `CallFails` are the three ways on from a
call; each takes the call off `pending` (the `finally` of line 252).  When no
candidate is left: `Degrade`, `GiveUp` or `Wait`.

Abstracted: each node has one slot (the deployed value); its guard is modelled
by `CapacityGuard`, here a node may refuse for want of memory at any time.  A
probe's request and the storing of its answer are one step, as are the
`finally` clause and the handling of the status after it (the lock is released
in between, but the only thing a third thread sees there is `pending`).  The
edge node is probed but never eligible, so it is left out.  One stage stands
for all three: affinity is per stage and a constant of the model.  The time
that passes is bounded to what the deadline test can see (`Deadline`).

### InfraLookup

`pc[c]` is where a thread is in `fetch_infrastructure()`.  `ServeCached`,
`FailFast`, `Join` and `Lead` are what it may find while it holds the lock, and
together one pass of the loop; `Store`, `Fail` and `Raise` are the ways a fetch
ends; `Leave` is the `finally` that takes the mark out of `_inflight` and wakes
the waiters, a step of its own since the lock was released in between.  Entries
carry a stamp that grows with each store, `expired` are those older than the
TTL, `Expire` lets them age oldest first.  `fetches` and `losses` are histories.

Abstracted: an area is a key after rounding; the endpoints a fetch tries one
after the other are within the step that ends it; `Raise` stands for every
exception but `RuntimeError`.  A cooldown may end at any time, which also covers
one that a second failure prolongs.

`JobQueue` implements `JobLifecycle`, and `AnalysisClient` is written against
`JobLifecycle`: what holds for the client holds for any queue that keeps that
promise.  `GatewayAnalysis` takes a stage as one step that ends or fails;
`StageScheduler` is how it is placed, `TerrainPipeline` what it computes.
`InfraLookup` is what happens behind the lookup that the analyses wait for.

### HealthProber, Watchdog, EdgeHealth

`Round` is one round of `main()`: the four probes and the thresholds.  Each node
is probed once in a round, so a change during it is one before or after it, and
the round is one step.  `Keep`, `Replace`, `Validate`, `Reload` are
`install_nginx_maps()` line by line: the file is compared, replaced, tested
(`nginx -t`), loaded.  `Fails` is a command that returns an error (with the
rollback, if there was a file), `Raises` an exception that `main()` swallows,
`Crash` the end of the process, after which only file and Nginx remain.  `file`
is what is on disk, `loaded` what Nginx runs with.  `torn` is a history
variable: an install was cut short and none completed since.  `seen` and
`checks` remember the last three probes and checks independently of the
counters, so that the properties can judge the counters.

In `Watchdog`, `Answered` and `Missed` are one health check, `FindsDead` is
`poll()`, `Stop` and `Start` the two halves of a restart, `StartFails` an
exception of `Popen` (which ends the watchdog the first time and is swallowed
by the loop later), `Terminate` the signal handler.  The service starts, serves,
hangs and dies by itself; a start takes at most `StartChecks` checks.
`EdgeHealth` lets `Watched` answer the prober exactly while its service serves.

Abstracted: the map file is its five routes; the status file and logging are
left out; `failures` and `successes` stop at their thresholds, with which they
are only compared.

### Siting, AnalysisState, GatewayAnalysis, PipelineAnalysis, SiteAnalysis

`apc` is how far the analysis is, `infraThread` and `climateThread` where its
lookups are; they go on after the analysis gave up waiting (`Lookup` is a step
of its own at any time).  `Check` is `infra_future.result(timeout=...)`: what
came in time, or "unavailable"; `CheckRaises` what happens when the lookup
raised.  `GatewayAnalyze` and `PipelineRank` are the ranking with the zones, the
cut to `max_candidate_sites` and then the preference for the selected area, in
the order of the code.  `GatewayClimate` and `PipelinePrepare` decide on the
storm.  Every `Fail` is an exception that leaves the function.

A terrain is a set of regions, numbered by score, each with a distance, the
ground it lies on, and whether it passes the criteria or only the relaxed ones
of the fallback.  Zeroed regions have the lowest score, and reach a threshold of
0.  The relaxed fallback of the single-node pipeline is modelled as it is, and
never finds anything (see below).

Abstracted: the geometry of zones (Shapely) appears as what it decides, on which
ground a region lies; the contents of stages, which are `TerrainPipeline`; notes
and traces of the response.  Distances are those the code compares; that its
formula takes a degree of longitude for as long as one of latitude is not
modelled.

### AnalysisClient

`call` is the `runAnalysis()` under way with its `phase`; `panel` and `loading`
are the two places that remember it.  `Build`, `Post*`, `Sync` are the
submission, with 404/405 as the sign that there is no queue, `PollRead` is the
moment the gateway answers a poll and `PollAgain`, `PollSucceeded`, `PollFailed`
what the browser makes of the answer when it arrives; in between the job may
move on.  A lost poll is a `PollAgain`.  `Deadline` is the client's own six
minutes.  The user's actions are those that touch this state: selecting with and
without auto-recommend, the buttons, taking over a storm, choosing a file,
restoring an entry of the history.  `Analyze` is `handleAnalyze()` of the panel
and `Request` is `requestAnalysis()` of App, which takes App's error away first:
the button of App and of the map (`Press`), auto-recommend and the storm go
through it, the panel's own "Analyze" and "Retry analysis" (`PressPanel`) do
not and leave an old error standing while their analysis runs.  `error` keeps
the analysis it is of, and `call.alone` that no other was under way when it
started: both are history.  `ServerRestarts` empties the job table.

Abstracted: coordinates and the radius are one point; the two map components,
which call the same function, are one click.

### Grid, Contours, PondSites, Watershed, TerrainPipeline

`Contours` reads an elevation off a placemark by the four strategies in their
order.  A text is a record of what the regular expressions look for (number,
keyword before it, unit after it, whether a space is between, more numbers).
`Surfaces` is every surface that meets the samples and stays between them, of
which the interpolation gives one; three samples on a line give none and the
stage fails.  `Watershed` takes the D8 comparison direction by direction as the
vectorised code does, and the accumulation and the trace cell by cell.  Slopes
are compared as exact squares.  `PondSites` has the regions (`ndi.label`), the
carving, and the shape filters in exact arithmetic: axes from second moments
times 12 n^2, the ratio 3.5 as 49/4 of the eigenvalues.  `Pins` is the rounding
of the pin into a cell (half to even) and back through coordinates, which may
end in either of two cells where the value is whole.

`TerrainPipeline` composes them: `Parse`, `Build`, `FetchTiles`, `Analyse`,
`Exclude`, `RankSites`, `Delineate` are the stages, `Flow` the steps of the
routing in between.

Abstracted: the score of a cell, a weighted sum of floating-point terms clipped
to 0 .. 100 (`Scores`), is any of a set of maps, and the candidate that is first by score is any of them; a
queue is a set of which one element is next, since no property tells the order;
the category of slope limits is taken in order; `max_pond_area_m2`, unset by
default, is left out; pysheds, external, answers with some catchment or not at
all, and nothing is claimed of its answer.

## Runs

| Run | Checks | Instance |
| --- | --- | --- |
| `guard` | `TypeOK`, `SlotsMatchHolders`, `DrainedNodeAccepts`, implements `SlotPool` with liveness | 3 threads, 2 slots, 5 calls; the third thread makes slots scarce, and memory is tight before slots are |
| `guard_stale_sample` | `AdmissionLeavesReserve`, violated | 2 threads, 1 slot, the deployment's megabytes |
| `queue` | `TypeOK`, `AnswersAreTrue`, `RecentResultsKept`, `HeldBytesBounded`, `PositionNeverGrows`, implements `JobLifecycle` with liveness | 3 jobs of sizes 1, 2, 4; 2 threads, no queue beyond them, 3 bytes, 1 result kept: both refusals, the escape for one large upload, and a sweep by count and by age all happen |
| `scheduler` | `TypeOK`, `PendingMatchesCalls`, `NoNeedlessDuplicate`, `BusyIsNotDead`, `RunEnds` | 2 tasks (one with bad input), 2 workers (one with affinity), the gateway, 2 faults: two tasks compete for every node, and one fault can hit a call while another hits the retry |
| `infra` | `TypeOK`, `SingleFlight`, `NoNeedlessFetch`, `RecentAnswersKept`, `LookupsEnd` | 3 threads, 3 areas, room for 2 entries, 4 lookups: two wait for one fetch, a third entry evicts one, and an evicted or expired area is fetched again |
| `infra_raises` | `NeverRaises`, violated | 2 threads, 1 area |
| `edge` | `TypeOK`, `LoadedIsInstalled`, `Hysteresis`, `OnlyUnhealthyLeave`, `RoutingFollows`, `KilledForCause`, `ServiceReturns` | the 4 nodes and 5 routes of the deployment with its thresholds; sys2 under the watchdog, sys1 may be down; one node changes, one install fails, one crash or exception, one hang or death: about a million states, in which a rollback meets a restart and a service is killed while the prober condemns its node |
| `analysis` | `TypeOK`, `NoBuildKept`, `StatusHonest`, `StormRespected`, `AnalysisEnds`, implements `SiteContract` | every terrain of 2 regions within, around and beyond the surveyed circle; 14 requests: with and without a selected area, a file, zones of either kind, a storm, 1 or 2 candidates, and the threshold 0; both deployments |
| `analysis_relaxed` | `RelaxedFallbackHelps`, violated | the same as `analysis` |
| `client` | `LoadingIsCall`, `ReportsAreTrue`, `ReadyIsHere`, `CallsEnd` | 2 points, 3 analyses, 1 storm taken over, 1 restart: an analysis can meet what is left of two earlier ones, an error that the panel's buttons kept and a result behind it |
| `terrain` | `CatchmentExact`, `AreaIsAccumulation`, `FootprintsSound` | a raster of 3 by 5 cells, 5 contour maps (two good ones, of texts and shapes of every kind, one unreadable, one without elevations, one along a single line) and tiles, scores and zones that leave regions of every size up to a carved one |
| `contour_feet` | `ElevationsInMetres`, violated | the same with a map whose contour is named in feet |

`CHECK_DEADLOCK FALSE` is set because each of these systems really stops: when
the calls, jobs, tasks or troubles of the instance are over, an analysis has
answered or a catchment is traced, nothing is left to do.

The bounds are named in the modules (`\* bound:`), and each guards one action:
how often a node fails, how many calls are made.  They are chosen for the cases
of the table to occur together; the safety properties that the section on proofs
lists hold for every bound.  What is only model-checked, above all liveness, is
known for these instances.

### Properties worth a word

* `SlotsMatchHolders` makes the `max(0, ...)` of `release()` dead code: it never
  hides a doubled release.
* `DrainedNodeAccepts`: a node that has drained accepts again.  It rests on one
  trim freeing everything finished stages left, and on the slot being released
  when a stage raises.
* `AnswersAreTrue`: in particular "job not found or expired" is never said of an
  analysis that is still going on.  It holds because a sweep looks at
  `finished_at`, which is set after `state`.
* `RecentResultsKept`: no sweep, whoever triggers it, drops one of the newest
  results before it expires.
* `PositionNeverGrows`: the position is sorted by creation time while the
  executor starts jobs in its own order; still no waiting client sees its
  position get worse.
* `NoNeedlessDuplicate`: a stage is computed in at most one place, plus one for
  each of its own calls that failed while the worker went on with it
  (`abandoned`).  Crashes, lost probes and refusals excuse no second copy, and
  neither does what befell another task.
* `BusyIsNotDead`: without faults the gateway never runs a stage outside its
  guard, in particular not because a refusal was taken for an unreachable
  worker or because ranking came before the first probes.
* `NoNeedlessFetch`: the books balance over the whole history: whoever fetches
  an area again can point to a fetch that failed or an entry that went.
* `RecentAnswersKept`: eviction takes the oldest entry, so an answer outlives
  the next `CacheMax - 1` stores, whatever areas they are for.
* `Hysteresis`: judged by what the probes said, not by the prober's counters, in
  both directions: three failures condemn and nothing less does, two successes
  pardon and nothing less does.
* `LoadedIsInstalled`: the prober compares the wanted routes with the file and
  never asks Nginx, which is right only as long as both agree.
* `OnlyUnhealthyLeave`: when Nginx takes up new routes, no preferred node is left
  out but for a thresholded failure, although states are forgotten in a crash
  and files rolled back.
* `RoutingFollows`: once nodes stop changing, each location is served by a living
  node if one can serve it, failed validations and reloads notwithstanding.
* `KilledForCause`: the kill follows exactly the three failed checks of this very
  process; `ServiceReturns`: whatever happens to it, it serves again.
* `ImplementsContract`: the contract knows no lookup threads, no zeroed scores, no
  cut and no preference; it says which site is right.  `NoBuildKept` and
  `StatusHonest` say what the answer may claim.
* `StormRespected`: the runoff is that of the storm the user asked for, however
  the rainfall lookup ends.  Of the gateway this holds for every storm; of the
  single-node application for every storm but 100 mm, which it takes for the
  default (see below).
* `ImplementsJobLifecycle` includes that the end of every accepted job is
  signalled, which is what a synchronous caller waits for.
* `LoadingIsCall`: two components remember that an analysis runs, and different
  controls look at one or the other; together they let no second one start beside
  the first.
* `ReportsAreTrue`: "failed" and "expired" are said only of what failed or is no
  longer known, also when the answer to a poll arrives late.  An error that the
  panel's buttons left standing is hidden while their analysis runs, and gone or
  replaced when it ends: "Analysis failed" is never of an earlier analysis.
* `ReadyIsHere`: a result stands beside a point selected in the meantime, and is
  then not called ready.
* `CatchmentExact`: the trace finds what drains to the pour point, all and only
  that, from directions computed two stages before; `AreaIsAccumulation`: two
  algorithms, one downstream and one upstream, count the same cells.
* `FootprintsSound`: a carved region is still in one piece and large enough, no
  two ponds touch, and the rounded pin is on its pond or on a cell that touches
  it.  On the instance the pin is never further than an edge away, but a raster
  of 5 by 5 cells already has footprints where it is across a corner.

### Where the code differs from what is said of it

Four runs expect a violation.  Each states a sentence of the repository:

1. `AdmissionLeavesReserve`: a stage can be admitted on an outdated memory
   sample (`distributed/capacity.py:195`, `:239`).
2. `NeverRaises`: an answer that breaks off makes the lookup raise
   (`app/services/infrastructure.py:215`, `:194`).
3. `RelaxedFallbackHelps`: the relaxed fallback of the single-node pipeline reads
   an array that was set to `None` a few lines before; the exception is
   swallowed, so it never finds a site (`app/services/pipeline.py:449`, `:463`,
   `app/services/pond_site.py:423`).
4. `ElevationsInMetres`: a contour named `6ft` is not converted, since between a
   digit and a letter there is no word boundary (`app/services/kml_parser.py:94`,
   `:296`).

These were met while modelling and are in the models, without a run of their own:

* A burst of submissions passes the bound on waiting jobs, because a job counts
  as running only once its thread has said so (`distributed/jobs.py:94`,
  `distributed/README.md:57-58`).
* A worker answers 422 for failures of its own, which the scheduler takes for bad
  input and does not retry (`distributed/worker.py:73`,
  `distributed/scheduler.py:42`).
* The gateway can be ranked above an accepting worker, because headroom is
  compared before `is_local` (`distributed/scheduler.py:180`,
  `distributed/README.md:13`).
* A prober that dies between replacing the file and reloading, or whose first
  file fails validation, leaves a file that equals the wanted one: the next
  round sees nothing to do and Nginx keeps its old routes until they change
  again (`scripts/cluster_health_prober.py:97`, `:101`).  `torn` marks this in
  the properties.
* The single-node application takes a storm of 100 mm that the user asked for for
  the default and replaces it by the location's (`app/services/pipeline.py:355`),
  against "unless the user overrides it" (`README.md:54`).  Requests with the
  storm "default" stand for it; `StormRespected` excepts them there, and only
  there (`StormIsUsers`).  The gateway tells the two apart.
* With a threshold of 0 the zeroed cells of the zones pass
  (`app/services/pond_site.py:313`).  `NoBuildKept` and the contract leave the
  threshold 0 out.
* The best `max_candidate_sites` are cut before the selected area is looked at, so
  a site in the area can be lost to better ones outside; and zones marked by the
  user have no effect unless an area is selected.
* An exception of the infrastructure lookup other than a timeout fails the whole
  analysis (`distributed/sys4.py:382`, `app/services/pipeline.py:396`).
* A job whose acceptance never reaches the browser runs with nobody polling, and
  the client's six minutes include the time a job waits in the queue.
* A response without sites of the single-node application does not name the
  selected area, so the header shows "new point selected" for the point that was
  just analysed.
* The pin of a pond is tested against its footprint with one rounding and placed
  with another, so it may lie on a cell that touches the footprint at a corner
  only (`app/services/pond_site.py:432`).
* A fallback climatology is cached for a day like a measurement
  (`app/services/rainfall_service.py:250`).
* A mixed `MultiGeometry` contributes no samples to the terrain, and the second
  attempt of the interpolation fails as the first did.

## Fairness

* Guard: `Admit`, `Refuse`, `Release`, `Trim` of each thread are weakly fair:
  threads are scheduled, the lock is held for a few instructions, and a stage
  ends, by returning or raising (it is a bounded computation).  Nothing is
  assumed of new calls.
* Jobs: `Enqueue` and the thread's five steps are weakly fair.  `Compute` ends
  because every request, wait and backoff below it carries a timeout, which is
  what `RunEnds` shows of the scheduler.  Clients and the clock owe nothing.
* Scheduler: threads of the gateway and of living workers are weakly fair.
  `Deadline` is strongly fair: the clock is looked at only at the end of a pass,
  and each pass sleeps for at least the first backoff, so a task that comes
  there again and again finds its deadline passed.  Crashes and restarts owe
  nothing; a worker may stay dead for ever.
* Infrastructure lookup: a thread that looks, fetches or leaves goes on (a fetch
  has a budget of seconds).  The timeout of a wait is deliberately not assumed:
  `LookupsEnd` says that every waiter is woken by its fetcher.  Since lookups are
  finite in number (`MaxCalls`), it does not speak of a waiter that newcomers
  overtake for ever.
* Edge: `Work` of the prober is weakly fair, its restart included: supervisor runs
  it with `autorestart` (`scripts/apply_nginx_hardening.sh:23-31`).  The
  watchdog's `Loop` is weakly fair, and so is `Ready`: a service that is started
  comes up, unless it hangs or dies.  Nodes, failures and crashes owe nothing,
  and are finite in number.
* Analysis: only `Stage`, the thread of the analysis.  The lookups may hang for
  ever: `AnalysisEnds` rests on the timeouts alone.
* Client: requests end because the browser limits them (`CallGoesOn`), an answer
  that arrived is looked at, and `Deadline` is strongly fair, since the clock is
  compared between two polls and goes on.  `PollRead` and everything the gateway
  does owe nothing.
* Terrain: no liveness is stated.

## Proofs

TLAPS proves, for every value of the constants that the named assumptions allow
(finite sets, non-negative numbers, disjoint names):

* `CapacityGuardProofs`: `TypeCorrect`, `SlotsCorrect`, `DrainedCorrect`,
  `CallsCorrect`, and `ImplementsSlotPoolSafety` (every behaviour is one of
  `SlotPool!Spec`).  The inductive invariant is the type invariant with the
  counting of threads: the slot counter equals the cardinality of the threads
  inside, so an admission adds a thread to a set that did not hold it and a
  release removes one that it did.
* `JobQueueProofs`: `TypeCorrect`, `AnswersCorrect`, `RetentionCorrect`,
  `PositionCorrect` (an action property) and `ImplementsJobLifecycleSafety`.
  The invariant ties each job's place in the code to its fields: which of
  `state`, `outcome`, `createdAt`, `finishedAt` are set at each place, that a
  job whose `finished_at` is unset is in the table, and that what a client saw
  is final.  Without the second part a sweep could drop a job that is still
  pending; without the third an answer could be right when given and wrong
  later.  The refinement maps an end to the moment `state` is set and its signal
  to `done.set()`, three steps of the thread apart.
  `HeldBytesCorrect` adds that the uploads of pending jobs fit in the limit.
  `SweepSparesPending` is what makes the sum that `Register` compares the sum
  that is held afterwards.  The sum itself is a recursive fold, about which the
  prover has no induction theorem it can use; instead `FoldUpTo` shows that for
  each n one function satisfies the fold's equation on all sets of at most n
  jobs, by taking the least n without one.  `BytesUnfold`, `BytesAdd` and
  `BytesRemove` are the facts about the sum that follow.
* `StageSchedulerProofs`: `TypeCorrect` and `PendingCorrect`.  They are proved
  together: `pending` stays a natural number only because it equals the number
  of calls out to the worker, and a call that leaves was one of them.
  `NoDuplicateCorrect` rests on `StraysBlamed`: a worker that computes for a
  task which is no longer waiting for it is a stray, and a task has at most as
  many strays as calls it abandoned.  `NoNeedlessDuplicate` alone is not
  inductive, since it does not know that a call which ends otherwise takes its
  worker's computation with it.  `HistoryGrows`: no step forgets an abandoned
  call.  `BusyIsNotDeadCorrect` rests on `Quiet`,
  what is so while there were no faults: all workers are up, every node that was
  probed answered, a task past its probes knows all of them as reachable, and a
  request that was admitted is being computed.
* `InfraLookupProofs`: `TypeCorrect`, `SingleFlightCorrect`,
  `NoNeedlessFetchCorrect`.  The invariant says thread by thread who holds which
  mark, keeps the books of each area (fetches = losses + one if there is a fresh
  entry or a fetch going on, never both), and that stamps are unique: without
  that, a store could evict the entry it replaces and another with it.
  `RecentAnswersCorrect` counts the stamps: a full cache evicts exactly one
  entry, the oldest (`OneIsEvicted`), and n entries newer than it need n stores
  after its own (`StampsBetween`).
* `EdgeHealthProofs`: `TypeCorrect`, `InstalledCorrect`, `HysteresisCorrect`,
  `OnlyUnhealthyLeaveCorrect`, `KilledForCauseCorrect`.  `CountersRecall` and
  `ChecksRecall` say that each counter is the length of the streak at the end of
  the remembered results; the action properties follow from that.
  `InstallState` says at each step of an install what Nginx runs with: before it
  the file, during it the previous one.
* `SiteAnalysisProofs`: `TypeCorrect`, `NoBuildCorrect`, `StatusCorrect`, `StormCorrect` and
  `ContractCorrect` (both deployments implement `SiteContract`).  The lemma
  `CandidatesAreFinalists` shows that zones, zeroed scores, threshold and cut
  together keep exactly the regions the contract allows, for any number of
  regions; `KeepChooses` that the preference for the selected area takes the
  nearest of all of them, though it looks at those inside only.  The invariant
  carries this and the status of the lookup from the ranking to the answer, and
  each stage is then a step of the contract or a stutter.  The contract is a
  safety specification, so this is all of `ImplementsContract`.
* `AnalysisClientProofs`: `LoadingCorrect`, `ReportsCorrect`, `ReadyCorrect`.  The
  invariant says that what a poll saw has not changed since (the end of a job is
  final, a forgotten one does not come back), that an error beside a call is of an
  earlier one, and that the gateway is never taken for the single-node
  application (`CallState`).
* `TerrainPipelineProofs`: `TypeCorrect`, `WaterFallsDownCorrect`,
  `CatchmentCorrect` and `AreaCorrect`, for rasters of any size and any
  contours.  `TraceInv` says that whatever drains to a cell that has left the
  queue is in the catchment; the lemma `BackAgain`, that the neighbours of the
  eight directions are all there are, makes it inductive.  For `AreaCorrect`,
  `Upper(c)` is the least set that holds `c` and all that drains into it.
  `AccumInv` says that while the accumulation runs, each cell has counted
  itself and the ground above those of its sources that have passed on
  (`Heard`); the grounds above two sources are disjoint (`UppersApart`), so the
  counts add up.  That the queue only runs dry when every cell has passed on
  (`EmptyQueue`) follows from `WaterFallsDown`: of the cells left, the highest
  has no source among them.  The trace ends with `Upper(snapped)` as well
  (`CatchmentExact`), whence the equality.
  `FootprintsCorrect` needs only that the sites are the footprints of a terrain
  that has not changed since (`SitesInv`); the rest is about operators.
  `PartIsLeast` turns the recursive `Part` into the least set that is closed
  under touching, from which follow that a part is in one piece (`PartIsWhole`)
  and that two do not touch (`PartsDoNotTouch`); `NearestAreFew` bounds a carved
  region by ranking its cells injectively; `MappedIsRounded` compares the two
  roundings of the pin; `SumExists` and `SumIsNatural` are what is needed of the
  weighted sums.

The assumptions are those the modules name (`...Assumption`): numbers are numbers,
sets are finite where they are counted, names are distinct, the requests and the
terrains have the form of the model.

Model-checked only:

* All liveness (`RunEnds`, `LookupsEnd`, `RoutingFollows`, `ServiceReturns`,
  `AnalysisEnds`, `CallsEnd`, the fairness parts of the refinements of `SlotPool`
  and `JobLifecycle`), which the prover does not reach.

Every invariant and every action property that a passing run checks is proved.

## Not modelled, and the plan

* The rainfall cache: an analysis sees its answers, late or unreadable, in
  `GatewayAnalysis`; what is in the cache changes no decision.
* `sys1`'s proxy and static files, the cluster panel, rendering, telemetry,
  `StorageMonitor` (display data): no decision of the program rests on them.
* Location search: one call over a fixed dataset, without state.
* Floating point: interpolation, curvature, wetness, the composite score, the
  stage-storage curve, SCS-CN runoff.  They appear as any of a set of results.
* Pysheds and Shapely are libraries: the first answers somehow, the second's
  decisions are the ground a region lies on.
* The encoding of stage payloads, temporary files, static deployment
  configuration, and the older copies `backend_minimal` and `lab7`, which are not
  part of the running system.

What is left of the plan are the parts that are modelled partly or not at all: the
component list of `PROJECT.json` gives the reason for each.
