------------------------------ MODULE JobQueue ------------------------------
(***************************************************************************)
(* The analysis jobs of the gateway: class JobManager of                   *)
(* distributed/jobs.py, the thread pool under it, and the HTTP handlers of *)
(* distributed/sys4.py that submit, poll and wait.                         *)
(*                                                                         *)
(* submit() decides and registers under the lock, but hands the job to the *)
(* executor after it has left the lock; _run() changes a job's fields one  *)
(* by one with no lock at all.  Each of those points is a step of its own, *)
(* so that submissions, pollers and sweeps can come in between.            *)
(*                                                                         *)
(* created_at, finished_at and the order of the executor's queue are kept  *)
(* as stamps 1, 2, ...; 0 is None.                                         *)
(***************************************************************************)
EXTENDS Naturals, FiniteSets, FiniteSetsExt

CONSTANTS
    Jobs,           \* the analyses clients ask for
    Size,           \* size_bytes of each upload
    MaxActive,      \* JALASETU_MAX_ACTIVE_JOBS, threads of the executor
    MaxQueued,      \* JALASETU_MAX_QUEUED_JOBS
    MaxBytes,       \* JALASETU_MAX_QUEUED_MB
    KeepFinished    \* KEEP_FINISHED

ASSUME JobQueueAssumption ==
    /\ IsFiniteSet(Jobs)
    /\ Size \in [Jobs -> Nat]
    /\ MaxActive \in Nat \ {0}
    /\ {MaxQueued, MaxBytes, KeepFinished} \subseteq Nat

VARIABLES
    jobs,           \* self._jobs: the ids a lookup finds
    state,          \* job.state
    at,             \* where the submitter or the thread is with the job
    outcome,        \* job.result or job.error, "none" while both are None
    createdAt,      \* job.created_at
    enqueuedAt,     \* place in the executor's queue
    finishedAt,     \* job.finished_at
    expired,        \* jobs that finished more than JOB_TTL_SECONDS ago
    seen            \* the last answer the client got, "waiting" if none yet

vars == <<jobs, state, at, outcome, createdAt, enqueuedAt, finishedAt,
          expired, seen>>

Places == {"client", "refused", "registered", "pooled", "running",
           "computed", "settled", "closed", "signalled"}

\* The next stamp of a clock.
Tick(stamp) == 1 + Cardinality({j \in Jobs : stamp[j] # 0})
----------------------------------------------------------------------------
(* The table of jobs. *)

Queued == {j \in jobs : state[j] = "queued"}
Running == {j \in jobs : state[j] = "running"}
Pending == Queued \cup Running

Bytes(S) == MapThenSumSet(LAMBDA j : Size[j], S)

Finished == {j \in jobs : finishedAt[j] # 0}
\* Slip: the sweep sorts the wrong way round.
OlderFinished(j) == {k \in Finished : finishedAt[k] < finishedAt[j]}

NewerFinished(j) == {k \in Finished : finishedAt[k] > finishedAt[j]}

\* What _prune() leaves: finished jobs go once they expired or once
\* KeepFinished newer ones are in the table.
Kept ==
    {j \in jobs :
        finishedAt[j] # 0 =>
            /\ j \notin expired
            /\ Cardinality(NewerFinished(j)) < KeepFinished}

QueueFull ==
    /\ Cardinality(Running) >= MaxActive
    /\ Cardinality(Queued) >= MaxQueued

\* Slip: uploads of running jobs are not counted.
TooManyQueuedBytes(j) ==
    /\ Bytes(Queued) + Size[j] > MaxBytes
    /\ Queued # {}

TooManyBytes(j) ==
    /\ Bytes(Pending) + Size[j] > MaxBytes
    /\ Pending # {}

\* Slip: the queue is shown newest first.
PositionFromTheBack(j) ==
    1 + Cardinality({k \in Queued : createdAt[k] > createdAt[j]})

\* queue_position(): 1 for the queued job that was created first.
Position(j) ==
    1 + Cardinality({k \in Queued : createdAt[k] < createdAt[j]})

\* The jobs some thread of the executor is busy with.
Busy == {j \in Jobs : at[j] \in {"running", "computed", "settled", "closed"}}
----------------------------------------------------------------------------
(* Submitting. *)

Init ==
    /\ jobs = {}
    /\ state = [j \in Jobs |-> "none"]
    /\ at = [j \in Jobs |-> "client"]
    /\ outcome = [j \in Jobs |-> "none"]
    /\ createdAt = [j \in Jobs |-> 0]
    /\ enqueuedAt = [j \in Jobs |-> 0]
    /\ finishedAt = [j \in Jobs |-> 0]
    /\ expired = {}
    /\ seen = [j \in Jobs |-> "waiting"]

\* submit(), with the lock held: sweep, find room, register as queued.
Register(j) ==
    /\ at[j] = "client"
    /\ ~ QueueFull
    /\ ~ TooManyBytes(j)
    /\ jobs' = Kept \cup {j}
    /\ state' = [state EXCEPT ![j] = "queued"]
    /\ createdAt' = [createdAt EXCEPT ![j] = Tick(createdAt)]
    /\ at' = [at EXCEPT ![j] = "registered"]
    /\ UNCHANGED <<outcome, enqueuedAt, finishedAt, expired, seen>>

\* submit(), with the lock held: sweep, find no room, raise QueueFullError.
Refuse(j) ==
    /\ at[j] = "client"
    /\ QueueFull \/ TooManyBytes(j)
    /\ jobs' = Kept
    /\ at' = [at EXCEPT ![j] = "refused"]
    /\ UNCHANGED <<state, outcome, createdAt, enqueuedAt, finishedAt,
                   expired, seen>>

\* submit(), lock left: the job enters the executor's queue.
Enqueue(j) ==
    /\ at[j] = "registered"
    /\ enqueuedAt' = [enqueuedAt EXCEPT ![j] = Tick(enqueuedAt)]
    /\ at' = [at EXCEPT ![j] = "pooled"]
    /\ UNCHANGED <<jobs, state, outcome, createdAt, finishedAt, expired, seen>>
----------------------------------------------------------------------------
(* Running: the thread's steps through _run(). *)

\* The free threads take jobs in the order of the executor's queue, and each
\* marks the job it took as running in its own time.
Start(j) ==
    /\ at[j] = "pooled"
    /\ Cardinality(Busy)
         + Cardinality({k \in Jobs : /\ at[k] = "pooled"
                                     /\ enqueuedAt[k] < enqueuedAt[j]})
            < MaxActive
    /\ state' = [state EXCEPT ![j] = "running"]
    /\ at' = [at EXCEPT ![j] = "running"]
    /\ UNCHANGED <<jobs, outcome, createdAt, enqueuedAt, finishedAt, expired,
                   seen>>

\* The runner returned a result, or raised and left an error.
Compute(j) ==
    /\ at[j] = "running"
    /\ \E o \in {"result", "error"} : outcome' = [outcome EXCEPT ![j] = o]
    /\ at' = [at EXCEPT ![j] = "computed"]
    /\ UNCHANGED <<jobs, state, createdAt, enqueuedAt, finishedAt, expired,
                   seen>>

\* Slip: the state is set in the finally clause, whatever happened.
SettleAsSucceeded(j) ==
    /\ at[j] = "computed"
    /\ state' = [state EXCEPT ![j] = "succeeded"]
    /\ at' = [at EXCEPT ![j] = "settled"]
    /\ UNCHANGED <<jobs, outcome, createdAt, enqueuedAt, finishedAt, expired,
                   seen>>

Settle(j) ==
    /\ at[j] = "computed"
    /\ state' = [state EXCEPT ![j] = IF outcome[j] = "result"
                                     THEN "succeeded" ELSE "failed"]
    /\ at' = [at EXCEPT ![j] = "settled"]
    /\ UNCHANGED <<jobs, outcome, createdAt, enqueuedAt, finishedAt, expired,
                   seen>>

\* The finally clause: only from here on does a sweep see the job as over.
Close(j) ==
    /\ at[j] = "settled"
    /\ finishedAt' = [finishedAt EXCEPT ![j] = Tick(finishedAt)]
    /\ at' = [at EXCEPT ![j] = "closed"]
    /\ UNCHANGED <<jobs, state, outcome, createdAt, enqueuedAt, expired, seen>>

\* Slip: only a result is signalled.
SignalResult(j) ==
    /\ at[j] = "closed"
    /\ state[j] = "succeeded"
    /\ at' = [at EXCEPT ![j] = "signalled"]
    /\ UNCHANGED <<jobs, state, outcome, createdAt, enqueuedAt, finishedAt,
                   expired, seen>>

\* done.set(), and the thread is free.
Signal(j) ==
    /\ at[j] = "closed"
    /\ at' = [at EXCEPT ![j] = "signalled"]
    /\ UNCHANGED <<jobs, state, outcome, createdAt, enqueuedAt, finishedAt,
                   expired, seen>>

\* Slip: the age of a job is taken from its creation.
ExpireSinceCreation(j) ==
    /\ createdAt[j] # 0
    /\ expired' = expired \cup {j}
    /\ UNCHANGED <<jobs, state, at, outcome, createdAt, enqueuedAt,
                   finishedAt, seen>>

\* JOB_TTL_SECONDS pass since the job finished; older jobs expire first.
Expire(j) ==
    /\ finishedAt[j] # 0
    /\ j \notin expired
    /\ \A k \in Jobs :
          (finishedAt[k] # 0 /\ finishedAt[k] < finishedAt[j]) => k \in expired
    /\ expired' = expired \cup {j}
    /\ UNCHANGED <<jobs, state, at, outcome, createdAt, enqueuedAt,
                   finishedAt, seen>>
----------------------------------------------------------------------------
(* The client, from the moment it may know the id. *)

Told(j) ==
    CASE state[j] = "succeeded" -> "result"
      [] state[j] = "failed" -> "error"
      [] OTHER -> "waiting"

HasId(j) == enqueuedAt[j] # 0

\* GET /v1/jobs/<id>: sweep, look the job up, 404 when it is gone.
Poll(j) ==
    /\ HasId(j)
    /\ jobs' = Kept
    /\ seen' = [seen EXCEPT ![j] = IF j \in Kept THEN Told(j) ELSE "missing"]
    /\ UNCHANGED <<state, at, outcome, createdAt, enqueuedAt, finishedAt,
                   expired>>

\* POST /v1/analyze: done.wait() returned, the job itself is at hand even if
\* a sweep has dropped its id.  (A wait that times out answers 504 and leaves
\* the job as it is.)
WaitReturns(j) ==
    /\ at[j] = "signalled"
    /\ seen' = [seen EXCEPT ![j] = IF state[j] = "failed" THEN "error"
                                                         ELSE "result"]
    /\ UNCHANGED <<jobs, state, at, outcome, createdAt, enqueuedAt,
                   finishedAt, expired>>

Step(j) ==
    \/ Register(j) \/ Refuse(j) \/ Enqueue(j)
    \/ Start(j) \/ Compute(j) \/ Settle(j) \/ Close(j) \/ Signal(j)
    \/ Expire(j)
    \/ Poll(j) \/ WaitReturns(j)

Next == \E j \in Jobs : Step(j)

Spec == Init /\ [][Next]_vars

\* Threads are scheduled and every analysis ends (its stages, its requests
\* and its waits all carry timeouts).  Clients and time owe nothing.
FairSpec ==
    /\ Spec
    /\ \A j \in Jobs :
          /\ WF_vars(Enqueue(j)) /\ WF_vars(Start(j)) /\ WF_vars(Compute(j))
          /\ WF_vars(Settle(j)) /\ WF_vars(Close(j)) /\ WF_vars(Signal(j))
----------------------------------------------------------------------------
(* Properties. *)

\* Shape of the state.
TypeOK ==
    /\ jobs \subseteq Jobs
    /\ state \in [Jobs -> {"none", "queued", "running", "succeeded", "failed"}]
    /\ at \in [Jobs -> Places]
    /\ outcome \in [Jobs -> {"none", "result", "error"}]
    /\ {createdAt, enqueuedAt, finishedAt} \subseteq [Jobs -> Nat]
    /\ expired \subseteq {j \in Jobs : finishedAt[j] # 0}
    /\ seen \in [Jobs -> {"waiting", "result", "error", "missing"}]

\* What a client is told is what the analysis came to, and "not found or
\* expired" (sys4.py:743) is never said of an analysis that is still going
\* on: every interleaving of _run(), the sweeps and the two ways of asking.
AnswersAreTrue ==
    \A j \in Jobs :
        /\ seen[j] \in {"result", "error"} => outcome[j] = seen[j]
        /\ seen[j] = "missing" => at[j] \in {"closed", "signalled"}

\* A newly finished job is not swept away: while it has not expired and
\* fewer than KeepFinished jobs finished after it, its poller finds it.
RecentResultsKept ==
    \A j \in Jobs :
        (/\ finishedAt[j] # 0
         /\ j \notin expired
         /\ Cardinality({k \in Jobs : finishedAt[k] > finishedAt[j]})
                < KeepFinished)
            => j \in jobs

\* The uploads held for pending jobs fit in MaxBytes, unless a single upload
\* that alone exceeds it is all there is (jobs.py:96).
HeldBytesBounded ==
    Bytes(Pending) <= MaxBytes \/ Cardinality(Pending) = 1

\* The place in the queue that a waiting client is shown only ever improves.
PositionNeverGrows ==
    [][\A j \in Jobs :
          (state[j] = "queued" /\ state'[j] = "queued")
              => Position(j)' <= Position(j)]_vars

\* The manager implements the promise of the job API: whichever way its
\* runner ends, every accepted analysis comes to one end, is found until then,
\* and signals it, so no synchronous caller (sys4.py:825) waits in vain.
API == INSTANCE JobLifecycle WITH
    known <- jobs,
    ended <- {j \in Jobs : at[j] = "signalled"},
    fate <- [j \in Jobs |->
                IF at[j] = "client" THEN "new"
                ELSE IF at[j] = "refused" THEN "refused"
                ELSE IF state[j] \in {"succeeded", "failed"} THEN state[j]
                ELSE "accepted"]

ImplementsJobLifecycle == API!FairSpec
=============================================================================
