--------------------------- MODULE StageScheduler ---------------------------
(***************************************************************************)
(* Placing heavy stages on the cluster: WorkerPool of                      *)
(* distributed/scheduler.py on the gateway, the heavy() wrapper of         *)
(* distributed/worker.py on each stage worker, and the HTTP calls between  *)
(* them, which can fail, time out or outlive the caller's patience.        *)
(*                                                                         *)
(* A task is one call of WorkerPool.run() by a job thread.  The gateway    *)
(* places it from what it last heard of each worker, so two tasks may rank *)
(* the nodes before either has dispatched, a probe may contradict a        *)
(* failing call, and a worker whose caller gave up goes on computing.      *)
(*                                                                         *)
(* Each node has one slot (JALASETU_WORKER_SLOTS=1); CapacityGuard models  *)
(* how a node counts slots and memory, here a node may refuse for want of  *)
(* memory at any time.                                                     *)
(***************************************************************************)
EXTENDS Naturals, FiniteSets, Sequences

CONSTANTS
    Tasks,      \* the calls of WorkerPool.run()
    Workers,    \* the remote stage workers
    Affine,     \* the workers that list the stage under affinity
    Local,      \* the gateway as a node
    Free,       \* what a worker without a stage is running
    BadInput,   \* the tasks whose stage input is at fault
    MaxFaults   \* bound: crashes, timeouts, lost probes, node-side failures

ASSUME SchedulerAssumption ==
    /\ IsFiniteSet(Tasks) /\ IsFiniteSet(Workers)
    /\ Affine \subseteq Workers
    /\ Local \notin Workers
    /\ Free \notin Tasks
    /\ BadInput \subseteq Tasks
    /\ MaxFaults \in Nat

Nodes == Workers \cup {Local}

VARIABLES
    (* the gateway *)
    pc,         \* where the task is in run()
    todo,       \* the candidates it has still to try, best first
    unprobed,   \* the workers refresh() has still to hear from
    late,       \* the tasks whose queue deadline has passed
    probed,     \* some refresh has completed
    reachable,  \* workers with node.reachable
    idle,       \* of those, the ones whose last known capacity was accepting
    pending,    \* node.pending
    (* the wire and the workers *)
    mail,       \* the state of the task's outstanding request
    up,         \* the workers that are alive
    running,    \* the task each worker computes, even for an absent caller
    faults,     \* how many faults have happened
    abandoned   \* history: the task's calls that failed while its worker went on

gateway == <<pc, todo, unprobed, late, probed, reachable, idle, pending>>
cluster == <<mail, up, running, faults, abandoned>>
vars == <<gateway, cluster>>

Ended == {"result", "rejected", "busy", "raised"}
PCs == {"new", "probing", "ranking", "trying", "posting", "local",
        "degraded", "waiting"} \cup Ended

\* The worker the task is posting to.
Target(t) == Head(todo[t])

Posting(w) == {t \in Tasks : pc[t] = "posting" /\ Target(t) = w}

Fault == faults < MaxFaults /\ faults' = faults + 1
----------------------------------------------------------------------------
(* Ranking. *)

LocalFree == ~ \E t \in Tasks : pc[t] = "local"

\* NodeState.accepting(), of what the gateway last heard.
WorkerAccepts(w) == w \in idle /\ pending[w] = 0

Accepting == {w \in Workers : WorkerAccepts(w)}

PendingOn(n) == IF n = Local THEN 0 ELSE pending[n]

\* n comes strictly before m, when the nodes in A are accepting.  Those come
\* first, and with one slot they have no load, so affinity orders them.  A
\* node that does not accept has a stage in flight or is short of memory, so
\* its load is its pending calls or one more.  What is equal so far is ordered
\* by headroom, and only after that does the gateway come last: any order.
Before(n, m, A) ==
    \/ n \in A /\ m \notin A
    \/ {n, m} \subseteq A /\ n \in Affine /\ m \notin Affine
    \/ {n, m} \cap A = {} /\ PendingOn(n) + 1 < PendingOn(m)

Eligible == reachable \cup {Local}

Rankings(A) ==
    {order \in [1..Cardinality(Eligible) -> Eligible] :
        /\ \A n \in Eligible : \E i \in DOMAIN order : order[i] = n
        /\ \A i, j \in DOMAIN order :
              i < j => ~ Before(order[j], order[i], A)}
----------------------------------------------------------------------------
Init ==
    /\ pc = [t \in Tasks |-> "new"]
    /\ todo = [t \in Tasks |-> <<>>]
    /\ unprobed = [t \in Tasks |-> {}]
    /\ late = {}
    /\ probed = FALSE
    /\ reachable = {}
    /\ idle = {}
    /\ pending = [w \in Workers |-> 0]
    /\ mail = [t \in Tasks |-> "none"]
    /\ up = Workers
    /\ running = [w \in Workers |-> Free]
    /\ faults = 0
    /\ abandoned = [t \in Tasks |-> 0]

Move(t, to) == pc' = [pc EXCEPT ![t] = to]

\* self._refresh_lock: one refresh at a time.
StartProbing(t) ==
    /\ ~ \E other \in Tasks : pc[other] = "probing"
    /\ Move(t, "probing")
    /\ unprobed' = [unprobed EXCEPT ![t] = Workers]

\* refresh(): skipped while the last one is younger than HEALTH_TTL_SECONDS.
Begin(t) ==
    /\ pc[t] = "new"
    /\ \/ /\ probed
          /\ Move(t, "ranking")
          /\ UNCHANGED unprobed
       \/ StartProbing(t)
    /\ UNCHANGED <<todo, late, probed, reachable, idle, pending, cluster>>

\* _probe(): /health answers with the node's capacity, or fails.
Probe(t, w) ==
    /\ pc[t] = "probing"
    /\ w \in unprobed[t]
    /\ \/ /\ w \in up
          /\ reachable' = reachable \cup {w}
          /\ \/ running[w] = Free /\ idle' = idle \cup {w}
             \/ idle' = idle \ {w}
          /\ UNCHANGED faults
       \/ /\ reachable' = reachable \ {w}
          /\ idle' = idle \ {w}
          /\ IF w \in up THEN Fault ELSE UNCHANGED faults
    /\ unprobed' = [unprobed EXCEPT ![t] = @ \ {w}]
    /\ UNCHANGED <<pc, todo, late, probed, pending, mail, up, running, abandoned>>

Probed(t) ==
    /\ pc[t] = "probing"
    /\ unprobed[t] = {}
    /\ probed' = TRUE
    /\ Move(t, "ranking")
    /\ UNCHANGED <<todo, unprobed, late, reachable, idle, pending, cluster>>

\* ranked(), under the lock; the gateway's own guard is asked afresh.
Rank(t) ==
    /\ pc[t] = "ranking"
    /\ \E own \in IF LocalFree THEN {{}, {Local}} ELSE {{}} :
          \E order \in Rankings(Accepting \cup own) :
             todo' = [todo EXCEPT ![t] = order]
    /\ Move(t, "trying")
    /\ UNCHANGED <<unprobed, late, probed, reachable, idle, pending, cluster>>

Trying(t, n) == pc[t] = "trying" /\ todo[t] # <<>> /\ Head(todo[t]) = n

NextCandidate(t) == todo' = [todo EXCEPT ![t] = Tail(@)]

\* The run is over with the candidate at hand, the others are dropped.
DropCandidates(t) == todo' = [todo EXCEPT ![t] = <<>>]

\* The gateway's own guard admits the stage.
RunLocally(t) ==
    /\ Trying(t, Local)
    /\ LocalFree
    /\ Move(t, "local")
    /\ DropCandidates(t)
    /\ UNCHANGED <<unprobed, late, probed, reachable, idle, pending,
                   cluster>>

\* It refuses, for want of a slot or of memory.
LocalBusy(t) ==
    /\ Trying(t, Local)
    /\ NextCandidate(t)
    /\ UNCHANGED <<pc, unprobed, late, probed, reachable, idle, pending,
                   cluster>>

\* local_fn() returns or raises, with a slot or degraded without one.
LocalEnds(t) ==
    /\ pc[t] \in {"local", "degraded"}
    /\ \/ t \notin BadInput /\ Move(t, "result") /\ UNCHANGED faults
       \/ /\ Move(t, "raised")
          /\ IF t \in BadInput THEN UNCHANGED faults ELSE Fault
    /\ UNCHANGED <<todo, unprobed, late, probed, reachable, idle, pending,
                   mail, up, running, abandoned>>

Dispatch(t, w) ==
    /\ Trying(t, w)
    /\ pending' = [pending EXCEPT ![w] = @ + 1]
    /\ mail' = [mail EXCEPT ![t] = "sent"]
    /\ Move(t, "posting")
    /\ UNCHANGED <<todo, unprobed, late, probed, reachable, idle, up, running,
                   faults, abandoned>>
----------------------------------------------------------------------------
(* The worker. *)

\* heavy(): a free slot admits the request.
Admit(t, w) ==
    /\ t \in Posting(w) /\ mail[t] = "sent" /\ w \in up
    /\ running[w] = Free
    /\ running' = [running EXCEPT ![w] = t]
    /\ mail' = [mail EXCEPT ![t] = "admitted"]
    /\ UNCHANGED <<gateway, up, faults, abandoned>>

\* Slip: 503 for want of memory, and the stage is computed all the same.
AnswerBusyAndCompute(t, w) ==
    /\ t \in Posting(w) /\ mail[t] = "sent" /\ w \in up
    /\ mail' = [mail EXCEPT ![t] = "busy"]
    /\ running' = IF running[w] = Free THEN [running EXCEPT ![w] = t] ELSE running
    /\ UNCHANGED <<gateway, up, faults, abandoned>>

\* heavy(): 503, no slot or no memory.
AnswerBusy(t, w) ==
    /\ t \in Posting(w) /\ mail[t] = "sent" /\ w \in up
    /\ mail' = [mail EXCEPT ![t] = "busy"]
    /\ UNCHANGED <<gateway, up, running, faults, abandoned>>

\* What heavy() answers for a stage that is over: 200, or 422 for EVERY
\* exception, whether the input or the node is at fault.  A proxy or a dying
\* process may answer some other 5xx.
Answers(t) ==
    IF t \in BadInput THEN {"rejected"} ELSE {"ok", "rejected", "http"}

\* The stage is over.  The answer reaches the task if it still waits for it.
Complete(w) ==
    /\ running[w] # Free
    /\ running' = [running EXCEPT ![w] = Free]
    /\ \E answer \in Answers(running[w]) :
        /\ mail' = IF running[w] \in Posting(w) /\ mail[running[w]] = "admitted"
                   THEN [mail EXCEPT ![running[w]] = answer]
                   ELSE mail
        /\ IF answer = "ok" \/ running[w] \in BadInput
           THEN UNCHANGED faults ELSE Fault
    /\ UNCHANGED <<gateway, up, abandoned>>

Crash(w) ==
    /\ w \in up
    /\ Fault
    /\ up' = up \ {w}
    /\ running' = [running EXCEPT ![w] = Free]
    /\ UNCHANGED <<gateway, mail, abandoned>>

Restart(w) ==
    /\ w \notin up
    /\ up' = up \cup {w}
    /\ UNCHANGED <<gateway, mail, running, faults, abandoned>>
----------------------------------------------------------------------------
(* The answer. *)

\* Slip: the call is taken off the count twice.
SettleTwice(w) == pending' = [pending EXCEPT ![w] = @ - 2]

\* Slip: the call is never taken off the count.
SettleNever(w) == UNCHANGED pending

\* finally: node.pending -= 1.
Settle(w) == pending' = [pending EXCEPT ![w] = @ - 1]

\* The call is over, whatever came of it.
HangUp(t, w) ==
    /\ Settle(w)
    /\ mail' = [mail EXCEPT ![t] = "none"]
    /\ UNCHANGED <<unprobed, late, probed, up, running>>

\* 200 ends the run, or raises if the body cannot be decoded; 4xx raises
\* StageRejectedError.
AnswerEnds(t, w) ==
    /\ t \in Posting(w)
    /\ \/ mail[t] = "ok" /\ Move(t, "result") /\ UNCHANGED faults
       \/ mail[t] = "ok" /\ Move(t, "raised") /\ Fault
       \/ mail[t] = "rejected" /\ Move(t, "rejected") /\ UNCHANGED faults
    /\ DropCandidates(t)
    /\ HangUp(t, w)
    /\ UNCHANGED <<reachable, idle, abandoned>>

MarkUnreachable(w) == reachable' = reachable \ {w} /\ idle' = idle \ {w}

MarkBusy(w) == reachable' = reachable /\ idle' = idle \ {w}

\* 503 marks the node as not accepting; any other status only falls through.
AnswerFallsThrough(t, w) ==
    /\ t \in Posting(w)
    /\ \/ mail[t] = "busy" /\ MarkBusy(w)
       \/ mail[t] = "http" /\ UNCHANGED <<reachable, idle>>
    /\ NextCandidate(t)
    /\ Move(t, "trying")
    /\ HangUp(t, w)
    /\ UNCHANGED <<faults, abandoned>>

\* The worker is gone, or went away while it computed.
ConnectionLost(t, w) ==
    \/ mail[t] = "sent" /\ w \notin up
    \/ mail[t] = "admitted" /\ running[w] # t

\* The worker computes the stage of this very call.
WorkerGoesOn(t, w) == mail[t] = "admitted" /\ running[w] = t

\* requests raises: the connection broke, or the answer takes too long while
\* the worker goes on with the stage.
CallFails(t, w) ==
    /\ t \in Posting(w)
    /\ mail[t] \in {"sent", "admitted"}
    /\ IF ConnectionLost(t, w) THEN UNCHANGED faults ELSE Fault
    /\ abandoned' = IF WorkerGoesOn(t, w)
                    THEN [abandoned EXCEPT ![t] = @ + 1] ELSE abandoned
    /\ MarkUnreachable(w)
    /\ NextCandidate(t)
    /\ Move(t, "trying")
    /\ HangUp(t, w)
----------------------------------------------------------------------------
(* The end of a pass: every candidate was tried. *)

PassOver(t) ==
    /\ pc[t] = "trying" /\ todo[t] = <<>>
    /\ UNCHANGED <<todo, unprobed, probed, reachable, idle, pending, cluster>>

\* Slip: the deadline is never looked at.
DeadlineIgnored(t) == FALSE

DeadlinePassed(t) == t \in late

\* No worker answers: compute here, whatever the guard says.
Degrade(t) ==
    /\ PassOver(t)
    /\ reachable = {}
    /\ Move(t, "degraded")
    /\ UNCHANGED late

GiveUp(t) ==
    /\ PassOver(t)
    /\ reachable # {}
    /\ DeadlinePassed(t)
    /\ Move(t, "busy")
    /\ UNCHANGED late

Wait(t) ==
    /\ PassOver(t)
    /\ reachable # {}
    /\ ~ DeadlinePassed(t)
    /\ Move(t, "waiting")
    /\ UNCHANGED late

\* JALASETU_QUEUE_TIMEOUT has passed.  The clock is read only when every
\* candidate was tried, so this is where its passing shows.
Deadline(t) ==
    /\ PassOver(t)
    /\ t \notin late
    /\ late' = late \cup {t}
    /\ UNCHANGED pc

\* The backoff is over: refresh(force=True) asks every worker anew.
WakeUp(t) ==
    /\ pc[t] = "waiting"
    /\ StartProbing(t)
    /\ UNCHANGED <<todo, late, probed, reachable, idle, pending, cluster>>

Thread(t) ==
    \/ Begin(t) \/ Probed(t) \/ Rank(t)
    \/ RunLocally(t) \/ LocalBusy(t) \/ LocalEnds(t)
    \/ Degrade(t) \/ GiveUp(t) \/ Wait(t) \/ WakeUp(t)
    \/ \E w \in Workers :
          \/ Probe(t, w) \/ Dispatch(t, w)
          \/ AnswerEnds(t, w) \/ AnswerFallsThrough(t, w) \/ CallFails(t, w)

Worker(w) == Complete(w) \/ \E t \in Tasks : Admit(t, w) \/ AnswerBusy(t, w)

Next ==
    \/ \E t \in Tasks : Thread(t) \/ Deadline(t)
    \/ \E w \in Workers : Worker(w) \/ Crash(w) \/ Restart(w)

Spec == Init /\ [][Next]_vars

\* Threads and living workers are scheduled, stages end, and time passes, if
\* only by the backoff of each pass: a task that comes back to the deadline
\* often enough finds it passed.  Nothing is assumed of crashes and restarts.
FairSpec ==
    /\ Spec
    /\ \A t \in Tasks : WF_vars(Thread(t)) /\ SF_vars(Deadline(t))
    /\ \A w \in Workers : WF_vars(Worker(w))
----------------------------------------------------------------------------
(* Properties. *)

\* Shape of the state.
TypeOK ==
    /\ pc \in [Tasks -> PCs]
    /\ todo \in [Tasks -> Seq(Nodes)]
    /\ \A t \in Tasks :
          pc[t] = "posting" => todo[t] # <<>> /\ Head(todo[t]) \in Workers
    /\ unprobed \in [Tasks -> SUBSET Workers]
    /\ late \subseteq Tasks
    /\ probed \in BOOLEAN
    /\ reachable \subseteq Workers
    /\ idle \subseteq reachable
    /\ up \subseteq Workers
    /\ pending \in [Workers -> Nat]
    /\ mail \in [Tasks ->
                    {"none", "sent", "admitted", "ok", "busy", "rejected",
                     "http"}]
    /\ running \in [Workers -> Tasks \cup {Free}]
    /\ faults \in 0..MaxFaults
    /\ abandoned \in [Tasks -> Nat]

\* node.pending, on which ranking rests, is the number of calls the gateway
\* has out to that node, through every answer, failure and timeout.
PendingMatchesCalls ==
    \A w \in Workers : pending[w] = Cardinality(Posting(w))

\* Where the stage of a task is being computed, by whoever and for whom.
Executions(t) ==
    {w \in Workers : running[w] = t}
        \cup (IF pc[t] \in {"local", "degraded"} THEN {Local} ELSE {})

\* A stage is computed in one place at a time, and in one more at most for each
\* of its own calls that failed while the worker went on: no crash, refusal,
\* lost probe or failed call of another task makes a second copy.
NoNeedlessDuplicate ==
    \A t \in Tasks : Cardinality(Executions(t)) <= 1 + abandoned[t]

\* The gateway never bypasses its guard in a cluster that is merely busy: a
\* refusal is not taken for a dead worker, and a task that starts while
\* another one is still probing waits for what the probes say.
BusyIsNotDead ==
    (faults = 0 /\ Workers # {}) => \A t \in Tasks : pc[t] # "degraded"

\* Every call of run() ends: with a result, an error, or ClusterBusyError.
RunEnds == <>(\A t \in Tasks : pc[t] \in Ended)
=============================================================================
