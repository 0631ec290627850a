--------------------------- MODULE CapacityGuard ---------------------------
(***************************************************************************)
(* Admission control for heavy stages on one node: class CapacityGuard of  *)
(* distributed/capacity.py, entered through slot() by the request threads  *)
(* of a worker (worker.py, heavy()) and by the job threads of the gateway  *)
(* (scheduler.py, WorkerPool.run).                                         *)
(*                                                                         *)
(* try_acquire() measures the node's memory BEFORE it takes the lock, and  *)
(* release() gives memory back AFTER it has left the lock, so both the     *)
(* sample an admission rests on and the memory of a stage that has already *)
(* freed its slot can be outdated by other threads.                        *)
(***************************************************************************)
EXTENDS Integers, FiniteSets

CONSTANTS
    Threads,    \* threads of the node that may run a heavy stage
    Slots,      \* JALASETU_WORKER_SLOTS
    Budget,     \* memory budget of the node, in MB
    Reserve,    \* stage_reserve_mb, the headroom a stage needs to enter
    BaseUse,    \* working set of the idle node
    StageUse,   \* growth of the working set while one stage runs
    MaxCalls    \* bound: calls of slot() made in a behaviour

ASSUME GuardAssumption ==
    /\ IsFiniteSet(Threads)
    /\ Slots \in Nat \ {0}
    /\ Budget \in Nat /\ Reserve \in Nat
    /\ BaseUse \in Nat /\ StageUse \in Nat
    /\ MaxCalls \in Nat

VARIABLES
    pc,         \* where each thread is in slot()
    sample,     \* headroom the thread read, used when it holds the lock
    inFlight,   \* self._in_flight
    completed,  \* self.completed
    rejected,   \* self.rejected
    retaining,  \* threads whose stage holds memory not yet handed back
    calls       \* history: how many times slot() was entered

vars == <<pc, sample, inFlight, completed, rejected, retaining, calls>>

At(place) == {t \in Threads : pc[t] = place}
----------------------------------------------------------------------------
(* Measuring. *)

Used == BaseUse + StageUse * Cardinality(retaining)

\* memory()["headroom_mb"]; negative once the budget is exceeded.
Headroom == Budget - Used

\* Slip: the counter is compared the wrong way at its limit.
AdmissibleOffByOne(headroom) ==
    /\ inFlight <= Slots
    /\ headroom >= Reserve

Admissible(headroom) ==
    /\ inFlight < Slots
    /\ headroom >= Reserve

\* report()["accepting"]: what /health and the body of a 503 carry.
Accepting == Admissible(Headroom)
----------------------------------------------------------------------------
(* The life of a thread in slot(). *)

Init ==
    /\ pc = [t \in Threads |-> "idle"]
    /\ sample = [t \in Threads |-> 0]
    /\ inFlight = 0
    /\ completed = 0
    /\ rejected = 0
    /\ retaining = {}
    /\ calls = 0

\* try_acquire() reads the memory, outside the lock.
Sample(t) ==
    /\ pc[t] = "idle"
    /\ calls < MaxCalls
    /\ calls' = calls + 1
    /\ pc' = [pc EXCEPT ![t] = "sampled"]
    /\ sample' = [sample EXCEPT ![t] = Headroom]
    /\ UNCHANGED <<inFlight, completed, rejected, retaining>>

\* With the lock held: a slot is free and the SAMPLE left the reserve.
Admit(t) ==
    /\ pc[t] = "sampled"
    /\ Admissible(sample[t])
    /\ inFlight' = inFlight + 1
    /\ pc' = [pc EXCEPT ![t] = "inside"]
    /\ UNCHANGED <<sample, completed, rejected, retaining, calls>>

\* With the lock held: refused, the caller goes elsewhere.
Refuse(t) ==
    /\ pc[t] = "sampled"
    /\ ~ Admissible(sample[t])
    /\ rejected' = rejected + 1
    /\ pc' = [pc EXCEPT ![t] = "idle"]
    /\ UNCHANGED <<sample, inFlight, completed, retaining, calls>>

\* The stage allocates its rasters.
Grow(t) ==
    /\ pc[t] = "inside"
    /\ t \notin retaining
    /\ retaining' = retaining \cup {t}
    /\ UNCHANGED <<pc, sample, inFlight, completed, rejected, calls>>

\* Slip: the slot is kept when the stage raised.
ReleaseUnlessRaised(t) ==
    /\ pc[t] = "inside"
    /\ inFlight' \in {inFlight, IF inFlight = 0 THEN 0 ELSE inFlight - 1}
    /\ completed' = completed + 1
    /\ pc' = [pc EXCEPT ![t] = "trimming"]
    /\ UNCHANGED <<sample, rejected, retaining, calls>>

\* The stage returned or raised: either way the finally clause of slot()
\* frees the slot under the lock.
Release(t) ==
    /\ pc[t] = "inside"
    /\ inFlight' = IF inFlight = 0 THEN 0 ELSE inFlight - 1
    /\ completed' = completed + 1
    /\ pc' = [pc EXCEPT ![t] = "trimming"]
    /\ UNCHANGED <<sample, rejected, retaining, calls>>

\* Slip: the working set ratchets up, nothing is handed back.
TrimNothing(t) ==
    /\ pc[t] = "trimming"
    /\ pc' = [pc EXCEPT ![t] = "idle"]
    /\ UNCHANGED <<sample, inFlight, completed, rejected, retaining, calls>>

\* release_memory() runs after the lock was left.  One collection frees the
\* garbage of every stage that is over, not only the caller's.
Trim(t) ==
    /\ pc[t] = "trimming"
    /\ retaining' = retaining \ At("trimming")
    /\ pc' = [pc EXCEPT ![t] = "idle"]
    /\ UNCHANGED <<sample, inFlight, completed, rejected, calls>>

Next ==
    \E t \in Threads :
        \/ Sample(t) \/ Admit(t) \/ Refuse(t)
        \/ Grow(t) \/ Release(t) \/ Trim(t)

Spec == Init /\ [][Next]_vars

\* Threads are scheduled and every stage ends, by returning or raising.
FairSpec ==
    /\ Spec
    /\ \A t \in Threads :
        WF_vars(Admit(t)) /\ WF_vars(Refuse(t))
            /\ WF_vars(Release(t)) /\ WF_vars(Trim(t))
----------------------------------------------------------------------------
(* Properties. *)

\* Shape of the state.
TypeOK ==
    /\ pc \in [Threads -> {"idle", "sampled", "inside", "trimming"}]
    /\ sample \in [Threads -> Int]
    /\ inFlight \in 0..Slots
    /\ {completed, rejected, calls} \subseteq Nat
    /\ retaining \subseteq At("inside") \cup At("trimming")

\* The counter never leaks or loses a slot: it is the number of threads that
\* run a stage, so the max(0, ...) of release() (capacity.py:249) never
\* hides an error and no more than Slots stages run at once.
SlotsMatchHolders ==
    /\ inFlight = Cardinality(At("inside"))
    /\ inFlight <= Slots

\* Every call is counted exactly once, as completed or rejected, when it is
\* over: the statistics /health reports add up to the calls made.
CallsAccounted ==
    calls = completed + rejected
                + Cardinality(At("sampled")) + Cardinality(At("inside"))

\* Once no thread is between its admission and the end of its trim, the node
\* reports accepting again: neither a slot nor memory was leaked on the way.
DrainedNodeAccepts ==
    (At("inside") \cup At("trimming") = {} /\ Budget - BaseUse >= Reserve)
        => Accepting

\* The class comment of CapacityGuard (capacity.py:195): a stage is admitted
\* only when a slot is free and the working set leaves the reserve.  The
\* sample of line 239 may be stale by line 241, so the code does not
\* guarantee it.
AdmissionLeavesReserve ==
    [][\A t \in Threads :
          (pc[t] # "inside" /\ pc'[t] = "inside")
              => (inFlight < Slots /\ Headroom >= Reserve)]_vars

\* The guard implements a pool of Slots slots held by the threads that run a
\* stage, each of which gives its slot back.
Pool == INSTANCE SlotPool WITH holders <- At("inside")

ImplementsSlotPool == Pool!FairSpec
=============================================================================
