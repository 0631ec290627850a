--------------------------- MODULE JobQueueProofs ---------------------------
(***************************************************************************)
(* Proofs about JobQueue, for any jobs, sizes and limits.                  *)
(***************************************************************************)
EXTENDS JobQueue, FiniteSetTheorems, TLAPS

(***************************************************************************)
(* The inductive invariant.  The fields of a job change one at a time and  *)
(* without the lock; Fits says which combinations of them each point of    *)
(* submit() and _run() leaves, and that a job is in the table at least     *)
(* until its finished_at is set.                                           *)
(***************************************************************************)
Idle == {"client", "refused"}
Over == {"closed", "signalled"}

Fits(j) ==
    /\ at[j] \in Idle =>
          /\ state[j] = "none" /\ j \notin jobs /\ seen[j] = "waiting"
          /\ createdAt[j] = 0
    /\ at[j] \in Idle \cup {"registered"} => enqueuedAt[j] = 0
    /\ at[j] \in {"registered", "pooled"} => state[j] = "queued"
    /\ at[j] \in {"running", "computed"} => state[j] = "running"
    /\ at[j] \in {"settled"} \cup Over =>
          state[j] = IF outcome[j] = "result" THEN "succeeded" ELSE "failed"
    /\ outcome[j] = "none" <=>
          at[j] \in Idle \cup {"registered", "pooled", "running"}
    /\ finishedAt[j] # 0 <=> at[j] \in Over
    /\ at[j] \in Places \ (Idle \cup Over) => j \in jobs

Inv ==
    /\ TypeOK
    /\ AnswersAreTrue
    /\ \A j \in Jobs : Fits(j)

Untouched(j) ==
    /\ at'[j] = at[j] /\ state'[j] = state[j] /\ outcome'[j] = outcome[j]
    /\ createdAt'[j] = createdAt[j] /\ enqueuedAt'[j] = enqueuedAt[j]
    /\ finishedAt'[j] = finishedAt[j] /\ seen'[j] = seen[j]

(***************************************************************************)
(* A stamp of any clock is a positive number.                              *)
(***************************************************************************)
LEMMA TickPositive ==
    ASSUME NEW stamp
    PROVE  Tick(stamp) \in Nat \ {0}
<1>1. IsFiniteSet({j \in Jobs : stamp[j] # 0})
  BY JobQueueAssumption, FS_Subset
<1>2. QED
  BY <1>1, FS_CardinalityType DEF Tick

(***************************************************************************)
(* A sweep only drops jobs, and never one whose finished_at is not set.    *)
(***************************************************************************)
LEMMA SweepSparesUnfinished ==
    /\ Kept \subseteq jobs
    /\ \A j \in jobs : finishedAt[j] = 0 => j \in Kept
  BY DEF Kept
----------------------------------------------------------------------------
(***************************************************************************)
(* The invariant holds at the start and every step preserves it.           *)
(***************************************************************************)
LEMMA InvInit == Init => Inv
  BY JobQueueAssumption
     DEF Init, Inv, TypeOK, AnswersAreTrue, Fits, Idle, Over, Places

LEMMA InvStep == Inv /\ [Next]_vars => Inv'
<1> SUFFICES ASSUME Inv, [Next]_vars PROVE Inv'
  OBVIOUS
<1> USE DEF Inv, TypeOK, AnswersAreTrue, Fits, Idle, Over, Places
<1>1. ASSUME NEW j \in Jobs, Register(j) PROVE Inv'
  <2>1. Tick(createdAt) \in Nat \ {0}
    BY TickPositive
  <2>2. \A k \in Jobs \ {j} : Untouched(k) /\ (finishedAt[k] = 0 /\ k \in jobs => k \in jobs')
    BY <1>1, SweepSparesUnfinished DEF Register, Untouched
  <2>3. jobs' \subseteq jobs \cup {j} /\ j \in jobs'
    BY <1>1, SweepSparesUnfinished DEF Register
  <2>4. TypeOK'
    BY <1>1, <2>1, <2>3 DEF Register
  <2>5. AnswersAreTrue' /\ \A k \in Jobs : Fits(k)'
    BY <1>1, <2>1, <2>2, <2>3 DEF Register, Untouched
  <2>6. QED
    BY <2>4, <2>5
<1>2. ASSUME NEW j \in Jobs, Refuse(j) PROVE Inv'
  <2>1. jobs' \subseteq jobs /\ \A k \in jobs : finishedAt[k] = 0 => k \in jobs'
    BY <1>2, SweepSparesUnfinished DEF Refuse
  <2>2. QED
    BY <1>2, <2>1 DEF Refuse
<1>3. ASSUME NEW j \in Jobs, Enqueue(j) PROVE Inv'
  <2>1. Tick(enqueuedAt) \in Nat \ {0}
    BY TickPositive
  <2>2. QED
    BY <1>3, <2>1 DEF Enqueue
<1>4. ASSUME NEW j \in Jobs, Start(j) PROVE Inv'
  BY <1>4 DEF Start
<1>5. ASSUME NEW j \in Jobs, Compute(j) PROVE Inv'
  <2>1. PICK o \in {"result", "error"} : outcome' = [outcome EXCEPT ![j] = o]
    BY <1>5 DEF Compute
  <2>2. seen[j] \notin {"result", "error", "missing"}
    BY <1>5 DEF Compute
  <2>3. TypeOK'
    BY <1>5, <2>1 DEF Compute
  <2>4. AnswersAreTrue'
    BY <1>5, <2>1, <2>2 DEF Compute
  <2>5. \A k \in Jobs : Fits(k)'
    BY <1>5, <2>1 DEF Compute
  <2>6. QED
    BY <2>3, <2>4, <2>5
<1>6. ASSUME NEW j \in Jobs, Settle(j) PROVE Inv'
  BY <1>6 DEF Settle
<1>7. ASSUME NEW j \in Jobs, Close(j) PROVE Inv'
  <2>1. Tick(finishedAt) \in Nat \ {0}
    BY TickPositive
  <2>2. QED
    BY <1>7, <2>1 DEF Close
<1>8. ASSUME NEW j \in Jobs, Signal(j) PROVE Inv'
  BY <1>8 DEF Signal
<1>9. ASSUME NEW j \in Jobs, Expire(j) PROVE Inv'
  BY <1>9 DEF Expire
<1>10. ASSUME NEW j \in Jobs, Poll(j) PROVE Inv'
  <2>1. jobs' \subseteq jobs /\ \A k \in jobs : finishedAt[k] = 0 => k \in jobs'
    BY <1>10, SweepSparesUnfinished DEF Poll
  <2>2. jobs' = Kept
    BY <1>10 DEF Poll
  <2>3. QED
    BY <1>10, <2>1, <2>2 DEF Poll, HasId, Told
<1>11. ASSUME NEW j \in Jobs, WaitReturns(j) PROVE Inv'
  BY <1>11 DEF WaitReturns
<1>12. CASE UNCHANGED vars
  BY <1>12 DEF vars
<1>13. QED
  BY <1>1, <1>2, <1>3, <1>4, <1>5, <1>6, <1>7, <1>8, <1>9, <1>10, <1>11, <1>12
     DEF Next, Step

LEMMA Invariance == Spec => []Inv
  BY InvInit, InvStep, PTL DEF Spec
----------------------------------------------------------------------------
(***************************************************************************)
(* Type correctness.                                                       *)
(***************************************************************************)
THEOREM TypeCorrect == Spec => []TypeOK
<1>1. Inv => TypeOK
  BY DEF Inv
<1>2. QED
  BY <1>1, Invariance, PTL

(***************************************************************************)
(* A client is told the outcome its analysis had, and "not found" only of  *)
(* an analysis that is over, in every interleaving of threads and sweeps.  *)
(***************************************************************************)
THEOREM AnswersCorrect == Spec => []AnswersAreTrue
<1>1. Inv => AnswersAreTrue
  BY DEF Inv
<1>2. QED
  BY <1>1, Invariance, PTL

----------------------------------------------------------------------------
(* Retention. *)

Newer(j) == {k \in Jobs : finishedAt[k] > finishedAt[j]}

(***************************************************************************)
(* No sweep takes a result that is recent and has not expired: the number  *)
(* of finished jobs the sweep counts never exceeds the number of jobs that *)
(* really finished later.                                                  *)
(***************************************************************************)
LEMMA SweepSparesRecent ==
    ASSUME TypeOK, RecentResultsKept, NEW j \in Jobs,
           finishedAt[j] # 0, j \notin expired,
           Cardinality(Newer(j)) < KeepFinished
    PROVE  j \in Kept
<1>1. j \in jobs
  BY DEF RecentResultsKept, Newer
<1>2. IsFiniteSet(Newer(j)) /\ NewerFinished(j) \subseteq Newer(j)
  BY JobQueueAssumption, FS_Subset DEF Newer, NewerFinished, Finished, TypeOK
<1>3. Cardinality(NewerFinished(j)) <= Cardinality(Newer(j))
  BY <1>2, FS_Subset
<1>4. /\ Cardinality(NewerFinished(j)) \in Nat
      /\ Cardinality(Newer(j)) \in Nat
  BY <1>2, FS_Subset, FS_CardinalityType
<1>5. Cardinality(NewerFinished(j)) < KeepFinished
  BY <1>3, <1>4, JobQueueAssumption
<1>6. QED
  BY <1>1, <1>5 DEF Kept

THEOREM RetentionCorrect == Spec => []RecentResultsKept
<1>1. Init => RecentResultsKept
  BY DEF Init, RecentResultsKept
<1>2. Inv /\ RecentResultsKept /\ [Next]_vars => RecentResultsKept'
  <2> SUFFICES ASSUME Inv, RecentResultsKept, [Next]_vars,
                      NEW j \in Jobs, finishedAt'[j] # 0, j \notin expired',
                      Cardinality(Newer(j)') < KeepFinished
               PROVE  j \in jobs'
    BY DEF RecentResultsKept, Newer
  <2>0. TypeOK
    BY DEF Inv
  <2>1. CASE UNCHANGED <<finishedAt, expired>> /\ Kept \subseteq jobs'
    <3>1. finishedAt[j] # 0 /\ j \notin expired
      BY <2>1
    <3>2. Cardinality(Newer(j)) < KeepFinished
      BY <2>1 DEF Newer
    <3>3. QED
      BY <2>0, <2>1, <3>1, <3>2, SweepSparesRecent
  <2>2. ASSUME NEW i \in Jobs, Close(i) PROVE j \in jobs'
    <3>1. Fits(i) /\ finishedAt[i] = 0
      BY <2>2 DEF Inv, Fits, Close, Over
    <3>2. CASE j = i
      BY <2>2, <3>1, <3>2 DEF Fits, Close, Idle, Over, Places
    <3>3. CASE j # i
      <4>1. finishedAt[j] # 0 /\ j \notin expired /\ finishedAt'[j] = finishedAt[j]
        BY <2>0, <2>2, <3>3 DEF Close, TypeOK
      <4>2. Newer(j) \subseteq Newer(j)'
        BY <2>0, <2>2, <3>1, <4>1 DEF Newer, Close, TypeOK
      <4>3. IsFiniteSet(Newer(j)')
        BY JobQueueAssumption, FS_Subset DEF Newer
      <4>4. Cardinality(Newer(j)) <= Cardinality(Newer(j)')
        BY <4>2, <4>3, FS_Subset
      <4>5. Cardinality(Newer(j)) \in Nat /\ Cardinality(Newer(j)') \in Nat
        BY <4>2, <4>3, FS_Subset, FS_CardinalityType
      <4>6. Cardinality(Newer(j)) < KeepFinished
        BY <4>4, <4>5, JobQueueAssumption
      <4>7. j \in jobs
        BY <4>1, <4>6 DEF RecentResultsKept, Newer
      <4>8. QED
        BY <2>2, <4>7 DEF Close
    <3>4. QED
      BY <3>2, <3>3
  <2>3. ASSUME NEW i \in Jobs, Expire(i) PROVE j \in jobs'
    <3>1. finishedAt[j] # 0 /\ j \notin expired
      BY <2>3 DEF Expire
    <3>2. Cardinality(Newer(j)) < KeepFinished
      BY <2>3 DEF Expire, Newer
    <3>3. QED
      BY <2>3, <3>1, <3>2 DEF Expire, RecentResultsKept, Newer
  <2>4. ASSUME NEW i \in Jobs,
               \/ Register(i) \/ Refuse(i) \/ Enqueue(i) \/ Start(i)
               \/ Compute(i) \/ Settle(i) \/ Signal(i) \/ Poll(i)
               \/ WaitReturns(i)
        PROVE  UNCHANGED <<finishedAt, expired>> /\ Kept \subseteq jobs'
    BY <2>4, SweepSparesUnfinished
       DEF Register, Refuse, Enqueue, Start, Compute, Settle, Signal, Poll,
           WaitReturns
  <2>5. CASE UNCHANGED vars
    BY <2>1, <2>5, SweepSparesUnfinished DEF vars
  <2>6. QED
    BY <2>1, <2>2, <2>3, <2>4, <2>5 DEF Next, Step
<1>3. QED
  BY <1>1, <1>2, Invariance, PTL DEF Spec
----------------------------------------------------------------------------
(* The position in the queue. *)

Created == {j \in Jobs : createdAt[j] # 0}
StampsBelowTick == \A j \in Jobs : createdAt[j] < Tick(createdAt)
Ahead(j) == {k \in Queued : createdAt[k] < createdAt[j]}

(***************************************************************************)
(* A job registered now has a later created_at than every job before it.   *)
(***************************************************************************)
LEMMA StampsGrow == Spec => []StampsBelowTick
<1>1. Init => StampsBelowTick
  BY TickPositive DEF Init, StampsBelowTick
<1>2. Inv /\ StampsBelowTick /\ [Next]_vars => StampsBelowTick'
  <2> SUFFICES ASSUME Inv, StampsBelowTick, [Next]_vars
               PROVE  StampsBelowTick'
    OBVIOUS
  <2>0. TypeOK /\ Tick(createdAt) \in Nat
    BY TickPositive DEF Inv
  <2>1. ASSUME NEW i \in Jobs, Register(i) PROVE StampsBelowTick'
    <3>1. createdAt[i] = 0
      BY <2>1 DEF Inv, Fits, Register, Idle
    <3>2. createdAt' = [createdAt EXCEPT ![i] = Tick(createdAt)]
      BY <2>1 DEF Register
    <3>3. Created' = Created \cup {i} /\ i \notin Created
      BY <2>0, <3>1, <3>2, TickPositive DEF Created, TypeOK
    <3>4. IsFiniteSet(Created)
      BY JobQueueAssumption, FS_Subset DEF Created
    <3>5. Cardinality(Created') = Cardinality(Created) + 1
      BY <3>3, <3>4, FS_AddElement
    <3>6. Tick(createdAt') = Tick(createdAt) + 1
      BY <2>0, <3>4, <3>5, FS_CardinalityType DEF Tick, Created
    <3>7. QED
      BY <2>0, <3>2, <3>6 DEF StampsBelowTick, TypeOK
  <2>2. ASSUME UNCHANGED createdAt PROVE StampsBelowTick'
    BY <2>2 DEF StampsBelowTick, Tick
  <2>3. QED
    BY <2>1, <2>2
       DEF Next, Step, vars, Refuse, Enqueue, Start, Compute, Settle, Close,
           Signal, Expire, Poll, WaitReturns
<1>3. QED
  BY <1>1, <1>2, Invariance, PTL DEF Spec

(***************************************************************************)
(* No step puts a job ahead of one that stays queued.                      *)
(***************************************************************************)
LEMMA NobodyCutsIn ==
    ASSUME Inv, StampsBelowTick, [Next]_vars,
           NEW j \in Jobs, state[j] = "queued", state'[j] = "queued"
    PROVE  Ahead(j)' \subseteq Ahead(j)
<1>0. TypeOK /\ Tick(createdAt) \in Nat
  BY TickPositive DEF Inv
<1>1. ASSUME NEW i \in Jobs, Register(i) PROVE Ahead(j)' \subseteq Ahead(j)
  <2>1. j # i
    BY <1>1 DEF Inv, Fits, Register, Idle
  <2>2. createdAt'[j] = createdAt[j] /\ createdAt'[i] = Tick(createdAt)
    BY <1>0, <1>1, <2>1 DEF Register, TypeOK
  <2>3. ~ (createdAt'[i] < createdAt'[j])
    BY <1>0, <2>2 DEF StampsBelowTick, TypeOK
  <2>4. Queued' \subseteq Queued \cup {i}
    BY <1>0, <1>1, SweepSparesUnfinished DEF Register, Queued, TypeOK
  <2>5. \A k \in Queued' \ {i} : createdAt'[k] = createdAt[k]
    BY <1>0, <1>1, <2>4 DEF Register, TypeOK, Queued
  <2>6. QED
    BY <2>2, <2>3, <2>4, <2>5 DEF Ahead
<1>2. ASSUME UNCHANGED createdAt, Queued' \subseteq Queued
      PROVE  Ahead(j)' \subseteq Ahead(j)
  BY <1>2 DEF Ahead
<1>3. ASSUME NEW i \in Jobs,
             \/ Refuse(i) \/ Enqueue(i) \/ Start(i) \/ Compute(i)
             \/ Settle(i) \/ Close(i) \/ Signal(i) \/ Expire(i) \/ Poll(i)
             \/ WaitReturns(i)
      PROVE  UNCHANGED createdAt /\ Queued' \subseteq Queued
  BY <1>0, <1>3, SweepSparesUnfinished
     DEF Refuse, Enqueue, Start, Compute, Settle, Close, Signal, Expire,
         Poll, WaitReturns, Queued, TypeOK
<1>4. CASE UNCHANGED vars
  BY <1>2, <1>4 DEF vars, Queued
<1>5. QED
  BY <1>1, <1>2, <1>3, <1>4 DEF Next, Step

(***************************************************************************)
(* The position shown to a waiting client only improves.                   *)
(***************************************************************************)
THEOREM PositionCorrect == Spec => PositionNeverGrows
<1>1. ASSUME Inv, StampsBelowTick, [Next]_vars,
             NEW j \in Jobs, state[j] = "queued", state'[j] = "queued"
      PROVE  Position(j)' <= Position(j)
  <2>1. Ahead(j)' \subseteq Ahead(j)
    BY <1>1, NobodyCutsIn
  <2>2. IsFiniteSet(Ahead(j))
    <3>1. Ahead(j) \subseteq Jobs
      BY <1>1 DEF Ahead, Queued, Inv, TypeOK
    <3>2. QED
      BY <3>1, JobQueueAssumption, FS_Subset
  <2>3. Cardinality(Ahead(j)') <= Cardinality(Ahead(j))
    BY <2>1, <2>2, FS_Subset
  <2>4. Cardinality(Ahead(j)') \in Nat /\ Cardinality(Ahead(j)) \in Nat
    BY <2>1, <2>2, FS_Subset, FS_CardinalityType
  <2>5. QED
    BY <2>3, <2>4 DEF Position, Ahead
<1>2. Inv /\ StampsBelowTick /\ [Next]_vars
        => [\A j \in Jobs :
              (state[j] = "queued" /\ state'[j] = "queued")
                 => Position(j)' <= Position(j)]_vars
  BY <1>1
<1>3. QED
  BY <1>2, Invariance, StampsGrow, PTL DEF Spec, PositionNeverGrows
----------------------------------------------------------------------------
(* The job API. *)

Fate == [j \in Jobs |->
            IF at[j] = "client" THEN "new"
            ELSE IF at[j] = "refused" THEN "refused"
            ELSE IF state[j] \in {"succeeded", "failed"} THEN state[j]
            ELSE "accepted"]

Ended == {j \in Jobs : at[j] = "signalled"}

(***************************************************************************)
(* What a sweep drops is over, as the API promises.                        *)
(***************************************************************************)
LEMMA SweepForgetsOnlyFinished ==
    ASSUME Inv
    PROVE  API!MayForget(Kept)
<1>1. \A j \in jobs \ Kept : at[j] \in Over /\ j \in Jobs
  BY SweepSparesUnfinished DEF Inv, TypeOK, Fits
<1>2. \A j \in jobs \ Kept : state[j] \in {"succeeded", "failed"} /\ at[j] \notin Idle
  BY <1>1 DEF Inv, Fits, Over, Idle
<1>3. \A j \in jobs \ Kept : API!Over(j)
  BY <1>1, <1>2 DEF API!Over, Idle
<1>4. QED
  BY <1>3, SweepSparesUnfinished DEF API!MayForget

(***************************************************************************)
(* The job manager implements the job API: an analysis is refused or       *)
(* accepted once, ends once, is found until after its end, and only an end *)
(* that came is signalled.                                                 *)
(***************************************************************************)
THEOREM ImplementsJobLifecycleSafety == Spec => API!Spec
<1>1. Init => API!Init
  BY DEF Init, API!Init
<1>2. Inv /\ [Next]_vars => [API!Next]_(API!vars)
  <2> SUFFICES ASSUME Inv, [Next]_vars PROVE [API!Next]_(API!vars)
    OBVIOUS
  <2>0. TypeOK /\ (\A j \in Jobs : Fits(j)) /\ API!MayForget(Kept)
    BY SweepForgetsOnlyFinished DEF Inv
  <2>1. ASSUME NEW j \in Jobs, Register(j) PROVE API!Next
    <3>1. Fate[j] = "new" /\ Fate' = [Fate EXCEPT ![j] = "accepted"]
      BY <2>0, <2>1 DEF Register, Fate, TypeOK
    <3>2. Kept \in SUBSET jobs /\ jobs' = Kept \cup {j}
      BY <2>1, SweepSparesUnfinished DEF Register
    <3>3. Ended' = Ended
      BY <2>0, <2>1 DEF Register, Ended, TypeOK
    <3>4. API!Accept(j)
      BY <2>0, <3>1, <3>2, <3>3 DEF API!Accept, Fate, Ended
    <3>5. QED
      BY <3>4 DEF API!Next
  <2>2. ASSUME NEW j \in Jobs, Refuse(j) PROVE API!Next
    <3>1. Fate[j] = "new" /\ Fate' = [Fate EXCEPT ![j] = "refused"]
      BY <2>0, <2>2 DEF Refuse, Fate, TypeOK
    <3>2. jobs' = Kept
      BY <2>2 DEF Refuse
    <3>3. Ended' = Ended
      BY <2>0, <2>2 DEF Refuse, Ended, TypeOK
    <3>4. API!Refuse(j)
      BY <2>0, <3>1, <3>2, <3>3 DEF API!Refuse, Fate, Ended
    <3>5. QED
      BY <3>4 DEF API!Next
  <2>3. ASSUME NEW j \in Jobs, Settle(j) PROVE API!Next
    <3>1. PICK end \in {"succeeded", "failed"} :
             state' = [state EXCEPT ![j] = end]
      BY <2>3 DEF Settle
    <3>2. state[j] = "running"
      BY <2>0, <2>3 DEF Fits, Settle
    <3>3. Fate[j] = "accepted"
      BY <2>3, <3>2 DEF Fate, Settle
    <3>4. Fate' = [Fate EXCEPT ![j] = end]
      BY <2>0, <2>3, <3>1 DEF Fate, Settle, TypeOK
    <3>5. Ended' = Ended
      BY <2>0, <2>3 DEF Settle, Ended, TypeOK
    <3>6. API!Finish(j)
      BY <2>3, <3>3, <3>4, <3>5 DEF API!Finish, Settle, Fate, Ended
    <3>7. QED
      BY <3>6 DEF API!Next
  <2>4. ASSUME NEW j \in Jobs, Poll(j) PROVE API!Next
    <3>1. jobs' = Kept /\ UNCHANGED <<at, state>>
      BY <2>4 DEF Poll
    <3>2. API!Forget
      BY <2>0, <3>1 DEF API!Forget
    <3>3. QED
      BY <3>2 DEF API!Next
  <2>5. ASSUME NEW j \in Jobs, Signal(j) PROVE API!Next
    <3>1. Fate' = Fate
      BY <2>0, <2>5 DEF Signal, Fate, TypeOK
    <3>2. API!Over(j)
      BY <2>0, <2>5 DEF Signal, API!Over, Fits, Over, Idle
    <3>3. j \notin Ended /\ Ended' = Ended \cup {j}
      BY <2>0, <2>5 DEF Signal, Ended, TypeOK
    <3>4. API!Signal(j)
      BY <2>5, <3>1, <3>2, <3>3 DEF API!Signal, Signal, Fate, Ended
    <3>5. QED
      BY <3>4 DEF API!Next
  <2>6. ASSUME NEW j \in Jobs,
               \/ Enqueue(j) \/ Start(j) \/ Compute(j) \/ Close(j)
               \/ Expire(j) \/ WaitReturns(j)
        PROVE  UNCHANGED <<Fate, jobs, Ended>>
    <3>1. UNCHANGED <<Fate, jobs>>
      BY <2>0, <2>6
         DEF Enqueue, Start, Compute, Close, Expire, WaitReturns, Fate,
             Fits, Idle, Over, Places, TypeOK
    <3>2. UNCHANGED Ended
      BY <2>0, <2>6
         DEF Enqueue, Start, Compute, Close, Expire, WaitReturns, Ended,
             TypeOK
    <3>3. QED
      BY <3>1, <3>2
  <2>7. CASE UNCHANGED vars
    BY <2>7 DEF vars, API!vars
  <2>8. QED
    BY <2>1, <2>2, <2>3, <2>4, <2>5, <2>6, <2>7
       DEF Next, Step, API!vars, Fate, Ended
<1>3. QED
  BY <1>1, <1>2, Invariance, PTL DEF Spec, API!Spec
----------------------------------------------------------------------------
(* Bytes(S) is a recursive fold.  That it adds up needs that the fold      *)
(* exists, that it is the same for every S, and that the order in which it *)
(* picks the jobs does not matter: three inductions on the number of jobs, *)
(* each from the smallest counterexample.                                  *)

LEMMA SmallestNumber ==
    ASSUME NEW S, S \subseteq Nat, S # {}
    PROVE  \E m \in S : \A n \in S : m <= n
<1> DEFINE R == OpToRel(<, Nat)
<1>1. IsWellFoundedOn(R, Nat)
  BY NatLessThanWellFounded
<1>2. PICK m \in S : \A n \in S : <<n, m>> \notin R
  <2> HIDE DEF R
  <2>1. QED
    BY <1>1, WFMin
<1>3. ASSUME NEW n \in S PROVE m <= n
  <2>1. ~ (n < m)
    BY <1>2 DEF OpToRel
  <2>2. n \in Nat /\ m \in Nat
    OBVIOUS
  <2>3. QED
    BY <2>1, <2>2
<1>4. QED
  BY <1>3

LEMMA SmallestSet ==
    ASSUME NEW A, A # {}, A \subseteq SUBSET Jobs
    PROVE  \E S \in A : \A T \in A : Cardinality(S) <= Cardinality(T)
<1> DEFINE N == {Cardinality(S) : S \in A}
<1>1. \A S \in A : IsFiniteSet(S) /\ Cardinality(S) \in Nat
  BY JobQueueAssumption, FS_Subset, FS_CardinalityType
<1>2. N \subseteq Nat /\ N # {}
  BY <1>1
<1>3. PICK m \in N : \A n \in N : m <= n
  <2> HIDE DEF N
  <2>1. QED
    BY <1>2, SmallestNumber
<1>4. QED
  BY <1>3

Picked(S) == CHOOSE j \in S : TRUE
Rest(S) == S \ {Picked(S)}

LEMMA RestIsSmaller ==
    ASSUME NEW S \in SUBSET Jobs, S # {}
    PROVE  /\ Picked(S) \in S /\ Rest(S) \subseteq S /\ Rest(S) \in SUBSET Jobs
           /\ Cardinality(S) \in Nat /\ Cardinality(Rest(S)) = Cardinality(S) - 1
           /\ Size[Picked(S)] \in Nat
<1>1. Picked(S) \in S
  BY DEF Picked
<1>2. IsFiniteSet(S)
  BY JobQueueAssumption, FS_Subset
<1>3. Cardinality(S) \in Nat /\ Cardinality(S \ {Picked(S)}) = Cardinality(S) - 1
  BY <1>1, <1>2, FS_CardinalityType, FS_RemoveElement
<1>4. QED
  BY <1>1, <1>3, JobQueueAssumption DEF Rest

\* One step of the fold.
Folds1(f, S) == f[S] = IF S = {} THEN 0 ELSE Size[Picked(S)] + f[Rest(S)]

Small(n) == {S \in SUBSET Jobs : Cardinality(S) <= n}

LEMMA FoldUpTo ==
    ASSUME NEW n \in Nat
    PROVE  \E f \in [Small(n) -> Nat] : \A S \in Small(n) : Folds1(f, S)
<1> DEFINE Exists(m) == \E f \in [Small(m) -> Nat] : \A S \in Small(m) : Folds1(f, S)
           Bad == {m \in Nat : ~Exists(m)}
<1>1. ASSUME Bad # {} PROVE FALSE
  <2>1. PICK m \in Bad : \A i \in Bad : m <= i
    <3>1. Bad \subseteq Nat
      OBVIOUS
    <3> HIDE DEF Bad
    <3>2. QED
      BY <1>1, <3>1, SmallestNumber
  <2>2. m # 0
    <3> SUFFICES Exists(0)
      BY <2>1
    <3> DEFINE f == [S \in Small(0) |-> 0]
    <3>1. ASSUME NEW S \in Small(0) PROVE S = {}
      <4>1. IsFiniteSet(S) /\ Cardinality(S) <= 0
        BY JobQueueAssumption, FS_Subset DEF Small
      <4>2. Cardinality(S) = 0
        BY <4>1, FS_CardinalityType
      <4>3. QED
        BY <4>1, <4>2, FS_EmptySet
    <3>2. f \in [Small(0) -> Nat] /\ \A S \in Small(0) : Folds1(f, S)
      BY <3>1 DEF Folds1
    <3> HIDE DEF f
    <3>3. QED
      BY <3>2
  <2>3. m \in Nat /\ m - 1 \in Nat
    BY <2>1, <2>2
  <2>4. Exists(m - 1)
    <3>1. ~(m <= m - 1)
      BY <2>3
    <3>2. m - 1 \notin Bad
      BY <2>1, <3>1
    <3>3. QED
      BY <2>3, <3>2
  <2>5. PICK f \in [Small(m - 1) -> Nat] : \A S \in Small(m - 1) : Folds1(f, S)
    BY <2>4
  <2> DEFINE g == [S \in Small(m) |-> IF S = {} THEN 0 ELSE Size[Picked(S)] + f[Rest(S)]]
  <2>6. ASSUME NEW S \in Small(m), S # {}
        PROVE  Rest(S) \in Small(m - 1) /\ Rest(S) \in Small(m) /\ Size[Picked(S)] \in Nat
    <3>1. /\ Rest(S) \in SUBSET Jobs /\ Cardinality(S) \in Nat /\ Cardinality(S) <= m
          /\ Cardinality(Rest(S)) = Cardinality(S) - 1 /\ Size[Picked(S)] \in Nat
      BY <2>6, RestIsSmaller DEF Small
    <3>2. Cardinality(Rest(S)) <= m - 1 /\ Cardinality(Rest(S)) <= m
      BY <2>3, <3>1
    <3>3. QED
      BY <3>1, <3>2 DEF Small
  <2>7. g \in [Small(m) -> Nat]
    <3>1. ASSUME NEW S \in Small(m), S # {} PROVE Size[Picked(S)] + f[Rest(S)] \in Nat
      BY <2>6, <3>1
    <3>2. QED
      BY <3>1
  <2>8. ASSUME NEW S \in Small(m) PROVE Folds1(g, S)
    <3>1. CASE S = {}
      BY <3>1 DEF Folds1
    <3>2. CASE S # {}
      <4>1. Rest(S) \in Small(m - 1) /\ Rest(S) \in Small(m)
        BY <2>6, <3>2
      <4>2. g[Rest(S)] = f[Rest(S)]
        BY <2>5, <4>1 DEF Folds1
      <4>3. QED
        BY <3>2, <4>2 DEF Folds1
    <3>3. QED
      BY <3>1, <3>2
  <2> HIDE DEF g
  <2>9. Exists(m)
    BY <2>7, <2>8
  <2>10. QED
    BY <2>1, <2>9
<1>2. QED
  BY <1>1

Sums(f, S) ==
    f = [T \in SUBSET S |-> IF T = {} THEN 0 ELSE Size[Picked(T)] + f[T \ {Picked(T)}]]

LEMMA BytesIsFold ==
    ASSUME NEW S, NEW g, Sums(g, S)
    PROVE  \E f : Sums(f, S) /\ Bytes(S) = f[S]
<1> DEFINE iter == CHOOSE f : Sums(f, S)
<1>1. Sums(iter, S)
  OBVIOUS
<1>2. Bytes(S) = iter[S]
  BY DEF Bytes, MapThenSumSet, MapThenFoldSet, Sums, Picked
<1>3. QED
  BY <1>1, <1>2

\* Bytes, one job at a time.
LEMMA BytesUnfold ==
    /\ \A S \in SUBSET Jobs : Bytes(S) \in Nat
    /\ Bytes({}) = 0
    /\ \A S \in SUBSET Jobs : S # {} => Bytes(S) = Size[Picked(S)] + Bytes(Rest(S))
<1>1. Small(Cardinality(Jobs)) = SUBSET Jobs /\ Cardinality(Jobs) \in Nat
  <2>1. \A S \in SUBSET Jobs : Cardinality(S) <= Cardinality(Jobs)
    BY JobQueueAssumption, FS_Subset
  <2>2. QED
    BY <2>1, JobQueueAssumption, FS_CardinalityType DEF Small
<1>2. PICK F \in [SUBSET Jobs -> Nat] : \A S \in SUBSET Jobs : Folds1(F, S)
  BY <1>1, FoldUpTo
<1>3. ASSUME NEW S \in SUBSET Jobs PROVE Bytes(S) = F[S]
  <2> DEFINE g == [T \in SUBSET S |-> F[T]]
  <2>1. Sums(g, S)
    <3>1. ASSUME NEW T \in SUBSET S
          PROVE  g[T] = IF T = {} THEN 0 ELSE Size[Picked(T)] + g[T \ {Picked(T)}]
      BY <1>2 DEF Folds1, Rest
    <3>2. g = [T \in SUBSET S |-> g[T]]
      OBVIOUS
    <3> HIDE DEF g
    <3>3. QED
      BY <3>1, <3>2 DEF Sums
  <2> HIDE DEF g
  <2>2. PICK f : Sums(f, S) /\ Bytes(S) = f[S]
    BY <2>1, BytesIsFold
  <2>3. \A T \in SUBSET S : f[T] = IF T = {} THEN 0 ELSE Size[Picked(T)] + f[Rest(T)]
    <3>1. f = [T \in SUBSET S |-> IF T = {} THEN 0 ELSE Size[Picked(T)] + f[T \ {Picked(T)}]]
      BY <2>2 DEF Sums
    <3>2. QED
      BY <3>1 DEF Rest
  <2> DEFINE Bad == {T \in SUBSET S : f[T] # F[T]}
  <2>4. ASSUME Bad # {} PROVE FALSE
    <3>1. PICK T \in Bad : \A U \in Bad : Cardinality(T) <= Cardinality(U)
      <4>1. Bad \subseteq SUBSET Jobs
        OBVIOUS
      <4> HIDE DEF Bad
      <4>2. QED
        BY <2>4, <4>1, SmallestSet
    <3>2. T \in SUBSET S /\ T \in SUBSET Jobs /\ T # {}
      BY <1>2, <2>3 DEF Folds1
    <3>3. /\ Rest(T) \subseteq T /\ Cardinality(T) \in Nat
          /\ Cardinality(Rest(T)) = Cardinality(T) - 1
      BY <3>2, RestIsSmaller
    <3>4. Rest(T) \notin Bad
      BY <3>1, <3>3
    <3>5. f[Rest(T)] = F[Rest(T)]
      BY <3>2, <3>3, <3>4
    <3>6. f[T] = F[T]
      BY <1>2, <2>3, <3>2, <3>5 DEF Folds1
    <3>7. QED
      BY <3>6
  <2>5. f[S] = F[S]
    BY <2>4
  <2>6. QED
    BY <2>2, <2>5
<1>4. Bytes({}) = 0
  BY <1>2, <1>3 DEF Folds1
<1>5. ASSUME NEW S \in SUBSET Jobs, S # {}
      PROVE  Bytes(S) = Size[Picked(S)] + Bytes(Rest(S))
  <2>1. Rest(S) \in SUBSET Jobs
    BY <1>5, RestIsSmaller
  <2>2. QED
    BY <1>2, <1>3, <1>5, <2>1 DEF Folds1
<1>6. QED
  BY <1>2, <1>3, <1>4, <1>5

\* A job that joins adds its upload, whichever the fold picks first.
LEMMA BytesAdd ==
    ASSUME NEW S \in SUBSET Jobs, NEW x \in Jobs \ S
    PROVE  Bytes(S \cup {x}) = Bytes(S) + Size[x]
<1> DEFINE Bad == {T \in SUBSET Jobs :
                     \E y \in Jobs \ T : Bytes(T \cup {y}) # Bytes(T) + Size[y]}
<1>1. ASSUME Bad # {} PROVE FALSE
  <2>1. PICK T \in Bad : \A U \in Bad : Cardinality(T) <= Cardinality(U)
    <3>1. Bad \subseteq SUBSET Jobs
      OBVIOUS
    <3> HIDE DEF Bad
    <3>2. QED
      BY <1>1, <3>1, SmallestSet
  <2>2. PICK y \in Jobs \ T : Bytes(T \cup {y}) # Bytes(T) + Size[y]
    BY <2>1
  <2> DEFINE W == T \cup {y}
             p == Picked(W)
             V == T \ {p}
  <2>3. T \in SUBSET Jobs /\ W \in SUBSET Jobs /\ W # {}
    BY <2>1
  <2>4. p \in W /\ Rest(W) = W \ {p} /\ Bytes(W) = Size[p] + Bytes(W \ {p})
    BY <2>3, BytesUnfold, RestIsSmaller DEF Rest
  <2>5. /\ Bytes(T) \in Nat /\ Bytes(V) \in Nat /\ Size[p] \in Nat /\ Size[y] \in Nat
    BY <2>3, <2>4, BytesUnfold, JobQueueAssumption
  <2>6. CASE p = y
    <3>1. W \ {p} = T
      BY <2>2, <2>6
    <3> HIDE DEF p, V, Bad
    <3>2. Bytes(W) = Size[y] + Bytes(T)
      BY <2>4, <2>6, <3>1
    <3>3. Bytes(W) = Bytes(T) + Size[y]
      BY <2>5, <3>2
    <3>4. QED
      BY <2>2, <3>3
  <2>7. CASE p # y
    <3>1. p \in T /\ W \ {p} = V \cup {y} /\ T = V \cup {p} /\ V \in SUBSET Jobs
      BY <2>3, <2>4, <2>7
    <3>2. IsFiniteSet(T) /\ Cardinality(T) \in Nat
      BY <2>3, JobQueueAssumption, FS_Subset, FS_CardinalityType
    <3> HIDE DEF p, V, W, Bad
    <3>3. Cardinality(V) = Cardinality(T) - 1
      BY <3>1, <3>2, FS_RemoveElement DEF V
    <3>4. V \notin Bad
      BY <2>1, <3>2, <3>3
    <3>5. /\ y \in Jobs \ V /\ p \in Jobs \ V
      BY <2>2, <2>3, <3>1 DEF V
    <3>6. /\ Bytes(V \cup {y}) = Bytes(V) + Size[y]
          /\ Bytes(V \cup {p}) = Bytes(V) + Size[p]
      BY <3>1, <3>4, <3>5 DEF Bad
    <3>7. Bytes(W) = Size[p] + (Bytes(V) + Size[y])
      BY <2>4, <3>1, <3>6
    <3>8. Bytes(T) = Bytes(V) + Size[p]
      BY <3>1, <3>6
    <3>9. Bytes(W) = Bytes(T) + Size[y]
      BY <2>5, <3>7, <3>8
    <3>10. QED
      BY <2>2, <3>9 DEF W
  <2>8. QED
    BY <2>6, <2>7
<1>2. QED
  BY <1>1

\* A job that leaves takes its upload with it.
LEMMA BytesRemove ==
    ASSUME NEW S \in SUBSET Jobs, NEW x \in S
    PROVE  Bytes(S \ {x}) <= Bytes(S)
<1>1. S \ {x} \in SUBSET Jobs /\ x \in Jobs \ (S \ {x}) /\ (S \ {x}) \cup {x} = S
  OBVIOUS
<1>2. Bytes((S \ {x}) \cup {x}) = Bytes(S \ {x}) + Size[x]
  BY <1>1, BytesAdd
<1>3. Bytes(S \ {x}) \in Nat /\ Size[x] \in Nat
  BY <1>1, BytesUnfold, JobQueueAssumption
<1>4. Bytes(S) = Bytes(S \ {x}) + Size[x]
  BY <1>1, <1>2
<1>5. QED
  BY <1>3, <1>4

\* A sweep takes no pending job away.
LEMMA SweepSparesPending ==
    ASSUME Inv
    PROVE  /\ Pending \subseteq jobs /\ jobs \subseteq Jobs
           /\ Pending = {j \in Kept : state[j] \in {"queued", "running"}}
<1>1. \A j \in Jobs : state[j] \in {"queued", "running"} => finishedAt[j] = 0
  BY DEF Inv, TypeOK, Fits, Idle, Over, Places
<1>2. jobs \subseteq Jobs
  BY DEF Inv, TypeOK
<1>3. Pending = {j \in jobs : state[j] \in {"queued", "running"}}
  BY DEF Pending, Queued, Running
<1>4. QED
  BY <1>1, <1>2, <1>3, SweepSparesUnfinished

(***************************************************************************)
(* HeldBytesBounded: the uploads of pending jobs fit in the limit, or one  *)
(* upload is all there is, whatever is submitted while jobs run and end.   *)
(***************************************************************************)
THEOREM HeldBytesCorrect == Spec => []HeldBytesBounded
<1>1. Init => HeldBytesBounded
  <2> SUFFICES ASSUME Init PROVE HeldBytesBounded
    OBVIOUS
  <2>1. Pending = {}
    BY DEF Init, Pending, Queued, Running
  <2>2. QED
    BY <2>1, BytesUnfold, JobQueueAssumption DEF HeldBytesBounded
<1>2. Inv /\ HeldBytesBounded /\ [Next]_vars => HeldBytesBounded'
  <2> SUFFICES ASSUME Inv, HeldBytesBounded, [Next]_vars PROVE HeldBytesBounded'
    OBVIOUS
  <2>a. Pending \in SUBSET Jobs /\ Bytes(Pending) \in Nat /\ MaxBytes \in Nat
    BY SweepSparesPending, BytesUnfold, JobQueueAssumption
  <2>b. Pending' = {j \in jobs' : state'[j] \in {"queued", "running"}}
    BY DEF Pending, Queued, Running
  <2>c. Pending = {j \in jobs : state[j] \in {"queued", "running"}}
    BY DEF Pending, Queued, Running
  <2>e. Bytes(Pending)' = Bytes(Pending')
    BY Zenon DEF Bytes, MapThenSumSet, MapThenFoldSet
  <2>f. HeldBytesBounded' <=> (Bytes(Pending') <= MaxBytes \/ Cardinality(Pending') = 1)
    BY <2>e DEF HeldBytesBounded
  <2>d. ASSUME Pending' = Pending PROVE HeldBytesBounded'
    BY <2>d, <2>f DEF HeldBytesBounded
  <2>1. ASSUME NEW j \in Jobs, Register(j) PROVE HeldBytesBounded'
    <3>1. j \notin jobs
      BY <2>1 DEF Register, Inv, Fits, Idle
    <3>2. /\ jobs' = Kept \cup {j} /\ Kept \subseteq jobs
          /\ state'[j] = "queued" /\ \A i \in jobs : state'[i] = state[i]
      BY <2>1, <3>1, SweepSparesUnfinished DEF Register, Inv, TypeOK
    <3>3. Pending' = Pending \cup {j} /\ j \notin Pending
      BY <2>b, <3>1, <3>2, SweepSparesPending
    <3>4. CASE Pending = {}
      <4>1. Pending' = {j}
        BY <3>3, <3>4
      <4>2. Cardinality({j}) = 1
        BY FS_Singleton
      <4>3. QED
        BY <4>1, <4>2 DEF HeldBytesBounded
    <3>5. CASE Pending # {}
      <4>1. ~(Bytes(Pending) + Size[j] > MaxBytes)
        BY <2>1, <3>5 DEF Register, TooManyBytes
      <4>2. Bytes(Pending \cup {j}) = Bytes(Pending) + Size[j]
        BY <2>a, <3>3, BytesAdd
      <4>3. Size[j] \in Nat
        BY JobQueueAssumption
      <4>4. Bytes(Pending \cup {j}) <= MaxBytes
        BY <2>a, <4>1, <4>2, <4>3
      <4>5. Bytes(Pending') = Bytes(Pending \cup {j})
        BY <3>3
      <4>6. QED
        BY <2>f, <4>4, <4>5
    <3>6. QED
      BY <3>4, <3>5
  <2>2. ASSUME NEW j \in Jobs, Refuse(j) \/ Poll(j) PROVE HeldBytesBounded'
    <3>1. jobs' = Kept /\ UNCHANGED state
      BY <2>2 DEF Refuse, Poll
    <3>2. QED
      BY <2>b, <2>d, <3>1, SweepSparesPending
  <2>3. ASSUME NEW j \in Jobs, Start(j) PROVE HeldBytesBounded'
    <3>1. /\ UNCHANGED jobs /\ state[j] = "queued" /\ state' = [state EXCEPT ![j] = "running"]
      BY <2>3 DEF Start, Inv, Fits
    <3>2. Pending' = Pending
      BY <2>b, <2>c, <3>1 DEF Inv, TypeOK
    <3>3. QED
      BY <2>d, <3>2
  <2>4. ASSUME NEW j \in Jobs, Settle(j) PROVE HeldBytesBounded'
    <3>1. /\ UNCHANGED jobs /\ state[j] = "running" /\ j \in jobs
          /\ state'[j] \in {"succeeded", "failed"}
          /\ \A i \in Jobs \ {j} : state'[i] = state[i]
      BY <2>4 DEF Settle, Inv, TypeOK, Fits, Idle, Over, Places
    <3>2. Pending' = Pending \ {j} /\ j \in Pending
      BY <2>a, <2>b, <2>c, <3>1, SweepSparesPending
    <3>3. Bytes(Pending') = Bytes(Pending \ {j})
      BY <3>2
    <3>4. CASE Bytes(Pending) <= MaxBytes
      <4>1. Bytes(Pending \ {j}) <= Bytes(Pending) /\ Bytes(Pending \ {j}) \in Nat
        BY <2>a, <3>2, BytesRemove, BytesUnfold
      <4>2. Bytes(Pending \ {j}) <= MaxBytes
        BY <2>a, <3>4, <4>1
      <4>3. QED
        BY <2>f, <3>3, <4>2
    <3>5. CASE Cardinality(Pending) = 1
      <4>1. IsFiniteSet(Pending)
        BY <2>a, JobQueueAssumption, FS_Subset
      <4>2. \E x : Pending = {x}
        BY <3>5, <4>1, FS_Singleton
      <4>3. Pending \ {j} = {}
        BY <3>2, <4>2
      <4>4. Bytes(Pending \ {j}) <= MaxBytes
        BY <2>a, <4>3, BytesUnfold
      <4>5. QED
        BY <2>f, <3>3, <4>4
    <3>6. QED
      BY <3>4, <3>5 DEF HeldBytesBounded
  <2>5. ASSUME NEW j \in Jobs,
               \/ Enqueue(j) \/ Compute(j) \/ Close(j) \/ Signal(j)
               \/ Expire(j) \/ WaitReturns(j)
        PROVE  HeldBytesBounded'
    <3>1. UNCHANGED <<jobs, state>>
      BY <2>5 DEF Enqueue, Compute, Close, Signal, Expire, WaitReturns
    <3>2. QED
      BY <2>b, <2>c, <2>d, <3>1
  <2>6. CASE UNCHANGED vars
    BY <2>b, <2>c, <2>d, <2>6 DEF vars
  <2>7. QED
    BY <2>1, <2>2, <2>3, <2>4, <2>5, <2>6 DEF Next, Step
<1>3. QED
  BY <1>1, <1>2, Invariance, PTL DEF Spec
=============================================================================
