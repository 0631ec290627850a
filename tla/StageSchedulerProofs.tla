------------------------ MODULE StageSchedulerProofs ------------------------
(***************************************************************************)
(* Proofs about StageScheduler, for any tasks, workers, bad inputs and     *)
(* number of faults.                                                       *)
(***************************************************************************)
EXTENDS StageScheduler, FiniteSetTheorems, TLAPS

Counted == TypeOK /\ PendingMatchesCalls

(***************************************************************************)
(* The calls out to a worker can be counted, before and after a step.      *)
(***************************************************************************)
LEMMA PostingCounted ==
    \A w : /\ IsFiniteSet(Posting(w)) /\ Cardinality(Posting(w)) \in Nat
           /\ IsFiniteSet(Posting(w)') /\ Cardinality(Posting(w)') \in Nat
<1>1. SUFFICES ASSUME NEW w
               PROVE  /\ IsFiniteSet(Posting(w)) /\ Cardinality(Posting(w)) \in Nat
                      /\ IsFiniteSet(Posting(w)') /\ Cardinality(Posting(w)') \in Nat
  OBVIOUS
<1>2. IsFiniteSet(Posting(w)) /\ IsFiniteSet(Posting(w)')
  BY SchedulerAssumption, FS_Subset DEF Posting
<1>3. QED
  BY <1>2, FS_CardinalityType

(***************************************************************************)
(* A call that leaves takes one off the count of its worker, which was     *)
(* positive, and touches no other.                                         *)
(***************************************************************************)
LEMMA CallLeaves ==
    ASSUME Counted, NEW w \in Workers, NEW t \in Posting(w), Settle(w),
           Posting(w)' = Posting(w) \ {t},
           \A v \in Workers \ {w} : Posting(v)' = Posting(v)
    PROVE  pending' \in [Workers -> Nat] /\ PendingMatchesCalls'
<1>1. Cardinality(Posting(w)') = Cardinality(Posting(w)) - 1
  BY PostingCounted, FS_RemoveElement
<1>2. pending[w] - 1 = Cardinality(Posting(w)') /\ pending[w] - 1 \in Nat
  BY <1>1, PostingCounted DEF Counted, PendingMatchesCalls
<1>3. QED
  BY <1>2 DEF Counted, TypeOK, PendingMatchesCalls, Settle

(***************************************************************************)
(* A ranking is a sequence of nodes.                                       *)
(***************************************************************************)
LEMMA RankingsAreSequences ==
    ASSUME TypeOK, NEW A, NEW order \in Rankings(A)
    PROVE  order \in Seq(Nodes)
<1>1. IsFiniteSet(Eligible) /\ Eligible \subseteq Nodes
  <2>1. IsFiniteSet(reachable)
    BY SchedulerAssumption, FS_Subset DEF TypeOK
  <2>2. QED
    BY <2>1, FS_AddElement DEF Eligible, Nodes, TypeOK
<1>2. Cardinality(Eligible) \in Nat
  BY <1>1, FS_CardinalityType
<1>3. order \in [1..Cardinality(Eligible) -> Nodes]
  BY <1>1 DEF Rankings
<1>4. QED
  BY <1>2, <1>3
(***************************************************************************)
(* Faults and abandoned calls are only ever added.  A call is abandoned by  *)
(* CallFails alone, while its worker goes on.                              *)
(***************************************************************************)
LEMMA HistoryGrows ==
    ASSUME TypeOK, [Next]_vars
    PROVE  /\ faults \in Nat /\ faults' \in {faults, faults + 1}
           /\ abandoned' \in [Tasks -> Nat]
           /\ \A t \in Tasks : abandoned[t] <= abandoned'[t]
<1> USE DEF Fault, HangUp, PassOver, cluster
<1>1. faults \in Nat /\ abandoned \in [Tasks -> Nat]
  BY SchedulerAssumption DEF TypeOK
<1>2. ASSUME NEW t \in Tasks, Thread(t)
      PROVE  /\ faults' \in {faults, faults + 1}
             /\ abandoned' = [abandoned EXCEPT ![t] = @ + 1] \/ UNCHANGED abandoned
  BY <1>2 DEF Thread, Begin, StartProbing, Probed, Rank, RunLocally, LocalBusy, LocalEnds,
              Degrade, GiveUp, Wait, WakeUp, Probe, Dispatch, AnswerEnds,
              AnswerFallsThrough, CallFails
<1>3. ASSUME NEW w \in Workers, Worker(w) \/ Crash(w) \/ Restart(w)
      PROVE  faults' \in {faults, faults + 1} /\ UNCHANGED abandoned
  BY <1>3 DEF Worker, Complete, Admit, AnswerBusy, Crash, Restart
<1>4. ASSUME NEW t \in Tasks, Deadline(t) PROVE UNCHANGED <<faults, abandoned>>
  BY <1>4 DEF Deadline
<1>5. UNCHANGED vars => UNCHANGED <<faults, abandoned>>
  BY DEF vars
<1>6. QED
  BY <1>1, <1>2, <1>3, <1>4, <1>5 DEF Next
----------------------------------------------------------------------------
LEMMA CountedInit == Init => Counted
<1> SUFFICES ASSUME Init PROVE Counted
  OBVIOUS
<1>1. TypeOK
  <2>1. <<>> \in Seq(Nodes)
    OBVIOUS
  <2>2. todo \in [Tasks -> Seq(Nodes)]
    BY <2>1 DEF Init
  <2>3. pc \in [Tasks -> PCs]
    BY DEF Init, PCs
  <2>4. unprobed \in [Tasks -> SUBSET Workers] /\ running \in [Workers -> Tasks \cup {Free}]
    BY DEF Init
  <2>5. mail \in [Tasks -> {"none", "sent", "admitted", "ok", "busy", "rejected",
                           "http"}]
    BY DEF Init
  <2>6. /\ pending \in [Workers -> Nat]
        /\ faults \in 0..MaxFaults
        /\ abandoned \in [Tasks -> Nat]
    BY SchedulerAssumption DEF Init
  <2>7. /\ late \subseteq Tasks /\ probed \in BOOLEAN
        /\ reachable \subseteq Workers /\ idle \subseteq reachable
        /\ up \subseteq Workers
    BY DEF Init
  <2>8. \A t \in Tasks : pc[t] # "posting"
    BY DEF Init
  <2>9. QED
    BY <2>2, <2>3, <2>4, <2>5, <2>6, <2>7, <2>8 DEF TypeOK
<1>2. \A w \in Workers : Posting(w) = {}
  BY DEF Init, Posting
<1>3. QED
  BY <1>1, <1>2, FS_EmptySet DEF Init, Counted, PendingMatchesCalls

LEMMA CountedStep == Counted /\ [Next]_vars => Counted'
<1> SUFFICES ASSUME Counted, [Next]_vars PROVE Counted'
  OBVIOUS
<1> USE SchedulerAssumption
    DEF Fault, Move, HangUp, PassOver, MarkBusy, MarkUnreachable, gateway,
        cluster, PCs, Ended
<1>0. TypeOK /\ PendingMatchesCalls
  BY DEF Counted
<1>c. abandoned' \in [Tasks -> Nat]
  BY <1>0, HistoryGrows
<1>a. ASSUME TypeOK', UNCHANGED pending,
             \A w \in Workers : Posting(w)' = Posting(w)
      PROVE  Counted'
  BY <1>0, <1>a DEF Counted, PendingMatchesCalls
<1>b. ASSUME NEW t \in Tasks, pc[t] # "posting", pc'[t] # "posting",
             \A u \in Tasks \ {t} : pc'[u] = pc[u] /\ todo'[u] = todo[u],
             NEW w \in Workers
      PROVE  Posting(w)' = Posting(w)
  BY <1>b DEF Posting, Target
<1>1. ASSUME NEW t \in Tasks,
             \/ Begin(t) \/ Probed(t) \/ Rank(t) \/ RunLocally(t)
             \/ LocalBusy(t) \/ LocalEnds(t) \/ Degrade(t) \/ GiveUp(t)
             \/ Wait(t) \/ WakeUp(t)
      PROVE  Counted'
  <2>1. /\ UNCHANGED <<pending, reachable, idle, mail, up, running, late>>
        /\ pc[t] # "posting" /\ pc'[t] # "posting"
        /\ \A u \in Tasks \ {t} : pc'[u] = pc[u] /\ todo'[u] = todo[u]
    BY <1>0, <1>1
       DEF Begin, StartProbing, Probed, Rank, RunLocally, LocalBusy, LocalEnds,
           Degrade, GiveUp, Wait, WakeUp, NextCandidate, DropCandidates,
           Trying, TypeOK
  <2>2. PICK to \in PCs : pc' = [pc EXCEPT ![t] = to] \/ UNCHANGED pc
    BY <1>1
       DEF Begin, StartProbing, Probed, Rank, RunLocally, LocalBusy, LocalEnds,
           Degrade, GiveUp, Wait, WakeUp
  <2>3. pc' \in [Tasks -> PCs]
    BY <1>0, <2>2 DEF TypeOK
  <2>7. /\ UNCHANGED unprobed \/ unprobed' = [unprobed EXCEPT ![t] = Workers]
        /\ UNCHANGED probed \/ probed' = TRUE
        /\ UNCHANGED faults \/ (faults < MaxFaults /\ faults' = faults + 1)
    BY <1>1
       DEF Begin, StartProbing, Probed, Rank, RunLocally, LocalBusy, LocalEnds,
           Degrade, GiveUp, Wait, WakeUp
  <2>8. /\ unprobed' \in [Tasks -> SUBSET Workers]
        /\ probed' \in BOOLEAN
        /\ faults' \in 0..MaxFaults
    <3>1. /\ unprobed \in [Tasks -> SUBSET Workers]
          /\ probed \in BOOLEAN
          /\ faults \in 0..MaxFaults
      BY <1>0 DEF TypeOK
    <3>2. unprobed' \in [Tasks -> SUBSET Workers]
      BY <2>7, <3>1
    <3>3. probed' \in BOOLEAN
      BY <2>7, <3>1
    <3>4. faults' \in 0..MaxFaults
      BY <2>7, <3>1
    <3>5. QED
      BY <3>2, <3>3, <3>4
  <2>4. todo' \in [Tasks -> Seq(Nodes)]
    <3>1. CASE Rank(t)
      <4>1. PICK A : \E order \in Rankings(A) : todo' = [todo EXCEPT ![t] = order]
        BY <3>1 DEF Rank
      <4>2. QED
        BY <1>0, <4>1, RankingsAreSequences DEF TypeOK
    <3>2. CASE LocalBusy(t)
      BY <1>0, <3>2 DEF LocalBusy, NextCandidate, Trying, TypeOK
    <3>3. CASE RunLocally(t)
      BY <1>0, <3>3 DEF RunLocally, DropCandidates, TypeOK
    <3>4. CASE UNCHANGED todo
      BY <1>0, <3>4 DEF TypeOK
    <3>5. QED
      BY <1>1, <3>1, <3>2, <3>3, <3>4
         DEF Begin, Probed, LocalEnds, Degrade, GiveUp, Wait, WakeUp
  <2>5. TypeOK'
    BY <1>0, <1>c, <2>1, <2>3, <2>4, <2>8 DEF TypeOK
  <2>6. QED
    BY <1>a, <1>b, <2>1, <2>5
<1>2. ASSUME NEW t \in Tasks, NEW w \in Workers, Probe(t, w)
      PROVE  Counted'
  <2>1. TypeOK'
    BY <1>0, <1>c, <1>2 DEF Probe, TypeOK
  <2>2. QED
    BY <1>2, <1>a, <2>1 DEF Probe, Posting, Target
<1>3. ASSUME NEW t \in Tasks, NEW w \in Workers, Dispatch(t, w)
      PROVE  Counted'
  <2>1. Posting(w)' = Posting(w) \cup {t} /\ t \notin Posting(w)
    BY <1>0, <1>3 DEF Dispatch, Trying, Posting, Target, TypeOK
  <2>2. \A v \in Workers \ {w} : Posting(v)' = Posting(v)
    BY <1>0, <1>3 DEF Dispatch, Trying, Posting, Target, TypeOK
  <2>3. Cardinality(Posting(w)') = Cardinality(Posting(w)) + 1
    BY <2>1, PostingCounted, FS_AddElement
  <2>4. PendingMatchesCalls'
    BY <1>0, <1>3, <2>2, <2>3 DEF PendingMatchesCalls, Dispatch, TypeOK
  <2>5. TypeOK'
    BY <1>0, <1>c, <1>3 DEF Dispatch, Trying, TypeOK
  <2>6. QED
    BY <2>4, <2>5 DEF Counted
<1>4. ASSUME NEW t \in Tasks, NEW w \in Workers,
             AnswerEnds(t, w) \/ AnswerFallsThrough(t, w) \/ CallFails(t, w)
      PROVE  Counted'
  <2>1. t \in Posting(w) /\ Settle(w)
    BY <1>4 DEF AnswerEnds, AnswerFallsThrough, CallFails
  <2>0. /\ pc[t] = "posting" /\ Target(t) = w /\ pc'[t] # "posting"
        /\ \A x \in Tasks \ {t} : pc'[x] = pc[x] /\ todo'[x] = todo[x]
    BY <1>0, <1>4
       DEF AnswerEnds, AnswerFallsThrough, CallFails, NextCandidate,
           DropCandidates, Posting, TypeOK
  <2>2. Posting(w)' = Posting(w) \ {t}
    BY <2>0 DEF Posting, Target
  <2>3. \A v \in Workers \ {w} : Posting(v)' = Posting(v)
    BY <2>0 DEF Posting, Target
  <2>4. pending' \in [Workers -> Nat] /\ PendingMatchesCalls'
    BY <2>1, <2>2, <2>3, CallLeaves
  <2>5. todo[t] # <<>> /\ Tail(todo[t]) \in Seq(Nodes)
    BY <1>0, <2>1 DEF Posting, TypeOK
  <2>6. PICK rest \in Seq(Nodes) : todo' = [todo EXCEPT ![t] = rest]
    <3>1. <<>> \in Seq(Nodes)
      OBVIOUS
    <3>2. QED
      BY <1>4, <2>5, <3>1
         DEF AnswerEnds, AnswerFallsThrough, CallFails, NextCandidate,
             DropCandidates
  <2>9. PICK to \in PCs \ {"posting"} : pc' = [pc EXCEPT ![t] = to]
    BY <1>4 DEF AnswerEnds, AnswerFallsThrough, CallFails
  <2>10. /\ mail' = [mail EXCEPT ![t] = "none"]
         /\ UNCHANGED reachable \/ reachable' = reachable \ {w}
         /\ UNCHANGED <<unprobed, late, probed, up, running>>
    BY <1>4 DEF AnswerEnds, AnswerFallsThrough, CallFails
  <2>11. idle' \subseteq reachable'
    BY <1>0, <1>4 DEF AnswerEnds, AnswerFallsThrough, CallFails, TypeOK
  <2>12. faults' \in 0..MaxFaults
    BY <1>0, <1>4 DEF AnswerEnds, AnswerFallsThrough, CallFails, TypeOK
  <2>13. todo' \in [Tasks -> Seq(Nodes)] /\ pc' \in [Tasks -> PCs]
    BY <1>0, <2>6, <2>9 DEF TypeOK
  <2>14. \A u \in Tasks : pc'[u] = "posting" =>
            todo'[u] # <<>> /\ Head(todo'[u]) \in Workers
    BY <1>0, <2>6, <2>9 DEF TypeOK
  <2>7. TypeOK'
    BY <1>0, <1>c, <2>4, <2>10, <2>11, <2>12, <2>13, <2>14 DEF TypeOK
  <2>8. QED
    BY <2>4, <2>7 DEF Counted
<1>5. ASSUME NEW t \in Tasks, NEW w \in Workers,
             Admit(t, w) \/ AnswerBusy(t, w)
      PROVE  Counted'
  <2>1. TypeOK'
    <3>1. CASE Admit(t, w)
      BY <1>0, <1>c, <3>1 DEF Admit, TypeOK
    <3>2. CASE AnswerBusy(t, w)
      BY <1>0, <1>c, <3>2 DEF AnswerBusy, TypeOK
    <3>3. QED
      BY <1>5, <3>1, <3>2
  <2>2. QED
    BY <1>5, <1>a, <2>1 DEF Admit, AnswerBusy, Posting, Target
<1>6. ASSUME NEW w \in Workers, Complete(w) PROVE Counted'
  <2>1. PICK answer \in {"ok", "rejected", "http"} :
           mail' = IF running[w] \in Posting(w) /\ mail[running[w]] = "admitted"
                   THEN [mail EXCEPT ![running[w]] = answer] ELSE mail
    BY <1>6 DEF Complete, Answers
  <2>2. faults' \in 0..MaxFaults
    BY <1>0, <1>6 DEF Complete, TypeOK
  <2>5. mail' \in [Tasks -> {"none", "sent", "admitted", "ok", "busy", "rejected",
                            "http"}]
    BY <1>0, <2>1 DEF TypeOK
  <2>6. /\ UNCHANGED <<gateway, up>>
        /\ running' = [running EXCEPT ![w] = Free]
    BY <1>6 DEF Complete
  <2>7. running' \in [Workers -> Tasks \cup {Free}]
    BY <1>0, <2>6 DEF TypeOK
  <2>8. /\ UNCHANGED <<pc, todo, unprobed, late, probed, reachable, idle, pending, up>>
        /\ \A t \in Tasks : pc'[t] = "posting" => todo'[t] # <<>> /\ Head(todo'[t]) \in Workers
    BY <1>0, <2>6 DEF TypeOK
  <2>3. TypeOK'
    BY <1>0, <1>c, <2>2, <2>5, <2>7, <2>8 DEF TypeOK
  <2>4. QED
    BY <1>6, <1>a, <2>3 DEF Complete, Posting, Target
<1>7. ASSUME NEW w \in Workers, Crash(w) \/ Restart(w) PROVE Counted'
  <2>3. /\ UNCHANGED <<gateway, mail>> /\ up' \subseteq Workers
        /\ running' \in [Workers -> Tasks \cup {Free}]
    BY <1>0, <1>7 DEF Crash, Restart, TypeOK
  <2>4. faults' \in 0..MaxFaults
    BY <1>0, <1>7 DEF Crash, Restart, TypeOK
  <2>1. TypeOK'
    BY <1>0, <1>c, <2>3, <2>4 DEF TypeOK
  <2>2. QED
    BY <1>7, <1>a, <2>1 DEF Crash, Restart, Posting, Target
<1>8. ASSUME NEW t \in Tasks, Deadline(t) PROVE Counted'
  <2>1. TypeOK'
    BY <1>0, <1>c, <1>8 DEF Deadline, TypeOK
  <2>2. QED
    BY <1>8, <1>a, <2>1 DEF Deadline, Posting, Target
<1>9. CASE UNCHANGED vars
  <2>1. TypeOK'
    BY <1>0, <1>c, <1>9 DEF vars, TypeOK
  <2>2. QED
    BY <1>9, <1>a, <2>1 DEF vars, Posting, Target
<1>10. QED
  BY <1>1, <1>2, <1>3, <1>4, <1>5, <1>6, <1>7, <1>8, <1>9
     DEF Next, Thread, Worker
----------------------------------------------------------------------------
(***************************************************************************)
(* Type correctness: in particular node.pending never goes below zero.     *)
(***************************************************************************)
THEOREM TypeCorrect == Spec => []TypeOK
<1>1. Counted => TypeOK
  BY DEF Counted
<1>2. QED
  BY <1>1, CountedInit, CountedStep, PTL DEF Spec

(***************************************************************************)
(* node.pending is the number of calls out to the node, through answers,   *)
(* failures, timeouts and crashes.                                         *)
(***************************************************************************)
THEOREM PendingCorrect == Spec => []PendingMatchesCalls
<1>1. Counted => PendingMatchesCalls
  BY DEF Counted
<1>2. QED
  BY <1>1, CountedInit, CountedStep, PTL DEF Spec
----------------------------------------------------------------------------
(* Duplicates.  A worker that computes a stage for nobody is one whose call *)
(* failed while it went on, and every such failure is counted in abandoned. *)

\* The worker the task waits for.
Current(t) == {w \in Workers : t \in Posting(w) /\ mail[t] = "admitted"}

Strays(t) == {w \in Workers : running[w] = t} \ Current(t)

StraysBlamed == \A t \in Tasks : Cardinality(Strays(t)) <= abandoned[t]

\* A call that times out makes a stray of the worker that goes on, no other
\* step makes any.
LEMMA StraysFrom ==
    ASSUME TypeOK, [Next]_vars, NEW u \in Tasks, NEW v \in Strays(u)', v \notin Strays(u)
    PROVE  CallFails(u, v) /\ abandoned'[u] = abandoned[u] + 1
<1> USE DEF Move, HangUp, PassOver, gateway, cluster
<1>0. /\ v \in Workers /\ running'[v] = u
      /\ ~ (pc'[u] = "posting" /\ Head(todo'[u]) = v /\ mail'[u] = "admitted")
  BY DEF Strays, Current, Posting, Target
<1>a. running[v] = u => pc[u] = "posting" /\ Head(todo[u]) = v /\ mail[u] = "admitted"
  BY <1>0 DEF Strays, Current, Posting, Target
<1>b. u # Free /\ running \in [Workers -> Tasks \cup {Free}]
  BY SchedulerAssumption DEF TypeOK
<1>1. ASSUME NEW t \in Tasks,
             \/ Begin(t) \/ Probed(t) \/ Rank(t) \/ RunLocally(t)
             \/ LocalBusy(t) \/ LocalEnds(t) \/ Degrade(t) \/ GiveUp(t)
             \/ Wait(t) \/ WakeUp(t)
      PROVE  FALSE
  <2>1. /\ UNCHANGED <<mail, running>> /\ pc[t] # "posting"
        /\ \A x \in Tasks \ {t} : pc'[x] = pc[x] /\ todo'[x] = todo[x]
    BY <1>1
       DEF Begin, StartProbing, Probed, Rank, RunLocally, LocalBusy, LocalEnds,
           Degrade, GiveUp, Wait, WakeUp, NextCandidate, DropCandidates,
           Trying, TypeOK
  <2>2. running[v] = u
    BY <1>0, <2>1
  <2>3. u # t
    BY <1>a, <2>1, <2>2
  <2>4. QED
    BY <1>0, <1>a, <2>1, <2>2, <2>3
<1>2. ASSUME NEW t \in Tasks, NEW w \in Workers,
             Probe(t, w) \/ Crash(w) \/ Restart(w) \/ Deadline(t) \/ UNCHANGED vars
      PROVE  FALSE
  <2>1. UNCHANGED <<pc, todo, mail>> /\ (running'[v] = u => running[v] = u)
    BY <1>0, <1>2, <1>b DEF Probe, Crash, Restart, Deadline, vars
  <2>2. QED
    BY <1>0, <1>a, <2>1
<1>3. ASSUME NEW t \in Tasks, NEW w \in Workers, Dispatch(t, w)
      PROVE  FALSE
  <2>1. /\ UNCHANGED running /\ pc[t] = "trying"
        /\ \A x \in Tasks \ {t} : pc'[x] = pc[x] /\ todo'[x] = todo[x] /\ mail'[x] = mail[x]
    BY <1>3 DEF Dispatch, Trying, TypeOK
  <2>2. u # t
    BY <1>0, <1>a, <2>1
  <2>3. QED
    BY <1>0, <1>a, <2>1, <2>2
<1>4. ASSUME NEW t \in Tasks, NEW w \in Workers, Admit(t, w) \/ AnswerBusy(t, w)
      PROVE  FALSE
  <2>1. /\ UNCHANGED <<pc, todo>> /\ mail[t] = "sent"
        /\ \A x \in Tasks \ {t} : mail'[x] = mail[x]
        /\ pc[t] = "posting" /\ Head(todo[t]) = w
    BY <1>4 DEF Admit, AnswerBusy, Posting, Target, TypeOK
  <2>2. CASE running[v] = u
    BY <1>0, <1>a, <2>1, <2>2
  <2>3. CASE running[v] # u
    <3>1. Admit(t, w) /\ v = w /\ u = t
      BY <1>0, <1>4, <1>b, <2>3 DEF Admit, AnswerBusy
    <3>2. mail'[t] = "admitted"
      BY <3>1 DEF Admit, TypeOK
    <3>3. QED
      BY <1>0, <2>1, <3>1, <3>2
  <2>4. QED
    BY <2>2, <2>3
<1>5. ASSUME NEW w \in Workers, Complete(w) PROVE FALSE
  <2>1. UNCHANGED <<pc, todo>> /\ running' = [running EXCEPT ![w] = Free]
    BY <1>5 DEF Complete
  <2>2. v # w /\ running[v] = u
    BY <1>0, <1>b, <2>1
  <2>3. mail'[u] = "admitted"
    <3>1. CASE running[w] = u
      <4>1. Head(todo[u]) # w
        BY <1>a, <2>2
      <4>2. running[w] \notin Posting(w)
        BY <3>1, <4>1 DEF Posting, Target
      <4>3. UNCHANGED mail
        BY <1>5, <4>2 DEF Complete
      <4>4. QED
        BY <1>a, <2>2, <4>3
    <3>2. CASE running[w] # u
      <4>1. mail'[u] = mail[u]
        BY <1>5, <3>2 DEF Complete, TypeOK
      <4>2. QED
        BY <1>a, <2>2, <4>1
    <3>3. QED
      BY <3>1, <3>2
  <2>4. QED
    BY <1>0, <1>a, <2>1, <2>2, <2>3
<1>6. ASSUME NEW t \in Tasks, NEW w \in Workers,
             AnswerEnds(t, w) \/ AnswerFallsThrough(t, w) \/ CallFails(t, w)
      PROVE  CallFails(u, v) /\ abandoned'[u] = abandoned[u] + 1
  <2>1. /\ UNCHANGED running /\ t \in Posting(w)
        /\ \A x \in Tasks \ {t} : pc'[x] = pc[x] /\ todo'[x] = todo[x] /\ mail'[x] = mail[x]
    BY <1>6 DEF AnswerEnds, AnswerFallsThrough, CallFails, NextCandidate, DropCandidates, TypeOK
  <2>2. running[v] = u
    BY <1>0, <2>1
  <2>3. u = t
    BY <1>0, <1>a, <2>1, <2>2
  <2>4. w = v /\ mail[t] = "admitted"
    BY <1>a, <2>1, <2>2, <2>3 DEF Posting, Target
  <2>5. CallFails(u, v)
    BY <1>6, <2>3, <2>4 DEF AnswerEnds, AnswerFallsThrough
  <2>6. WorkerGoesOn(u, v)
    BY <2>2, <2>3, <2>4 DEF WorkerGoesOn
  <2>7. QED
    BY <2>5, <2>6 DEF CallFails, TypeOK
<1>7. CASE UNCHANGED vars
  BY <1>0, <1>a, <1>7 DEF vars
<1>8. QED
  BY <1>1, <1>2, <1>3, <1>4, <1>5, <1>6, <1>7, <1>0 DEF Next, Thread, Worker

LEMMA StraysStep ==
    ASSUME TypeOK, StraysBlamed, [Next]_vars
    PROVE  StraysBlamed'
<1> SUFFICES ASSUME NEW u \in Tasks PROVE Cardinality(Strays(u)') <= abandoned'[u]
  BY DEF StraysBlamed
<1>1. /\ Strays(u) \subseteq Workers /\ Strays(u)' \subseteq Workers
      /\ abandoned[u] \in Nat /\ abandoned'[u] \in Nat /\ abandoned[u] <= abandoned'[u]
  BY HistoryGrows DEF Strays, TypeOK
<1>2. /\ IsFiniteSet(Strays(u)) /\ Cardinality(Strays(u)) \in Nat
      /\ IsFiniteSet(Strays(u)') /\ Cardinality(Strays(u)') \in Nat
  BY <1>1, SchedulerAssumption, FS_Subset, FS_CardinalityType
<1>3. Cardinality(Strays(u)) <= abandoned[u]
  BY DEF StraysBlamed
<1>4. CASE Strays(u)' \subseteq Strays(u)
  <2>1. Cardinality(Strays(u)') <= Cardinality(Strays(u))
    BY <1>2, <1>4, FS_Subset
  <2>2. QED
    BY <1>1, <1>2, <1>3, <2>1
<1>5. CASE ~ (Strays(u)' \subseteq Strays(u))
  <2>1. PICK v \in Strays(u)' : v \notin Strays(u)
    BY <1>5
  <2>2. CallFails(u, v) /\ abandoned'[u] = abandoned[u] + 1
    BY <2>1, StraysFrom
  <2>3. v = Target(u)
    BY <2>2 DEF CallFails, Posting
  <2>4. Strays(u)' \subseteq Strays(u) \cup {v}
    <3>1. ASSUME NEW x \in Strays(u)', x \notin Strays(u) PROVE x = v
      <4>1. CallFails(u, x)
        BY <3>1, StraysFrom
      <4>2. QED
        BY <2>3, <4>1 DEF CallFails, Posting
    <3>2. QED
      BY <3>1
  <2>5. /\ IsFiniteSet(Strays(u) \cup {v})
        /\ Cardinality(Strays(u) \cup {v}) = Cardinality(Strays(u)) + 1
    BY <1>2, <2>1, FS_AddElement
  <2>6. Cardinality(Strays(u)') <= Cardinality(Strays(u) \cup {v})
    BY <2>4, <2>5, FS_Subset
  <2>7. QED
    BY <1>1, <1>2, <1>3, <2>2, <2>5, <2>6
<1>6. QED
  BY <1>4, <1>5

LEMMA StraysCorrect == Spec => [](Counted /\ StraysBlamed)
<1>1. Init => StraysBlamed
  <2> SUFFICES ASSUME Init, NEW t \in Tasks PROVE Cardinality(Strays(t)) <= abandoned[t]
    BY DEF StraysBlamed
  <2>1. Strays(t) = {}
    BY SchedulerAssumption DEF Init, Strays
  <2>2. QED
    BY <2>1, FS_EmptySet DEF Init
<1>2. Counted /\ StraysBlamed /\ [Next]_vars => StraysBlamed'
  BY StraysStep DEF Counted
<1>3. QED
  BY <1>1, <1>2, CountedInit, CountedStep, PTL DEF Spec

(***************************************************************************)
(* NoNeedlessDuplicate: a stage is computed in one place, and in one more  *)
(* at most for each of its own calls that failed while the worker went on. *)
(***************************************************************************)
THEOREM NoDuplicateCorrect == Spec => []NoNeedlessDuplicate
<1>1. Counted /\ StraysBlamed => NoNeedlessDuplicate
  <2> SUFFICES ASSUME TypeOK, StraysBlamed, NEW t \in Tasks
               PROVE  Cardinality(Executions(t)) <= 1 + abandoned[t]
    BY DEF Counted, NoNeedlessDuplicate
  <2>1. /\ IsFiniteSet(Strays(t)) /\ Cardinality(Strays(t)) \in Nat
        /\ Cardinality(Strays(t)) <= abandoned[t] /\ abandoned[t] \in Nat
    <3>1. Strays(t) \subseteq Workers
      BY DEF Strays
    <3>2. abandoned[t] \in Nat
      BY DEF TypeOK
    <3>3. QED
      BY <3>1, <3>2, SchedulerAssumption, FS_Subset, FS_CardinalityType DEF StraysBlamed
  <2>2. PICK n : Executions(t) \subseteq Strays(t) \cup {n}
    <3>1. CASE pc[t] \in {"local", "degraded"}
      <4>1. Current(t) = {}
        BY <3>1 DEF Current, Posting
      <4>2. Executions(t) \subseteq Strays(t) \cup {Local}
        BY <4>1 DEF Executions, Strays
      <4>3. QED
        BY <4>2
    <3>2. CASE pc[t] \notin {"local", "degraded"}
      <4>1. Current(t) \subseteq {Target(t)}
        BY DEF Current, Posting
      <4>2. Executions(t) \subseteq Strays(t) \cup {Target(t)}
        BY <3>2, <4>1 DEF Executions, Strays
      <4>3. QED
        BY <4>2
    <3>3. QED
      BY <3>1, <3>2
  <2>3. /\ IsFiniteSet(Strays(t) \cup {n})
        /\ Cardinality(Strays(t) \cup {n})
           = IF n \in Strays(t) THEN Cardinality(Strays(t)) ELSE Cardinality(Strays(t)) + 1
    BY <2>1, FS_AddElement
  <2>4. /\ Cardinality(Executions(t)) <= Cardinality(Strays(t) \cup {n})
        /\ Cardinality(Executions(t)) \in Nat
    BY <2>2, <2>3, FS_Subset, FS_CardinalityType
  <2>5. Cardinality(Strays(t) \cup {n}) <= 1 + abandoned[t]
    BY <2>1, <2>3
  <2>6. Cardinality(Strays(t) \cup {n}) \in Nat
    BY <2>3, FS_CardinalityType
  <2>7. QED
    BY <2>1, <2>4, <2>5, <2>6
<1>2. QED
  BY <1>1, StraysCorrect, PTL
----------------------------------------------------------------------------
(* Degrading. *)

\* Before the first fault, whatever the gateway has asked it has found
\* alive, and what a worker was admitted to it computes.
Quiet ==
    /\ up = Workers
    /\ probed => reachable = Workers
    /\ \A t \in Tasks :
          /\ pc[t] = "probing" => Workers \ unprobed[t] \subseteq reachable
          /\ pc[t] \notin {"new", "probing"} => reachable = Workers
          /\ pc[t] = "posting" /\ mail[t] = "admitted" => running[Target(t)] = t
          /\ Workers # {} => pc[t] # "degraded"

LEMMA QuietStep ==
    ASSUME TypeOK, faults = 0 => Quiet, [Next]_vars, faults' = 0
    PROVE  Quiet'
<1> USE DEF Move, HangUp, PassOver, gateway, cluster
<1>0. faults = 0 /\ Quiet /\ ~ Fault
  <2>1. faults \in Nat /\ faults' \in {faults, faults + 1}
    BY HistoryGrows
  <2>2. QED
    BY <2>1 DEF Fault
<1>a. reachable \subseteq Workers
  BY DEF TypeOK
<1>1. ASSUME NEW t \in Tasks,
             \/ Begin(t) \/ Probed(t) \/ Rank(t) \/ RunLocally(t)
             \/ LocalBusy(t) \/ LocalEnds(t) \/ Degrade(t) \/ GiveUp(t)
             \/ Wait(t) \/ WakeUp(t)
      PROVE  Quiet'
  <2>1. /\ UNCHANGED <<reachable, mail, up, running>>
        /\ pc'[t] # "posting"
        /\ \A x \in Tasks \ {t} : /\ pc'[x] = pc[x] /\ todo'[x] = todo[x]
                                  /\ unprobed'[x] = unprobed[x]
    BY <1>1
       DEF Begin, StartProbing, Probed, Rank, RunLocally, LocalBusy, LocalEnds,
           Degrade, GiveUp, Wait, WakeUp, NextCandidate, DropCandidates,
           Trying, TypeOK
  <2>2. /\ probed' => reachable = Workers
        /\ pc'[t] \notin {"new", "probing"} => reachable = Workers
        /\ pc'[t] = "probing" => unprobed'[t] = Workers
    <3>1. CASE Begin(t)
      BY <1>0, <3>1 DEF Quiet, Begin, StartProbing, TypeOK
    <3>2. CASE Probed(t)
      <4>1. reachable = Workers
        BY <1>0, <1>a, <3>2 DEF Quiet, Probed
      <4>2. pc'[t] = "ranking"
        BY <3>2 DEF Probed, TypeOK
      <4>3. QED
        BY <4>1, <4>2
    <3>3. CASE WakeUp(t)
      BY <1>0, <3>3 DEF Quiet, WakeUp, StartProbing, TypeOK
    <3>4. CASE \/ Rank(t) \/ RunLocally(t) \/ LocalBusy(t) \/ LocalEnds(t)
               \/ Degrade(t) \/ GiveUp(t) \/ Wait(t)
      <4>1. pc[t] \notin {"new", "probing"} /\ pc'[t] # "probing"
        BY <3>4 DEF Rank, RunLocally, LocalBusy, LocalEnds, Degrade, GiveUp, Wait, Trying, TypeOK
      <4>2. reachable = Workers
        BY <1>0, <4>1 DEF Quiet
      <4>3. QED
        BY <4>1, <4>2
    <3>5. QED
      BY <1>1, <3>1, <3>2, <3>3, <3>4
  <2>3. Workers # {} => pc'[t] # "degraded"
    <3>1. CASE Degrade(t)
      BY <1>0, <3>1 DEF Quiet, Degrade
    <3>2. CASE ~ Degrade(t)
      BY <1>0, <1>1, <3>2
      DEF Quiet, Begin, StartProbing, Probed, Rank, RunLocally, LocalBusy, LocalEnds,
           GiveUp, Wait, WakeUp, Trying, TypeOK
    <3>3. QED
      BY <3>1, <3>2
  <2>4. QED
    BY <1>0, <2>1, <2>2, <2>3 DEF Quiet, Target
<1>2. ASSUME NEW t \in Tasks, NEW w \in Workers, Probe(t, w)
      PROVE  Quiet'
  <2>1. /\ reachable' = reachable \cup {w}
        /\ unprobed' = [unprobed EXCEPT ![t] = @ \ {w}]
        /\ UNCHANGED <<pc, todo, probed, mail, up, running>>
    BY <1>0, <1>2 DEF Probe, Quiet
  <2>2. unprobed \in [Tasks -> SUBSET Workers]
    BY DEF TypeOK
  <2>3. reachable = Workers => reachable' = Workers
    BY <2>1
  <2>4. \A x \in Tasks : pc[x] = "probing" => Workers \ unprobed'[x] \subseteq reachable'
    BY <1>0, <2>1, <2>2 DEF Quiet
  <2>5. QED
    BY <1>0, <2>1, <2>3, <2>4 DEF Quiet, Target
<1>3. ASSUME NEW t \in Tasks, NEW w \in Workers, Dispatch(t, w)
      PROVE  Quiet'
  <2>1. /\ UNCHANGED <<reachable, up, running, probed, unprobed, todo>> /\ pc[t] = "trying"
        /\ pc'[t] = "posting" /\ mail'[t] = "sent"
        /\ \A x \in Tasks \ {t} : pc'[x] = pc[x] /\ mail'[x] = mail[x]
    BY <1>3 DEF Dispatch, Trying, TypeOK
  <2>2. QED
    BY <1>0, <2>1 DEF Quiet, Target
<1>4. ASSUME NEW t \in Tasks, NEW w \in Workers, Admit(t, w) \/ AnswerBusy(t, w)
      PROVE  Quiet'
  <2>1. /\ UNCHANGED <<pc, todo, unprobed, probed, reachable, up>>
        /\ pc[t] = "posting" /\ Target(t) = w /\ mail[t] = "sent"
        /\ \A x \in Tasks \ {t} : mail'[x] = mail[x]
        /\ \A v \in Workers : running'[v] = running[v] \/ running[v] = Free
        /\ mail'[t] = "admitted" => running'[w] = t
    BY <1>4 DEF Admit, AnswerBusy, Posting, TypeOK
  <2>2. \A x \in Tasks : x # Free
    BY SchedulerAssumption
  <2>3. \A x \in Tasks : pc[x] = "posting" => Target(x) \in Workers
    BY DEF TypeOK, Target
  <2>4. QED
    BY <1>0, <2>1, <2>2, <2>3 DEF Quiet, Target
<1>5. ASSUME NEW w \in Workers, Complete(w) PROVE Quiet'
  <2>1. /\ UNCHANGED <<pc, todo, unprobed, probed, reachable, up>>
        /\ running' = [running EXCEPT ![w] = Free]
    BY <1>5 DEF Complete
  <2>2. PICK answer \in {"ok", "rejected", "http"} :
           mail' = IF running[w] \in Posting(w) /\ mail[running[w]] = "admitted"
                   THEN [mail EXCEPT ![running[w]] = answer] ELSE mail
    BY <1>5 DEF Complete, Answers
  <2>3. ASSUME NEW x \in Tasks, pc[x] = "posting", mail'[x] = "admitted"
        PROVE  running'[Target(x)] = x
    <3>1. mail[x] = "admitted"
      BY <2>2, <2>3 DEF TypeOK
    <3>2. running[Target(x)] = x /\ Target(x) \in Workers
      BY <1>0, <2>3, <3>1 DEF Quiet, TypeOK, Target
    <3>3. Target(x) # w
      <4> SUFFICES ASSUME Target(x) = w PROVE FALSE
        OBVIOUS
      <4>1. running[w] = x /\ x \in Posting(w)
        BY <2>3, <3>2 DEF Posting
      <4>2. mail'[x] = answer
        BY <2>2, <3>1, <4>1 DEF TypeOK
      <4>3. QED
        BY <2>3, <4>2
    <3>4. QED
      BY <2>1, <3>2, <3>3 DEF TypeOK
  <2>4. QED
    BY <1>0, <2>1, <2>3 DEF Quiet, Target
<1>6. ASSUME NEW t \in Tasks, NEW w \in Workers,
             AnswerEnds(t, w) \/ AnswerFallsThrough(t, w) \/ CallFails(t, w)
      PROVE  Quiet'
  <2>1. t \in Posting(w)
    BY <1>6 DEF AnswerEnds, AnswerFallsThrough, CallFails
  <2>2. ~ CallFails(t, w)
    <3>1. mail[t] = "admitted" => running[w] = t
      BY <1>0, <2>1 DEF Quiet, Posting
    <3>2. ~ ConnectionLost(t, w)
      BY <1>0, <3>1 DEF Quiet, ConnectionLost
    <3>3. QED
      BY <1>0, <3>2 DEF CallFails
  <2>3. /\ UNCHANGED <<reachable, up, running, probed, unprobed>>
        /\ pc[t] = "posting" /\ pc'[t] \in {"result", "raised", "rejected", "trying"}
        /\ \A x \in Tasks \ {t} : pc'[x] = pc[x] /\ mail'[x] = mail[x] /\ todo'[x] = todo[x]
    BY <1>6, <2>1, <2>2
       DEF AnswerEnds, AnswerFallsThrough, MarkBusy, Posting, NextCandidate,
           DropCandidates, TypeOK
  <2>4. QED
    BY <1>0, <2>3 DEF Quiet, Target
<1>7. ASSUME NEW w \in Workers, Crash(w) \/ Restart(w) PROVE Quiet'
  BY <1>0, <1>7 DEF Crash, Restart, Quiet
<1>8. ASSUME NEW t \in Tasks, Deadline(t) PROVE Quiet'
  BY <1>0, <1>8 DEF Deadline, Quiet, Target
<1>9. CASE UNCHANGED vars
  BY <1>0, <1>9 DEF vars, Quiet, Target
<1>10. QED
  BY <1>1, <1>2, <1>3, <1>4, <1>5, <1>6, <1>7, <1>8, <1>9
     DEF Next, Thread, Worker

(***************************************************************************)
(* BusyIsNotDead: without a fault no task runs beside the gateway's guard, *)
(* however many tasks start, wait and wake up at once.                     *)
(***************************************************************************)
THEOREM BusyIsNotDeadCorrect == Spec => []BusyIsNotDead
<1>1. Init => Quiet
  BY DEF Init, Quiet
<1>2. Counted /\ (faults = 0 => Quiet) /\ [Next]_vars => (faults = 0 => Quiet)'
  BY QuietStep DEF Counted
<1>3. (faults = 0 => Quiet) => BusyIsNotDead
  BY DEF Quiet, BusyIsNotDead
<1>4. QED
  BY <1>1, <1>2, <1>3, CountedInit, CountedStep, PTL DEF Spec
=============================================================================
