------------------------ MODULE CapacityGuardProofs ------------------------
(***************************************************************************)
(* Proofs about CapacityGuard, for any threads, slots, budget and bound.   *)
(***************************************************************************)
EXTENDS CapacityGuard, FiniteSetTheorems, TLAPS

Places == {"idle", "sampled", "inside", "trimming"}

(***************************************************************************)
(* The threads at a place can be counted.                                  *)
(***************************************************************************)
LEMMA AtCounted ==
    \A place : IsFiniteSet(At(place)) /\ Cardinality(At(place)) \in Nat
<1>1. SUFFICES ASSUME NEW place
               PROVE  IsFiniteSet(At(place)) /\ Cardinality(At(place)) \in Nat
  OBVIOUS
<1>2. IsFiniteSet(At(place))
  BY GuardAssumption, FS_Subset DEF At
<1>3. QED
  BY <1>2, FS_CardinalityType

(***************************************************************************)
(* The same for the primed state.                                          *)
(***************************************************************************)
LEMMA AtCountedNext ==
    \A place : IsFiniteSet(At(place)') /\ Cardinality(At(place)') \in Nat
<1>1. SUFFICES ASSUME NEW place
               PROVE  IsFiniteSet(At(place)') /\ Cardinality(At(place)') \in Nat
  OBVIOUS
<1>2. IsFiniteSet(At(place)')
  BY GuardAssumption, FS_Subset DEF At
<1>3. QED
  BY <1>2, FS_CardinalityType
----------------------------------------------------------------------------
(***************************************************************************)
(* Type correctness, including that only threads inside a stage or still   *)
(* trimming retain memory.                                                 *)
(***************************************************************************)
THEOREM TypeCorrect == Spec => []TypeOK
<1> USE GuardAssumption DEF TypeOK
<1>1. Init => TypeOK
  BY DEF Init, At
<1>2. TypeOK /\ [Next]_vars => TypeOK'
  <2> SUFFICES ASSUME TypeOK, [Next]_vars PROVE TypeOK'
    OBVIOUS
  <2>0. Headroom \in Int
    <3>1. IsFiniteSet(retaining)
      BY FS_Subset DEF At
    <3>2. Cardinality(retaining) \in Nat
      BY <3>1, FS_CardinalityType
    <3>3. QED
      BY <3>2 DEF Headroom, Used
  <2>1. ASSUME NEW t \in Threads, Sample(t) PROVE TypeOK'
    BY <2>0, <2>1 DEF Sample, At
  <2>2. ASSUME NEW t \in Threads, Admit(t) PROVE TypeOK'
    BY <2>2 DEF Admit, Admissible, At
  <2>3. ASSUME NEW t \in Threads, Refuse(t) PROVE TypeOK'
    BY <2>3 DEF Refuse, At
  <2>4. ASSUME NEW t \in Threads, Grow(t) PROVE TypeOK'
    BY <2>4 DEF Grow, At
  <2>5. ASSUME NEW t \in Threads, Release(t) PROVE TypeOK'
    BY <2>5 DEF Release, At
  <2>6. ASSUME NEW t \in Threads, Trim(t) PROVE TypeOK'
    BY <2>6 DEF Trim, At
  <2>7. CASE UNCHANGED vars
    BY <2>7 DEF vars, At
  <2>8. QED
    BY <2>1, <2>2, <2>3, <2>4, <2>5, <2>6, <2>7 DEF Next
<1>3. QED
  BY <1>1, <1>2, PTL DEF Spec

(***************************************************************************)
(* The counter of release() and try_acquire() is the number of threads     *)
(* inside a stage, so at most Slots stages run at once, with any number of *)
(* threads calling.                                                        *)
(***************************************************************************)
THEOREM SlotsCorrect == Spec => []SlotsMatchHolders
<1>1. Init => SlotsMatchHolders
  <2>1. ASSUME Init PROVE At("inside") = {}
    BY <2>1 DEF Init, At
  <2>2. QED
    BY <2>1, FS_EmptySet, GuardAssumption DEF Init, SlotsMatchHolders
<1>2. TypeOK /\ SlotsMatchHolders /\ [Next]_vars => SlotsMatchHolders'
  <2> SUFFICES ASSUME TypeOK, SlotsMatchHolders, [Next]_vars
               PROVE  SlotsMatchHolders'
    OBVIOUS
  <2> USE GuardAssumption DEF SlotsMatchHolders
  <2>0. pc \in [Threads -> Places]
    BY DEF TypeOK, Places
  <2>1. ASSUME NEW t \in Threads, Sample(t) PROVE SlotsMatchHolders'
    <3>1. At("inside")' = At("inside")
      BY <2>0, <2>1 DEF Sample, At
    <3>2. QED
      BY <2>1, <3>1 DEF Sample
  <2>2. ASSUME NEW t \in Threads, Admit(t) PROVE SlotsMatchHolders'
    <3>1. At("inside")' = At("inside") \cup {t} /\ t \notin At("inside")
      BY <2>0, <2>2 DEF Admit, At, Places
    <3>2. Cardinality(At("inside")') = Cardinality(At("inside")) + 1
      BY <3>1, AtCounted, FS_AddElement
    <3>3. QED
      BY <2>2, <3>2 DEF Admit, Admissible, TypeOK
  <2>3. ASSUME NEW t \in Threads, Refuse(t) PROVE SlotsMatchHolders'
    <3>1. At("inside")' = At("inside")
      BY <2>0, <2>3 DEF Refuse, At
    <3>2. QED
      BY <2>3, <3>1 DEF Refuse
  <2>4. ASSUME NEW t \in Threads, Grow(t) PROVE SlotsMatchHolders'
    BY <2>4 DEF Grow, At
  <2>5. ASSUME NEW t \in Threads, Release(t) PROVE SlotsMatchHolders'
    <3>1. At("inside")' = At("inside") \ {t} /\ t \in At("inside")
      BY <2>0, <2>5 DEF Release, At, Places
    <3>2. Cardinality(At("inside")') = Cardinality(At("inside")) - 1
      BY <3>1, AtCounted, FS_RemoveElement
    <3>3. Cardinality(At("inside")) \in Nat /\ Cardinality(At("inside")') \in Nat
      BY AtCounted, AtCountedNext
    <3>4. QED
      BY <2>5, <3>2, <3>3 DEF Release
  <2>6. ASSUME NEW t \in Threads, Trim(t) PROVE SlotsMatchHolders'
    <3>1. At("inside")' = At("inside")
      BY <2>0, <2>6 DEF Trim, At
    <3>2. QED
      BY <2>6, <3>1 DEF Trim
  <2>7. CASE UNCHANGED vars
    BY <2>7 DEF vars, At
  <2>8. QED
    BY <2>1, <2>2, <2>3, <2>4, <2>5, <2>6, <2>7 DEF Next
<1>3. QED
  BY <1>1, <1>2, TypeCorrect, PTL DEF Spec

(***************************************************************************)
(* A node on which no stage runs or trims accepts again, whatever happened *)
(* before: the counter and the retained memory are both back at rest.      *)
(***************************************************************************)
THEOREM DrainedCorrect == Spec => []DrainedNodeAccepts
<1>1. TypeOK /\ SlotsMatchHolders => DrainedNodeAccepts
  <2> SUFFICES ASSUME TypeOK, SlotsMatchHolders,
                      At("inside") \cup At("trimming") = {},
                      Budget - BaseUse >= Reserve
               PROVE  Accepting
    BY DEF DrainedNodeAccepts
  <2>1. At("inside") = {} /\ retaining = {}
    BY DEF TypeOK
  <2>2. inFlight = 0 /\ Cardinality(retaining) = 0
    BY <2>1, FS_EmptySet DEF SlotsMatchHolders
  <2>3. Headroom = Budget - BaseUse
    BY <2>2, GuardAssumption DEF Headroom, Used
  <2>4. QED
    BY <2>2, <2>3, GuardAssumption DEF Accepting, Admissible
<1>2. QED
  BY <1>1, TypeCorrect, SlotsCorrect, PTL

(***************************************************************************)
(* Every call of slot() that is over was counted once, as completed or as  *)
(* rejected.                                                               *)
(***************************************************************************)
THEOREM CallsCorrect == Spec => []CallsAccounted
<1>1. Init => CallsAccounted
  <2>1. ASSUME Init PROVE At("sampled") = {} /\ At("inside") = {}
    BY <2>1 DEF Init, At
  <2>2. QED
    BY <2>1, FS_EmptySet DEF Init, CallsAccounted
<1>2. TypeOK /\ CallsAccounted /\ [Next]_vars => CallsAccounted'
  <2> SUFFICES ASSUME TypeOK, CallsAccounted, [Next]_vars
               PROVE  CallsAccounted'
    OBVIOUS
  <2> USE DEF CallsAccounted
  <2>0. pc \in [Threads -> Places] /\ calls \in Nat /\ completed \in Nat /\ rejected \in Nat
    BY DEF TypeOK, Places
  <2>a. /\ Cardinality(At("sampled")) \in Nat /\ IsFiniteSet(At("sampled"))
        /\ Cardinality(At("inside")) \in Nat /\ IsFiniteSet(At("inside"))
    BY AtCounted
  <2>1. ASSUME NEW t \in Threads, Sample(t) PROVE CallsAccounted'
    <3>1. /\ At("sampled")' = At("sampled") \cup {t} /\ t \notin At("sampled")
          /\ At("inside")' = At("inside")
      BY <2>0, <2>1 DEF Sample, At, Places
    <3>2. Cardinality(At("sampled")') = Cardinality(At("sampled")) + 1
      BY <3>1, <2>a, FS_AddElement
    <3>3. Cardinality(At("inside")') = Cardinality(At("inside"))
      BY <3>1
    <3>4. QED
      BY <2>0, <2>a, <2>1, <3>2, <3>3 DEF Sample
  <2>2. ASSUME NEW t \in Threads, Admit(t) PROVE CallsAccounted'
    <3>1. /\ At("sampled")' = At("sampled") \ {t} /\ t \in At("sampled")
          /\ At("inside")' = At("inside") \cup {t} /\ t \notin At("inside")
      BY <2>0, <2>2 DEF Admit, At, Places
    <3>2. /\ Cardinality(At("sampled")') = Cardinality(At("sampled")) - 1
          /\ Cardinality(At("inside")') = Cardinality(At("inside")) + 1
      BY <3>1, <2>a, FS_AddElement, FS_RemoveElement
    <3>3. QED
      BY <2>0, <2>a, <2>2, <3>2 DEF Admit
  <2>3. ASSUME NEW t \in Threads, Refuse(t) PROVE CallsAccounted'
    <3>1. /\ At("sampled")' = At("sampled") \ {t} /\ t \in At("sampled")
          /\ At("inside")' = At("inside")
      BY <2>0, <2>3 DEF Refuse, At, Places
    <3>2. Cardinality(At("sampled")') = Cardinality(At("sampled")) - 1
      BY <3>1, <2>a, FS_RemoveElement
    <3>3. Cardinality(At("inside")') = Cardinality(At("inside"))
      BY <3>1
    <3>4. QED
      BY <2>0, <2>a, <2>3, <3>2, <3>3 DEF Refuse
  <2>4. ASSUME NEW t \in Threads, Grow(t) PROVE CallsAccounted'
    BY <2>4 DEF Grow, At
  <2>5. ASSUME NEW t \in Threads, Release(t) PROVE CallsAccounted'
    <3>1. /\ At("sampled")' = At("sampled")
          /\ At("inside")' = At("inside") \ {t} /\ t \in At("inside")
      BY <2>0, <2>5 DEF Release, At, Places
    <3>2. Cardinality(At("inside")') = Cardinality(At("inside")) - 1
      BY <3>1, <2>a, FS_RemoveElement
    <3>3. Cardinality(At("sampled")') = Cardinality(At("sampled"))
      BY <3>1
    <3>4. QED
      BY <2>0, <2>a, <2>5, <3>2, <3>3 DEF Release
  <2>6. ASSUME NEW t \in Threads, Trim(t) PROVE CallsAccounted'
    <3>1. At("sampled")' = At("sampled") /\ At("inside")' = At("inside")
      BY <2>0, <2>6 DEF Trim, At, Places
    <3>2. QED
      BY <2>6, <3>1 DEF Trim
  <2>7. CASE UNCHANGED vars
    BY <2>7 DEF vars, At
  <2>8. QED
    BY <2>1, <2>2, <2>3, <2>4, <2>5, <2>6, <2>7 DEF Next
<1>3. QED
  BY <1>1, <1>2, TypeCorrect, PTL DEF Spec
----------------------------------------------------------------------------
(***************************************************************************)
(* The guard implements the slot pool: an admission is an Acquire, a       *)
(* release is a Return, and every other step leaves the holders alone.     *)
(***************************************************************************)
THEOREM ImplementsSlotPoolSafety == Spec => Pool!Spec
<1>1. Init => Pool!Init
  BY DEF Init, Pool!Init, At
<1>2. TypeOK /\ SlotsMatchHolders /\ [Next]_vars
        => [Pool!Next]_(At("inside"))
  <2> SUFFICES ASSUME TypeOK, SlotsMatchHolders, [Next]_vars
               PROVE  [Pool!Next]_(At("inside"))
    OBVIOUS
  <2>0. pc \in [Threads -> Places]
    BY DEF TypeOK, Places
  <2>1. ASSUME NEW t \in Threads, Admit(t) PROVE Pool!Next
    <3>1. At("inside")' = At("inside") \cup {t} /\ t \notin At("inside")
      BY <2>0, <2>1 DEF Admit, At, Places
    <3>2. Pool!Cardinality(At("inside")) < Slots
      BY <2>1 DEF Admit, Admissible, SlotsMatchHolders,
                  Cardinality, Pool!Cardinality
    <3>3. Pool!Acquire(t)
      BY <3>1, <3>2 DEF Pool!Acquire
    <3>4. QED
      BY <3>3 DEF Pool!Next
  <2>2. ASSUME NEW t \in Threads, Release(t) PROVE Pool!Next
    <3>1. At("inside")' = At("inside") \ {t} /\ t \in At("inside")
      BY <2>0, <2>2 DEF Release, At, Places
    <3>2. Pool!Return(t)
      BY <3>1 DEF Pool!Return
    <3>3. QED
      BY <3>2 DEF Pool!Next
  <2>3. ASSUME NEW t \in Threads, Sample(t) \/ Refuse(t) \/ Grow(t) \/ Trim(t)
        PROVE  At("inside")' = At("inside")
    BY <2>0, <2>3 DEF Sample, Refuse, Grow, Trim, At, Places
  <2>4. CASE UNCHANGED vars
    BY <2>4 DEF vars, At
  <2>5. QED
    BY <2>1, <2>2, <2>3, <2>4 DEF Next
<1>3. QED
  BY <1>1, <1>2, TypeCorrect, SlotsCorrect, PTL DEF Spec, Pool!Spec
=============================================================================
