------------------------- MODULE InfraLookupProofs -------------------------
(***************************************************************************)
(* Proofs about InfraLookup, for any threads, areas, cache size and number *)
(* of lookups.                                                             *)
(***************************************************************************)
EXTENDS InfraLookup, FiniteSetTheorems, TLAPS

\* SingleFlight, said of each thread and of each area.
Flight ==
    /\ \A c \in Callers :
          /\ pc[c] \in {"fetching", "leaving"} => inflight[area[c]] = c
          /\ pc[c] = "waiting" => InFlight(area[c])
    /\ \A a \in Areas :
          InFlight(a) => /\ pc[inflight[a]] \in {"fetching", "leaving"}
                         /\ area[inflight[a]] = a

Fetching(a) == InFlight(a) /\ pc[inflight[a]] = "fetching"

\* What every fetch of an area has come to: a loss, an entry, or nothing yet.
Books ==
    \A a \in Areas :
        /\ ~ (Fresh(a) /\ Fetching(a))
        /\ fetches[a] = losses[a] + (IF Fresh(a) \/ Fetching(a) THEN 1 ELSE 0)

\* An entry carries the stamp of the area's last store, and no two areas
\* share one.
Stamps ==
    /\ \A a \in Areas :
          storedAt[a] \in {0, lastStore[a]} /\ lastStore[a] <= stores
    /\ \A a, b \in Areas :
          lastStore[a] = lastStore[b] => a = b \/ lastStore[a] = 0

Inv == TypeOK /\ Flight /\ Books /\ Stamps
----------------------------------------------------------------------------
LEMMA InvInit == Init => Inv
<1> SUFFICES ASSUME Init PROVE Inv
  OBVIOUS
<1>1. (CHOOSE a \in Areas : TRUE) \in Areas
  BY InfraLookupAssumption
<1>2. TypeOK
  <2>1. area \in [Callers -> Areas]
    BY <1>1 DEF Init
  <2>2. inflight \in [Areas -> Callers \cup {Nobody}]
    BY DEF Init
  <2>3. /\ pc \in [Callers ->
                     {"idle", "looking", "waiting", "fetching", "leaving"}]
        /\ answer \in {"none", "ok", "unavailable", "raised"}
    BY DEF Init
  <2>4. storedAt \in [Areas -> Nat] /\ expired \subseteq Cached
    BY DEF Init
  <2>5. cooling \in BOOLEAN /\ calls \in Nat /\ stores \in Nat
    BY DEF Init
  <2>6. {lastStore, fetches, losses} \subseteq [Areas -> Nat]
    BY DEF Init
  <2>7. QED
    BY <2>1, <2>2, <2>3, <2>4, <2>5, <2>6 DEF TypeOK
<1>3. Flight
  BY DEF Init, Flight, InFlight
<1>4. Books
  BY DEF Init, Books, Fresh, Cached, Fetching, InFlight
<1>5. Stamps
  BY DEF Init, Stamps
<1>6. QED
  BY <1>2, <1>3, <1>4, <1>5 DEF Inv

LEMMA InvStep == Inv /\ [Next]_vars => Inv'
<1> SUFFICES ASSUME Inv, [Next]_vars PROVE Inv'
  OBVIOUS
<1> USE InfraLookupAssumption DEF Move, lookup, cache
<1>0. TypeOK /\ Flight /\ Books /\ Stamps
  BY DEF Inv
<1>a. ASSUME UNCHANGED <<storedAt, stores, lastStore>> PROVE Stamps'
  BY <1>0, <1>a DEF Stamps
<1>1. ASSUME NEW c \in Callers, NEW a \in Areas, Call(c, a) PROVE Inv'
  <2>1. TypeOK'
    BY <1>0, <1>1 DEF Call, TypeOK, Cached
  <2>2. Flight'
    BY <1>0, <1>1 DEF Call, TypeOK, Flight, InFlight
  <2>3. \A b \in Areas : Fresh(b)' = Fresh(b) /\ Fetching(b)' = Fetching(b)
    BY <1>0, <1>1 DEF Call, TypeOK, Flight, Fetching, Fresh, Cached, InFlight
  <2>4. Books'
    BY <1>0, <1>1, <2>3 DEF Call, Books
  <2>5. Stamps'
    BY <1>1, <1>a DEF Call
  <2>6. QED
    BY <2>1, <2>2, <2>4, <2>5 DEF Inv
<1>2. ASSUME NEW c \in Callers,
             ServeCached(c) \/ FailFast(c) \/ Join(c) \/ WaitTimesOut(c)
      PROVE  Inv'
  <2>1. TypeOK'
    BY <1>0, <1>2
       DEF ServeCached, FailFast, Join, WaitTimesOut, TypeOK, Cached
  <2>2. Flight'
    BY <1>0, <1>2
       DEF ServeCached, FailFast, Join, WaitTimesOut, TypeOK, Flight, InFlight
  <2>3. \A b \in Areas : Fresh(b)' = Fresh(b) /\ Fetching(b)' = Fetching(b)
    BY <1>0, <1>2
       DEF ServeCached, FailFast, Join, WaitTimesOut, TypeOK, Flight,
           Fetching, Fresh, Cached, InFlight
  <2>4. Books'
    BY <1>0, <1>2, <2>3
       DEF ServeCached, FailFast, Join, WaitTimesOut, Books
  <2>5. Stamps'
    BY <1>2, <1>a DEF ServeCached, FailFast, Join, WaitTimesOut
  <2>6. QED
    BY <2>1, <2>2, <2>4, <2>5 DEF Inv
<1>3. ASSUME NEW c \in Callers, Lead(c) PROVE Inv'
  <2>1. TypeOK'
    BY <1>0, <1>3 DEF Lead, TypeOK, Cached
  <2>2. Flight'
    BY <1>0, <1>3 DEF Lead, TypeOK, Flight, InFlight
  <2>3. /\ \A b \in Areas : Fresh(b)' = Fresh(b)
        /\ \A b \in Areas \ {area[c]} : Fetching(b)' = Fetching(b)
        /\ ~ Fresh(area[c]) /\ ~ Fetching(area[c]) /\ Fetching(area[c])'
    BY <1>0, <1>3 DEF Lead, TypeOK, Flight, Fetching, Fresh, Cached, InFlight
  <2>4. Books'
    BY <1>0, <1>3, <2>3 DEF Lead, Books, TypeOK
  <2>5. Stamps'
    BY <1>3, <1>a DEF Lead
  <2>6. QED
    BY <2>1, <2>2, <2>4, <2>5 DEF Inv
<1>4. ASSUME NEW c \in Callers, Store(c) PROVE Inv'
  <2>1. storedAt' \in [Areas -> Nat] /\ storedAt'[area[c]] # 0
    BY <1>0, <1>4 DEF Store, Stored, TypeOK
  <2>2. losses' \in [Areas -> Nat]
    BY <1>0, <1>4 DEF Store, TypeOK
  <2>3. expired' \subseteq Cached'
    BY <1>0, <1>4, <2>1 DEF Store, TypeOK, Cached
  <2>4. TypeOK'
    BY <1>0, <1>4, <2>1, <2>2, <2>3 DEF Store, TypeOK
  <2>5. Flight'
    BY <1>0, <1>4 DEF Store, TypeOK, Flight, InFlight
  <2>6. PICK a \in Areas : a = area[c]
    BY <1>0 DEF TypeOK
  <2>7. /\ Fetching(a) /\ ~ Fetching(a)'
        /\ \A b \in Areas \ {a} : Fetching(b)' = Fetching(b)
    BY <1>0, <1>4, <2>6 DEF Store, TypeOK, Flight, Fetching, InFlight
  <2>8. ~ Fresh(a) /\ Fresh(a)'
    BY <1>0, <1>4, <2>6, <2>7
       DEF Store, Stored, Books, Stamps, Fresh, Cached, TypeOK
  <2>9. ASSUME NEW b \in Areas \ {a}
        PROVE  /\ storedAt'[b] \in {0, storedAt[b]}
               /\ Fresh(b)' <=> (Fresh(b) /\ storedAt'[b] # 0)
    BY <1>0, <1>4, <2>6 DEF Store, Stored, Fresh, Cached, TypeOK
  <2>10. Books'
    <3>1. SUFFICES ASSUME NEW b \in Areas
                   PROVE  /\ ~ (Fresh(b) /\ Fetching(b))'
                          /\ fetches'[b] = losses'[b]
                                + (IF Fresh(b)' \/ Fetching(b)' THEN 1 ELSE 0)
      BY DEF Books
    <3>2. /\ fetches'[b] = fetches[b]
          /\ losses'[b] = IF Fresh(b) /\ storedAt'[b] = 0
                          THEN losses[b] + 1 ELSE losses[b]
          /\ fetches[b] \in Nat /\ losses[b] \in Nat
      BY <1>0, <1>4 DEF Store, TypeOK
    <3>3. /\ ~ (Fresh(b) /\ Fetching(b))
          /\ fetches[b] = losses[b] + (IF Fresh(b) \/ Fetching(b) THEN 1 ELSE 0)
      BY <1>0 DEF Books
    <3>4. CASE b = a
      BY <2>7, <2>8, <3>2, <3>3, <3>4
    <3>5. CASE b # a
      BY <2>7, <2>9, <3>2, <3>3, <3>5
    <3>6. QED
      BY <3>4, <3>5
  <2>11. Stamps'
    BY <1>0, <1>4 DEF Store, Stored, Stamps, TypeOK
  <2>12. QED
    BY <2>4, <2>5, <2>10, <2>11 DEF Inv
<1>5. ASSUME NEW c \in Callers, Fail(c) \/ Raise(c) PROVE Inv'
  <2>1. TypeOK'
    <3>1. CASE Fail(c)
      BY <1>0, <3>1 DEF Fail, TypeOK, Cached
    <3>2. CASE Raise(c)
      BY <1>0, <3>2 DEF Raise, TypeOK, Cached
    <3>3. QED
      BY <1>5, <3>1, <3>2
  <2>2. Flight'
    BY <1>0, <1>5 DEF Fail, Raise, TypeOK, Flight, InFlight
  <2>3. /\ \A b \in Areas : Fresh(b)' = Fresh(b)
        /\ \A b \in Areas \ {area[c]} : Fetching(b)' = Fetching(b)
        /\ Fetching(area[c]) /\ ~ Fetching(area[c])'
    BY <1>0, <1>5
       DEF Fail, Raise, TypeOK, Flight, Fetching, Fresh, Cached, InFlight
  <2>4. Books'
    BY <1>0, <1>5, <2>3 DEF Fail, Raise, Books, TypeOK
  <2>5. Stamps'
    BY <1>5, <1>a DEF Fail, Raise
  <2>6. QED
    BY <2>1, <2>2, <2>4, <2>5 DEF Inv
<1>6. ASSUME NEW c \in Callers, Leave(c) PROVE Inv'
  <2>1. TypeOK'
    BY <1>0, <1>6 DEF Leave, TypeOK, Cached
  <2>2. Flight'
    BY <1>0, <1>6 DEF Leave, Waiters, TypeOK, Flight, InFlight
  <2>3. \A b \in Areas : Fresh(b)' = Fresh(b) /\ Fetching(b)' = Fetching(b)
    BY <1>0, <1>6
       DEF Leave, Waiters, TypeOK, Flight, Fetching, Fresh, Cached, InFlight
  <2>4. Books'
    BY <1>0, <1>6, <2>3 DEF Leave, Books
  <2>5. Stamps'
    BY <1>6, <1>a DEF Leave
  <2>6. QED
    BY <2>1, <2>2, <2>4, <2>5 DEF Inv
<1>7. ASSUME NEW a \in Areas, Expire(a) PROVE Inv'
  <2>1. TypeOK'
    BY <1>0, <1>7 DEF Expire, TypeOK, Cached, Fresh
  <2>2. Flight'
    BY <1>0, <1>7 DEF Expire, Flight, InFlight
  <2>3. /\ \A b \in Areas : Fetching(b)' = Fetching(b)
        /\ \A b \in Areas \ {a} : Fresh(b)' = Fresh(b)
        /\ Fresh(a) /\ ~ Fresh(a)'
    BY <1>0, <1>7 DEF Expire, TypeOK, Fetching, Fresh, Cached, InFlight
  <2>4. Books'
    BY <1>0, <1>7, <2>3 DEF Expire, Books, TypeOK
  <2>5. Stamps'
    BY <1>7, <1>a DEF Expire
  <2>6. QED
    BY <2>1, <2>2, <2>4, <2>5 DEF Inv
<1>8. CASE CooldownEnds \/ UNCHANGED vars
  <2>1. TypeOK'
    BY <1>0, <1>8 DEF CooldownEnds, vars, TypeOK, Cached
  <2>2. Flight'
    BY <1>0, <1>8 DEF CooldownEnds, vars, Flight, InFlight
  <2>3. Books'
    BY <1>0, <1>8 DEF CooldownEnds, vars, Books, Fetching, Fresh, Cached, InFlight
  <2>4. Stamps'
    BY <1>8, <1>a DEF CooldownEnds, vars
  <2>5. QED
    BY <2>1, <2>2, <2>3, <2>4 DEF Inv
<1>9. QED
  BY <1>1, <1>2, <1>3, <1>4, <1>5, <1>6, <1>7, <1>8 DEF Next, Look, FetchEnds
----------------------------------------------------------------------------
LEMMA Invariance == Spec => []Inv
  BY InvInit, InvStep, PTL DEF Spec

(***************************************************************************)
(* Type correctness.                                                       *)
(***************************************************************************)
THEOREM TypeCorrect == Spec => []TypeOK
<1>1. Inv => TypeOK
  BY DEF Inv
<1>2. QED
  BY <1>1, Invariance, PTL

(***************************************************************************)
(* One thread at a time fetches an area, and nobody waits for a fetch that *)
(* is over.                                                                *)
(***************************************************************************)
THEOREM SingleFlightCorrect == Spec => []SingleFlight
<1>1. Inv => SingleFlight
  <2> SUFFICES ASSUME Inv, NEW a \in Areas
               PROVE  /\ {c \in Callers : pc[c] \in {"fetching", "leaving"}
                                               /\ area[c] = a}
                            = {inflight[a]} \ {Nobody}
                      /\ Waiters(a) # {} => InFlight(a)
    BY DEF SingleFlight
  <2>1. Waiters(a) # {} => InFlight(a)
    BY DEF Inv, Flight, Waiters
  <2>2. \A c : (c \in Callers /\ pc[c] \in {"fetching", "leaving"} /\ area[c] = a)
                 <=> (c = inflight[a] /\ c # Nobody)
    BY InfraLookupAssumption DEF Inv, TypeOK, Flight, InFlight
  <2>3. QED
    BY <2>1, <2>2
<1>2. QED
  BY <1>1, Invariance, PTL

(***************************************************************************)
(* An area is fetched once, and once more for each loss.                   *)
(***************************************************************************)
THEOREM NoNeedlessFetchCorrect == Spec => []NoNeedlessFetch
<1>1. Inv => NoNeedlessFetch
  BY DEF Inv, TypeOK, Books, NoNeedlessFetch
<1>2. QED
  BY <1>1, Invariance, PTL
----------------------------------------------------------------------------
(* The cache: how many answers are stored between two moments. *)

LEMMA SmallestNumber ==
    ASSUME NEW S, S \subseteq Nat, S # {}
    PROVE  \E m \in S : \A n \in S : m <= n
<1> DEFINE R == OpToRel(<, Nat)
<1>1. IsWellFoundedOn(R, Nat)
  BY NatLessThanWellFounded
<1>2. PICK m \in S : \A n \in S : <<n, m>> \notin R
  <2> HIDE DEF R
  <2>1. QED
    BY <1>1, WFMin
<1>3. ASSUME NEW n \in S PROVE m <= n
  <2>1. ~ (n < m)
    BY <1>2 DEF OpToRel
  <2>2. n \in Nat /\ m \in Nat
    OBVIOUS
  <2>3. QED
    BY <2>1, <2>2
<1>4. QED
  BY <1>3

\* Areas whose stamps all lie between two numbers are no more than there are
\* numbers between them.
LEMMA StampsBetween ==
    ASSUME Inv, NEW A \in SUBSET Areas, NEW low \in Nat,
           \A b \in A : low < lastStore[b]
    PROVE  /\ IsFiniteSet(A)
           /\ A # {} => Cardinality(A) <= stores - low
<1> DEFINE stamp == [b \in A |-> lastStore[b]]
<1>1. stores \in Nat /\ lastStore \in [Areas -> Nat]
  BY DEF Inv, TypeOK
<1>2. \A b \in A : lastStore[b] \in (low + 1)..stores
  <2>1. \A b \in A : lastStore[b] \in Nat /\ low < lastStore[b] /\ lastStore[b] <= stores
    BY <1>1 DEF Inv, Stamps
  <2>2. QED
    BY <1>1, <2>1
<1>3. \A a, b \in A : lastStore[a] = lastStore[b] => a = b
  <2>1. \A b \in A : lastStore[b] # 0
    BY <1>1
  <2>2. QED
    BY <2>1 DEF Inv, Stamps
<1>4. stamp \in Injection(A, (low + 1)..stores)
  BY <1>2, <1>3 DEF Injection, IsInjective
<1>5. /\ IsFiniteSet((low + 1)..stores)
      /\ Cardinality((low + 1)..stores) = IF low + 1 > stores THEN 0 ELSE stores - (low + 1) + 1
  BY <1>1, FS_Interval
<1>6. IsFiniteSet(A) /\ Cardinality(A) <= Cardinality((low + 1)..stores)
  <2> HIDE DEF stamp
  <2>1. QED
    BY <1>4, <1>5, FS_Injection
<1>7. ASSUME A # {} PROVE Cardinality(A) <= stores - low
  <2>1. ~(low + 1 > stores)
    BY <1>1, <1>2, <1>7
  <2>2. Cardinality((low + 1)..stores) = stores - low
    BY <1>1, <1>5, <2>1
  <2>3. QED
    BY <1>6, <2>2
<1>8. QED
  BY <1>6, <1>7

\* A full cache has one entry that is older than all others.
LEMMA OneIsEvicted ==
    ASSUME Inv, Full
    PROVE  \E old \in Cached :
              /\ Evicted = {old}
              /\ \A b \in Cached \ {old} : storedAt[old] < storedAt[b]
<1> DEFINE S == {storedAt[b] : b \in Cached}
<1>1. storedAt \in [Areas -> Nat] /\ Cached \subseteq Areas
  BY DEF Inv, TypeOK, Cached
<1>2. IsFiniteSet(Cached)
  BY <1>1, FS_Subset, InfraLookupAssumption
<1>3. Cached # {}
  <2>1. Cardinality(Cached) # 0
    BY InfraLookupAssumption DEF Full
  <2>2. QED
    BY <2>1, FS_EmptySet
<1>4. PICK m \in S : \A n \in S : m <= n
  <2>1. S \subseteq Nat /\ S # {}
    BY <1>1, <1>3
  <2> HIDE DEF S
  <2>2. QED
    BY <2>1, SmallestNumber
<1>5. PICK old \in Cached : \A b \in Cached : storedAt[old] <= storedAt[b]
  BY <1>4
<1>6. ASSUME NEW b \in Cached \ {old} PROVE storedAt[old] < storedAt[b]
  <2>1. /\ storedAt[old] \in Nat /\ storedAt[b] \in Nat
        /\ storedAt[old] <= storedAt[b]
    BY <1>1, <1>5
  <2>2. storedAt[old] # storedAt[b]
    BY <1>1 DEF Inv, Stamps, Cached
  <2>3. QED
    BY <2>1, <2>2
<1>7. \A b \in Cached \ {old} : ~ OldestEntry(b)
  <2>1. \A b \in Cached \ {old} : ~ (storedAt[b] <= storedAt[old])
    BY <1>1, <1>6
  <2>2. QED
    BY <2>1 DEF OldestEntry
<1>8. OldestEntry(old)
  BY <1>5 DEF OldestEntry
<1>9. Evicted = {old}
  BY <1>7, <1>8 DEF Evicted
<1>10. QED
  BY <1>6, <1>9

\* A store keeps the cache within its size.
LEMMA StoreKeepsSize ==
    ASSUME Inv, Cardinality(Cached) <= CacheMax, NEW c \in Callers, Store(c)
    PROVE  Cardinality(Cached') <= CacheMax
<1> DEFINE a == area[c]
<1>1. /\ a \in Areas /\ storedAt \in [Areas -> Nat] /\ stores \in Nat
      /\ Cached \subseteq Areas /\ IsFiniteSet(Cached)
  <2>1. a \in Areas /\ storedAt \in [Areas -> Nat] /\ stores \in Nat
    BY DEF Inv, TypeOK
  <2>2. Cached \subseteq Areas
    BY DEF Cached
  <2>3. QED
    BY <2>1, <2>2, FS_Subset, InfraLookupAssumption
<1>2. Cached' = (Cached \ Evicted) \cup {a}
  <2>1. storedAt' = [b \in Areas |-> IF b = a THEN stores + 1
                                    ELSE IF b \in Evicted THEN 0 ELSE storedAt[b]]
    BY DEF Store, Stored
  <2>2. QED
    BY <1>1, <2>1 DEF Cached
<1>3. Cardinality(Cached) \in Nat /\ CacheMax \in Nat /\ CacheMax # 0
  BY <1>1, FS_CardinalityType, InfraLookupAssumption
<1>4. CASE ~ Full
  <2>1. Evicted = {}
    BY <1>4 DEF Evicted
  <2>2. Cached' = Cached \cup {a}
    BY <1>2, <2>1
  <2> HIDE DEF a
  <2>3. Cardinality(Cached \cup {a})
        = IF a \in Cached THEN Cardinality(Cached) ELSE Cardinality(Cached) + 1
    BY <1>1, FS_AddElement
  <2>4. ~ (Cardinality(Cached) >= CacheMax)
    BY <1>4 DEF Full
  <2>5. Cardinality(Cached \cup {a}) <= CacheMax
    BY <1>3, <2>3, <2>4
  <2>6. QED
    BY <2>2, <2>5
<1>5. CASE Full
  <2>1. PICK old \in Cached : Evicted = {old}
    BY <1>5, OneIsEvicted
  <2>2. /\ IsFiniteSet(Cached \ {old})
        /\ Cardinality(Cached \ {old}) = Cardinality(Cached) - 1
    BY <1>1, FS_RemoveElement
  <2>3. Cardinality((Cached \ {old}) \cup {a}) <= Cardinality(Cached \ {old}) + 1
    <3>1. Cardinality(Cached \ {old}) \in Nat
      BY <2>2, FS_CardinalityType
    <3> HIDE DEF a
    <3>2. Cardinality((Cached \ {old}) \cup {a})
          = IF a \in Cached \ {old} THEN Cardinality(Cached \ {old})
            ELSE Cardinality(Cached \ {old}) + 1
      BY <2>2, FS_AddElement
    <3>3. QED
      BY <3>1, <3>2
  <2>4. Cached' = (Cached \ {old}) \cup {a}
    BY <1>2, <2>1
  <2> HIDE DEF a
  <2>5. /\ Cardinality((Cached \ {old}) \cup {a}) \in Nat
        /\ Cardinality(Cached \ {old}) \in Nat
    BY <2>2, FS_AddElement, FS_CardinalityType
  <2>6. Cardinality((Cached \ {old}) \cup {a}) <= CacheMax
    BY <1>3, <2>2, <2>3, <2>5
  <2>7. QED
    BY <2>4, <2>6
<1>6. QED
  BY <1>4, <1>5

\* What a store evicts has seen CacheMax stores after its own, the present
\* one included.
LEMMA StoreKeepsRecent ==
    ASSUME Inv, RecentAnswersKept, NEW c \in Callers, Store(c),
           NEW d \in Areas, lastStore'[d] # 0, stores' - lastStore'[d] < CacheMax
    PROVE  d \in Cached'
<1> DEFINE a == area[c]
<1>1. /\ a \in Areas /\ storedAt \in [Areas -> Nat] /\ stores \in Nat
      /\ lastStore \in [Areas -> Nat] /\ Cached \subseteq Areas /\ CacheMax \in Nat
  BY InfraLookupAssumption DEF Inv, TypeOK, Cached
<1>2. /\ stores' = stores + 1
      /\ lastStore' = [lastStore EXCEPT ![a] = stores + 1]
      /\ storedAt' = [b \in Areas |-> IF b = a THEN stores + 1
                                     ELSE IF b \in Evicted THEN 0 ELSE storedAt[b]]
  BY DEF Store, Stored
<1>3. CASE d = a
  BY <1>1, <1>2, <1>3 DEF Cached
<1>4. CASE d # a
  <2>1. lastStore'[d] = lastStore[d] /\ lastStore[d] \in Nat
    BY <1>1, <1>2, <1>4
  <2>2. d \in Cached
    <3>1. lastStore[d] # 0 /\ stores - lastStore[d] < CacheMax
      BY <1>1, <1>2, <2>1
    <3>2. QED
      BY <3>1 DEF RecentAnswersKept
  <2>3. d \notin Evicted
    <3> SUFFICES ASSUME d \in Evicted PROVE FALSE
      OBVIOUS
    <3>1. Full
      BY DEF Evicted
    <3>2. /\ Evicted = {d}
          /\ \A b \in Cached \ {d} : storedAt[d] < storedAt[b]
      BY <3>1, OneIsEvicted
    <3>3. \A b \in Cached : storedAt[b] = lastStore[b]
      BY <1>1 DEF Inv, Stamps, Cached
    <3>4. \A b \in Cached \ {d} : lastStore[d] < lastStore[b]
      BY <2>2, <3>2, <3>3
    <3>5. /\ IsFiniteSet(Cached \ {d})
          /\ Cached \ {d} # {} => Cardinality(Cached \ {d}) <= stores - lastStore[d]
      BY <1>1, <2>1, <3>4, StampsBetween
    <3>6. Cached \ {d} = {} => Cardinality(Cached \ {d}) = 0
      BY FS_EmptySet
    <3>7. lastStore[d] <= stores
      BY DEF Inv, Stamps
    <3>8. /\ IsFiniteSet(Cached)
          /\ Cardinality(Cached) \in Nat
          /\ Cardinality(Cached \ {d}) = Cardinality(Cached) - 1
      BY <1>1, <2>2, FS_Subset, FS_RemoveElement, FS_CardinalityType, InfraLookupAssumption
    <3>9. Cardinality(Cached) - 1 <= stores - lastStore[d]
      BY <1>1, <2>1, <3>5, <3>6, <3>7, <3>8
    <3>10. Cardinality(Cached) >= CacheMax
      BY <3>1 DEF Full
    <3>11. stores + 1 - lastStore[d] < CacheMax
      <4>1. stores' - lastStore'[d] < CacheMax
        OBVIOUS
      <4>2. stores' = stores + 1 /\ lastStore'[d] = lastStore[d]
        BY <1>2, <2>1
      <4>3. QED
        BY <1>1, <2>1, <4>1, <4>2
    <3>12. QED
      BY <1>1, <2>1, <3>8, <3>9, <3>10, <3>11
  <2>4. QED
    BY <1>1, <1>2, <1>4, <2>2, <2>3 DEF Cached
<1>5. QED
  BY <1>3, <1>4

(***************************************************************************)
(* RecentAnswersKept: an answer is there until CacheMax newer ones were    *)
(* stored, whatever expires, fails or is stored again meanwhile.           *)
(***************************************************************************)
THEOREM RecentAnswersCorrect == Spec => []RecentAnswersKept
<1>1. Init => RecentAnswersKept
  <2> SUFFICES ASSUME Init PROVE RecentAnswersKept
    OBVIOUS
  <2>1. Cached = {}
    BY DEF Init, Cached
  <2>2. Cardinality(Cached) = 0
    BY <2>1, FS_EmptySet
  <2>3. QED
    BY <2>2, InfraLookupAssumption DEF Init, RecentAnswersKept
<1>2. Inv /\ RecentAnswersKept /\ [Next]_vars => RecentAnswersKept'
  <2> SUFFICES ASSUME Inv, RecentAnswersKept, [Next]_vars PROVE RecentAnswersKept'
    OBVIOUS
  <2>1. CASE \E c \in Callers : Store(c)
    <3>1. Cardinality(Cached') <= CacheMax
      BY <2>1, StoreKeepsSize DEF RecentAnswersKept
    <3>2. QED
      BY <2>1, <3>1, StoreKeepsRecent DEF RecentAnswersKept
  <2>2. CASE ~ (\E c \in Callers : Store(c))
    <3>1. UNCHANGED <<storedAt, stores, lastStore>>
      BY <2>2 DEF Next, Look, FetchEnds, Call, ServeCached, FailFast, Join, Lead,
                  WaitTimesOut, Fail, Raise, Leave, Expire, CooldownEnds, vars, cache
    <3>2. QED
      BY <3>1 DEF RecentAnswersKept, Cached
  <2>3. QED
    BY <2>1, <2>2
<1>3. QED
  BY <1>1, <1>2, Invariance, PTL DEF Spec
=============================================================================
