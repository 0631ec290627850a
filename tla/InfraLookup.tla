---------------------------- MODULE InfraLookup ----------------------------
(***************************************************************************)
(* Looking up existing infrastructure: fetch_infrastructure() of           *)
(* app/services/infrastructure.py, called by the request threads of a node *)
(* and by the lookup threads of the gateway.                               *)
(*                                                                         *)
(* Answers are cached per area, one thread at a time fetches an area while *)
(* the others wait for it, and a failed fetch makes every lookup fail fast *)
(* for a while.  The cache, the fetches in flight and the cooldown share   *)
(* one lock, but a lookup takes it several times: to look, to store or to  *)
(* start the cooldown, and to leave.                                       *)
(***************************************************************************)
EXTENDS Naturals, FiniteSets

CONSTANTS
    Callers,    \* threads that call fetch_infrastructure()
    Areas,      \* the rounded keys (lat, lon, radius)
    Nobody,     \* no thread is fetching
    CacheMax,   \* CACHE_MAX
    MaxCalls    \* bound: lookups made in a behaviour

ASSUME InfraLookupAssumption ==
    /\ IsFiniteSet(Callers) /\ IsFiniteSet(Areas) /\ Areas # {}
    /\ Nobody \notin Callers
    /\ CacheMax \in Nat \ {0}
    /\ MaxCalls \in Nat

VARIABLES
    pc,         \* where each thread is
    area,       \* the area it looks up
    answer,     \* what the lookup decided last came to
    inflight,   \* _inflight: the thread that fetches an area
    storedAt,   \* _cache: when the entry of an area was stored, 0 if absent
    expired,    \* the entries older than CACHE_TTL_S
    cooling,    \* now < _unavailable_until
    calls,      \* how many lookups were made
    stores,     \* history: how many answers were stored
    lastStore,  \* history: when the area was last stored, evicted or not
    fetches,    \* history: fetches made for an area
    losses      \* history: fetches of it that failed, entries of it that
                \* expired or were evicted

lookup == <<pc, area, answer, calls>>
cache == <<storedAt, expired, stores, lastStore>>
vars == <<lookup, inflight, cache, cooling, fetches, losses>>

Cached == {a \in Areas : storedAt[a] # 0}

\* Slip: the age is compared without looking whether there is an entry.
AbsentTakenForFresh(a) == a \notin expired

Fresh(a) == a \in Cached \ expired

\* Slip: a thread does not see that another one is fetching.
InFlightOverlooked(a) == FALSE

InFlight(a) == inflight[a] # Nobody
----------------------------------------------------------------------------
Init ==
    /\ pc = [c \in Callers |-> "idle"]
    /\ area = [c \in Callers |-> CHOOSE a \in Areas : TRUE]
    /\ answer = "none"
    /\ inflight = [a \in Areas |-> Nobody]
    /\ storedAt = [a \in Areas |-> 0]
    /\ expired = {}
    /\ cooling = FALSE
    /\ calls = 0
    /\ stores = 0
    /\ lastStore = [a \in Areas |-> 0]
    /\ fetches = [a \in Areas |-> 0]
    /\ losses = [a \in Areas |-> 0]

Move(c, to) == pc' = [pc EXCEPT ![c] = to]

Call(c, a) ==
    /\ pc[c] = "idle"
    /\ calls < MaxCalls
    /\ calls' = calls + 1
    /\ area' = [area EXCEPT ![c] = a]
    /\ Move(c, "looking")
    /\ UNCHANGED <<answer, inflight, cache, cooling, fetches, losses>>

\* The lock is held: a fresh entry answers, even during a cooldown.
ServeCached(c) ==
    /\ pc[c] = "looking"
    /\ Fresh(area[c])
    /\ answer' = "ok"
    /\ Move(c, "idle")
    /\ UNCHANGED <<area, calls, inflight, cache, cooling, fetches, losses>>

\* The lock is held: OpenStreetMap did not respond recently.
FailFast(c) ==
    /\ pc[c] = "looking"
    /\ ~ Fresh(area[c])
    /\ cooling
    /\ answer' = "unavailable"
    /\ Move(c, "idle")
    /\ UNCHANGED <<area, calls, inflight, cache, cooling, fetches, losses>>

\* The lock is held: another thread is fetching, wait for its event.
Join(c) ==
    /\ pc[c] = "looking"
    /\ ~ Fresh(area[c])
    /\ ~ cooling
    /\ InFlight(area[c])
    /\ Move(c, "waiting")
    /\ UNCHANGED <<area, answer, calls, inflight, cache, cooling, fetches,
                   losses>>

\* The lock is held: fetch it.
Lead(c) ==
    /\ pc[c] = "looking"
    /\ ~ Fresh(area[c])
    /\ ~ cooling
    /\ ~ InFlight(area[c])
    /\ inflight' = [inflight EXCEPT ![area[c]] = c]
    /\ fetches' = [fetches EXCEPT ![area[c]] = @ + 1]
    /\ Move(c, "fetching")
    /\ UNCHANGED <<area, answer, calls, cache, cooling, losses>>

\* The event did not come in time.
WaitTimesOut(c) ==
    /\ pc[c] = "waiting"
    /\ answer' = "unavailable"
    /\ Move(c, "idle")
    /\ UNCHANGED <<area, calls, inflight, cache, cooling, fetches, losses>>
----------------------------------------------------------------------------
(* The thread that fetches. *)

\* Slip: the newest entry makes room.
NewestEntry(a) == \A b \in Cached : storedAt[b] <= storedAt[a]

OldestEntry(a) == \A b \in Cached : storedAt[a] <= storedAt[b]

Full == Cardinality(Cached) >= CacheMax

Evicted == {a \in Cached : Full /\ OldestEntry(a)}

\* Slip: a full cache takes no more entries.
StoredWhileRoom(a) ==
    [b \in Areas |-> IF b = a /\ ~ Full THEN stores + 1 ELSE storedAt[b]]

\* _store(): a full cache gives up its oldest entry first, even if the area
\* itself still has an expired one.
Stored(a) ==
    [b \in Areas |->
        IF b = a THEN stores + 1
        ELSE IF b \in Evicted THEN 0 ELSE storedAt[b]]

\* The fetch succeeded.
Store(c) ==
    /\ pc[c] = "fetching"
    /\ storedAt' = Stored(area[c])
    /\ stores' = stores + 1
    /\ lastStore' = [lastStore EXCEPT ![area[c]] = stores + 1]
    /\ expired' = {b \in expired : storedAt'[b] = storedAt[b]}
    /\ losses' = [b \in Areas |->
                    IF Fresh(b) /\ storedAt'[b] = 0
                    THEN losses[b] + 1 ELSE losses[b]]
    /\ answer' = "ok"
    /\ Move(c, "leaving")
    /\ UNCHANGED <<area, calls, inflight, cooling, fetches>>

\* Every endpoint failed or the budget is used up: RuntimeError.
Fail(c) ==
    /\ pc[c] = "fetching"
    /\ cooling' = TRUE
    /\ losses' = [losses EXCEPT ![area[c]] = @ + 1]
    /\ answer' = "unavailable"
    /\ Move(c, "leaving")
    /\ UNCHANGED <<area, calls, inflight, cache, fetches>>

\* Some other exception: an endpoint that breaks off its answer raises
\* IncompleteRead, which _fetch() does not catch, and an element of the
\* payload may lack what element_to_feature() reads of it.
Raise(c) ==
    /\ pc[c] = "fetching"
    /\ losses' = [losses EXCEPT ![area[c]] = @ + 1]
    /\ answer' = "raised"
    /\ Move(c, "leaving")
    /\ UNCHANGED <<area, calls, inflight, cache, cooling, fetches>>

Waiters(a) == {c \in Callers : pc[c] = "waiting" /\ area[c] = a}

\* Slip: the mark is taken away and the event forgotten.
LeaveSilently(c) ==
    /\ pc[c] = "leaving"
    /\ inflight' = [inflight EXCEPT ![area[c]] = Nobody]
    /\ Move(c, "idle")
    /\ UNCHANGED <<area, answer, calls, cache, cooling, fetches, losses>>

\* finally: the waiters of this fetch look again.
Leave(c) ==
    /\ pc[c] = "leaving"
    /\ inflight' = [inflight EXCEPT ![area[c]] = Nobody]
    /\ pc' = [d \in Callers |->
                IF d = c THEN "idle"
                ELSE IF d \in Waiters(area[c]) THEN "looking" ELSE pc[d]]
    /\ UNCHANGED <<area, answer, calls, cache, cooling, fetches, losses>>
----------------------------------------------------------------------------
(* The clock. *)

\* CACHE_TTL_S pass; older entries expire first.
Expire(a) ==
    /\ Fresh(a)
    /\ \A b \in Cached : storedAt[b] < storedAt[a] => b \in expired
    /\ expired' = expired \cup {a}
    /\ losses' = [losses EXCEPT ![a] = @ + 1]
    /\ UNCHANGED <<lookup, inflight, storedAt, stores, lastStore, cooling,
                   fetches>>

\* COOLDOWN_S pass.
CooldownEnds ==
    /\ cooling
    /\ cooling' = FALSE
    /\ UNCHANGED <<lookup, inflight, cache, fetches, losses>>

Look(c) == ServeCached(c) \/ FailFast(c) \/ Join(c) \/ Lead(c)
FetchEnds(c) == Store(c) \/ Fail(c) \/ Raise(c)

Next ==
    \/ \E c \in Callers :
          \/ \E a \in Areas : Call(c, a)
          \/ Look(c) \/ WaitTimesOut(c) \/ FetchEnds(c) \/ Leave(c)
    \/ \E a \in Areas : Expire(a)
    \/ CooldownEnds

Spec == Init /\ [][Next]_vars

\* Threads are scheduled, and a fetch ends: it has a budget.  The timeout of a
\* wait is left out, no waiter should need it.
FairSpec ==
    /\ Spec
    /\ \A c \in Callers :
          WF_vars(Look(c)) /\ WF_vars(FetchEnds(c)) /\ WF_vars(Leave(c))
----------------------------------------------------------------------------
(* Properties. *)

\* Shape of the state.
TypeOK ==
    /\ pc \in [Callers ->
                  {"idle", "looking", "waiting", "fetching", "leaving"}]
    /\ area \in [Callers -> Areas]
    /\ answer \in {"none", "ok", "unavailable", "raised"}
    /\ inflight \in [Areas -> Callers \cup {Nobody}]
    /\ storedAt \in [Areas -> Nat]
    /\ expired \subseteq Cached
    /\ cooling \in BOOLEAN
    /\ calls \in Nat /\ stores \in Nat
    /\ {lastStore, fetches, losses} \subseteq [Areas -> Nat]

\* One thread at a time fetches an area, exactly the one that _inflight
\* records, and nobody waits for a fetch that is over: whatever the fetch
\* came to, its mark and its waiters are gone when it has left.
SingleFlight ==
    \A a \in Areas :
        /\ {c \in Callers : pc[c] \in {"fetching", "leaving"} /\ area[c] = a}
              = {inflight[a]} \ {Nobody}
        /\ Waiters(a) # {} => InFlight(a)

\* Lookups reuse one another's result: an area is fetched once, and once more
\* for each fetch that failed and each entry that expired or was evicted.
NoNeedlessFetch ==
    \A a \in Areas : fetches[a] <= 1 + losses[a]

\* An answer stays in the cache until CacheMax newer ones were stored, and
\* there are never more than CacheMax.
RecentAnswersKept ==
    /\ Cardinality(Cached) <= CacheMax
    /\ \A a \in Areas :
          (lastStore[a] # 0 /\ stores - lastStore[a] < CacheMax)
              => a \in Cached

\* Every lookup ends, without its wait having to time out.
LookupsEnd == \A c \in Callers : pc[c] = "looking" ~> pc[c] = "idle"

\* infrastructure.py:215: "Never raises for network problems; check
\* ``status`` instead."  A connection that breaks off in the middle of the
\* answer is a network problem.
NeverRaises == answer # "raised"
=============================================================================
