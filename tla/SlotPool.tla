------------------------------ MODULE SlotPool ------------------------------
(***************************************************************************)
(* What the capacity guard of a node promises, seen from outside: a fixed  *)
(* number of slots, each held by at most one thread.  Nothing here says    *)
(* how the slots are counted or when memory is measured; CapacityGuard     *)
(* shows that the code's counter implements this.                          *)
(***************************************************************************)
EXTENDS Naturals, FiniteSets

CONSTANTS Threads, Slots

VARIABLE holders    \* the threads that are inside a heavy stage

Init == holders = {}

\* A slot is handed to one more thread, never beyond the number of slots.
Acquire(t) ==
    /\ t \notin holders
    /\ Cardinality(holders) < Slots
    /\ holders' = holders \cup {t}

\* A holder gives its slot back, whether its stage returned or raised.
Return(t) ==
    /\ t \in holders
    /\ holders' = holders \ {t}

Next == \E t \in Threads : Acquire(t) \/ Return(t)

Spec == Init /\ [][Next]_holders

\* The same with the promise that a slot never stays taken for ever.
FairSpec == Spec /\ \A t \in Threads : WF_holders(Return(t))
=============================================================================
