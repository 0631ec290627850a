---------------------------- MODULE JobLifecycle ----------------------------
(***************************************************************************)
(* What the gateway's job API promises a client, whatever the queue, the   *)
(* threads and the retention policy do: an analysis is refused at once or  *)
(* accepted; an accepted one ends exactly once, as succeeded or failed,    *)
(* it can be looked up from its acceptance until after its end, and who    *)
(* waits for its end, and nobody before, is let go.                        *)
(***************************************************************************)
CONSTANT Jobs

VARIABLES
    fate,   \* what has become of each analysis
    known,  \* the analyses a lookup by id finds
    ended   \* the analyses whose end was signalled to those who wait for it

vars == <<fate, known, ended>>

Init ==
    /\ fate = [j \in Jobs |-> "new"]
    /\ known = {}
    /\ ended = {}

Over(j) == fate[j] \in {"succeeded", "failed"}

\* Analyses that are over, and only those, may be forgotten at any time.
MayForget(kept) ==
    /\ kept \subseteq known
    /\ \A j \in known \ kept : Over(j)

Forget ==
    /\ MayForget(known')
    /\ UNCHANGED <<fate, ended>>

Accept(j) ==
    /\ fate[j] = "new"
    /\ fate' = [fate EXCEPT ![j] = "accepted"]
    /\ \E kept \in SUBSET known :
          MayForget(kept) /\ known' = kept \cup {j}
    /\ UNCHANGED ended

Refuse(j) ==
    /\ fate[j] = "new"
    /\ fate' = [fate EXCEPT ![j] = "refused"]
    /\ MayForget(known')
    /\ UNCHANGED ended

Finish(j) ==
    /\ fate[j] = "accepted"
    /\ \E end \in {"succeeded", "failed"} : fate' = [fate EXCEPT ![j] = end]
    /\ UNCHANGED <<known, ended>>

\* The end is signalled, at some time after it came.
Signal(j) ==
    /\ Over(j)
    /\ j \notin ended
    /\ ended' = ended \cup {j}
    /\ UNCHANGED <<fate, known>>

Next ==
    \/ Forget
    \/ \E j \in Jobs : Accept(j) \/ Refuse(j) \/ Finish(j) \/ Signal(j)

Spec == Init /\ [][Next]_vars

\* With the promise that an accepted analysis ends, and that its end is
\* signalled.
FairSpec == Spec /\ \A j \in Jobs : WF_vars(Finish(j)) /\ WF_vars(Signal(j))
=============================================================================
