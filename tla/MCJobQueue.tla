----------------------------- MODULE MCJobQueue -----------------------------
(***************************************************************************)
(* JobQueue with three analyses, two of them with large uploads.           *)
(***************************************************************************)
EXTENDS JobQueue

CONSTANTS small, big, huge

MCJobs == {small, big, huge}
MCSize == [j \in MCJobs |->
              IF j = small THEN 1 ELSE IF j = big THEN 2 ELSE 4]
=============================================================================
