-------------------------- MODULE MCStageScheduler --------------------------
(***************************************************************************)
(* StageScheduler with the two stage workers of the deployment.            *)
(***************************************************************************)
EXTENDS StageScheduler
=============================================================================
