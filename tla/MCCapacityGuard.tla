-------------------------- MODULE MCCapacityGuard --------------------------
(***************************************************************************)
(* CapacityGuard on small instances, with the deployment's memory numbers: *)
(* a budget of 500 MB, a reserve of 150 MB, and a stage that grows by 150  *)
(* MB over an idle process of 250 MB (distributed/README.md).              *)
(***************************************************************************)
EXTENDS CapacityGuard
=============================================================================
