---------------------------- MODULE MCEdgeHealth ----------------------------
(* EdgeHealth for TLC: a worker under the watchdog, the edge and the other  *)
(* worker on their own.                                                     *)
EXTENDS EdgeHealth
============================================================================
