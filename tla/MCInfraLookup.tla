--------------------------- MODULE MCInfraLookup ---------------------------
(***************************************************************************)
(* InfraLookup with three threads, three areas and room for two of them.     *)
(***************************************************************************)
EXTENDS InfraLookup
=============================================================================
