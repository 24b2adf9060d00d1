----------------------------- MODULE MCSyncEngine -----------------------------
(***************************************************************************)
(* An instance of the synchronization engine and of its refinement for     *)
(* TLC: one tracked file.                                                  *)
(***************************************************************************)
EXTENDS SyncEngineRefinement

CONSTANTS a
================================================================================
