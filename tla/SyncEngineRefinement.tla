------------------------- MODULE SyncEngineRefinement -------------------------
(***************************************************************************)
(* The synchronization engine implements the write-back promise: a file is *)
(* owed while a handle on it is open, its announcement is on its way, the  *)
(* worker holds it, or it waits for a user after a conflict.               *)
(***************************************************************************)
EXTENDS SyncEngine

OwedFiles == Tracked \cap (opened \cup Announced \cup Held \cup conflicted)

WB == INSTANCE WriteBack WITH
        Files  <- Tracked,
        local  <- [p \in Tracked |-> disk[p]],
        remote <- [p \in Tracked |-> synced[p]],
        owed   <- OwedFiles,
        lost   <- dropped \cap Tracked

(***************************************************************************)
(* Every step of the engine is a step of WriteBack or leaves it unchanged: *)
(* in particular mark_clean only ever settles files whose local content    *)
(* the remote has (sync_engine.rs:283-349).                                *)
(***************************************************************************)
ImplementsWriteBack == WB!Spec
================================================================================
