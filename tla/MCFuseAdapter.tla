---------------------------- MODULE MCFuseAdapter ----------------------------
(* Two names and two requests at a time for the adapter.                   *)
EXTENDS FuseAdapter, TLC

CONSTANTS name1, name2, request1, request2

MCNames == {name1, name2}
MCTasks == {request1, request2}
MCSymmetry == Permutations(MCNames) \cup Permutations(MCTasks)
===============================================================================
