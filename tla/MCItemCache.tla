---------------------------- MODULE MCItemCache ----------------------------
(***************************************************************************)
(* Model checking ItemCache: ids and slots are interchangeable.            *)
(***************************************************************************)
EXTENDS ItemCache, TLC

Symmetry == Permutations(TaskIds) \cup Permutations(Slots)
=============================================================================
