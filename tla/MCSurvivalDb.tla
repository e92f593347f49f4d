---------------------------- MODULE MCSurvivalDb ----------------------------
(***************************************************************************)
(* Model checking SurvivalDb: the sets are given in the .cfg files.        *)
(***************************************************************************)
EXTENDS SurvivalDbHistory, TLC

Symmetry == Permutations(Users) \cup Permutations(GroupIds)
            \cup Permutations(TaskIds) \cup Permutations(RecIds)
=============================================================================
