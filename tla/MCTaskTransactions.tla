------------------------- MODULE MCTaskTransactions -------------------------
(***************************************************************************)
(* Model checking TaskTransactions: which requests may run at once.        *)
(***************************************************************************)
EXTENDS TaskTransactions, TLC

AnyOverlap == {{a, b} : a, b \in Ops}

Symmetry == Permutations(TaskIds) \cup Permutations(RecIds)
            \cup Permutations(Connections)
=============================================================================
