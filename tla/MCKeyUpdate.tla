---------------------------- MODULE MCKeyUpdate ----------------------------
(***************************************************************************)
(* Model checking KeyUpdate: a header with max-age in the second place, a  *)
(* zero one, one that is no number, and no header at all.  Lead is the     *)
(* least that TimeAssumption allows.                                       *)
(***************************************************************************)
EXTENDS KeyUpdate, TLC

Directive(name, value) == [name |-> name, value |-> value]

SomeHeaders ==
    {<<Directive("public", NULL), Directive("max-age", 2)>>,
     <<Directive("max-age", 0)>>,
     <<Directive("max-age", NULL)>>,
     << >>}

Symmetry == Permutations(Keys) \cup Permutations(Handles)
=============================================================================
