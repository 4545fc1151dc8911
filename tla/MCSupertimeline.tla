--------------------------- MODULE MCSupertimeline ---------------------------
(***************************************************************************)
(* Small instances of Supertimeline.                                       *)
(***************************************************************************)
EXTENDS Supertimeline, TLC

CONSTANTS j1, j2, h1, h2, p1, p2

Symmetry == Permutations(Params) \cup Permutations(Jobs)
=============================================================================
