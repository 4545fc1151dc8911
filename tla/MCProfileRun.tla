----------------------------- MODULE MCProfileRun -----------------------------
(***************************************************************************)
(* Small instances of ProfileRun: a few processes, two steps, one of them  *)
(* optional.                                                               *)
(***************************************************************************)
EXTENDS ProfileRun, TLC

\* Terminals are alike; so are the processes that have not been spawned yet.
Symmetry == Permutations(Clients) \cup Permutations(Workers)
=============================================================================
