--------------------------- MODULE MCNormalization ---------------------------
(* Two runs; version 2 of the normalizer skips, retypes or adds records.    *)
EXTENDS Normalization, TLC

Rec(k, t) == [key |-> k, type |-> t]

RowsFixed ==
  << [r \in Runs |-> IF r = "r1" THEN <<Rec("a", "x"), Rec("a", "x"), Rec("b", "y")>>
                                 ELSE <<Rec("a", "x")>>],
     [r \in Runs |-> IF r = "r1" THEN <<Rec("a", "y"), Rec("a", Skipped), Rec("b", "y")>>
                                 ELSE <<Rec("a", "x")>>] >>

\* The new version also finds a record the old one did not see.
RowsGrown ==
  << RowsFixed[1],
     [r \in Runs |-> IF r = "r1" THEN <<Rec("c", "x")>> \o RowsFixed[1]["r1"]
                                 ELSE <<Rec("a", "x")>>] >>

OneProcess == [t \in Tasks |-> "p"]
Processes  == [t \in Tasks |-> t]

Symmetry == Permutations(Tasks)
=============================================================================
