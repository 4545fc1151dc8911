----------------------------- MODULE MCRuleStore -----------------------------
(* A YARA release and a Sigma commit; the rule moves to the other file in    *)
(* version 2.                                                                *)
EXTENDS RuleStore, TLC

TwoSources == <<"yara", "sigma">>
Moving == [v \in 1..MaxVersion |-> IF v = 2 THEN "b" ELSE "a"]
Symmetry == Permutations(Scanners)
=============================================================================
