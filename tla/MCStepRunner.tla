---------------------------- MODULE MCStepRunner ----------------------------
(* Every evidence of four items goes through the preparation; the profile  *)
(* steps run on those whose items lie directly in a ZIP or a folder: no    *)
(* location, one, two or three, with and without a Windows tree, searched  *)
(* to the end.                                                             *)
EXTENDS StepRunner

CONSTANTS i1, i2, i3, i4
MCItems == {i1, i2, i3, i4}
Order == <<i1, i2, i3, i4>>
MCSteps == {
    [chain |-> <<"tool", "native", "dissect">>, input |-> "evtx_dir",
     fallback |-> None, action |-> FALSE],
    [chain |-> <<"tool">>, input |-> "step", fallback |-> "evtx_dir", action |-> FALSE],
    [chain |-> <<"plugin">>, input |-> "target", fallback |-> None, action |-> FALSE],
    [chain |-> <<"engine">>, input |-> "evtx_dir", fallback |-> None, action |-> TRUE] }

Ordered == \A m \in 2..4 : within[Order[m]] \in {Order[n] : n \in 1..(m - 1)}
Flat ==
    /\ kind[Top] \in {"zip", "folder"}
    /\ \A i \in Items \ {Top} : within[i] = Top
    /\ kind[i2] \in {"logs", "orc"} /\ kind[i3] = kind[i2]
    /\ kind[i4] \in {"logs", "tree", "orc"}
(* A search that gives up is tried with an archive, a leaf and any item.   *)
Crowd == deep = {} /\ kind[i2] \in Archive /\ kind[i3] \in Leaf
MCInit ==
    PrepInit /\ Ordered /\ (crowded => Crowd) /\ StepInit /\ (step # None => Flat /\ ~crowded)
MCSpec == MCInit /\ [][Next]_vars
(* No profile step, and the evidence of Flat only.                         *)
MCFlatSpec == MCInit /\ step = None /\ Flat /\ [][Next]_vars
=============================================================================
