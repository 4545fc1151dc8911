------------------------------ MODULE MCToolRuns ------------------------------
(***************************************************************************)
(* Small instances of ToolRuns: all tasks in process p, while q does other *)
(* things to the same database, or one task in each process.               *)
(***************************************************************************)
EXTENDS ToolRuns, TLC

CONSTANTS p, q, t1, t2, t3

OneProcess == [t \in Tasks |-> p]
TwoProcesses == [t \in Tasks |-> IF t = t1 THEN p ELSE q]
=============================================================================
