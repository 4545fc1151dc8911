---------------------------- MODULE MCCaseRecords ----------------------------
(* Two tasks of a profile run, a and b, and c, a command of its own.       *)
EXTENDS CaseRecords, TLC

CONSTANTS a, b, c, p, q, l, x, s1, s2, s3
MCProcess == (a :> p) @@ (b :> p) @@ (c :> q)
Alone == (a :> p) @@ (b :> q) @@ (c :> q)
MCOps == (a :> {"hunt", "scan", "watch", "case", "evidence", "host"}) @@ (b :> {"hunt"})
         @@ (c :> {"hunt", "start"})
Adding == [t \in {a, b, c} |-> IF t = c THEN {"evidence", "host", "watch"} ELSE {"case", "evidence", "start"}]
MCSlots == {s1, s2, s3}
Detection == [rule : {1, 2}, sev : {1, 3, 4, None}]
(* a reads any run whose first detection is of rule 1 and whose last is low; *)
(* b, one with one finding; c, one with two.                               *)
LowLast == [rule |-> 2, sev |-> 1]
TwoRules == {f \in [MCSlots -> Detection] : f[s1] = [rule |-> 1, sev |-> 4] /\ f[s2] = [rule |-> 2, sev |-> 3] /\ f[s3] = LowLast}
OneRule == {f \in [MCSlots -> Detection] : \A s \in MCSlots : f[s] = [rule |-> 1, sev |-> 3]}
MCRuns == (a :> {f \in [MCSlots -> Detection] : f[s1].rule = 1 /\ f[s3] = LowLast}) @@ (b :> OneRule) @@ (c :> TwoRules)
(* Up to three lines of one term, with limits of two.                      *)
MCLines == {f \in [MCSlots -> SUBSET {l, x}] : l \in f[s1]}
=============================================================================
