----------------------------- MODULE MCSessions -----------------------------
(* A name and the same with the prefix; one process that calls and one     *)
(* that manages; two evidence paths of one name, one below the first, and  *)
(* a link to that.                                                         *)
EXTENDS Sessions

CONSTANTS bare, full, d1, d2, d3, link
MCPrefixed == [n \in {bare, full} |-> IF n = bare THEN full ELSE Nothing]
MCReal == [p \in Paths |-> IF p = link THEN d3 ELSE p]
MCBelow == [p \in Paths |-> IF p = d1 THEN {d3} \cap Paths ELSE {}]
MCBase == [p \in Paths |-> IF p = d3 THEN "/evidence/b" ELSE "/evidence/a"]
=============================================================================
