-------------------------------- MODULE MCDag --------------------------------
(***************************************************************************)
(* Small instances of Dag: every dependency graph over three steps.        *)
(***************************************************************************)
EXTENDS DagRefinement

CONSTANTS a, b, c

NeedsAmong(list) ==
  {n \in [Steps -> SUBSET Steps] :
     \A s \in Steps : \A m \in n[s] :
       \E i, j \in 1..Len(list) : i < j /\ list[i] = m /\ list[j] = s}

NoRetry == [s \in Steps |-> 0]

ProfilesOver(orders, graphs, optionals, retries) ==
  {[order |-> o, needs |-> n, optional |-> opt, retries |-> r] :
     o \in orders, n \in graphs, opt \in optionals, r \in retries}

Graphs == NeedsAmong(<<a, b, c>>)
Fork == [s \in Steps |-> IF s = b THEN {a} ELSE {}]

\* As the built-in profiles are: needs listed first, no retry.  (Whether c is
\* optional makes no difference: no step needs it.)
ListedFirst == ProfilesOver({<<a, b, c>>}, Graphs, {{}, {a}}, {NoRetry})

\* Any listing order the validation of profile.py accepts, a retried once.
AnyOrder ==
  ProfilesOver({<<a, b, c>>, <<c, b, a>>}, Graphs, SUBSET {a},
               {[NoRetry EXCEPT ![a] = 1]})

\* One independent step c beside b, which needs the retried a.
RetriedNeed == ProfilesOver({<<a, b, c>>}, {Fork}, {{}}, {[NoRetry EXCEPT ![a] = 1]})
=============================================================================
