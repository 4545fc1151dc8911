---------------------------- MODULE DagRefinement ----------------------------
(***************************************************************************)
(* Dag implements StepGraph: a step is active from the creation of its     *)
(* task until its verdict is in and its runner will not be called again.   *)
(***************************************************************************)
EXTENDS Dag

Phase(s) ==
  IF \/ stage[s] \in {"queued", "starting", "attempt", "backoff"}
     \/ stage[s] # "none" /\ ~Settled(s)
  THEN "active"
  ELSE IF status[s] = "pending" THEN "waiting" ELSE status[s]

\* An interrupt cancels the running steps just as the cancel event does.
Abstract == INSTANCE StepGraph WITH
              phase <- [s \in Steps |-> Phase(s)],
              cancelled <- cancelSet \/ main \in {"aborting", "raised"}

\* dag.py's docstring: every behaviour of the executor is a behaviour of the
\* contract (dependencies, propagation, cancellation, resume).
ImplementsStepGraph == Abstract!Spec
=============================================================================
