------------------------------ MODULE StepGraph ------------------------------
(***************************************************************************)
(* What the executor of orchestrator/dag.py promises, from the point of    *)
(* view of a profile's author: a step waits for its needs, then it is      *)
(* either run or skipped, and its verdict is final.  There is no event     *)
(* loop, no semaphore and no retry here.                                   *)
(***************************************************************************)
CONSTANTS Steps, Profiles

VARIABLES
  profile,    \* the dependencies and the optional steps
  phase,      \* "waiting", "active" or the verdict of each step
  cancelled   \* a cancel was asked for

vars == <<profile, phase, cancelled>>

Verdict == {"completed", "failed", "skipped", "cancelled", "timeout"}

Init ==
  /\ profile \in Profiles
  /\ phase \in [Steps -> {"waiting", "completed"}]   \* "completed": resumed
  /\ cancelled \in BOOLEAN

NeedsSettled(s) == \A n \in profile.needs[s] : phase[n] \in Verdict

Blocked(s) ==
  \E n \in profile.needs[s] :
    n \notin profile.optional /\ phase[n] \in {"failed", "timeout", "cancelled"}

Decide(s, from, to) ==
  /\ phase[s] = from
  /\ phase' = [phase EXCEPT ![s] = to]
  /\ UNCHANGED <<profile, cancelled>>

Start(s) == NeedsSettled(s) /\ ~Blocked(s) /\ ~cancelled
            /\ Decide(s, "waiting", "active")

Skip(s) == NeedsSettled(s) /\ Blocked(s) /\ Decide(s, "waiting", "skipped")

Finish(s) == \E v \in Verdict \ {"cancelled"} : Decide(s, "active", v)

AskCancel == cancelled' = TRUE /\ UNCHANGED <<profile, phase>>

\* A cancel decides any number of steps that have no verdict yet.
Cancel(S) ==
  /\ cancelled
  /\ \A s \in S : phase[s] \notin Verdict
  /\ phase' = [s \in Steps |-> IF s \in S THEN "cancelled" ELSE phase[s]]
  /\ UNCHANGED <<profile, cancelled>>

Next == \/ \E s \in Steps : Start(s) \/ Skip(s) \/ Finish(s)
        \/ AskCancel
        \/ \E S \in SUBSET Steps : Cancel(S)

Spec == Init /\ [][Next]_vars
=============================================================================
