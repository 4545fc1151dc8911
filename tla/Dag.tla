--------------------------------- MODULE Dag ---------------------------------
(***************************************************************************)
(* The dependency-aware executor of a profile, orchestrator/dag.py.        *)
(*                                                                         *)
(* `execute' is one asyncio coroutine (the main loop), one task per        *)
(* started step (`run_one') and one task that watches the cancel event.    *)
(* All of them share one event loop: the code between two awaits is        *)
(* atomic, and every await is a point where any other task may run.  The   *)
(* variable `main' says where the main loop is; while it is "scan" it      *)
(* holds the event loop and nothing else moves, so that the `for step in   *)
(* steps' pass can be written one iteration at a time.                     *)
(***************************************************************************)
EXTENDS Naturals, Sequences, FiniteSets

CONSTANTS
  Steps,          \* step ids
  Profiles,       \* the profiles a behaviour may be given, see ProfileOK
  MaxParallel,    \* max_parallel, already max(1, ...)
  NotifyMayFail   \* may on_update raise (database locked, disk full)?

ProfileOK(p) ==
  /\ p.order \in Seq(Steps)                       \* listing order in the YAML
  /\ \A s \in Steps : \E i \in 1..Len(p.order) : p.order[i] = s
  /\ p.needs \in [Steps -> SUBSET Steps]
  /\ p.optional \in SUBSET Steps
  /\ p.retries \in [Steps -> Nat]                 \* step.retries or default_retries

ASSUME StepsFinite == IsFiniteSet(Steps)
ASSUME ProfilesOK == \A p \in Profiles : ProfileOK(p)
ASSUME MaxParallelPos == MaxParallel \in Nat \ {0}
ASSUME NotifyMayFailBool == NotifyMayFail \in BOOLEAN

VARIABLES
  profile,     \* the profile given to execute; never changes
  previous,    \* steps recorded "completed" by an earlier run; never changes
  status,      \* StepResult.status
  attempts,    \* StepResult.attempts
  stage,       \* where the task of each step is, "none" when it has no task
  running,     \* keys of the `running' dict of tasks
  permits,     \* the semaphore
  cancelSet,   \* cancel_event
  fired,       \* watch_cancel has cancelled the running tasks
  cancelReq,   \* tasks with a CancelledError on its way
  main,        \* the main loop
  cursor       \* next position of the scan

vars == <<profile, previous, status, attempts, stage, running, permits,
          cancelSet, fired, cancelReq, main, cursor>>

TERMINAL == {"completed", "failed", "skipped", "cancelled", "timeout"}
Status   == {"pending", "running"} \cup TERMINAL
Failure  == {"failed", "timeout", "cancelled"}

\* Stages of run_one: waiting for the semaphore, in the first notify, in the
\* runner, in the backoff sleep, in the last notify, returned, ended by
\* CancelledError.
Stage == {"none", "queued", "starting", "attempt", "backoff", "ending",
          "returned", "cancelled"}
Over  == {"returned", "cancelled"}
Main  == {"scan", "wait", "closing", "aborting", "done", "raised"}

Order    == profile.order
Needs(s) == profile.needs[s]
Retries(s) == profile.retries[s]
Optional == profile.optional

Settled(s) == status[s] \in TERMINAL

\* Mutant of BlockingFailure: `optional' is not looked at.
BlockingFailureMutant(s) == \E n \in Needs(s) : status[n] \in Failure

BlockingFailure(s) ==
  \E n \in Needs(s) : status[n] \in Failure /\ n \notin Optional

\* `async with semaphore' holds the permit from "starting" to "backoff".
Holders == {s \in Steps : stage[s] \in {"starting", "attempt", "backoff"}}

Init ==
  /\ profile \in Profiles
  /\ previous \in SUBSET Steps
  /\ status = [s \in Steps |-> IF s \in previous THEN "completed" ELSE "pending"]
  /\ attempts = [s \in Steps |-> IF s \in previous THEN 1 ELSE 0]
  /\ stage = [s \in Steps |-> "none"]
  /\ running = {}
  /\ permits = MaxParallel
  /\ cancelSet \in BOOLEAN       \* a cancel may arrive during the preparation
  /\ fired = FALSE
  /\ cancelReq = {}
  /\ main = "scan"
  /\ cursor = 1

-----------------------------------------------------------------------------
(* The main loop: one pass over the steps, then wait for a task to end.    *)

Scanning(s) ==
  /\ main = "scan"
  /\ cursor \in 1..Len(Order)
  /\ s = Order[cursor]
  /\ cursor' = cursor + 1
  /\ UNCHANGED <<profile, previous, attempts, permits, cancelSet, fired,
                 cancelReq, main>>

\* Mutant of Undecided: the status is not looked at.
UndecidedMutant(s) == s \notin running

\* Neither started nor decided yet.
Undecided(s) == status[s] = "pending" /\ s \notin running

ScanPass(s) ==
  /\ Scanning(s)
  /\ \/ ~Undecided(s)
     \/ ~cancelSet /\ \E n \in Needs(s) : ~Settled(n)
  /\ UNCHANGED <<status, stage, running>>

ScanCancel(s) ==
  /\ Scanning(s)
  /\ Undecided(s)
  /\ cancelSet
  /\ status' = [status EXCEPT ![s] = "cancelled"]
  /\ UNCHANGED <<stage, running>>

\* Mutant of ScanSkip: a blocked step is passed over.
ScanSkipMutant(s) ==
  /\ Scanning(s)
  /\ Undecided(s)
  /\ ~cancelSet
  /\ \A n \in Needs(s) : Settled(n)
  /\ BlockingFailure(s)
  /\ UNCHANGED <<status, stage, running>>

ScanSkip(s) ==
  /\ Scanning(s)
  /\ Undecided(s)
  /\ ~cancelSet
  /\ \A n \in Needs(s) : Settled(n)
  /\ BlockingFailure(s)
  /\ status' = [status EXCEPT ![s] = "skipped"]
  /\ UNCHANGED <<stage, running>>

ScanStart(s) ==
  /\ Scanning(s)
  /\ Undecided(s)
  /\ ~cancelSet
  /\ \A n \in Needs(s) : Settled(n)
  /\ ~BlockingFailure(s)
  /\ running' = running \cup {s}
  /\ stage' = [stage EXCEPT ![s] = "queued"]
  /\ UNCHANGED status

\* Tasks are running: asyncio.wait(FIRST_COMPLETED).
AwaitTasks ==
  /\ main = "scan" /\ cursor > Len(Order)
  /\ running # {}
  /\ main' = "wait"
  /\ UNCHANGED <<profile, previous, status, attempts, stage, running, permits,
                 cancelSet, fired, cancelReq, cursor>>

\* Mutant of MarkStuck: the loop breaks without the final sweep.
MarkStuckMutant(verdict) == UNCHANGED status

\* Nothing runs any more: leave the loop; what is not settled is "stuck".
MarkStuck(verdict) ==
  status' = [s \in Steps |-> IF Settled(s) THEN status[s] ELSE verdict]

LeaveLoop ==
  /\ main = "scan" /\ cursor > Len(Order)
  /\ running = {}
  /\ MarkStuck(IF cancelSet THEN "cancelled" ELSE "skipped")
  /\ main' = "closing"
  /\ UNCHANGED <<profile, previous, attempts, stage, running, permits,
                 cancelSet, fired, cancelReq, cursor>>

\* Mutant of ReapDone: a cancelled task overwrites the verdict.
ReapDoneMutant ==
  LET ended == {s \in running : stage[s] \in Over}
  IN /\ main = "wait"
     /\ ended # {}
     /\ running' = running \ ended
     /\ status' = [s \in Steps |->
                     IF s \in ended /\ stage[s] = "cancelled"
                       THEN "cancelled" ELSE status[s]]
     /\ main' = "scan"
     /\ cursor' = 1
     /\ UNCHANGED <<profile, previous, attempts, stage, permits, cancelSet,
                    fired, cancelReq>>

\* asyncio.wait returns: pop every task that is over by now, scan again.
ReapDone ==
  LET ended == {s \in running : stage[s] \in Over}
  IN /\ main = "wait"
     /\ ended # {}
     /\ running' = running \ ended
     /\ status' = [s \in Steps |->
                     IF s \in ended /\ stage[s] = "cancelled" /\ ~Settled(s)
                       THEN "cancelled" ELSE status[s]]
     /\ main' = "scan"
     /\ cursor' = 1
     /\ UNCHANGED <<profile, previous, attempts, stage, permits, cancelSet,
                    fired, cancelReq>>

\* Ctrl-C on a foreground run: asyncio.run cancels the coroutine in its await;
\* the finally clause cancels every task of `running'.
Interrupt ==
  /\ \/ /\ main = "wait"
        /\ main' = "aborting"
        /\ cancelReq' = cancelReq \cup {s \in running : stage[s] \notin Over}
     \/ /\ main = "closing"
        /\ main' = "raised"
        /\ UNCHANGED cancelReq
  /\ UNCHANGED <<profile, previous, status, attempts, stage, running, permits,
                 cancelSet, fired, cursor>>

\* The last notify of the finally clause.
Close ==
  /\ \/ main = "closing" /\ main' = "done"
     \/ main = "closing" /\ NotifyMayFail /\ main' = "raised"
     \/ main = "aborting" /\ main' = "raised"
  /\ UNCHANGED <<profile, previous, status, attempts, stage, running, permits,
                 cancelSet, fired, cancelReq, cursor>>
-----------------------------------------------------------------------------
(* Cancellation.                                                           *)

\* SIGTERM handler, or the watcher of the run's row: cancel_event.set().
RequestCancel ==
  /\ main \notin {"scan", "done", "raised"}
  /\ ~cancelSet
  /\ cancelSet' = TRUE
  /\ UNCHANGED <<profile, previous, status, attempts, stage, running, permits,
                 fired, cancelReq, main, cursor>>

\* Mutant of WatchCancel: only the steps inside their runner are cancelled.
WatchCancelMutant ==
  /\ main = "wait"
  /\ cancelSet /\ ~fired
  /\ fired' = TRUE
  /\ cancelReq' = cancelReq \cup {s \in running : stage[s] = "attempt"}
  /\ UNCHANGED <<profile, previous, status, attempts, stage, running, permits,
                 cancelSet, main, cursor>>

WatchCancel ==
  /\ main = "wait"           \* the finally clause cancels the watcher
  /\ cancelSet /\ ~fired
  /\ fired' = TRUE
  /\ cancelReq' = cancelReq \cup {s \in running : stage[s] \notin Over}
  /\ UNCHANGED <<profile, previous, status, attempts, stage, running, permits,
                 cancelSet, main, cursor>>
-----------------------------------------------------------------------------
(* run_one: the task of one step.                                          *)

\* The task of s resumes normally; everything of the main loop stays.
Resumes(s, from) ==
  /\ main # "scan"
  /\ stage[s] = from
  /\ s \notin cancelReq
  /\ UNCHANGED <<profile, previous, running, cancelSet, fired, cancelReq,
                 main, cursor>>

Goto(s, to) == stage' = [stage EXCEPT ![s] = to]

\* Mutants of Acquire: without waiting for a permit; without the look at cancel_event.
AcquireUnbounded(s) ==
  /\ Resumes(s, "queued")
  /\ UNCHANGED attempts
  /\ \/ /\ cancelSet
        /\ status' = [status EXCEPT ![s] = "cancelled"]
        /\ Goto(s, "returned")
        /\ UNCHANGED permits
     \/ /\ ~cancelSet
        /\ status' = [status EXCEPT ![s] = "running"]
        /\ Goto(s, "starting")
        /\ permits' = permits - 1

AcquireBlindly(s) ==
  /\ Resumes(s, "queued")
  /\ permits > 0
  /\ status' = [status EXCEPT ![s] = "running"]
  /\ Goto(s, "starting")
  /\ permits' = permits - 1
  /\ UNCHANGED attempts

\* The permit is taken; a cancel seen now ends the step at once.
Acquire(s) ==
  /\ Resumes(s, "queued")
  /\ permits > 0
  /\ UNCHANGED attempts
  /\ \/ /\ cancelSet
        /\ status' = [status EXCEPT ![s] = "cancelled"]
        /\ Goto(s, "returned")
        /\ UNCHANGED permits
     \/ /\ ~cancelSet
        /\ status' = [status EXCEPT ![s] = "running"]
        /\ Goto(s, "starting")
        /\ permits' = permits - 1

\* First notify: its exception ends the task, which nobody ever looks at.
Notified(s) ==
  /\ Resumes(s, "starting")
  /\ UNCHANGED status
  /\ \/ /\ Goto(s, "attempt")
        /\ attempts' = [attempts EXCEPT ![s] = 1]
        /\ UNCHANGED permits
     \/ /\ NotifyMayFail
        /\ Goto(s, "returned")
        /\ permits' = permits + 1
        /\ UNCHANGED attempts

\* Mutant of AttemptEnds: a skipped step keeps the permit.
AttemptEndsLeaking(s) ==
  /\ Resumes(s, "attempt")
  /\ \E outcome \in {"completed", "skipped"} :
        /\ status' = [status EXCEPT ![s] = outcome]
        /\ permits' = IF outcome = "skipped" THEN permits ELSE permits + 1
  /\ Goto(s, "ending")
  /\ UNCHANGED attempts

\* The runner returned, or raised StepSkipped.
AttemptEnds(s) ==
  /\ Resumes(s, "attempt")
  /\ \E outcome \in {"completed", "skipped"} :
        status' = [status EXCEPT ![s] = outcome]
  /\ Goto(s, "ending")
  /\ permits' = permits + 1
  /\ UNCHANGED attempts

\* Mutant of AttemptFails: one retry too few.
AttemptFailsOffByOne(s) ==
  /\ Resumes(s, "attempt")
  /\ \E outcome \in {"failed", "timeout"} :
        status' = [status EXCEPT ![s] = outcome]
  /\ \/ attempts[s] < Retries(s) /\ Goto(s, "backoff") /\ UNCHANGED permits
     \/ attempts[s] >= Retries(s) /\ Goto(s, "ending") /\ permits' = permits + 1
  /\ UNCHANGED attempts

\* The runner raised or timed out: attempt again (after a sleep, unless a
\* cancel is requested: then the loop goes straight on) or give up.
AttemptFails(s) ==
  /\ Resumes(s, "attempt")
  /\ \E outcome \in {"failed", "timeout"} :
        status' = [status EXCEPT ![s] = outcome]
  /\ \/ /\ attempts[s] <= Retries(s)
        /\ ~cancelSet
        /\ Goto(s, "backoff")
        /\ UNCHANGED <<attempts, permits>>
     \/ /\ attempts[s] <= Retries(s)
        /\ cancelSet
        /\ attempts' = [attempts EXCEPT ![s] = @ + 1]
        /\ UNCHANGED <<stage, permits>>
     \/ /\ attempts[s] > Retries(s)
        /\ Goto(s, "ending")
        /\ permits' = permits + 1
        /\ UNCHANGED attempts

\* The backoff sleep is over: the runner is called again.
Retry(s) ==
  /\ Resumes(s, "backoff")
  /\ attempts' = [attempts EXCEPT ![s] = @ + 1]
  /\ Goto(s, "attempt")
  /\ UNCHANGED <<status, permits>>

\* Last notify, outside the semaphore: returning and raising end alike.
Return(s) ==
  /\ Resumes(s, "ending")
  /\ Goto(s, "returned")
  /\ UNCHANGED <<status, attempts, permits>>

\* Mutant of CancelDelivered: a task cancelled in its backoff keeps the permit.
CancelDeliveredLeaking(s) ==
  /\ main # "scan"
  /\ s \in cancelReq
  /\ cancelReq' = cancelReq \ {s}
  /\ Goto(s, "cancelled")
  /\ status' = IF stage[s] = "attempt"
                 THEN [status EXCEPT ![s] = "cancelled"] ELSE status
  /\ permits' = IF stage[s] \in {"starting", "attempt"} THEN permits + 1 ELSE permits
  /\ UNCHANGED <<profile, previous, attempts, running, cancelSet, fired, main,
                 cursor>>

\* CancelledError reaches the task at its await.
CancelDelivered(s) ==
  /\ main # "scan"
  /\ s \in cancelReq
  /\ cancelReq' = cancelReq \ {s}
  /\ Goto(s, "cancelled")
  /\ status' = IF stage[s] = "attempt"
                 THEN [status EXCEPT ![s] = "cancelled"] ELSE status
  /\ permits' = IF s \in Holders THEN permits + 1 ELSE permits
  /\ UNCHANGED <<profile, previous, attempts, running, cancelSet, fired, main,
                 cursor>>
-----------------------------------------------------------------------------
Scan(s) == ScanPass(s) \/ ScanCancel(s) \/ ScanSkip(s) \/ ScanStart(s)

MainLoop == AwaitTasks \/ LeaveLoop \/ ReapDone \/ Close

RunOne(s) == \/ Acquire(s) \/ Notified(s) \/ AttemptEnds(s) \/ AttemptFails(s)
             \/ Retry(s) \/ Return(s) \/ CancelDelivered(s)

Next == \/ \E s \in Steps : Scan(s) \/ RunOne(s)
        \/ MainLoop \/ Interrupt \/ RequestCancel \/ WatchCancel

Spec == Init /\ [][Next]_vars

\* The event loop runs every ready task, and each attempt ends: a step always
\* has a timeout (step.timeout or orchestrator.default_timeout).  A cancel or
\* an interrupt is never promised.
FairSpec ==
  /\ Spec
  /\ WF_vars(\E s \in Steps : Scan(s))
  /\ WF_vars(MainLoop)
  /\ WF_vars(WatchCancel)
  /\ \A s \in Steps : WF_vars(RunOne(s))
-----------------------------------------------------------------------------
(* Properties.                                                             *)

TypeOK ==
  /\ ProfileOK(profile)
  /\ previous \in SUBSET Steps
  /\ status \in [Steps -> Status]
  /\ attempts \in [Steps -> Nat]
  /\ stage \in [Steps -> Stage]
  /\ running \in SUBSET Steps
  /\ permits \in Nat
  /\ cancelSet \in BOOLEAN
  /\ fired \in BOOLEAN
  /\ cancelReq \in SUBSET Steps
  /\ main \in Main
  /\ cursor \in 1..(Len(Order) + 1)

\* The semaphore never loses or duplicates a permit, whichever way a task
\* ends (return, StepSkipped, exhausted retries, CancelledError at any await,
\* an exception of on_update): dag.py's `async with semaphore'.
PermitsAccounted == permits + Cardinality(Holders) = MaxParallel

\* At most max_parallel steps hold a permit, hence run a tool, at any time
\* (dag.py, "bounded parallelism").
BoundedParallelism == Cardinality(Holders) <= MaxParallel

\* A step recorded "completed" by an earlier run never gets a task and keeps
\* its result (dag.py, "resume").
ResumedNeverRun ==
  \A s \in previous : stage[s] = "none" /\ status[s] = "completed"

\* When execute returns, every step has a verdict and no task is left behind
\* that could still change one.
EndsSettled ==
  main = "done" => \A s \in Steps : Settled(s) /\ stage[s] \in {"none"} \cup Over

\* Without a cancel, a step is given up only after all its retries.
RetriesExhausted ==
  main = "done" /\ ~cancelSet =>
    \A s \in Steps :
      status[s] \in {"failed", "timeout"} => attempts[s] = Retries(s) + 1

\* The result of a step whose attempts are over never changes: reaping a task
\* whose cancellation came too late keeps the verdict of its runner, and the
\* final sweep touches undecided steps only.
VerdictIsFinal ==
  [][\A s \in Steps :
       Settled(s) /\ stage[s] \notin {"attempt", "backoff"}
         => status'[s] = status[s]]_vars

\* Once a cancel is requested no step is started: pending steps are decided
\* by the scan, queued ones by run_one's own check.
NoStartAfterCancel ==
  [][cancelSet => \A s \in Steps :
       stage'[s] \in {"queued", "starting"} => stage'[s] = stage[s]]_vars

\* Once watch_cancel has run, no runner is called again, not even for a retry:
\* every task alive at that moment was reached by the cancellation.
NoRunnerAfterCancel ==
  [][fired => \A s \in Steps :
       stage'[s] = "attempt" => stage[s] = "attempt"
                                /\ attempts'[s] = attempts[s]]_vars

\* In a profile whose needs are listed first, the final sweep of LeaveLoop
\* finds nothing: every step was started, skipped or cancelled by the scan.
NothingLeftStuck ==
  main = "scan" /\ cursor > Len(Order) /\ running = {}
    => \A s \in Steps : Settled(s)

\* dag.py:6: "a step starts once all its needs are settled".  While a need
\* is still being attempted, no dependent has been started or skipped.
NeedsFinishedFirst ==
  \A s \in Steps \ previous : \A n \in Needs(s) :
    stage[n] \in {"queued", "starting", "attempt", "backoff"}
      => stage[s] = "none" /\ status[s] # "skipped"

\* execute ends: every attempt has a timeout and retries are bounded.
Termination == <>(main \in {"done", "raised"})
=============================================================================
