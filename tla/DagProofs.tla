------------------------------ MODULE DagProofs ------------------------------
(***************************************************************************)
(* Theorems about Dag, for every set of steps, every profile the           *)
(* validation accepts and every value of max_parallel.                     *)
(***************************************************************************)
EXTENDS DagRefinement, FiniteSetTheorems, TLAPS

USE DEF TERMINAL, Status, Failure, Stage, Over, Main

(***************************************************************************)
(* Type correctness.                                                       *)
(***************************************************************************)
\* Each action keeps every variable of dag.py's executor in its type; the
\* number of permits stays a natural number because a permit is only taken
\* when there is one.
LEMMA TypeStep == TypeOK /\ [Next]_vars => TypeOK'
<1> SUFFICES ASSUME TypeOK, [Next]_vars PROVE TypeOK'
  OBVIOUS
<1> USE DEF TypeOK
<1>1. ASSUME NEW s \in Steps, Scan(s) PROVE TypeOK'
  <2>1. Len(Order) \in Nat
    BY DEF ProfileOK, Order
  <2>4. Scanning(s)
    BY <1>1 DEF Scan, ScanPass, ScanCancel, ScanSkip, ScanStart
  <2>5. /\ cursor \in 1..Len(Order) /\ cursor' = cursor + 1
        /\ UNCHANGED <<profile, previous, attempts, permits, cancelSet, fired,
                       cancelReq, main>>
    BY <2>4 DEF Scanning
  <2>2. /\ status' \in [Steps -> Status]
        /\ stage' \in [Steps -> Stage]
        /\ running' \in SUBSET Steps
    BY <1>1 DEF Scan, ScanPass, ScanCancel, ScanSkip, ScanStart
  <2>3. cursor' \in 1..(Len(Order') + 1)
    BY <2>1, <2>5 DEF Order
  <2> QED BY <2>2, <2>3, <2>5
<1>2. ASSUME NEW s \in Steps, RunOne(s) PROVE TypeOK'
  <2>1. UNCHANGED <<profile, previous, running, cancelSet, fired, main, cursor>>
    BY <1>2 DEF RunOne, Acquire, Notified, AttemptEnds, AttemptFails, Retry,
                Return, CancelDelivered, Resumes
  <2>2. /\ status' \in [Steps -> Status]
        /\ stage' \in [Steps -> Stage]
        /\ cancelReq' \in SUBSET Steps
    BY SMTT(30), <1>2 DEF RunOne, Acquire, Notified, AttemptEnds, AttemptFails, Retry,
                Return, CancelDelivered, Resumes, Goto
  <2>3. permits' \in Nat
    BY <1>2 DEF RunOne, Acquire, Notified, AttemptEnds, AttemptFails, Retry,
                Return, CancelDelivered
  <2>4. attempts' \in [Steps -> Nat]
    BY <1>2 DEF RunOne, Acquire, Notified, AttemptEnds, AttemptFails, Retry,
                Return, CancelDelivered
  <2> QED BY <2>1, <2>2, <2>3, <2>4 DEF Order
<1>3. CASE AwaitTasks
  BY <1>3 DEF AwaitTasks, Order
<1>4. CASE LeaveLoop
  BY <1>4 DEF LeaveLoop, MarkStuck, Order
<1>5. CASE ReapDone
  <2>1. Len(Order) \in Nat
    BY DEF ProfileOK, Order
  <2> QED BY <1>5, <2>1 DEF ReapDone, Order
<1>6. CASE Close
  BY <1>6 DEF Close, Order
<1>7. CASE Interrupt
  BY <1>7 DEF Interrupt, Order
<1>8. CASE RequestCancel
  BY <1>8 DEF RequestCancel, Order
<1>9. CASE WatchCancel
  BY <1>9 DEF WatchCancel, Order
<1>10. CASE UNCHANGED vars
  BY <1>10 DEF vars, Order
<1> QED
  BY <1>1, <1>2, <1>3, <1>4, <1>5, <1>6, <1>7, <1>8, <1>9, <1>10
     DEF Next, MainLoop

\* The first state is well typed.
LEMMA TypeInit == Init => TypeOK
<1> SUFFICES ASSUME Init PROVE TypeOK
  OBVIOUS
<1>1. ProfileOK(profile)
  BY ProfilesOK DEF Init
<1>2. Len(Order) \in Nat
  BY <1>1 DEF ProfileOK, Order
<1>3. /\ status \in [Steps -> Status]
      /\ attempts \in [Steps -> Nat]
      /\ stage \in [Steps -> Stage]
  BY DEF Init
<1>4. permits \in Nat /\ cursor \in 1..(Len(Order) + 1)
  BY <1>2, MaxParallelPos DEF Init
<1>5. /\ previous \in SUBSET Steps /\ running \in SUBSET Steps
      /\ cancelReq \in SUBSET Steps
      /\ cancelSet \in BOOLEAN /\ fired \in BOOLEAN /\ main \in Main
  BY DEF Init
<1> QED
  BY <1>1, <1>3, <1>4, <1>5 DEF TypeOK

\* Every state of the executor is well typed.
THEOREM TypeCorrect == Spec => []TypeOK
BY TypeInit, TypeStep, PTL DEF Spec

(***************************************************************************)
(* The semaphore.                                                          *)
(***************************************************************************)
Holding == {"starting", "attempt", "backoff"}

\* A move of one task changes the set of holders by at most that task.
LEMMA HoldersAfter ==
  ASSUME stage \in [Steps -> Stage], NEW s \in Steps, NEW to \in Stage,
         stage' = [stage EXCEPT ![s] = to]
  PROVE  Holders' = IF to \in Holding THEN Holders \cup {s} ELSE Holders \ {s}
BY DEF Holders, Holding

\* The holders of permits are finitely many nodes, so they can be counted.
LEMMA HoldersFinite ==
  /\ IsFiniteSet(Holders)
  /\ Cardinality(Holders) \in Nat
BY StepsFinite, FS_Subset, FS_CardinalityType DEF Holders

\* The count of the holders after a task took, gave back or kept its permit.
LEMMA HoldersCount ==
  ASSUME stage \in [Steps -> Stage], NEW s \in Steps, NEW to \in Stage,
         stage' = [stage EXCEPT ![s] = to]
  PROVE  Cardinality(Holders') =
           Cardinality(Holders) + (IF to \in Holding THEN 1 ELSE 0)
                                - (IF s \in Holders THEN 1 ELSE 0)
<1>1. /\ Cardinality(Holders \cup {s}) =
           IF s \in Holders THEN Cardinality(Holders) ELSE Cardinality(Holders) + 1
      /\ Cardinality(Holders \ {s}) =
           IF s \in Holders THEN Cardinality(Holders) - 1 ELSE Cardinality(Holders)
  BY HoldersFinite, FS_AddElement, FS_RemoveElement
<1>2. Holders' = IF to \in Holding THEN Holders \cup {s} ELSE Holders \ {s}
  BY HoldersAfter
<1>3. CASE to \in Holding
  <2>1. Cardinality(Holders') = Cardinality(Holders \cup {s})
    BY <1>2, <1>3
  <2> QED BY <1>1, <1>3, <2>1, HoldersFinite
<1>4. CASE to \notin Holding
  <2>1. Cardinality(Holders') = Cardinality(Holders \ {s})
    BY <1>2, <1>4
  <2> QED BY <1>1, <1>4, <2>1, HoldersFinite
<1> QED BY <1>3, <1>4

\* Only tasks of `running' are alive: a queued, running or ending task has not
\* been reaped yet.
LiveAreRunning ==
  \A s \in Steps : stage[s] \notin {"none", "returned", "cancelled"} => s \in running

PermitsInv == TypeOK /\ LiveAreRunning /\ PermitsAccounted

\* No permit is out in the first state.
LEMMA PermitsInit == Init => LiveAreRunning /\ PermitsAccounted
<1> SUFFICES ASSUME Init PROVE LiveAreRunning /\ PermitsAccounted
  OBVIOUS
<1>1. Holders = {}
  BY DEF Init, Holders
<1>2. Cardinality(Holders) = 0
  BY <1>1, FS_EmptySet
<1> QED
  BY <1>2, MaxParallelPos DEF Init, LiveAreRunning, PermitsAccounted

\* Every step of the scheduler and of a worker keeps the permits accounted for.
LEMMA PermitsStep == PermitsInv /\ [Next]_vars => LiveAreRunning' /\ PermitsAccounted'
<1> SUFFICES ASSUME PermitsInv, [Next]_vars
             PROVE  LiveAreRunning' /\ PermitsAccounted'
  OBVIOUS
<1> USE DEF PermitsInv
<1>0. ASSUME UNCHANGED <<stage, permits>> PROVE PermitsAccounted'
  BY <1>0 DEF PermitsAccounted, Holders
<1>1. ASSUME NEW s \in Steps, Scan(s) PROVE LiveAreRunning' /\ PermitsAccounted'
  <2>1. CASE ScanStart(s)
    <3>1. s \notin running /\ stage' = [stage EXCEPT ![s] = "queued"]
          /\ running' = running \cup {s} /\ permits' = permits
      BY <2>1 DEF ScanStart, Scanning, Undecided
    <3>2. s \notin Holders
      BY <3>1 DEF LiveAreRunning, Holders
    <3>3. Holders' = Holders
      BY <3>1, <3>2 DEF TypeOK, Holders
    <3> QED
      BY <3>1, <3>3 DEF PermitsAccounted, LiveAreRunning, TypeOK
  <2>2. CASE ScanPass(s) \/ ScanCancel(s) \/ ScanSkip(s)
    <3>1. UNCHANGED <<stage, running, permits>>
      BY <2>2 DEF ScanPass, ScanCancel, ScanSkip, Scanning
    <3> QED
      BY <3>1, <1>0 DEF LiveAreRunning
  <2> QED BY <1>1, <2>1, <2>2 DEF Scan
<1>2. ASSUME NEW s \in Steps, RunOne(s) PROVE LiveAreRunning' /\ PermitsAccounted'
  <2>1. PICK to \in Stage :
          /\ stage' = [stage EXCEPT ![s] = to]
          /\ permits' = permits + (IF s \in Holders THEN 1 ELSE 0)
                                - (IF to \in Holding THEN 1 ELSE 0)
          /\ to \in {"none", "returned", "cancelled"} \/ stage[s] \notin Over \cup {"none"}
    <3>1. CASE Acquire(s)
      BY <3>1 DEF Acquire, Resumes, Goto, Holders, Holding, TypeOK
    <3>2. CASE Notified(s)
      BY <3>2 DEF Notified, Resumes, Goto, Holders, Holding, TypeOK
    <3>3. CASE AttemptEnds(s)
      BY <3>3 DEF AttemptEnds, Resumes, Goto, Holders, Holding, TypeOK
    <3>4. CASE AttemptFails(s)
      <4>1. stage[s] = "attempt" /\ s \in Holders
        BY <3>4 DEF AttemptFails, Resumes, Holders
      <4>2. \/ stage' = [stage EXCEPT ![s] = "backoff"] /\ permits' = permits
            \/ stage' = [stage EXCEPT ![s] = "attempt"] /\ permits' = permits
            \/ stage' = [stage EXCEPT ![s] = "ending"] /\ permits' = permits + 1
        BY <3>4, <4>1 DEF AttemptFails, Goto, TypeOK
      <4> QED BY <4>1, <4>2 DEF Holding, TypeOK
    <3>5. CASE Retry(s)
      BY <3>5 DEF Retry, Resumes, Goto, Holders, Holding, TypeOK
    <3>6. CASE Return(s)
      BY <3>6 DEF Return, Resumes, Goto, Holders, Holding, TypeOK
    <3>7. CASE CancelDelivered(s)
      BY <3>7 DEF CancelDelivered, Goto, Holding, TypeOK
    <3> QED BY <1>2, <3>1, <3>2, <3>3, <3>4, <3>5, <3>6, <3>7 DEF RunOne
  <2>2. running' = running
    BY <1>2 DEF RunOne, Acquire, Notified, AttemptEnds, AttemptFails, Retry,
                Return, CancelDelivered, Resumes
  <2>3. LiveAreRunning'
    BY <2>1, <2>2 DEF LiveAreRunning, TypeOK
  <2>4. Cardinality(Holders') =
           Cardinality(Holders) + (IF to \in Holding THEN 1 ELSE 0)
                                - (IF s \in Holders THEN 1 ELSE 0)
    BY <2>1, HoldersCount DEF TypeOK
  <2>5. PermitsAccounted'
    BY <2>1, <2>4, HoldersFinite, MaxParallelPos DEF PermitsAccounted, TypeOK
  <2> QED BY <2>3, <2>5
<1>3. CASE ReapDone
  <2>1. UNCHANGED <<stage, permits>> /\ running' = running \ {s \in running : stage[s] \in Over}
    BY <1>3 DEF ReapDone
  <2> QED BY <2>1, <1>0 DEF LiveAreRunning
<1>4. CASE AwaitTasks \/ LeaveLoop \/ Close \/ Interrupt \/ RequestCancel
           \/ WatchCancel \/ UNCHANGED vars
  <2>1. UNCHANGED <<stage, running, permits>>
    BY <1>4 DEF AwaitTasks, LeaveLoop, Close, Interrupt, RequestCancel,
                WatchCancel, vars
  <2> QED BY <2>1, <1>0 DEF LiveAreRunning
<1> QED
  BY <1>1, <1>2, <1>3, <1>4 DEF Next, MainLoop

\* Whichever way tasks end, permits and holders add up to max_parallel.
THEOREM PermitsConserved == Spec => []PermitsAccounted
<1>1. Init => PermitsInv
  BY TypeInit, PermitsInit DEF PermitsInv
<1>2. PermitsInv /\ [Next]_vars => PermitsInv'
  BY TypeStep, PermitsStep DEF PermitsInv
<1>3. PermitsInv => PermitsAccounted
  BY DEF PermitsInv
<1> QED BY <1>1, <1>2, <1>3, PTL DEF Spec

\* At most max_parallel steps run at once.
THEOREM ParallelismBounded == Spec => []BoundedParallelism
<1>1. TypeOK /\ PermitsAccounted => BoundedParallelism
  BY HoldersFinite, MaxParallelPos DEF TypeOK, PermitsAccounted, BoundedParallelism
<1> QED BY <1>1, TypeCorrect, PermitsConserved, PTL

(***************************************************************************)
(* Verdicts and cancellation.                                              *)
(***************************************************************************)
Live == {"queued", "starting", "attempt", "backoff", "ending"}

\* A CancelledError is only on its way to a task that is still alive.
CancelReqLive == \A s \in cancelReq : stage[s] \in Live

\* What run_one has written into the result before each of its awaits.
StageStatus ==
  \A s \in Steps : /\ stage[s] = "queued" => status[s] = "pending"
                   /\ stage[s] = "starting" => status[s] = "running"
                   /\ s \in running => stage[s] # "none"

\* After the sweep nothing runs and everything is settled.
Swept ==
  main \in {"closing", "done"} => running = {} /\ \A s \in Steps : Settled(s)

\* Once the watcher has run, a CancelledError is on its way to every live task.
CancelReachesAll ==
  fired => cancelSet /\ \A s \in Steps : stage[s] \in Live => s \in cancelReq

VerdictInv == /\ TypeOK /\ LiveAreRunning /\ CancelReqLive /\ StageStatus
              /\ Swept /\ CancelReachesAll /\ ResumedNeverRun

\* No verdict has been given in the first state.
LEMMA VerdictInit == Init => VerdictInv
<1> SUFFICES ASSUME Init PROVE VerdictInv
  OBVIOUS
<1>1. TypeOK
  BY TypeInit
<1> QED
  BY <1>1 DEF Init, VerdictInv, LiveAreRunning, CancelReqLive, StageStatus,
              Swept, CancelReachesAll, ResumedNeverRun, Settled

\* What one resumption of the task of s does, whichever it is: the task was
\* alive, no other step is touched, and before the end of its attempts its
\* result only changes as StageStatus says.
LEMMA RunOneEffect ==
  ASSUME TypeOK, CancelReqLive, NEW s \in Steps, RunOne(s)
  PROVE  /\ stage[s] \in Live /\ main # "scan"
         /\ UNCHANGED <<profile, previous, running, cancelSet, fired, main, cursor>>
         /\ \A t \in Steps \ {s} : stage'[t] = stage[t] /\ status'[t] = status[t]
         /\ \A t \in Steps \ {s} : attempts'[t] = attempts[t]
         /\ stage'[s] \notin {"none", "queued"}
         /\ stage'[s] = "starting" => status'[s] = "running" /\ stage[s] = "queued"
         /\ stage[s] \in {"backoff", "ending"} => status'[s] = status[s]
         /\ s \in cancelReq => /\ stage'[s] = "cancelled" /\ cancelReq' = cancelReq \ {s}
         /\ s \notin cancelReq => cancelReq' = cancelReq
         /\ cancelSet => stage'[s] # "starting"
<1> USE DEF TypeOK, Live
<1>1. CASE Acquire(s)
  BY <1>1 DEF Acquire, Resumes, Goto
<1>2. CASE Notified(s)
  BY <1>2 DEF Notified, Resumes, Goto
<1>3. CASE AttemptEnds(s)
  BY <1>3 DEF AttemptEnds, Resumes, Goto
<1>4. CASE AttemptFails(s)
  BY <1>4 DEF AttemptFails, Resumes, Goto
<1>5. CASE Retry(s)
  BY <1>5 DEF Retry, Resumes, Goto
<1>6. CASE Return(s)
  BY <1>6 DEF Return, Resumes, Goto
<1>7. CASE CancelDelivered(s)
  BY <1>7 DEF CancelDelivered, CancelReqLive, Goto
<1> QED BY <1>1, <1>2, <1>3, <1>4, <1>5, <1>6, <1>7 DEF RunOne

\* What one iteration of the scan does: it only touches a step that has
\* neither a verdict nor a task, and starts it only without a cancel.
LEMMA ScanEffect ==
  ASSUME TypeOK, NEW s \in Steps, Scan(s)
  PROVE  /\ main = "scan" /\ main' = "scan"
         /\ UNCHANGED <<previous, attempts, cancelSet, fired, cancelReq>>
         /\ \A t \in Steps \ {s} : stage'[t] = stage[t] /\ status'[t] = status[t]
         /\ \/ UNCHANGED <<status, stage, running>>
            \/ Undecided(s) /\ Settled(s)' /\ UNCHANGED <<stage, running>>
            \/ /\ Undecided(s) /\ ~cancelSet /\ running' = running \cup {s}
               /\ stage' = [stage EXCEPT ![s] = "queued"] /\ status' = status
<1> USE DEF TypeOK
<1>1. CASE ScanPass(s)
  BY <1>1 DEF ScanPass, Scanning
<1>2. CASE ScanCancel(s)
  BY <1>2 DEF ScanCancel, Scanning, Settled
<1>3. CASE ScanSkip(s)
  BY <1>3 DEF ScanSkip, Scanning, Settled
<1>4. CASE ScanStart(s)
  BY <1>4 DEF ScanStart, Scanning
<1> QED BY <1>1, <1>2, <1>3, <1>4 DEF Scan

\* Every step keeps the verdicts explained.
LEMMA VerdictStep == VerdictInv /\ [Next]_vars => VerdictInv'
<1> SUFFICES ASSUME VerdictInv, [Next]_vars PROVE VerdictInv'
  OBVIOUS
<1> USE DEF VerdictInv
<1>0. TypeOK'
  BY TypeStep
<1>1. ASSUME NEW s \in Steps, Scan(s) PROVE VerdictInv'
  <2>1. /\ main = "scan" /\ main' = "scan"
        /\ UNCHANGED <<previous, attempts, cancelSet, fired, cancelReq>>
        /\ \A t \in Steps \ {s} : stage'[t] = stage[t] /\ status'[t] = status[t]
    BY <1>1, ScanEffect
  <2>2. CASE UNCHANGED <<status, stage, running>>
    BY <1>0, <2>1, <2>2 DEF LiveAreRunning, CancelReqLive, StageStatus, Swept,
                            CancelReachesAll, ResumedNeverRun
  <2>3. CASE Undecided(s) /\ Settled(s)' /\ UNCHANGED <<stage, running>>
    <3>1. stage[s] \notin Live /\ s \notin previous
      BY <2>3 DEF LiveAreRunning, ResumedNeverRun, Undecided, Live
    <3>2. StageStatus' /\ ResumedNeverRun'
      BY <2>1, <2>3, <3>1 DEF StageStatus, ResumedNeverRun, Live, TypeOK
    <3> QED
      BY <1>0, <2>1, <2>3, <3>2 DEF LiveAreRunning, CancelReqLive, Swept,
                                    CancelReachesAll
  <2>4. CASE /\ Undecided(s) /\ ~cancelSet /\ running' = running \cup {s}
             /\ stage' = [stage EXCEPT ![s] = "queued"] /\ status' = status
    BY <1>0, <2>1, <2>4 DEF LiveAreRunning, CancelReqLive, StageStatus, Swept,
         CancelReachesAll, ResumedNeverRun, Undecided, TypeOK, Live
  <2> QED BY <1>1, <2>2, <2>3, <2>4, ScanEffect
<1>2. ASSUME NEW s \in Steps, RunOne(s) PROVE VerdictInv'
  <2>1. LiveAreRunning' /\ StageStatus'
    BY <1>2, RunOneEffect DEF LiveAreRunning, StageStatus, Live
  <2>2. CancelReqLive'
    BY <1>2, RunOneEffect DEF CancelReqLive, TypeOK, Live
  <2>3. Swept'
    BY <1>2, RunOneEffect DEF Swept, LiveAreRunning, Live
  <2>4. CancelReachesAll'
    BY <1>2, RunOneEffect DEF CancelReachesAll, TypeOK, Live
  <2>5. ResumedNeverRun'
    BY <1>2, RunOneEffect DEF ResumedNeverRun, TypeOK, Live
  <2> QED BY <1>0, <2>1, <2>2, <2>3, <2>4, <2>5
<1>3. CASE ReapDone
  BY <1>0, <1>3 DEF ReapDone, LiveAreRunning, CancelReqLive, StageStatus, Swept,
                    CancelReachesAll, ResumedNeverRun, Settled, TypeOK
<1>4. CASE LeaveLoop
  BY <1>0, <1>4 DEF LeaveLoop, MarkStuck, LiveAreRunning, CancelReqLive,
                    StageStatus, Swept, CancelReachesAll, ResumedNeverRun,
                    Settled, TypeOK
<1>5. CASE AwaitTasks \/ Close \/ RequestCancel \/ UNCHANGED vars
  BY <1>0, <1>5 DEF AwaitTasks, Close, RequestCancel, vars, LiveAreRunning,
                    CancelReqLive, StageStatus, Swept, CancelReachesAll,
                    ResumedNeverRun, Settled
<1>6. CASE Interrupt \/ WatchCancel
  BY <1>0, <1>6 DEF Interrupt, WatchCancel, LiveAreRunning, CancelReqLive,
                    StageStatus, Swept, CancelReachesAll, ResumedNeverRun,
                    Settled, Live, TypeOK
<1> QED
  BY <1>1, <1>2, <1>3, <1>4, <1>5, <1>6 DEF Next, MainLoop

\* The inductive invariant of the executor always holds.
THEOREM VerdictInvariant == Spec => []VerdictInv
BY VerdictInit, VerdictStep, PTL DEF Spec

\* A step completed by an earlier run is never given a task.
THEOREM ResumedStepsKept == Spec => []ResumedNeverRun
<1>1. VerdictInv => ResumedNeverRun
  BY DEF VerdictInv
<1> QED BY <1>1, VerdictInvariant, PTL

\* execute returns only when every step has a verdict and no task is alive.
THEOREM ReturnsSettled == Spec => []EndsSettled
<1>1. VerdictInv => EndsSettled
  BY DEF VerdictInv, Swept, LiveAreRunning, EndsSettled, TypeOK
<1> QED BY <1>1, VerdictInvariant, PTL

\* A verdict never changes once the attempts of its step are over.
THEOREM VerdictsFinal == Spec => VerdictIsFinal
<1> DEFINE Kept == \A s \in Steps :
             Settled(s) /\ stage[s] \notin {"attempt", "backoff"}
               => status'[s] = status[s]
<1>1. VerdictInv /\ [Next]_vars => [Kept]_vars
  <2> SUFFICES ASSUME VerdictInv, [Next]_vars, NEW s \in Steps,
                      Settled(s), stage[s] \notin {"attempt", "backoff"}
               PROVE  status'[s] = status[s]
    OBVIOUS
  <2> USE DEF VerdictInv
  <2>1. ASSUME NEW t \in Steps, Scan(t) PROVE status'[s] = status[s]
    BY <2>1, ScanEffect DEF Undecided, Settled
  <2>2. ASSUME NEW t \in Steps, RunOne(t) PROVE status'[s] = status[s]
    BY <2>2, RunOneEffect DEF StageStatus, Settled, Live
  <2>3. CASE LeaveLoop \/ ReapDone
    BY <2>3 DEF LeaveLoop, ReapDone, MarkStuck, TypeOK
  <2>4. CASE AwaitTasks \/ Close \/ Interrupt \/ RequestCancel \/ WatchCancel
             \/ UNCHANGED vars
    BY <2>4 DEF AwaitTasks, Close, Interrupt, RequestCancel, WatchCancel, vars
  <2> QED BY <2>1, <2>2, <2>3, <2>4 DEF Next, MainLoop
<1> QED BY <1>1, VerdictInvariant, PTL DEF Spec, VerdictIsFinal

\* After the watcher has run, no runner is called again.
THEOREM CancelStopsRunners == Spec => NoRunnerAfterCancel
<1> DEFINE Stopped == fired => \A s \in Steps :
             stage'[s] = "attempt" => stage[s] = "attempt"
                                      /\ attempts'[s] = attempts[s]
<1>1. VerdictInv /\ [Next]_vars => [Stopped]_vars
  <2> SUFFICES ASSUME VerdictInv, [Next]_vars, fired, NEW s \in Steps,
                      stage'[s] = "attempt"
               PROVE  stage[s] = "attempt" /\ attempts'[s] = attempts[s]
    OBVIOUS
  <2> USE DEF VerdictInv
  <2>1. ASSUME NEW t \in Steps, Scan(t)
        PROVE  stage[s] = "attempt" /\ attempts'[s] = attempts[s]
    BY <2>1, ScanEffect DEF TypeOK
  <2>2. ASSUME NEW t \in Steps, RunOne(t)
        PROVE  stage[s] = "attempt" /\ attempts'[s] = attempts[s]
    BY <2>2, RunOneEffect DEF CancelReachesAll
  <2>3. CASE MainLoop \/ Interrupt \/ RequestCancel \/ WatchCancel \/ UNCHANGED vars
    BY <2>3 DEF MainLoop, AwaitTasks, LeaveLoop, ReapDone, Close, Interrupt,
                RequestCancel, WatchCancel, vars
  <2> QED BY <2>1, <2>2, <2>3 DEF Next
<1> QED BY <1>1, VerdictInvariant, PTL DEF Spec, NoRunnerAfterCancel

\* After a cancel was requested, no step is started.
THEOREM CancelStopsStarts == Spec => NoStartAfterCancel
<1> DEFINE Refused == cancelSet => \A s \in Steps :
             stage'[s] \in {"queued", "starting"} => stage'[s] = stage[s]
<1>1. VerdictInv /\ [Next]_vars => [Refused]_vars
  <2> SUFFICES ASSUME VerdictInv, [Next]_vars, cancelSet, NEW s \in Steps,
                      stage'[s] \in {"queued", "starting"}
               PROVE  stage'[s] = stage[s]
    OBVIOUS
  <2> USE DEF VerdictInv
  <2>1. ASSUME NEW t \in Steps, Scan(t) PROVE stage'[s] = stage[s]
    BY <2>1, ScanEffect
  <2>2. ASSUME NEW t \in Steps, RunOne(t) PROVE stage'[s] = stage[s]
    BY <2>2, RunOneEffect
  <2>3. CASE MainLoop \/ Interrupt \/ RequestCancel \/ WatchCancel \/ UNCHANGED vars
    BY <2>3 DEF MainLoop, AwaitTasks, LeaveLoop, ReapDone, Close, Interrupt,
                RequestCancel, WatchCancel, vars
  <2> QED BY <2>1, <2>2, <2>3 DEF Next
<1> QED BY <1>1, VerdictInvariant, PTL DEF Spec, NoStartAfterCancel

(***************************************************************************)
(* Retries.                                                                *)
(***************************************************************************)
\* Nobody has cancelled or interrupted the execution.
Unhindered == ~cancelSet /\ main \notin {"aborting", "raised"}

\* How many attempts a step has had where its task is.
Counted(s) ==
  /\ stage[s] \in {"none", "queued", "starting"} => status[s] \notin {"failed", "timeout"}
  /\ stage[s] = "attempt" => attempts[s] \in 1..(Retries(s) + 1)
  /\ stage[s] = "backoff" => attempts[s] \in 1..Retries(s)
  /\ stage[s] \in {"ending", "returned", "cancelled"} =>
       (status[s] \in {"failed", "timeout"} => attempts[s] = Retries(s) + 1)

RetryInv ==
  /\ Unhindered => cancelReq = {}
  /\ Unhindered => \A s \in Steps : Counted(s)

\* A resumption counts the attempts of its step.
LEMMA RunOneCounts ==
  ASSUME VerdictInv, NEW s \in Steps, RunOne(s), Counted(s), cancelReq = {}, ~cancelSet
  PROVE  Counted(s)'
<1>0. /\ attempts[s] \in Nat /\ Retries(s) \in Nat /\ Retries(s)' = Retries(s)
      /\ stage \in [Steps -> Stage] /\ status \in [Steps -> Status]
      /\ attempts \in [Steps -> Nat] /\ profile' = profile
  <2>1. profile' = profile /\ TypeOK
    BY RunOneEffect DEF VerdictInv
  <2> QED BY <2>1 DEF TypeOK, ProfileOK, Retries
<1>1. CASE Acquire(s)
  BY <1>0, <1>1 DEF Acquire, Resumes, Goto, Counted
<1>2. CASE Notified(s)
  <2>1. stage[s] = "starting" /\ status' = status /\ status[s] = "running"
    BY <1>2 DEF Notified, Resumes, VerdictInv, StageStatus
  <2>2. CASE stage' = [stage EXCEPT ![s] = "attempt"] /\ attempts' = [attempts EXCEPT ![s] = 1]
    <3>1. stage'[s] = "attempt" /\ attempts'[s] = 1
      BY <1>0, <2>2
    <3> QED BY <1>0, <3>1 DEF Counted
  <2>3. CASE stage' = [stage EXCEPT ![s] = "returned"]
    BY <1>0, <2>1, <2>3 DEF Counted
  <2> QED BY <1>2, <2>2, <2>3 DEF Notified, Goto
<1>3. CASE AttemptEnds(s)
  BY <1>0, <1>3 DEF AttemptEnds, Resumes, Goto, Counted
<1>4. CASE AttemptFails(s)
  <2>1. stage[s] = "attempt" /\ attempts[s] \in 1..(Retries(s) + 1)
    BY <1>4 DEF AttemptFails, Resumes, Counted
  <2>2. CASE attempts[s] <= Retries(s) /\ stage' = [stage EXCEPT ![s] = "backoff"] /\ attempts' = attempts
    <3>1. stage'[s] = "backoff" /\ attempts'[s] \in 1..Retries(s)
      BY <1>0, <2>1, <2>2
    <3> QED BY <1>0, <3>1 DEF Counted
  <2>3. CASE attempts[s] > Retries(s) /\ stage' = [stage EXCEPT ![s] = "ending"] /\ attempts' = attempts
    <3>1. stage'[s] = "ending" /\ attempts'[s] = Retries(s) + 1
      BY <1>0, <2>1, <2>3
    <3> QED BY <1>0, <3>1 DEF Counted
  <2> QED BY <1>4, <2>2, <2>3 DEF AttemptFails, Goto
<1>5. CASE Retry(s)
  <2>1. attempts[s] \in 1..Retries(s)
    BY <1>5 DEF Retry, Resumes, Counted
  <2>2. stage'[s] = "attempt" /\ attempts'[s] = attempts[s] + 1
    BY <1>0, <1>5 DEF Retry, Goto
  <2>3. attempts'[s] \in 1..(Retries(s) + 1)
    BY <1>0, <2>1, <2>2
  <2> QED BY <1>0, <2>2, <2>3 DEF Counted
<1>6. CASE Return(s)
  BY <1>0, <1>6 DEF Return, Resumes, Goto, Counted
<1>7. CASE CancelDelivered(s)
  BY <1>7 DEF CancelDelivered
<1> QED BY <1>1, <1>2, <1>3, <1>4, <1>5, <1>6, <1>7 DEF RunOne

\* Every step keeps the count of the attempts.
LEMMA RetryStep == ASSUME VerdictInv, RetryInv, [Next]_vars PROVE RetryInv'
<1>0. TypeOK
  BY DEF VerdictInv
<1>p. profile' = profile
  BY DEF Next, Scan, ScanPass, ScanCancel, ScanSkip, ScanStart, Scanning, RunOne, Acquire,
         Notified, AttemptEnds, AttemptFails, Retry, Return, Resumes, CancelDelivered, MainLoop,
         AwaitTasks, LeaveLoop, ReapDone, Close, Interrupt, RequestCancel, WatchCancel, vars
<1>k. ASSUME NEW s \in Steps, Counted(s), attempts' = attempts, stage'[s] = stage[s],
             status'[s] = status[s] \/ status'[s] \notin {"failed", "timeout"}
      PROVE  Counted(s)'
  BY <1>k, <1>p DEF Counted, Retries
<1>1. ASSUME NEW s \in Steps, Scan(s) PROVE RetryInv'
  <2>1. /\ main = "scan" /\ main' = "scan"
        /\ UNCHANGED <<previous, attempts, cancelSet, fired, cancelReq>>
        /\ \A t \in Steps \ {s} : stage'[t] = stage[t] /\ status'[t] = status[t]
    BY <1>0, <1>1, ScanEffect
  <2>2. CASE UNCHANGED <<status, stage, running>>
    BY <1>k, <2>1, <2>2 DEF RetryInv, Unhindered
  <2>3. CASE Undecided(s) /\ UNCHANGED <<stage, running>>
    <3>1. status'[s] \notin {"failed", "timeout"}
      BY <1>0, <1>1, <2>3 DEF Scan, ScanPass, ScanCancel, ScanSkip, ScanStart, TypeOK, Undecided
    <3> QED BY <1>k, <2>1, <2>3, <3>1 DEF RetryInv, Unhindered
  <2>4. CASE Undecided(s) /\ stage' = [stage EXCEPT ![s] = "queued"] /\ status' = status
    <3>1. stage'[s] = "queued" /\ status'[s] = "pending"
      BY <1>0, <2>4 DEF TypeOK, Undecided
    <3>2. Counted(s)'
      BY <3>1 DEF Counted
    <3> QED BY <1>k, <2>1, <2>4, <3>2 DEF RetryInv, Unhindered
  <2> QED BY <1>0, <1>1, <2>2, <2>3, <2>4, ScanEffect
<1>2. ASSUME NEW s \in Steps, RunOne(s) PROVE RetryInv'
  <2>1. /\ UNCHANGED <<cancelSet, main>>
        /\ \A t \in Steps \ {s} : stage'[t] = stage[t] /\ status'[t] = status[t]
                                  /\ attempts'[t] = attempts[t]
        /\ cancelReq' \subseteq cancelReq
    BY <1>0, <1>2, RunOneEffect DEF VerdictInv
  <2>2. ASSUME NEW t \in Steps \ {s}, Counted(t) PROVE Counted(t)'
    BY <1>p, <2>1, <2>2 DEF Counted, Retries
  <2>3. Unhindered => Counted(s)'
    BY <1>2, RunOneCounts DEF RetryInv, Unhindered
  <2> QED BY <2>1, <2>2, <2>3 DEF RetryInv, Unhindered
<1>3. CASE ReapDone
  BY <1>0, <1>3, <1>k DEF ReapDone, TypeOK, RetryInv, Unhindered
<1>4. CASE LeaveLoop
  BY <1>0, <1>4, <1>k DEF LeaveLoop, MarkStuck, TypeOK, RetryInv, Unhindered
<1>5. CASE AwaitTasks \/ Close \/ RequestCancel \/ UNCHANGED vars
  BY <1>5, <1>k DEF AwaitTasks, Close, RequestCancel, vars, RetryInv, Unhindered
<1>6. CASE Interrupt \/ WatchCancel
  BY <1>6, <1>k DEF Interrupt, WatchCancel, RetryInv, Unhindered
<1> QED BY <1>1, <1>2, <1>3, <1>4, <1>5, <1>6 DEF Next, MainLoop

\* Without a cancel a step is given up only after all its retries: RetriesExhausted,
\* for every profile and number of retries.
THEOREM RetriesAreExhausted == Spec => []RetriesExhausted
<1>1. Init => RetryInv
  BY DEF Init, RetryInv, Counted
<1>2. VerdictInv /\ RetryInv /\ [Next]_vars => RetryInv'
  BY RetryStep
<1>3. VerdictInv /\ RetryInv => RetriesExhausted
  <2> SUFFICES ASSUME VerdictInv, RetryInv, main = "done", ~cancelSet, NEW s \in Steps,
                      status[s] \in {"failed", "timeout"}
               PROVE  attempts[s] = Retries(s) + 1
    BY DEF RetriesExhausted
  <2>1. Counted(s)
    BY DEF RetryInv, Unhindered
  <2>2. stage[s] \notin Live /\ stage[s] \in Stage
    BY DEF VerdictInv, Swept, LiveAreRunning, TypeOK, Live
  <2> QED BY <2>1, <2>2 DEF Counted, Stage, Live
<1> QED BY <1>1, <1>2, <1>3, VerdictInvariant, PTL DEF Spec

(***************************************************************************)
(* The final sweep.                                                        *)
(***************************************************************************)
\* The profiles that list what a step needs before the step.
NeedsListedFirst ==
  \A p \in Profiles : \A k \in 1..Len(p.order) : \A n \in p.needs[p.order[k]] :
    \E i \in 1..(k - 1) : p.order[i] = n

\* A task that is over, or about to end, has left a verdict; a step outside the
\* dict of tasks has one or was not begun; and a pass of the scan in which
\* nothing runs has decided every step it went by.
StuckInv ==
  /\ profile \in Profiles
  /\ \A s \in Steps : stage[s] \in {"ending", "returned"} => Settled(s)
  /\ \A s \in Steps \ running : status[s] # "running"
  /\ main = "scan" /\ running = {} => \A j \in 1..(cursor - 1) : Settled(Order[j])

\* Every step keeps this, when needs are listed first and no notify fails.
LEMMA StuckStep ==
  ASSUME NeedsListedFirst, ~NotifyMayFail, VerdictInv, StuckInv, [Next]_vars
  PROVE  StuckInv'
<1>0. TypeOK
  BY DEF VerdictInv
<1>p. profile' = profile
  BY DEF Next, Scan, ScanPass, ScanCancel, ScanSkip, ScanStart, Scanning, RunOne, Acquire,
         Notified, AttemptEnds, AttemptFails, Retry, Return, Resumes, CancelDelivered, MainLoop,
         AwaitTasks, LeaveLoop, ReapDone, Close, Interrupt, RequestCancel, WatchCancel, vars
<1>1. ASSUME NEW s \in Steps, Scan(s) PROVE StuckInv'
  <2>1. /\ main = "scan" /\ main' = "scan"
        /\ \A t \in Steps \ {s} : stage'[t] = stage[t] /\ status'[t] = status[t]
    BY <1>0, <1>1, ScanEffect
  <2>2. cursor \in 1..Len(Order) /\ s = Order[cursor] /\ cursor' = cursor + 1
    BY <1>1 DEF Scan, ScanPass, ScanCancel, ScanSkip, ScanStart, Scanning
  <2>3. /\ stage'[s] = stage[s] \/ stage'[s] = "queued"
        /\ status'[s] = status[s] \/ Settled(s)'
        /\ running \subseteq running'
        /\ Settled(s) => Settled(s)'
    BY <1>0, <1>1, ScanEffect DEF TypeOK, Undecided, Settled, TERMINAL
  <2>4. \A t \in Steps : stage'[t] \in {"ending", "returned"} => Settled(t)'
    BY <2>1, <2>3 DEF StuckInv, Settled
  <2>5. \A t \in Steps \ running' : status'[t] # "running"
    BY <2>1, <2>3 DEF StuckInv, Settled, TERMINAL
  <2>6. ASSUME running' = {} PROVE \A j \in 1..(cursor' - 1) : Settled(Order[j])'
    <3>1. running = {}
      BY <2>3, <2>6
    <3>2. \A j \in 1..(cursor - 1) : Settled(Order[j])
      BY <2>1, <3>1 DEF StuckInv
    <3>3. Settled(s)'
      <4>1. CASE Settled(s)
        BY <4>1, <2>3
      <4>2. CASE status[s] = "pending" /\ status'[s] = status[s]
        <5>1. Undecided(s)
          BY <4>2, <3>1 DEF Undecided
        <5>2. stage' = stage \/ s \in running'
          BY <1>1 DEF Scan, ScanPass, ScanCancel, ScanSkip, ScanStart
        <5>3. status'[s] = "pending"
          BY <4>2
        <5>4. ScanPass(s)
          BY <1>0, <1>1, <2>6, <5>3 DEF Scan, ScanCancel, ScanSkip, ScanStart, TypeOK
        <5>5. PICK n \in Needs(s) : ~Settled(n)
          BY <5>1, <5>4 DEF ScanPass
        <5>6. PICK i \in 1..(cursor - 1) : Order[i] = n
          BY <2>2, <5>5 DEF StuckInv, NeedsListedFirst, Needs, Order
        <5> QED BY <3>2, <5>5, <5>6
      <4>3. status[s] = "pending" \/ Settled(s)
        BY <1>0, <3>1 DEF StuckInv, TypeOK, Status, Settled
      <4> QED BY <2>3, <4>1, <4>2, <4>3
    <3>4. \A j \in 1..(cursor - 1) : Order[j] \in Steps
      <4>1. Order \in Seq(Steps) /\ cursor \in 1..(Len(Order) + 1) /\ Len(Order) \in Nat
        BY <1>0 DEF TypeOK, ProfileOK, Order
      <4> QED BY <4>1, <2>2
    <3>5. \A t \in Steps : Settled(t) => Settled(t)'
      BY <2>1, <2>3 DEF Settled
    <3>6. Order' = Order
      BY <1>p DEF Order
    <3>7. ASSUME NEW j \in 1..(cursor' - 1) PROVE Settled(Order[j])'
      <4>1. cursor \in Nat /\ (j \in 1..(cursor - 1) \/ j = cursor)
        BY <2>2, <3>7
      <4>2. Order[j] \in Steps /\ status'[Order[j]] \in TERMINAL
        BY <2>2, <3>2, <3>3, <3>4, <3>5, <4>1 DEF Settled
      <4> QED BY <3>6, <4>2 DEF Settled
    <3> QED BY <3>7
  <2> QED BY <1>p, <2>1, <2>4, <2>5, <2>6 DEF StuckInv
<1>2. ASSUME NEW s \in Steps, RunOne(s) PROVE StuckInv'
  <2>1. /\ main # "scan" /\ stage[s] \in Live
        /\ UNCHANGED <<running, main>>
        /\ \A t \in Steps \ {s} : stage'[t] = stage[t] /\ status'[t] = status[t]
    BY <1>0, <1>2, RunOneEffect DEF VerdictInv
  <2>2. s \in running
    BY <2>1 DEF VerdictInv, LiveAreRunning, Live
  <2>3. stage'[s] \in {"ending", "returned"} => Settled(s)'
    <3>1. CASE Acquire(s)
      BY <1>0, <3>1 DEF Acquire, Resumes, Goto, TypeOK, Settled, TERMINAL
    <3>2. CASE Notified(s)
      BY <1>0, <3>2 DEF Notified, Resumes, Goto, TypeOK
    <3>3. CASE AttemptEnds(s)
      BY <1>0, <3>3 DEF AttemptEnds, Resumes, Goto, TypeOK, Settled, TERMINAL
    <3>4. CASE AttemptFails(s)
      BY <1>0, <3>4 DEF AttemptFails, Resumes, Goto, TypeOK, Settled, TERMINAL
    <3>5. CASE Retry(s)
      BY <1>0, <3>5 DEF Retry, Resumes, Goto, TypeOK
    <3>6. CASE Return(s)
      BY <1>0, <3>6 DEF Return, Resumes, Goto, TypeOK, StuckInv, Settled
    <3>7. CASE CancelDelivered(s)
      BY <1>0, <3>7 DEF CancelDelivered, Goto, TypeOK
    <3> QED BY <1>2, <3>1, <3>2, <3>3, <3>4, <3>5, <3>6, <3>7 DEF RunOne
  <2> QED BY <1>p, <2>1, <2>2, <2>3 DEF StuckInv, Settled
<1>3. CASE ReapDone
  <2>1. /\ main' = "scan" /\ cursor' = 1 /\ stage' = stage
        /\ running' = running \ {s \in running : stage[s] \in Over}
        /\ status' = [s \in Steps |->
              IF s \in {t \in running : stage[t] \in Over} /\ stage[s] = "cancelled" /\ ~Settled(s)
              THEN "cancelled" ELSE status[s]]
    BY <1>3 DEF ReapDone
  <2>2. \A t \in Steps : Settled(t) => Settled(t)'
    BY <2>1 DEF Settled, TERMINAL
  <2>3. \A t \in Steps \ running' : status'[t] # "running"
    BY <2>1 DEF StuckInv, Over, Settled, TERMINAL
  <2> QED BY <1>p, <2>1, <2>2, <2>3 DEF StuckInv
<1>4. CASE LeaveLoop
  BY <1>0, <1>4 DEF LeaveLoop, MarkStuck, TypeOK, StuckInv, Settled, TERMINAL
<1>5. CASE AwaitTasks \/ Close \/ RequestCancel \/ Interrupt \/ WatchCancel
  BY <1>5 DEF AwaitTasks, Close, RequestCancel, Interrupt, WatchCancel, StuckInv, Settled
<1>6. CASE UNCHANGED vars
  BY <1>6 DEF vars, StuckInv, Settled, Order
<1> QED BY <1>1, <1>2, <1>3, <1>4, <1>5, <1>6 DEF Next, MainLoop

\* In profiles that list needs first the final sweep finds nothing:
\* NothingLeftStuck, for every graph, any retries and any cancellation.
THEOREM ScanLeavesNothing ==
  ASSUME NeedsListedFirst, ~NotifyMayFail PROVE Spec => []NothingLeftStuck
<1>1. Init => StuckInv
  BY DEF Init, StuckInv
<1>2. VerdictInv /\ StuckInv /\ [Next]_vars => StuckInv'
  BY StuckStep
<1>3. VerdictInv /\ StuckInv => NothingLeftStuck
  <2> SUFFICES ASSUME VerdictInv, StuckInv, main = "scan", cursor > Len(Order), running = {},
                      NEW s \in Steps
               PROVE  Settled(s)
    BY DEF NothingLeftStuck
  <2>1. PICK i \in 1..Len(Order) : Order[i] = s
    BY DEF VerdictInv, TypeOK, ProfileOK, Order
  <2>2. Len(Order) \in Nat /\ cursor \in Nat
    BY DEF VerdictInv, TypeOK, ProfileOK, Order
  <2>3. i \in 1..(cursor - 1)
    BY <2>1, <2>2
  <2>4. Settled(Order[i])
    BY <2>3 DEF StuckInv
  <2> QED BY <2>1, <2>4
<1> QED BY <1>1, <1>2, <1>3, VerdictInvariant, PTL DEF Spec

(***************************************************************************)
(* Dag implements StepGraph.                                               *)
(***************************************************************************)
\* The profiles in which no step is needed that may be tried again: the verdict
\* of a failed attempt is then the verdict of the step.
NeedsNotRetried ==
  \A p \in Profiles : \A s \in Steps : \A n \in p.needs[s] : p.retries[n] = 0

\* What StepGraph calls a cancel.
Asked == cancelSet \/ main \in {"aborting", "raised"}

\* A task is only cancelled after a cancel; outside the dict of tasks a step has
\* a verdict or was not begun; and what is tried once has no verdict before its
\* end.
RefineInv ==
  /\ \A s \in Steps \ running : stage[s] = "none" \/ Settled(s)
  /\ cancelReq # {} => Asked
  /\ \A s \in Steps : stage[s] = "cancelled" => Asked
  /\ \A s \in Steps : stage[s] \in {"attempt", "backoff"} => attempts[s] # 0
  /\ \A s \in Steps : Retries(s) = 0 =>
       /\ stage[s] # "backoff"
       /\ stage[s] = "attempt" => status[s] = "running"

\* What a resumption does to the attempts of its own step.
LEMMA RunOneRefines ==
  ASSUME ~NotifyMayFail, VerdictInv, RefineInv, NEW s \in Steps, RunOne(s)
  PROVE  /\ stage'[s] = "cancelled" => s \in cancelReq
         /\ stage'[s] \in {"attempt", "backoff"} => attempts'[s] # 0
         /\ Retries(s) = 0 => /\ stage'[s] # "backoff"
                              /\ stage'[s] = "attempt" => status'[s] = "running"
<1>0. /\ attempts \in [Steps -> Nat] /\ stage \in [Steps -> Stage]
      /\ status \in [Steps -> Status] /\ Retries(s) \in Nat
  BY DEF VerdictInv, TypeOK, ProfileOK, Retries
<1>1. CASE Acquire(s)
  BY <1>0, <1>1 DEF Acquire, Resumes, Goto
<1>2. CASE Notified(s)
  <2>1. status'[s] = "running" /\ stage'[s] = "attempt" /\ attempts'[s] = 1
    BY <1>0, <1>2 DEF Notified, Resumes, Goto, VerdictInv, StageStatus
  <2> QED BY <2>1
<1>3. CASE AttemptEnds(s)
  BY <1>0, <1>3 DEF AttemptEnds, Resumes, Goto
<1>4. CASE AttemptFails(s)
  <2>1. stage[s] = "attempt" /\ attempts[s] \in Nat \ {0}
    BY <1>0, <1>4 DEF AttemptFails, Resumes, RefineInv
  <2>2. CASE /\ attempts[s] <= Retries(s)
             /\ \/ stage'[s] = "backoff" /\ attempts'[s] = attempts[s]
                \/ stage'[s] = "attempt" /\ attempts'[s] = attempts[s] + 1
    BY <1>0, <2>1, <2>2
  <2>3. CASE stage'[s] = "ending"
    BY <2>3
  <2> QED BY <1>0, <1>4, <2>1, <2>2, <2>3 DEF AttemptFails, Goto
<1>5. CASE Retry(s)
  <2>1. stage[s] = "backoff" /\ attempts'[s] = attempts[s] + 1 /\ stage'[s] = "attempt"
    BY <1>0, <1>5 DEF Retry, Resumes, Goto
  <2>2. attempts'[s] # 0 /\ Retries(s) # 0
    BY <1>0, <2>1 DEF RefineInv
  <2> QED BY <2>1, <2>2
<1>6. CASE Return(s)
  BY <1>0, <1>6 DEF Return, Resumes, Goto
<1>7. CASE CancelDelivered(s)
  BY <1>0, <1>7 DEF CancelDelivered, Goto
<1> QED BY <1>1, <1>2, <1>3, <1>4, <1>5, <1>6, <1>7 DEF RunOne

\* Every step keeps this, when no notify fails.
LEMMA RefineStep ==
  ASSUME ~NotifyMayFail, VerdictInv, StuckInv, RefineInv, [Next]_vars
  PROVE  RefineInv'
<1>0. TypeOK
  BY DEF VerdictInv
<1>p. profile' = profile
  BY DEF Next, Scan, ScanPass, ScanCancel, ScanSkip, ScanStart, Scanning, RunOne, Acquire,
         Notified, AttemptEnds, AttemptFails, Retry, Return, Resumes, CancelDelivered, MainLoop,
         AwaitTasks, LeaveLoop, ReapDone, Close, Interrupt, RequestCancel, WatchCancel, vars
<1>r. \A s \in Steps : Retries(s)' = Retries(s)
  BY <1>p DEF Retries
<1>1. ASSUME NEW s \in Steps, Scan(s) PROVE RefineInv'
  <2>1. /\ main = "scan" /\ main' = "scan"
        /\ UNCHANGED <<previous, attempts, cancelSet, fired, cancelReq>>
        /\ \A t \in Steps \ {s} : stage'[t] = stage[t] /\ status'[t] = status[t]
    BY <1>0, <1>1, ScanEffect
  <2>2. CASE UNCHANGED <<status, stage, running>>
    BY <1>r, <2>1, <2>2 DEF RefineInv, Asked, Settled
  <2>3. CASE Undecided(s) /\ Settled(s)' /\ UNCHANGED <<stage, running>>
    <3>1. stage[s] = "none"
      BY <2>3 DEF RefineInv, Undecided, Settled
    <3> QED BY <1>r, <2>1, <2>3, <3>1 DEF RefineInv, Asked, Settled
  <2>4. CASE /\ Undecided(s) /\ running' = running \cup {s}
             /\ stage' = [stage EXCEPT ![s] = "queued"] /\ status' = status
    <3>1. stage'[s] = "queued"
      BY <1>0, <2>4 DEF TypeOK
    <3> QED BY <1>r, <2>1, <2>4, <3>1 DEF RefineInv, Asked, Settled
  <2> QED BY <1>0, <1>1, <2>2, <2>3, <2>4, ScanEffect
<1>2. ASSUME NEW s \in Steps, RunOne(s) PROVE RefineInv'
  <2>1. /\ stage[s] \in Live
        /\ UNCHANGED <<running, cancelSet, main>>
        /\ \A t \in Steps \ {s} : stage'[t] = stage[t] /\ status'[t] = status[t]
                                  /\ attempts'[t] = attempts[t]
        /\ cancelReq' \subseteq cancelReq
    BY <1>0, <1>2, RunOneEffect DEF VerdictInv
  <2>2. s \in running
    BY <2>1 DEF VerdictInv, LiveAreRunning, Live
  <2>3. /\ stage'[s] = "cancelled" => s \in cancelReq
        /\ stage'[s] \in {"attempt", "backoff"} => attempts'[s] # 0
        /\ Retries(s) = 0 => /\ stage'[s] # "backoff"
                             /\ stage'[s] = "attempt" => status'[s] = "running"
    BY <1>2, RunOneRefines
  <2>4. \A t \in Steps \ running' : stage'[t] = "none" \/ Settled(t)'
    BY <2>1, <2>2 DEF RefineInv, Settled
  <2>5. Asked' = Asked
    BY <2>1 DEF Asked
  <2> QED BY <1>r, <2>1, <2>3, <2>4, <2>5 DEF RefineInv
<1>3. CASE ReapDone
  <2>1. /\ main = "wait" /\ main' = "scan" /\ UNCHANGED <<stage, attempts, cancelSet, cancelReq>>
        /\ running' = running \ {s \in running : stage[s] \in Over}
        /\ status' = [s \in Steps |->
              IF s \in {t \in running : stage[t] \in Over} /\ stage[s] = "cancelled" /\ ~Settled(s)
              THEN "cancelled" ELSE status[s]]
    BY <1>3 DEF ReapDone
  <2>2. \A t \in Steps \ running' : stage'[t] = "none" \/ Settled(t)'
    BY <2>1 DEF RefineInv, StuckInv, Settled
  <2>3. \A t \in Steps : stage[t] = "attempt" => status'[t] = status[t]
    BY <2>1
  <2>4. Asked' = Asked
    BY <2>1 DEF Asked
  <2> QED BY <1>r, <2>1, <2>2, <2>3, <2>4 DEF RefineInv
<1>4. CASE LeaveLoop
  <2>1. /\ running = {} /\ main = "scan" /\ main' = "closing"
        /\ UNCHANGED <<stage, attempts, cancelSet, cancelReq, running>>
    BY <1>4 DEF LeaveLoop
  <2>2. \A t \in Steps : status'[t] = status[t] \/ Settled(t)'
    BY <1>0, <1>4 DEF LeaveLoop, MarkStuck, Settled, TypeOK
  <2>3. \A t \in Steps : Settled(t) => status'[t] = status[t]
    BY <1>4 DEF LeaveLoop, MarkStuck
  <2>4. \A t \in Steps : stage[t] # "attempt"
    BY <2>1 DEF VerdictInv, LiveAreRunning
  <2>5. Asked' = Asked
    BY <2>1 DEF Asked
  <2> QED BY <1>r, <2>1, <2>2, <2>3, <2>4, <2>5 DEF RefineInv, Settled
<1>5. CASE AwaitTasks \/ Close \/ RequestCancel \/ Interrupt \/ WatchCancel \/ UNCHANGED vars
  <2>1. UNCHANGED <<status, attempts, stage, running>>
    BY <1>5 DEF AwaitTasks, Close, RequestCancel, Interrupt, WatchCancel, vars
  <2>2. Asked => Asked'
    BY <1>5 DEF AwaitTasks, Close, RequestCancel, Interrupt, WatchCancel, vars, Asked
  <2>3. cancelReq' # {} => Asked'
    BY <1>5, <2>2 DEF AwaitTasks, Close, RequestCancel, Interrupt, WatchCancel, vars, Asked, RefineInv
  <2> QED BY <1>r, <2>1, <2>2, <2>3 DEF RefineInv, Settled
<1> QED BY <1>1, <1>2, <1>3, <1>4, <1>5 DEF Next, MainLoop

\* A step of the executor that moves no phase is a stutter of StepGraph.
LEMMA Unmoved ==
  ASSUME profile' = profile, Asked' = Asked, \A s \in Steps : Phase(s)' = Phase(s)
  PROVE  UNCHANGED Abstract!vars
<1>1. [s \in Steps |-> Phase(s)]' = [s \in Steps |-> Phase(s)]
  OBVIOUS
<1> QED BY <1>1 DEF Abstract!vars, Asked

\* A step that moves the phase of s only is a decision about s.
LEMMA Moved ==
  ASSUME profile' = profile, Asked' = Asked, NEW s \in Steps, NEW from, NEW to,
         Phase(s) = from, Phase(s)' = to, \A t \in Steps \ {s} : Phase(t)' = Phase(t)
  PROVE  Abstract!Decide(s, from, to)
<1>1. [t \in Steps |-> Phase(t)]' = [[t \in Steps |-> Phase(t)] EXCEPT ![s] = to]
  OBVIOUS
<1> QED BY <1>1 DEF Abstract!Decide, Asked

\* A step that decides the steps of S after a cancel is a cancel of StepGraph.
LEMMA Cancelled ==
  ASSUME profile' = profile, Asked, Asked' = Asked, NEW S \in SUBSET Steps,
         \A s \in S : Phase(s) \notin TERMINAL /\ Phase(s)' = "cancelled",
         \A s \in Steps \ S : Phase(s)' = Phase(s)
  PROVE  Abstract!Cancel(S)
<1>1. [s \in Steps |-> Phase(s)]' =
        [s \in Steps |-> IF s \in S THEN "cancelled" ELSE [t \in Steps |-> Phase(t)][s]]
  OBVIOUS
<1> QED BY <1>1 DEF Abstract!Cancel, Abstract!Verdict, Asked

\* The need of a step is settled for StepGraph when it is for the scan, and has
\* the verdict that the scan reads.
LEMMA NeedsAgree ==
  ASSUME NeedsNotRetried, VerdictInv, StuckInv, RefineInv, NEW s \in Steps,
         \A n \in Needs(s) : Settled(n)
  PROVE  \A n \in Needs(s) : n \in Steps /\ Phase(n) = status[n]
<1> SUFFICES ASSUME NEW n \in Needs(s) PROVE n \in Steps /\ Phase(n) = status[n]
  OBVIOUS
<1>1. n \in Steps
  BY DEF Needs, VerdictInv, TypeOK, ProfileOK
<1>2. Retries(n) = 0
  BY DEF NeedsNotRetried, StuckInv, Needs, Retries
<1>3. status[n] \in TERMINAL
  BY DEF Settled
<1>4. stage[n] \notin {"queued", "starting", "attempt", "backoff"}
  BY <1>1, <1>2, <1>3 DEF RefineInv, VerdictInv, StageStatus
<1> QED BY <1>1, <1>3, <1>4 DEF Phase, Settled

\* One iteration of the scan: a start, a skip, a cancel or nothing.
LEMMA ScanImplements ==
  ASSUME NeedsNotRetried, VerdictInv, StuckInv, RefineInv, NEW s \in Steps, Scan(s)
  PROVE  [Abstract!Next]_Abstract!vars
<1>0. TypeOK
  BY DEF VerdictInv
<1>1. /\ main = "scan" /\ main' = "scan" /\ Asked' = Asked /\ profile' = profile
      /\ \A t \in Steps \ {s} : Phase(t)' = Phase(t)
  <2>1. /\ main = "scan" /\ main' = "scan" /\ cancelSet' = cancelSet
        /\ \A t \in Steps \ {s} : stage'[t] = stage[t] /\ status'[t] = status[t]
    BY <1>0, ScanEffect
  <2>2. profile' = profile
    BY DEF Scan, ScanPass, ScanCancel, ScanSkip, ScanStart, Scanning
  <2> QED BY <2>1, <2>2 DEF Phase, Settled, Asked
<1>2. CASE ScanPass(s)
  <2>1. Phase(s)' = Phase(s)
    BY <1>2 DEF ScanPass, Phase, Settled
  <2> QED BY <1>1, <2>1, Unmoved
<1>3. Undecided(s) => Phase(s) = "waiting"
  <2> SUFFICES ASSUME Undecided(s) PROVE Phase(s) = "waiting"
    OBVIOUS
  <2>1. status[s] = "pending" /\ stage[s] = "none"
    BY DEF Undecided, RefineInv, Settled
  <2> QED BY <2>1 DEF Phase
<1>4. CASE ScanCancel(s)
  <2>1. Phase(s) = "waiting" /\ Asked
    BY <1>3, <1>4 DEF ScanCancel, Asked
  <2>2. Phase(s)' = "cancelled"
    <3>1. stage[s] = "none" /\ stage'[s] = "none" /\ status'[s] = "cancelled"
      BY <1>0, <1>4 DEF ScanCancel, Undecided, RefineInv, Settled, TypeOK
    <3> QED BY <3>1 DEF Phase, Settled
  <2>3. Abstract!Cancel({s})
    BY <1>1, <2>1, <2>2, Cancelled
  <2> QED BY <2>3 DEF Abstract!Next
<1>5. CASE ScanSkip(s)
  <2>1. /\ Undecided(s) /\ \A n \in Needs(s) : Settled(n)
        /\ BlockingFailure(s)
    BY <1>5 DEF ScanSkip
  <2>2. \A n \in Needs(s) : n \in Steps /\ Phase(n) = status[n] /\ status[n] \in TERMINAL
    BY <2>1, NeedsAgree DEF Settled
  <2>3. Abstract!NeedsSettled(s) /\ Abstract!Blocked(s)
    BY <2>1, <2>2 DEF Abstract!NeedsSettled, Abstract!Blocked, Abstract!Verdict, BlockingFailure, Needs, Optional
  <2>4. Phase(s)' = "skipped"
    <3>1. stage[s] = "none" /\ stage'[s] = "none" /\ status'[s] = "skipped"
      BY <1>0, <1>5 DEF ScanSkip, Undecided, RefineInv, Settled, TypeOK
    <3> QED BY <3>1 DEF Phase, Settled
  <2>5. Abstract!Decide(s, "waiting", "skipped")
    BY <1>1, <1>3, <2>1, <2>4, Moved
  <2> QED BY <2>3, <2>5 DEF Abstract!Next, Abstract!Skip
<1>6. CASE ScanStart(s)
  <2>1. /\ Undecided(s) /\ ~cancelSet /\ \A n \in Needs(s) : Settled(n)
        /\ ~BlockingFailure(s)
    BY <1>6 DEF ScanStart
  <2>2. \A n \in Needs(s) : n \in Steps /\ Phase(n) = status[n] /\ status[n] \in TERMINAL
    BY <2>1, NeedsAgree DEF Settled
  <2>3. Abstract!NeedsSettled(s) /\ ~Abstract!Blocked(s)
    BY <2>1, <2>2 DEF Abstract!NeedsSettled, Abstract!Blocked, Abstract!Verdict, BlockingFailure, Needs, Optional
  <2>4. Phase(s)' = "active"
    <3>1. stage'[s] = "queued"
      BY <1>0, <1>6 DEF ScanStart, TypeOK
    <3> QED BY <3>1 DEF Phase
  <2>5. Abstract!Decide(s, "waiting", "active")
    BY <1>1, <1>3, <2>1, <2>4, Moved
  <2> QED BY <1>1, <2>1, <2>3, <2>5 DEF Abstract!Next, Abstract!Start
<1> QED BY <1>2, <1>4, <1>5, <1>6 DEF Scan

\* One resumption of a task: its verdict, a cancel or nothing.
LEMMA RunOneImplements ==
  ASSUME ~NotifyMayFail, VerdictInv, StuckInv, RefineInv, NEW s \in Steps, RunOne(s)
  PROVE  [Abstract!Next]_Abstract!vars
<1>0. /\ TypeOK /\ stage \in [Steps -> Stage] /\ status \in [Steps -> Status]
  BY DEF VerdictInv, TypeOK
<1>1. /\ Asked' = Asked /\ profile' = profile
      /\ \A t \in Steps \ {s} : Phase(t)' = Phase(t)
  <2>1. /\ UNCHANGED <<profile, main, cancelSet>>
        /\ \A t \in Steps \ {s} : stage'[t] = stage[t] /\ status'[t] = status[t]
    BY <1>0, RunOneEffect DEF VerdictInv
  <2> QED BY <2>1 DEF Phase, Settled, Asked
<1>a. ASSUME Phase(s)' = Phase(s) PROVE [Abstract!Next]_Abstract!vars
  BY <1>1, <1>a, Unmoved
<1>b. ASSUME Phase(s) = "active", NEW v \in TERMINAL \ {"cancelled"}, Phase(s)' = v
      PROVE  [Abstract!Next]_Abstract!vars
  <2>1. Abstract!Decide(s, "active", v)
    BY <1>1, <1>b, Moved
  <2> QED BY <2>1 DEF Abstract!Next, Abstract!Finish, Abstract!Verdict
<1>c. ASSUME Phase(s) = "active", Asked, Phase(s)' = "cancelled"
      PROVE  [Abstract!Next]_Abstract!vars
  <2>1. Abstract!Cancel({s})
    BY <1>1, <1>c, Cancelled
  <2> QED BY <2>1 DEF Abstract!Next
<1>2. CASE Acquire(s)
  <2>1. Phase(s) = "active"
    BY <1>2 DEF Acquire, Resumes, Phase
  <2>2. CASE cancelSet /\ status' = [status EXCEPT ![s] = "cancelled"] /\ Goto(s, "returned")
    <3>1. stage'[s] = "returned" /\ status'[s] = "cancelled"
      BY <1>0, <2>2 DEF Goto
    <3>2. Phase(s)' = "cancelled"
      BY <3>1 DEF Phase, Settled
    <3> QED BY <1>c, <2>1, <2>2, <3>2 DEF Asked
  <2>3. CASE Goto(s, "starting")
    <3>1. stage'[s] = "starting"
      BY <1>0, <2>3 DEF Goto
    <3>2. Phase(s)' = "active"
      BY <3>1 DEF Phase
    <3> QED BY <1>a, <2>1, <3>2
  <2> QED BY <1>2, <2>2, <2>3 DEF Acquire
<1>3. CASE Notified(s)
  <2>1. stage[s] = "starting" /\ stage'[s] = "attempt"
    BY <1>0, <1>3 DEF Notified, Resumes, Goto
  <2>2. Phase(s) = "active" /\ Phase(s)' = "active"
    BY <2>1 DEF Phase
  <2> QED BY <1>a, <2>2
<1>4. CASE AttemptEnds(s)
  <2>1. /\ stage[s] = "attempt" /\ stage'[s] = "ending"
        /\ status'[s] \in {"completed", "skipped"}
    BY <1>0, <1>4 DEF AttemptEnds, Resumes, Goto
  <2>2. Phase(s) = "active" /\ Phase(s)' = status'[s]
    BY <2>1 DEF Phase, Settled
  <2> QED BY <1>b, <2>1, <2>2
<1>5. CASE AttemptFails(s)
  <2>1. /\ stage[s] = "attempt" /\ stage'[s] \in {"attempt", "backoff", "ending"}
        /\ status'[s] \in {"failed", "timeout"}
    BY <1>0, <1>5 DEF AttemptFails, Resumes, Goto
  <2>2. Phase(s) = "active"
    BY <2>1 DEF Phase
  <2>3. CASE stage'[s] = "ending"
    <3>1. Phase(s)' = status'[s]
      BY <2>1, <2>3 DEF Phase, Settled
    <3> QED BY <1>b, <2>1, <2>2, <3>1
  <2>4. CASE stage'[s] \in {"attempt", "backoff"}
    <3>1. Phase(s)' = "active"
      BY <2>4 DEF Phase
    <3> QED BY <1>a, <2>2, <3>1
  <2> QED BY <2>1, <2>3, <2>4
<1>6. CASE Retry(s)
  <2>1. stage[s] = "backoff" /\ stage'[s] = "attempt"
    BY <1>0, <1>6 DEF Retry, Resumes, Goto
  <2>2. Phase(s) = "active" /\ Phase(s)' = "active"
    BY <2>1 DEF Phase
  <2> QED BY <1>a, <2>2
<1>7. CASE Return(s)
  <2>1. stage[s] = "ending" /\ stage'[s] = "returned" /\ status'[s] = status[s]
    BY <1>0, <1>7 DEF Return, Resumes, Goto
  <2>2. Phase(s)' = Phase(s)
    BY <2>1 DEF Phase, Settled
  <2> QED BY <1>a, <2>2
<1>8. CASE CancelDelivered(s)
  <2>1. s \in cancelReq /\ stage'[s] = "cancelled" /\ Asked
        /\ status' = IF stage[s] = "attempt"
                       THEN [status EXCEPT ![s] = "cancelled"] ELSE status
    BY <1>0, <1>8 DEF CancelDelivered, Goto, RefineInv
  <2>2. stage[s] \in Live
    BY <2>1 DEF VerdictInv, CancelReqLive
  <2>3. CASE stage[s] = "attempt"
    <3>1. status'[s] = "cancelled"
      BY <1>0, <2>1, <2>3
    <3>2. Phase(s) = "active" /\ Phase(s)' = "cancelled"
      BY <2>1, <2>3, <3>1 DEF Phase, Settled
    <3> QED BY <1>c, <2>1, <3>2
  <2>4. CASE stage[s] \in {"queued", "starting"}
    <3>1. ~Settled(s) /\ status'[s] = status[s]
      BY <2>1, <2>4 DEF VerdictInv, StageStatus, Settled
    <3>2. Phase(s) = "active" /\ Phase(s)' = "active"
      BY <2>1, <2>4, <3>1 DEF Phase, Settled
    <3> QED BY <1>a, <3>2
  <2>5. CASE stage[s] = "backoff"
    <3>1. status'[s] = status[s]
      BY <2>1, <2>5
    <3>2. CASE Settled(s)
      <4>1. Phase(s) = "active" /\ Phase(s)' = status[s] /\ status[s] \in TERMINAL
        BY <2>1, <2>5, <3>1, <3>2 DEF Phase, Settled
      <4> QED BY <1>b, <1>c, <2>1, <4>1
    <3>3. CASE ~Settled(s)
      <4>1. Phase(s) = "active" /\ Phase(s)' = "active"
        BY <2>1, <2>5, <3>1, <3>3 DEF Phase, Settled
      <4> QED BY <1>a, <4>1
    <3> QED BY <3>2, <3>3
  <2>6. CASE stage[s] = "ending"
    <3>1. status'[s] = status[s] /\ Settled(s)
      BY <2>1, <2>6 DEF StuckInv
    <3>2. Phase(s)' = Phase(s)
      BY <2>1, <2>6, <3>1 DEF Phase, Settled
    <3> QED BY <1>a, <3>2
  <2> QED BY <2>2, <2>3, <2>4, <2>5, <2>6 DEF Live
<1> QED BY <1>2, <1>3, <1>4, <1>5, <1>6, <1>7, <1>8 DEF RunOne

\* Every step of the executor is a step of StepGraph or a stutter.
LEMMA Implements ==
  ASSUME NeedsNotRetried, ~NotifyMayFail, VerdictInv, StuckInv, NothingLeftStuck, RefineInv,
         [Next]_vars
  PROVE  [Abstract!Next]_Abstract!vars
<1>0. TypeOK
  BY DEF VerdictInv
<1>1. ASSUME NEW s \in Steps, Scan(s) PROVE [Abstract!Next]_Abstract!vars
  BY <1>1, ScanImplements
<1>2. ASSUME NEW s \in Steps, RunOne(s) PROVE [Abstract!Next]_Abstract!vars
  BY <1>2, RunOneImplements
<1>3. CASE ReapDone
  <2> DEFINE reaped == {s \in running : stage[s] = "cancelled" /\ ~Settled(s)}
  <2>1. /\ UNCHANGED <<profile, stage, cancelSet>> /\ main = "wait" /\ main' = "scan"
        /\ status' = [s \in Steps |-> IF s \in reaped THEN "cancelled" ELSE status[s]]
    BY <1>3 DEF ReapDone
  <2>2. Asked' = Asked
    BY <2>1 DEF Asked
  <2>3. ASSUME NEW s \in Steps \ reaped PROVE Phase(s)' = Phase(s)
    BY <2>1 DEF Phase, Settled
  <2>4. CASE reaped = {}
    BY <2>1, <2>2, <2>3, <2>4, Unmoved
  <2>5. CASE reaped # {}
    <3>1. reaped \in SUBSET Steps /\ Asked
      BY <1>0, <2>5 DEF TypeOK, RefineInv
    <3>2. ASSUME NEW s \in reaped PROVE Phase(s) \notin TERMINAL /\ Phase(s)' = "cancelled"
      <4>1. s \in Steps /\ stage[s] = "cancelled" /\ ~Settled(s) /\ status'[s] = "cancelled"
        BY <2>1, <3>1
      <4> QED BY <2>1, <4>1 DEF Phase, Settled
    <3>3. Abstract!Cancel(reaped)
      BY <2>1, <2>2, <2>3, <3>1, <3>2, Cancelled
    <3> QED BY <3>1, <3>3 DEF Abstract!Next
  <2> QED BY <2>4, <2>5
<1>4. CASE LeaveLoop
  <2>1. /\ UNCHANGED <<profile, stage, cancelSet>> /\ main = "scan" /\ main' = "closing"
        /\ \A s \in Steps : Settled(s)
    BY <1>4 DEF LeaveLoop, NothingLeftStuck
  <2>2. \A s \in Steps : status'[s] = status[s]
    BY <1>4, <2>1 DEF LeaveLoop, MarkStuck
  <2>3. Asked' = Asked /\ \A s \in Steps : Phase(s)' = Phase(s)
    BY <2>1, <2>2 DEF Asked, Phase, Settled
  <2> QED BY <2>1, <2>3, Unmoved
<1>5. CASE AwaitTasks \/ Close \/ WatchCancel \/ UNCHANGED vars
  <2>1. UNCHANGED <<profile, stage, status>>
    BY <1>5 DEF AwaitTasks, Close, WatchCancel, vars
  <2>2. Asked' = Asked
    BY <1>5 DEF AwaitTasks, Close, WatchCancel, vars, Asked
  <2>3. \A s \in Steps : Phase(s)' = Phase(s)
    BY <2>1 DEF Phase, Settled
  <2> QED BY <2>1, <2>2, <2>3, Unmoved
<1>6. CASE RequestCancel \/ Interrupt
  <2>1. UNCHANGED <<profile, stage, status>> /\ Asked'
    BY <1>6 DEF RequestCancel, Interrupt, Asked
  <2>2. [s \in Steps |-> Phase(s)]' = [s \in Steps |-> Phase(s)]
    BY <2>1 DEF Phase, Settled
  <2>3. Abstract!AskCancel
    BY <2>1, <2>2 DEF Abstract!AskCancel, Asked
  <2> QED BY <2>3 DEF Abstract!Next
<1> QED BY <1>1, <1>2, <1>3, <1>4, <1>5, <1>6 DEF Next, MainLoop

\* dag.py keeps the promise of its docstring, ImplementsStepGraph: each step
\* waits for its needs, is run or skipped, and its verdict is final; for every
\* graph whose needs are listed first and are not retried.
THEOREM ExecutorImplements ==
  ASSUME NeedsListedFirst, NeedsNotRetried, ~NotifyMayFail
  PROVE  Spec => ImplementsStepGraph
<1>1. Init => StuckInv /\ RefineInv
  BY DEF Init, StuckInv, RefineInv, Asked
<1>2. VerdictInv /\ StuckInv /\ RefineInv /\ [Next]_vars => StuckInv' /\ RefineInv'
  BY StuckStep, RefineStep
<1>3. Init => Abstract!Init
  <2> SUFFICES ASSUME Init PROVE Abstract!Init
    OBVIOUS
  <2>1. \A s \in Steps : Phase(s) \in {"waiting", "completed"}
    BY DEF Init, Phase, Settled
  <2>2. (cancelSet \/ main \in {"aborting", "raised"}) \in BOOLEAN
    OBVIOUS
  <2> QED BY <2>1, <2>2 DEF Init, Abstract!Init
<1>4. VerdictInv /\ StuckInv /\ NothingLeftStuck /\ RefineInv /\ [Next]_vars
        => [Abstract!Next]_Abstract!vars
  BY Implements
<1> QED BY <1>1, <1>2, <1>3, <1>4, VerdictInvariant, ScanLeavesNothing, PTL
        DEF Spec, ImplementsStepGraph, Abstract!Spec
(***************************************************************************)
(* What the executor inherits from StepGraph.                              *)
(***************************************************************************)
\* In StepGraph a verdict is final, hence so is the phase it stands for.
LEMMA PhaseIsFinal ==
  ASSUME [Abstract!Next]_Abstract!vars, NEW n \in Steps, Phase(n) \in TERMINAL
  PROVE  Phase(n)' = Phase(n)
<1> DEFINE phase == [s \in Steps |-> Phase(s)]
<1>1. phase'[n] = Phase(n)' /\ phase[n] = Phase(n)
  OBVIOUS
<1>2. ASSUME NEW s \in Steps, NEW from \in {"waiting", "active"}, NEW to,
             Abstract!Decide(s, from, to)
      PROVE  phase'[n] = phase[n]
  <2>1. s # n
    BY <1>2 DEF Abstract!Decide, TERMINAL
  <2> QED BY <1>2, <2>1 DEF Abstract!Decide
<1>3. ASSUME NEW s \in Steps, Abstract!Start(s) \/ Abstract!Skip(s) \/ Abstract!Finish(s)
      PROVE  phase'[n] = phase[n]
  BY <1>2, <1>3 DEF Abstract!Start, Abstract!Skip, Abstract!Finish
<1>4. ASSUME NEW S \in SUBSET Steps, Abstract!Cancel(S) PROVE phase'[n] = phase[n]
  BY <1>4 DEF Abstract!Cancel, Abstract!Verdict, TERMINAL
<1>5. CASE UNCHANGED Abstract!vars \/ Abstract!AskCancel
  BY <1>5 DEF Abstract!vars, Abstract!AskCancel
<1>6. phase'[n] = phase[n]
  BY <1>3, <1>4, <1>5 DEF Abstract!Next
<1> QED BY <1>1, <1>6

Begun(s) == stage[s] # "none" \/ status[s] = "skipped"

\* What a step that was begun or skipped needs is over, and stays so.
Waited == \A s \in Steps \ previous : Begun(s) => \A n \in Needs(s) : Phase(n) \in TERMINAL

\* A step begins, or is skipped, in an iteration of the scan that finds its
\* needs settled.
LEMMA BegunAfterNeeds ==
  ASSUME NeedsNotRetried, VerdictInv, StuckInv, NothingLeftStuck, RefineInv, [Next]_vars,
         NEW s \in Steps, Begun(s)', ~Begun(s)
  PROVE  \A n \in Needs(s) : Phase(n) \in TERMINAL
<1>0. /\ TypeOK /\ stage[s] = "none" /\ status[s] # "skipped"
      /\ status \in [Steps -> Status] /\ stage \in [Steps -> Stage]
  BY DEF VerdictInv, TypeOK, Begun
<1>1. ASSUME NEW t \in Steps, Scan(t) PROVE \A n \in Needs(s) : Settled(n)
  <2>1. t = s
    BY <1>0, <1>1, ScanEffect DEF Begun
  <2>2. CASE ScanPass(s)
    BY <1>0, <2>2 DEF ScanPass, Begun
  <2>3. CASE ScanCancel(s)
    BY <1>0, <2>3 DEF ScanCancel, Begun
  <2>4. CASE ScanSkip(s) \/ ScanStart(s)
    BY <2>4 DEF ScanSkip, ScanStart
  <2> QED BY <1>1, <2>1, <2>2, <2>3, <2>4 DEF Scan
<1>2. ASSUME NEW t \in Steps, RunOne(t) PROVE FALSE
  <2>1. /\ stage[t] \in Live
        /\ \A u \in Steps \ {t} : stage'[u] = stage[u] /\ status'[u] = status[u]
    BY <1>0, <1>2, RunOneEffect DEF VerdictInv
  <2>2. t # s
    BY <1>0, <2>1 DEF Live
  <2> QED BY <1>0, <2>1, <2>2 DEF Begun
<1>3. ASSUME MainLoop \/ Interrupt \/ RequestCancel \/ WatchCancel \/ UNCHANGED vars
      PROVE  FALSE
  <2>1. CASE ReapDone
    BY <1>0, <2>1 DEF ReapDone, Begun
  <2>2. CASE LeaveLoop
    BY <1>0, <2>2 DEF LeaveLoop, MarkStuck, NothingLeftStuck, Begun
  <2>3. CASE UNCHANGED <<stage, status>>
    BY <1>0, <2>3 DEF Begun
  <2> QED BY <1>3, <2>1, <2>2, <2>3 DEF MainLoop, AwaitTasks, Close, Interrupt, RequestCancel,
          WatchCancel, vars
<1>4. \A n \in Needs(s) : Settled(n)
  BY <1>1, <1>2, <1>3 DEF Next
<1> QED BY <1>4, NeedsAgree DEF Settled

LEMMA WaitedStep ==
  ASSUME NeedsNotRetried, ~NotifyMayFail, VerdictInv, StuckInv, NothingLeftStuck, RefineInv,
         Waited, [Next]_vars
  PROVE  Waited'
<1>1. profile' = profile /\ previous' = previous
  BY DEF Next, Scan, ScanPass, ScanCancel, ScanSkip, ScanStart, Scanning, RunOne, Acquire,
         Notified, AttemptEnds, AttemptFails, Retry, Return, Resumes, CancelDelivered, MainLoop,
         AwaitTasks, LeaveLoop, ReapDone, Close, Interrupt, RequestCancel, WatchCancel, vars
<1> SUFFICES ASSUME NEW s \in Steps \ previous, Begun(s)', NEW n \in Needs(s)
             PROVE  Phase(n)' \in TERMINAL
  BY <1>1 DEF Waited, Needs, TERMINAL
<1>2. n \in Steps
  BY DEF Needs, VerdictInv, TypeOK, ProfileOK
<1>3. Phase(n) \in TERMINAL
  BY BegunAfterNeeds DEF Waited
<1> QED BY <1>2, <1>3, Implements, PhaseIsFinal

\* No step is begun or skipped while one that it needs is still at work
\* (dag.py:6, NeedsFinishedFirst), for every graph whose needs are listed first
\* and are not retried: its needs were settled, and what the executor
\* implements lets no verdict change.
THEOREM NeedsAreFinished ==
  ASSUME NeedsListedFirst, NeedsNotRetried, ~NotifyMayFail
  PROVE  Spec => []NeedsFinishedFirst
<1>1. Init => StuckInv /\ RefineInv /\ Waited
  BY DEF Init, StuckInv, RefineInv, Asked, Waited, Begun
<1>2. VerdictInv /\ StuckInv /\ NothingLeftStuck /\ RefineInv /\ Waited /\ [Next]_vars
        => StuckInv' /\ RefineInv' /\ Waited'
  BY StuckStep, RefineStep, WaitedStep
<1>3. Waited => NeedsFinishedFirst
  BY DEF Waited, NeedsFinishedFirst, Begun, Phase, TERMINAL
<1> QED BY <1>1, <1>2, <1>3, VerdictInvariant, ScanLeavesNothing, PTL DEF Spec
=============================================================================
