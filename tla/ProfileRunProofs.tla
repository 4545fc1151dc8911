--------------------------- MODULE ProfileRunProofs ---------------------------
(***************************************************************************)
(* Theorems about ProfileRun, for any number of steps and of terminals.    *)
(***************************************************************************)
EXTENDS ProfileRun, TLAPS

Active(w) == worker[w].pc \in Booting \cup Working \cup Ending

OneActive == \A v, w \in Workers : Active(v) /\ Active(w) => v = w

\* The steps recorded in the row are those the worker has in memory, but for
\* the one that has just ended; run.json is never ahead of the row.
Records ==
  /\ everDone = row.done
  /\ manifest.done \subseteq row.done
  /\ \A w \in Workers :
       /\ worker[w].pc \in Booting /\ ~worker[w].resume => row.done = {}
       /\ worker[w].pc \in (Working \cup Ending) \ {"saveRow"} => Completed(w) = row.done
       /\ worker[w].pc = "saveRow" => row.done \subseteq Completed(w)
(***************************************************************************)
(* Type correctness.                                                       *)
(***************************************************************************)
\* What a worker writes as completed is a set of steps, whatever it is doing.
LEMMA CompletedSteps == \A w : Completed(w) \in SUBSET Steps
BY DEF Completed

\* The verdict of a run is one of the four final ones.
LEMMA FinalIsVerdict ==
  \A results, cancelled : FinalStatus(results, cancelled) \in Verdict
BY DEF FinalStatus, Verdict

\* Every step of a worker keeps the types.
LEMMA TypeWorker ==
  ASSUME TypeOK, NEW w \in Workers, WorkerStep(w) \/ PollCancel(w) \/ Die(w)
  PROVE  TypeOK'
<1>0. /\ worker \in [Workers -> WorkerType] /\ client \in [Actors -> ClientType]
      /\ row \in RowType /\ everDone \in SUBSET Steps /\ started \in BOOLEAN
      /\ manifest \in [status : Verdict \cup {"none", "running"}, done : SUBSET Steps]
  BY DEF TypeOK
<1>w. worker \in [Workers -> WorkerType]
  BY DEF TypeOK
<1>c. client \in [Actors -> ClientType]
  BY DEF TypeOK
<1>pc. /\ {"unborn", "boot", "marked", "prepare", "execute", "saveRow", "saveManifest",
              "manifest", "verdict", "report", "exited", "killed"} \subseteq WorkerPc
        /\ {"statusRead", "idle"} \subseteq ClientPc
        /\ "failed" \in Verdict /\ {"running", "pending"} \cup Verdict \subseteq RunStatus
  BY DEF WorkerPc, Booting, Working, Ending, RunStatus, Verdict, ACTIVE, ClientPc
<1>1. CASE Mark(w)
  <2>1. row' \in RowType /\ everDone' \in SUBSET Steps
    BY <1>0, <1>pc, <1>1 DEF Mark, SetRow, RowType
  <2>2. worker' \in [Workers -> WorkerType]
    BY <1>0, <1>pc, <1>1 DEF Mark, WorkerAt, WorkerType
  <2> QED BY <1>0, <1>pc, <1>1, <2>1, <2>2 DEF TypeOK, Mark, WorkerAt
<1>2. CASE Load(w)
  <2>1. PICK f \in [Steps -> Result] :
          worker' = [worker EXCEPT ![w].pc = "prepare", ![w].resume = FALSE, ![w].results = f]
    BY <1>2 DEF Load, Result
  <2>2. worker' \in [Workers -> WorkerType]
    BY ZenonT(60), <1>w, <1>pc, <2>1 DEF WorkerType
  <2> QED BY <1>0, <1>pc, <1>2, <2>2 DEF TypeOK, Load
<1>3. CASE Prepared(w)
  <2>1. worker' \in [Workers -> WorkerType]
    BY <1>0, <1>pc, <1>3 DEF Prepared, WorkerAt, WorkerType
  <2> QED BY <1>0, <1>pc, <1>3, <2>1 DEF TypeOK, Prepared, WorkerAt
<1>4. CASE Raise(w)
  <2>1. PICK f \in [Steps -> Result] :
          worker' = [worker EXCEPT ![w].pc = "manifest", ![w].final = "failed", ![w].results = f]
    BY <1>4 DEF Raise, Result
  <2>2. worker' \in [Workers -> WorkerType]
    BY ZenonT(60), <1>w, <1>pc, <2>1 DEF WorkerType
  <2> QED BY <1>0, <1>pc, <1>4, <2>2 DEF TypeOK, Raise
<1>5. ASSUME NEW s \in Steps, StepEnds(w, s) PROVE TypeOK'
  <2>1. PICK r \in Result : worker' = [worker EXCEPT ![w].pc = "saveRow", ![w].results[s] = r]
    BY <1>5 DEF StepEnds
  <2>2. worker' \in [Workers -> WorkerType]
    BY ZenonT(60), <1>w, <1>pc, <2>1 DEF WorkerType
  <2> QED BY <1>0, <1>pc, <1>5, <2>2 DEF TypeOK, StepEnds
<1>6. CASE SaveRow(w)
  <2>1. row' \in RowType /\ everDone' \in SUBSET Steps
    BY <1>0, <1>pc, <1>6, CompletedSteps DEF SaveRow, SetRow, RowType
  <2>2. worker' \in [Workers -> WorkerType]
    BY <1>0, <1>pc, <1>6 DEF SaveRow, WorkerAt, WorkerType
  <2> QED BY <1>0, <1>pc, <1>6, <2>1, <2>2 DEF TypeOK, SaveRow, WorkerAt
<1>7. CASE SaveManifest(w)
  <2>1. worker' \in [Workers -> WorkerType]
    BY <1>0, <1>pc, <1>7 DEF SaveManifest, WorkerAt, WorkerType
  <2> QED BY <1>0, <1>pc, <1>7, <2>1, CompletedSteps DEF TypeOK, SaveManifest, WorkerAt
<1>8. CASE ExecuteReturns(w)
  <2> DEFINE results == [s \in Steps |-> IF worker[w].results[s] = "pending" THEN "bad"
                                         ELSE worker[w].results[s]]
  <2>1. results \in [Steps -> Result]
    BY <1>0 DEF Result, WorkerType
  <2>2. worker' = [worker EXCEPT ![w].pc = "manifest", ![w].results = results,
                     ![w].final = FinalStatus(results, worker[w].cancel)]
    BY <1>8 DEF ExecuteReturns
  <2> HIDE DEF results
  <2>4. FinalStatus(results, worker[w].cancel) \in Verdict
    BY FinalIsVerdict
  <2>3. worker' \in [Workers -> WorkerType]
    BY ZenonT(60), <1>w, <1>pc, <2>1, <2>2, <2>4 DEF WorkerType
  <2> QED BY <1>0, <1>pc, <1>8, <2>3 DEF TypeOK, ExecuteReturns
<1>9. CASE WriteManifest(w)
  <2>1. worker' \in [Workers -> WorkerType]
    BY <1>0, <1>pc, <1>9 DEF WriteManifest, WorkerAt, WorkerType
  <2>2. worker[w].final \in Verdict
    BY <1>w DEF WorkerType
  <2>3. manifest' \in [status : Verdict \cup {"none", "running"}, done : SUBSET Steps]
    BY <1>9, <2>2, CompletedSteps DEF WriteManifest
  <2> QED BY <1>0, <1>9, <2>1, <2>3 DEF TypeOK, WriteManifest, WorkerAt
<1>10. CASE WriteVerdict(w)
  <2>1. row' \in RowType /\ everDone' \in SUBSET Steps
    <3>1. worker[w].final \in RunStatus
      BY <1>w, <1>pc DEF WorkerType
    <3> QED BY <1>0, <1>10, <3>1, CompletedSteps DEF WriteVerdict, SetRow, RowType
  <2>2. worker' \in [Workers -> WorkerType]
    BY <1>0, <1>pc, <1>10 DEF WriteVerdict, WorkerType
  <2>3. client' \in [Actors -> ClientType]
    BY <1>0, <1>pc, <1>10 DEF WriteVerdict, ClientType, Actors
  <2> QED BY <1>0, <1>pc, <1>10, <2>1, <2>2, <2>3 DEF TypeOK, WriteVerdict
<1>11. ASSUME NEW pc \in WorkerPc, worker' = Gone(w, pc)
       PROVE  worker' \in [Workers -> WorkerType]
  BY <1>0, <1>pc, <1>11 DEF Gone, Unborn, Result, WorkerType
<1>12. CASE Exit(w)
  <2>1. worker' \in [Workers -> WorkerType]
    BY <1>pc, <1>11, <1>12 DEF Exit
  <2> QED BY <1>12, <2>1 DEF TypeOK, Exit
<1>13. CASE Die(w)
  <2>1. client' \in [Actors -> ClientType]
    BY <1>0, <1>pc, <1>13, NoPidNoWorker DEF Die, ClientType, Actors, SeenType, Unread
  <2> QED BY <1>0, <1>pc, <1>11, <1>13, <2>1 DEF TypeOK, Die
<1>14. CASE PollCancel(w)
  <2>1. worker' \in [Workers -> WorkerType]
    BY ZenonT(60), <1>0, <1>pc, <1>14 DEF PollCancel, WorkerType
  <2> QED BY <1>0, <1>pc, <1>14, <2>1 DEF TypeOK, PollCancel
<1> QED
  BY <1>0, <1>pc, <1>1, <1>2, <1>3, <1>4, <1>5, <1>6, <1>7, <1>8, <1>9, <1>10, <1>12, <1>13, <1>14
     DEF WorkerStep

\* Every step of a command keeps the types.
LEMMA TypeCommand ==
  ASSUME TypeOK, NEW a \in Actors,
         (\E cmd \in Commands : Type(a, cmd)) \/ RunStatusStep(a) \/ CancelStep(a)
  PROVE  TypeOK'
<1>0. /\ worker \in [Workers -> WorkerType] /\ client \in [Actors -> ClientType]
      /\ row \in RowType /\ everDone \in SUBSET Steps
  BY DEF TypeOK
<1>w. worker \in [Workers -> WorkerType]
  BY DEF TypeOK
<1>c. client \in [Actors -> ClientType]
  BY DEF TypeOK
<1>st. {"pending", "cancelling", "cancelled", "failed"} \subseteq RunStatus
  BY DEF RunStatus, Verdict, ACTIVE
<1>1. ASSUME NEW from, NEW to \in ClientPc, At(a, from, to)
      PROVE  client' \in [Actors -> ClientType] /\ UNCHANGED <<manifest, started>>
  <2>1. Unread \in SeenType
    BY <1>st DEF SeenType, Unread
  <2>2. PICK u \in SeenType : client' = [client EXCEPT ![a].pc = to, ![a].seen = u]
    BY <1>0, <1>1, <2>1 DEF At, ClientType
  <2>3. client' \in [Actors -> ClientType]
    BY <1>c, <2>2 DEF ClientType
  <2> QED BY <1>1, <2>3 DEF At
<1>2. ASSUME NEW from, NEW to \in ClientPc, Reads(a, from, to) PROVE TypeOK'
  <2>1. client' \in [Actors -> ClientType]
    <3>1. [status |-> row.status, pid |-> row.pid] \in SeenType
      BY <1>0 DEF SeenType, RowType
    <3> QED BY <1>0, <1>2, <3>1 DEF Reads, ClientType
  <2> QED BY <1>2, <2>1 DEF TypeOK, Reads, ReadsOnly
<1>3. ASSUME NEW status \in RunStatus, SetRow([row EXCEPT !.status = status])
      PROVE  row' \in RowType /\ everDone' \in SUBSET Steps
  BY <1>0, <1>3 DEF SetRow, RowType
<1>4. ASSUME NEW resume \in BOOLEAN, SpawnWorker(resume)
      PROVE  worker' \in [Workers -> WorkerType]
  <2>1. PICK w \in Workers : worker' = [worker EXCEPT ![w].pc = "boot", ![w].resume = resume]
    BY <1>4 DEF SpawnWorker
  <2>2. "boot" \in WorkerPc
    BY DEF WorkerPc, Booting
  <2> QED BY <1>w, <2>1, <2>2 DEF WorkerType
<1> USE DEF ClientPc
<1>5. ASSUME NEW cmd \in Commands, Type(a, cmd) PROVE TypeOK'
  <2>1. client' \in [Actors -> ClientType]
    <3>1. cmd \in {"status", "cancel", "resume"}
      BY CommandsKnown
    <3>2. PICK to \in ClientPc : client' = [client EXCEPT ![a].cmd = cmd, ![a].pc = to]
      BY <1>5 DEF Type
    <3> QED BY ZenonT(60), <1>0, <3>1, <3>2 DEF ClientType
  <2> QED BY <1>5, <2>1 DEF TypeOK, Type, ReadsOnly
<1>6. CASE StatusRead(a)
  BY <1>2, <1>6 DEF StatusRead
<1>7. CASE StatusCheck(a)
  BY <1>1, <1>7 DEF TypeOK, StatusCheck, AfterStatus, ReadsOnly
<1>8. CASE StatusWrite(a)
  BY <1>1, <1>3, <1>8, <1>st DEF TypeOK, StatusWrite
<1>9. CASE StatusReread(a)
  BY <1>1, <1>9 DEF TypeOK, StatusReread, AfterStatus, ReadsOnly
<1>10. CASE Respawn(a)
  BY <1>1, <1>4, <1>10 DEF TypeOK, Respawn
<1>11. CASE CancelRead(a)
  BY <1>2, <1>11 DEF CancelRead
<1>12. CASE CancelCheck(a)
  BY <1>1, <1>12 DEF TypeOK, CancelCheck, ReadsOnly
<1>13. CASE CancelWrite(a)
  BY <1>1, <1>3, <1>13, <1>st DEF TypeOK, CancelWrite
<1>14. CASE Kill(a)
  <2> DEFINE p == client[a].seen.pid
  <2>1. \/ UNCHANGED worker
        \/ p \in Workers /\ worker' = Gone(p, "killed")
        \/ p \in Workers /\ worker' = [worker EXCEPT ![p].cancel = TRUE]
    BY <1>14 DEF Kill, Alive
  <2>2. worker' \in [Workers -> WorkerType]
    <3>1. ASSUME p \in Workers, worker' = Gone(p, "killed")
          PROVE  worker' \in [Workers -> WorkerType]
      <4>1. [Unborn EXCEPT !.pc = "killed", !.final = worker[p].final] \in WorkerType
        BY <1>w, <3>1 DEF Unborn, Result, WorkerType, WorkerPc
      <4> QED BY <1>w, <3>1, <4>1 DEF Gone
    <3>2. ASSUME p \in Workers, worker' = [worker EXCEPT ![p].cancel = TRUE]
          PROVE  worker' \in [Workers -> WorkerType]
      BY <1>w, <3>2 DEF WorkerType
    <3> QED BY <1>w, <2>1, <3>1, <3>2
  <2> QED BY <1>1, <1>14, <2>2 DEF TypeOK, Kill
<1>15. CASE CloseWrite(a)
  BY <1>1, <1>3, <1>15, <1>st DEF TypeOK, CloseWrite
<1> QED
  BY <1>5, <1>6, <1>7, <1>8, <1>9, <1>10, <1>11, <1>12, <1>13, <1>14, <1>15
     DEF RunStatusStep, CancelStep

\* Every step of a run keeps the types.
LEMMA TypeStep == TypeOK /\ [Next]_vars => TypeOK'
<1> SUFFICES ASSUME TypeOK, [Next]_vars PROVE TypeOK'
  OBVIOUS
<1>1. CASE Start
  <2>1. worker \in [Workers -> WorkerType]
    BY DEF TypeOK
  <2>2. worker' \in [Workers -> WorkerType]
    <3>1. PICK w \in Workers : worker' = [worker EXCEPT ![w].pc = "boot", ![w].resume = FALSE]
      BY <1>1 DEF Start, SpawnWorker
    <3>2. "boot" \in WorkerPc
      BY DEF WorkerPc, Booting
    <3> QED BY <2>1, <3>1, <3>2 DEF WorkerType
  <2> QED BY <1>1, <2>2 DEF Start, TypeOK
<1>2. CASE UNCHANGED vars
  BY <1>2 DEF vars, TypeOK
<1> QED
  BY <1>1, <1>2, TypeWorker, TypeCommand DEF Next, Actors

\* The first state is well typed.
LEMMA TypeInit == Init => TypeOK
<1> SUFFICES ASSUME Init PROVE TypeOK
  OBVIOUS
<1>1. worker \in [Workers -> WorkerType]
  BY DEF Init, WorkerType, WorkerPc, Unborn, Result, Verdict
<1>2. client \in [Actors -> ClientType]
  BY DEF Init, ClientType, ClientPc, SeenType, Unread, RunStatus, ACTIVE
<1>3. row \in RowType
  BY DEF Init, RowType, RunStatus, ACTIVE
<1> QED BY <1>1, <1>2, <1>3 DEF Init, TypeOK

\* The row, run.json, every worker and every command are well typed.
THEOREM TypeCorrect == Spec => []TypeOK
BY TypeInit, TypeStep, PTL DEF Spec
(***************************************************************************)
(* What the steps of a worker touch.                                       *)
(***************************************************************************)
\* A step of a worker other than its first and its last statement changes
\* neither the status nor the pid of the row, nor any command.
Inside(w) ==
  \/ Load(w) \/ Prepared(w) \/ Raise(w) \/ (\E s \in Steps : StepEnds(w, s))
  \/ SaveRow(w) \/ SaveManifest(w) \/ ExecuteReturns(w) \/ WriteManifest(w)
  \/ PollCancel(w)

\* What the steps of a worker have in common: only its own program counter
\* moves, and it stays active until its verdict is written.
LEMMA InsideFrame ==
  ASSUME TypeOK, NEW w \in Workers, Inside(w)
  PROVE  /\ Active(w) /\ Active(w)'
         /\ \A v \in Workers : v # w => worker'[v] = worker[v]
         /\ UNCHANGED <<client, started>>
         /\ row'.status = row.status /\ row'.pid = row.pid
<1>0. worker \in [Workers -> WorkerType] /\ row \in RowType
  BY DEF TypeOK
<1>1. CASE SaveRow(w)
  <2>1. row'.status = row.status /\ row'.pid = row.pid
    BY <1>0, <1>1 DEF SaveRow, SetRow, RowType
  <2> QED BY <1>0, <1>1, <2>1 DEF SaveRow, WorkerAt, WorkerType, Active, Working
<1>2. CASE Prepared(w) \/ SaveManifest(w) \/ WriteManifest(w)
  BY <1>0, <1>2 DEF Prepared, SaveManifest, WriteManifest, WorkerAt, WorkerType,
                    Active, Working, Ending
<1>3. CASE Load(w)
  <2>1. PICK f : worker' = [worker EXCEPT ![w].pc = "prepare", ![w].resume = FALSE, ![w].results = f]
    BY <1>3 DEF Load
  <2> QED BY <1>0, <1>3, <2>1 DEF Load, WorkerType, Active, Working, Booting
<1>4. CASE Raise(w)
  <2>1. PICK f : worker' = [worker EXCEPT ![w].pc = "manifest", ![w].final = "failed", ![w].results = f]
    BY <1>4 DEF Raise
  <2> QED BY <1>0, <1>4, <2>1 DEF Raise, WorkerType, Active, Working, Ending
<1>5. ASSUME NEW s \in Steps, StepEnds(w, s)
      PROVE  /\ Active(w) /\ Active(w)'
             /\ \A v \in Workers : v # w => worker'[v] = worker[v]
             /\ UNCHANGED <<row, client, started>>
  <2>1. PICK r : worker' = [worker EXCEPT ![w].pc = "saveRow", ![w].results[s] = r]
    BY <1>5 DEF StepEnds
  <2> QED BY <1>0, <1>5, <2>1 DEF StepEnds, WorkerType, Active, Working
<1>6. CASE ExecuteReturns(w)
  <2>1. PICK f, g : worker' = [worker EXCEPT ![w].pc = "manifest", ![w].results = f, ![w].final = g]
    BY <1>6 DEF ExecuteReturns
  <2>2. worker[w].pc = "execute" /\ UNCHANGED <<row, client, started>>
    BY <1>6 DEF ExecuteReturns
  <2> QED BY <1>0, <2>1, <2>2 DEF WorkerType, Active, Working, Ending
<1>7. CASE PollCancel(w)
  BY <1>0, <1>7 DEF PollCancel, WorkerType, Active, Working
<1> QED BY <1>1, <1>2, <1>3, <1>4, <1>5, <1>6, <1>7 DEF Inside

\* The first statement of a worker.
LEMMA MarkFrame ==
  ASSUME TypeOK, NEW w \in Workers, Mark(w)
  PROVE  /\ Active(w) /\ Active(w)'
         /\ \A v \in Workers : v # w => worker'[v] = worker[v]
         /\ UNCHANGED <<client, started>>
         /\ row'.status = "running" /\ row'.pid = w
<1>0. worker \in [Workers -> WorkerType] /\ row \in RowType
  BY DEF TypeOK
<1>1. row'.status = "running" /\ row'.pid = w
  BY <1>0 DEF Mark, SetRow, RowType
<1> QED BY <1>0, <1>1 DEF Mark, WorkerAt, WorkerType, Active, Booting

Shut == {"report", "exited", "killed"}

\* The end of a worker: its verdict, its exit, or its death.
LEMMA EndFrame ==
  ASSUME TypeOK, NEW w \in Workers, WriteVerdict(w) \/ Exit(w) \/ Die(w)
  PROVE  /\ worker[w].pc # "unborn" /\ worker'[w].pc \in Shut
         /\ \A v \in Workers : v # w => worker'[v] = worker[v]
         /\ started' = started
         /\ \/ Active(w) /\ row'.status \in Verdict
            \/ UNCHANGED <<row, everDone>>
<1>0. worker \in [Workers -> WorkerType] /\ row \in RowType
  BY DEF TypeOK
<1>1. CASE WriteVerdict(w)
  <2>1. row'.status \in Verdict
    BY <1>0, <1>1 DEF WriteVerdict, SetRow, RowType, WorkerType
  <2>2. /\ worker[w].pc = "verdict" /\ worker'[w].pc = "report"
        /\ \A v \in Workers : v # w => worker'[v] = worker[v]
    BY <1>0, <1>1 DEF WriteVerdict, WorkerType
  <2> QED BY <1>1, <2>1, <2>2 DEF WriteVerdict, Active, Ending, Shut
<1>2. ASSUME NEW pc, worker' = Gone(w, pc)
      PROVE  worker'[w].pc = pc /\ \A v \in Workers : v # w => worker'[v] = worker[v]
  BY <1>0, <1>2 DEF Gone, Unborn
<1>3. CASE Exit(w)
  BY <1>2, <1>3 DEF Exit, Shut
<1>4. CASE Die(w)
  BY <1>2, <1>4 DEF Die, Alive, Shut
<1> QED BY <1>1, <1>3, <1>4

(***************************************************************************)
(* What is recorded.                                                       *)
(***************************************************************************)
\* Of one worker: its steps and those of the row, as far as it has come.
RecordsOf(w) ==
  /\ worker[w].pc \in Booting /\ ~worker[w].resume => row.done = {}
  /\ worker[w].pc \in (Working \cup Ending) \ {"saveRow"} => Completed(w) = row.done
  /\ worker[w].pc = "saveRow" => row.done \subseteq Completed(w)

\* A step of an active worker touches only its own claim: there is no other
\* active worker whose memory could fall behind the row.
LEMMA RecordsFrame ==
  ASSUME OneActive, NEW w \in Workers, Active(w),
         \A v \in Workers : v # w => worker'[v] = worker[v],
         everDone' = row'.done, manifest'.done \subseteq row'.done, RecordsOf(w)'
  PROVE  Records'
<1>1. ASSUME NEW v \in Workers, v # w PROVE ~Active(v)'
  BY <1>1 DEF OneActive, Active
<1>2. ASSUME NEW v \in Workers PROVE RecordsOf(v)'
  BY <1>1 DEF RecordsOf, Active, Working
<1> QED BY <1>2 DEF Records, RecordsOf

\* A step that changes nothing recorded, in the row, in run.json or in the
\* memory of a worker that goes on.
Remembers(v) ==
  /\ worker'[v].pc = worker[v].pc /\ worker'[v].resume = worker[v].resume
  /\ worker'[v].results = worker[v].results

LEMMA RecordsSame ==
  ASSUME Records, row'.done = row.done, everDone' = everDone, manifest' = manifest,
         \A v \in Workers : Remembers(v) \/ ~Active(v)'
  PROVE  Records'
<1>1. ASSUME NEW v \in Workers PROVE RecordsOf(v)'
  BY <1>1 DEF Records, RecordsOf, Active, Completed, Working, Remembers
<1> QED BY <1>1 DEF Records, RecordsOf

\* Each statement of the worker writes or keeps all that is recorded.
LEMMA RecordsWorker ==
  ASSUME TypeOK, OneActive, Records, NEW w \in Workers, Raise(w) => row.done = {},
         WorkerStep(w) \/ PollCancel(w) \/ Die(w)
  PROVE  Records' /\ row.done \subseteq row'.done
<1>0. /\ worker \in [Workers -> WorkerType] /\ row \in RowType
      /\ everDone = row.done /\ manifest.done \subseteq row.done /\ RecordsOf(w)
  BY DEF TypeOK, Records, RecordsOf
<1> USE DEF Working, Ending, Booting
<1>1. CASE Mark(w)
  <2>1. worker'[w].pc = "marked" /\ worker[w].pc = "boot" /\ worker'[w].resume = worker[w].resume
    BY <1>0, <1>1 DEF Mark, WorkerAt, WorkerType
  <2>2. row'.done = row.done /\ everDone' = everDone /\ manifest' = manifest
    BY <1>0, <1>1 DEF Mark, SetRow, RowType
  <2>3. RecordsOf(w)'
    BY <1>0, <2>1, <2>2 DEF RecordsOf
  <2> QED BY <1>0, <1>1, <2>2, <2>3, MarkFrame, RecordsFrame
<1>2. CASE Load(w)
  <2> DEFINE f == [s \in Steps |-> IF worker[w].resume /\ s \in row.done THEN "completed" ELSE "pending"]
  <2>1. /\ worker' = [worker EXCEPT ![w].pc = "prepare", ![w].resume = FALSE, ![w].results = f]
        /\ worker[w].pc = "marked" /\ UNCHANGED <<row, manifest, everDone>>
    BY <1>2 DEF Load
  <2>2. {s \in Steps : f[s] = "completed"} = row.done
    <3>1. row.done \subseteq Steps /\ (~worker[w].resume => row.done = {})
      BY <1>0, <2>1 DEF RecordsOf, RowType
    <3> QED BY <3>1
  <2> HIDE DEF f
  <2>3. worker'[w].pc = "prepare" /\ worker'[w].results = f
    BY <1>0, <2>1 DEF WorkerType
  <2>4. RecordsOf(w)'
    BY <2>1, <2>2, <2>3 DEF RecordsOf, Completed
  <2> QED BY <1>0, <1>2, <2>1, <2>4, InsideFrame, RecordsFrame DEF Inside
<1>3. CASE Prepared(w) \/ SaveManifest(w) \/ WriteManifest(w) \/ PollCancel(w)
  <2>1. worker'[w].results = worker[w].results /\ UNCHANGED <<row, everDone>>
    BY <1>0, <1>3 DEF Prepared, SaveManifest, WriteManifest, PollCancel, WorkerAt, WorkerType
  <2>2. /\ worker[w].pc \in Working \cup Ending
        /\ \/ worker[w].pc # "saveRow" /\ worker'[w].pc \in (Working \cup Ending) \ {"saveRow"}
           \/ worker'[w].pc = worker[w].pc
    BY <1>0, <1>3 DEF Prepared, SaveManifest, WriteManifest, PollCancel, WorkerAt, WorkerType
  <2>3. Completed(w)' = Completed(w)
    BY <2>1 DEF Completed
  <2>4. RecordsOf(w)'
    BY <1>0, <2>1, <2>2, <2>3 DEF RecordsOf
  <2>5. manifest'.done \subseteq row'.done
    BY <1>0, <1>3, <2>1 DEF Prepared, SaveManifest, WriteManifest, PollCancel, WorkerAt, RecordsOf
  <2> QED BY <1>0, <1>3, <2>1, <2>4, <2>5, InsideFrame, RecordsFrame DEF Inside
<1>4. CASE Raise(w)
  <2> DEFINE f == [s \in Steps |-> "pending"]
  <2>1. /\ worker' = [worker EXCEPT ![w].pc = "manifest", ![w].final = "failed", ![w].results = f]
        /\ row.done = {} /\ UNCHANGED <<row, manifest, everDone>>
    BY <1>4 DEF Raise
  <2>2. {s \in Steps : f[s] = "completed"} = {}
    OBVIOUS
  <2> HIDE DEF f
  <2>3. worker'[w].pc = "manifest" /\ worker'[w].results = f
    BY <1>0, <2>1 DEF WorkerType
  <2>4. RecordsOf(w)'
    BY <2>1, <2>2, <2>3 DEF RecordsOf, Completed
  <2> QED BY <1>0, <1>4, <2>1, <2>4, InsideFrame, RecordsFrame DEF Inside
<1>5. ASSUME NEW s \in Steps, StepEnds(w, s) PROVE Records' /\ row.done \subseteq row'.done
  <2>1. /\ worker[w].pc = "execute" /\ worker[w].results[s] = "pending"
        /\ UNCHANGED <<row, manifest, everDone>>
    BY <1>5 DEF StepEnds
  <2>2. PICK r : worker' = [worker EXCEPT ![w].pc = "saveRow", ![w].results[s] = r]
    BY <1>5 DEF StepEnds
  <2>3. /\ worker'[w].pc = "saveRow"
        /\ \A x \in Steps : x # s => worker'[w].results[x] = worker[w].results[x]
    BY <1>0, <2>2 DEF WorkerType
  <2>4. Completed(w) \subseteq Completed(w)'
    BY <2>1, <2>3 DEF Completed
  <2>5. RecordsOf(w)'
    BY <1>0, <2>1, <2>3, <2>4 DEF RecordsOf
  <2>6. Inside(w)
    BY <1>5 DEF Inside
  <2> QED BY <1>0, <2>1, <2>5, <2>6, InsideFrame, RecordsFrame
<1>6. CASE SaveRow(w)
  <2>1. worker[w].pc = "saveRow" /\ worker'[w].pc = "saveManifest"
        /\ worker'[w].results = worker[w].results
    BY <1>0, <1>6 DEF SaveRow, WorkerAt, WorkerType
  <2>2. row'.done = Completed(w) /\ everDone' = everDone \cup row'.done /\ manifest' = manifest
    BY <1>0, <1>6 DEF SaveRow, SetRow, RowType
  <2>3. Completed(w)' = Completed(w)
    BY <2>1 DEF Completed
  <2>4. RecordsOf(w)' /\ row.done \subseteq row'.done
    BY <1>0, <2>1, <2>2, <2>3 DEF RecordsOf
  <2> QED BY <1>0, <1>6, <2>2, <2>4, InsideFrame, RecordsFrame DEF Inside
<1>7. CASE ExecuteReturns(w)
  <2> DEFINE f == [s \in Steps |-> IF worker[w].results[s] = "pending" THEN "bad"
                                   ELSE worker[w].results[s]]
  <2>1. /\ worker[w].pc = "execute" /\ UNCHANGED <<row, manifest, everDone>>
        /\ \E g : worker' = [worker EXCEPT ![w].pc = "manifest", ![w].results = f, ![w].final = g]
    BY <1>7 DEF ExecuteReturns
  <2>2. {s \in Steps : f[s] = "completed"} = Completed(w)
    BY DEF Completed
  <2> HIDE DEF f
  <2>3. worker'[w].pc = "manifest" /\ worker'[w].results = f
    BY <1>0, <2>1 DEF WorkerType
  <2>4. Completed(w)' = Completed(w)
    BY <2>2, <2>3 DEF Completed
  <2>5. RecordsOf(w)'
    BY <1>0, <2>1, <2>3, <2>4 DEF RecordsOf
  <2> QED BY <1>0, <1>7, <2>1, <2>5, InsideFrame, RecordsFrame DEF Inside
<1>8. CASE WriteVerdict(w)
  <2>1. worker[w].pc = "verdict"
    BY <1>8 DEF WriteVerdict
  <2>2. row'.done = Completed(w) /\ everDone' = everDone \cup row'.done /\ manifest' = manifest
    BY <1>0, <1>8 DEF WriteVerdict, SetRow, RowType
  <2>3. row'.done = row.done /\ everDone' = everDone
    BY <1>0, <2>1, <2>2 DEF RecordsOf
  <2>4. \A v \in Workers : Remembers(v) \/ ~Active(v)'
    BY <1>8, EndFrame DEF Active, Shut, Remembers
  <2> QED BY <2>2, <2>3, <2>4, RecordsSame
<1>9. CASE Exit(w) \/ Die(w)
  <2>1. UNCHANGED <<row, manifest, everDone>>
    BY <1>9 DEF Exit, Die
  <2>2. \A v \in Workers : Remembers(v) \/ ~Active(v)'
    BY <1>9, EndFrame DEF Active, Shut, Remembers
  <2> QED BY <2>1, <2>2, RecordsSame
<1> QED
  BY <1>1, <1>2, <1>3, <1>4, <1>5, <1>6, <1>7, <1>8, <1>9 DEF WorkerStep

\* A cancel ends its worker, or tells it to end.
LEMMA KillFrame ==
  ASSUME TypeOK, NEW a \in Actors, Kill(a), NEW v \in Workers
  PROVE  /\ Remembers(v) \/ ~Active(v)'
         /\ worker'[v].pc = "unborn" => worker[v].pc = "unborn"
<1>0. worker \in [Workers -> WorkerType]
  BY DEF TypeOK
<1> DEFINE p == client[a].seen.pid
<1>1. CASE UNCHANGED worker
  BY <1>1 DEF Remembers
<1>2. CASE p \in Workers /\ worker' = Gone(p, "killed")
  <2>1. worker'[p].pc = "killed" /\ (v # p => worker'[v] = worker[v])
    BY <1>0, <1>2 DEF Gone, Unborn
  <2> QED BY <2>1 DEF Remembers, Active, Booting, Working, Ending
<1>3. CASE p \in Workers /\ worker' = [worker EXCEPT ![p].cancel = TRUE]
  BY <1>0, <1>3 DEF WorkerType, Remembers
<1> QED BY <1>1, <1>2, <1>3 DEF Kill, Alive

\* A command changes the status of the row, never the steps recorded in it.
LEMMA RecordsCommand ==
  ASSUME TypeOK, Records, NEW a \in Actors,
         (\E cmd \in Commands : Type(a, cmd)) \/ RunStatusStep(a) \/ CancelStep(a)
  PROVE  Records' /\ row.done \subseteq row'.done
<1>0. worker \in [Workers -> WorkerType] /\ row \in RowType /\ everDone = row.done
  BY DEF TypeOK, Records
<1>1. CASE Respawn(a)
  <2>1. UNCHANGED <<row, everDone, manifest>>
    BY <1>1 DEF Respawn, At
  <2>2. CASE UNCHANGED worker
    BY <2>1, <2>2, RecordsSame DEF Remembers
  <2>3. CASE SpawnWorker(TRUE)
    <3>1. PICK w \in Workers : worker' = [worker EXCEPT ![w].pc = "boot", ![w].resume = TRUE]
      BY <2>3 DEF SpawnWorker
    <3>2. /\ worker'[w].pc = "boot" /\ worker'[w].resume
          /\ \A v \in Workers : v # w => worker'[v] = worker[v]
      BY <1>0, <3>1 DEF WorkerType
    <3>3. ASSUME NEW v \in Workers PROVE RecordsOf(v)'
      BY <2>1, <3>2 DEF Records, RecordsOf, Working, Ending, Completed
    <3> QED BY <2>1, <3>3 DEF Records, RecordsOf
  <2> QED BY <1>1, <2>2, <2>3 DEF Respawn
<1>2. CASE StatusWrite(a)
  <2>1. row'.done = row.done /\ everDone' = everDone /\ UNCHANGED <<manifest, worker>>
    BY <1>0, <1>2 DEF StatusWrite, SetRow, RowType, At
  <2> QED BY <2>1, RecordsSame DEF Remembers
<1>3. CASE (\E cmd \in Commands : Type(a, cmd)) \/ StatusRead(a) \/ StatusCheck(a) \/ StatusReread(a)
  <2>1. UNCHANGED <<row, everDone, manifest, worker>>
    BY <1>3 DEF Type, StatusRead, Reads, StatusCheck, StatusReread, ReadsOnly, At
  <2> QED BY <2>1, RecordsSame DEF Remembers
<1>4. CASE CancelRead(a) \/ CancelCheck(a)
  <2>1. UNCHANGED <<row, everDone, manifest, worker>>
    BY <1>4 DEF CancelRead, Reads, CancelCheck, ReadsOnly, At
  <2> QED BY <2>1, RecordsSame DEF Remembers
<1>5. CASE CancelWrite(a) \/ CloseWrite(a)
  <2>1. row'.done = row.done /\ everDone' = everDone /\ UNCHANGED <<manifest, worker>>
    BY <1>0, <1>5 DEF CancelWrite, CloseWrite, SetRow, RowType, At
  <2> QED BY <2>1, RecordsSame DEF Remembers
<1>6. CASE Kill(a)
  <2>1. UNCHANGED <<row, everDone, manifest>>
    BY <1>6 DEF Kill, At
  <2>2. \A v \in Workers : Remembers(v) \/ ~Active(v)'
    BY <1>6, KillFrame
  <2> QED BY <2>1, <2>2, RecordsSame
<1> QED BY <1>1, <1>2, <1>3, <1>4, <1>5, <1>6 DEF RunStatusStep, CancelStep

\* Row and manifest agree in the first state.
LEMMA RecordsInit == Init => Records
BY DEF Init, Records, Unborn, Booting, Working, Ending

\* Every step of a run keeps row, manifest and memory in order.
LEMMA RecordsStep ==
  ASSUME TypeOK, OneActive, Records, Start => row.done = {},
         \A w \in Workers : Raise(w) => row.done = {}, [Next]_vars
  PROVE  Records' /\ row.done \subseteq row'.done
<1>1. CASE Start
  <2>0. worker \in [Workers -> WorkerType]
    BY DEF TypeOK
  <2>1. PICK w \in Workers : worker' = [worker EXCEPT ![w].pc = "boot", ![w].resume = FALSE]
    BY <1>1 DEF Start, SpawnWorker
  <2>2. worker'[w].pc = "boot" /\ \A v \in Workers : v # w => worker'[v] = worker[v]
    BY <2>0, <2>1 DEF WorkerType
  <2>3. UNCHANGED <<row, manifest, everDone>> /\ row.done = {}
    BY <1>1 DEF Start
  <2>4. ASSUME NEW v \in Workers PROVE RecordsOf(v)'
    BY <2>2, <2>3 DEF Records, RecordsOf, Working, Ending, Completed
  <2> QED BY <2>3, <2>4 DEF Records, RecordsOf
<1>2. CASE UNCHANGED vars
  BY <1>2, RecordsSame DEF vars, Remembers
<1> QED
  BY <1>1, <1>2, RecordsWorker, RecordsCommand DEF Next, Actors

(***************************************************************************)
(* Any number of resumes.                                                  *)
(***************************************************************************)
\* The hypothesis of the theorems: a worker is spawned when no other is at work,
\* the first one by `run start', and no preparation or execute raises once a
\* step is recorded.  The code enforces none of them: it looks for an active run
\* and then spawns, two resumes typed together both do (OneExecutor is refuted),
\* and a raise forgets the recorded steps (MCProfileRun_wiped.cfg).
Patient ==
  /\ Start => \A w \in Workers : worker[w].pc = "unborn"
  /\ \A w \in Workers :
       worker[w].pc = "unborn" /\ worker'[w].pc # "unborn" => \A v \in Workers : ~Active(v)
  /\ \A w \in Workers : Raise(w) => row.done = {}

Begun == row.done # {} => \E w \in Workers : worker[w].pc # "unborn"

\* A process that is spawned is the only one to come to life, and a process
\* that has been spawned stays so.
LEMMA SpawnFrame ==
  ASSUME TypeOK, [Next]_vars
  PROVE  /\ \A w \in Workers : worker'[w].pc = "unborn" => worker[w].pc = "unborn"
         /\ \/ \A w \in Workers : Active(w)' => Active(w)
            \/ \E w \in Workers : /\ worker[w].pc = "unborn" /\ worker'[w].pc # "unborn"
                                 /\ \A v \in Workers : v # w => worker'[v] = worker[v]
<1> DEFINE Goal == /\ \A w \in Workers : worker'[w].pc = "unborn" => worker[w].pc = "unborn"
                   /\ \/ \A w \in Workers : Active(w)' => Active(w)
                      \/ \E w \in Workers : /\ worker[w].pc = "unborn" /\ worker'[w].pc # "unborn"
                                           /\ \A v \in Workers : v # w => worker'[v] = worker[v]
<1>0. worker \in [Workers -> WorkerType]
  BY DEF TypeOK
<1>1. ASSUME NEW resume, SpawnWorker(resume) PROVE Goal
  <2>1. PICK w \in Workers : /\ worker[w].pc = "unborn"
                             /\ worker' = [worker EXCEPT ![w].pc = "boot", ![w].resume = resume]
    BY <1>1 DEF SpawnWorker
  <2>2. worker'[w].pc = "boot" /\ \A v \in Workers : v # w => worker'[v] = worker[v]
    BY <1>0, <2>1 DEF WorkerType
  <2> QED BY <2>1, <2>2
<1>2. ASSUME UNCHANGED worker PROVE Goal
  BY <1>2 DEF Active
<1>3. ASSUME NEW w \in Workers, Inside(w) \/ Mark(w) PROVE Goal
  <2>1. /\ Active(w) /\ Active(w)'
        /\ \A v \in Workers : v # w => worker'[v] = worker[v]
    BY <1>3, InsideFrame, MarkFrame
  <2> QED BY <2>1 DEF Active, Booting, Working, Ending
<1>4. ASSUME NEW w \in Workers, WriteVerdict(w) \/ Exit(w) \/ Die(w) PROVE Goal
  BY <1>4, EndFrame DEF Active, Booting, Working, Ending, Shut
<1>5. ASSUME NEW a \in Actors, Kill(a) PROVE Goal
  BY <1>5, KillFrame DEF Active, Remembers
<1>6. ASSUME NEW a \in Actors, RunStatusStep(a) \/ CancelStep(a) PROVE Goal
  BY <1>1, <1>2, <1>5, <1>6 DEF RunStatusStep, CancelStep, StatusRead, StatusCheck, StatusWrite,
     StatusReread, Respawn, CancelRead, CancelCheck, CancelWrite, CloseWrite, Reads, ReadsOnly
<1>7. ASSUME NEW w \in Workers, WorkerStep(w) \/ PollCancel(w) \/ Die(w) PROVE Goal
  BY <1>3, <1>4, <1>7 DEF WorkerStep, Inside
<1>8. ASSUME Start \/ (\E c \in Clients, cmd \in Commands : Type(c, cmd)) PROVE Goal
  BY <1>1, <1>2, <1>8 DEF Start, Type, ReadsOnly
<1> QED BY <1>2, <1>6, <1>7, <1>8 DEF Next, vars

\* While users are patient one worker at a time is at work.
LEMMA PatientStep ==
  ASSUME TypeOK, OneActive, Begun, Records, [Next]_vars, [Patient]_vars
  PROVE  OneActive' /\ Begun' /\ Records' /\ row.done \subseteq row'.done
<1>1. CASE UNCHANGED vars
  BY <1>1, RecordsSame DEF vars, OneActive, Active, Begun, Remembers
<1>2. CASE Patient
  <2>1. (Start => row.done = {}) /\ \A w \in Workers : Raise(w) => row.done = {}
    BY <1>2 DEF Patient, Begun
  <2>2. Records' /\ row.done \subseteq row'.done
    BY <2>1, RecordsStep
  <2>3. OneActive'
    <3>1. CASE \A w \in Workers : Active(w)' => Active(w)
      BY <3>1 DEF OneActive, Active
    <3>2. CASE \E w \in Workers : /\ worker[w].pc = "unborn" /\ worker'[w].pc # "unborn"
                                  /\ \A v \in Workers : v # w => worker'[v] = worker[v]
      BY <1>2, <3>2 DEF Patient, OneActive, Active
    <3> QED BY <3>1, <3>2, SpawnFrame
  <2>4. Begun'
    <3>1. CASE row'.done = row.done
      BY <3>1, SpawnFrame DEF Begun
    <3>2. CASE \E w \in Workers : Active(w)
      BY <3>2, SpawnFrame DEF Begun, Active, Booting, Working, Ending
    <3>3. row'.done = row.done \/ \E w \in Workers : Active(w)
      <4>1. row \in RowType
        BY DEF TypeOK
      <4>2. ASSUME NEW w \in Workers, WorkerStep(w) \/ PollCancel(w) \/ Die(w)
            PROVE  row' = row \/ Active(w)
        BY <4>2, InsideFrame, MarkFrame, EndFrame DEF WorkerStep, Inside
      <4>3. ASSUME NEW a \in Actors, RunStatusStep(a) \/ CancelStep(a) PROVE row'.done = row.done
        BY <4>1, <4>3 DEF RunStatusStep, CancelStep, StatusRead, StatusCheck, StatusWrite,
           StatusReread, Respawn, CancelRead, CancelCheck, CancelWrite, Kill, CloseWrite, Reads,
           ReadsOnly, SetRow, RowType
      <4> QED BY <4>2, <4>3 DEF Next, vars, Start, Type, ReadsOnly
    <3> QED BY <3>1, <3>2, <3>3
  <2> QED BY <2>2, <2>3, <2>4
<1> QED BY <1>1, <1>2

\* The records agree in every state of a patient user.
LEMMA PatientHolds ==
  Spec /\ [][Patient]_vars => [](TypeOK /\ OneActive /\ Begun /\ Records)
<1>1. Init => TypeOK /\ OneActive /\ Begun /\ Records
  BY TypeInit, RecordsInit DEF Init, OneActive, Active, Begun, Unborn, Booting, Working, Ending
<1>2. /\ TypeOK /\ OneActive /\ Begun /\ Records
      /\ [Next]_vars /\ [Patient]_vars
      => (TypeOK /\ OneActive /\ Begun /\ Records)'
  BY TypeStep, PatientStep
<1> QED BY <1>1, <1>2, PTL DEF Spec

\* Through any number of kills, cancels and resumes, run.json shows no step that
\* the row does not record.
THEOREM PatientManifest ==
  Spec /\ [][Patient]_vars => []ManifestBehindRow
<1>1. Records => ManifestBehindRow
  BY DEF Records, ManifestBehindRow
<1> QED BY <1>1, PatientHolds, PTL

\* Through any number of kills, cancels and resumes, a step recorded as
\* completed stays recorded.
THEOREM PatientRecords ==
  Spec /\ [][Patient]_vars => RecordedStepsKept
<1>1. TypeOK /\ OneActive /\ Begun /\ Records /\ [Next]_vars /\ [Patient]_vars
        => [row.done \subseteq row'.done]_vars
  BY PatientStep
<1> QED BY <1>1, PatientHolds, PTL DEF Spec, RecordedStepsKept

\* Through any number of kills, cancels and resumes, a step recorded as
\* completed is not executed again.
THEOREM PatientResumes ==
  Spec /\ [][Patient]_vars => CompletedNotRerun
<1> DEFINE Step == \A w \in Workers, s \in Steps :
                     /\ worker[w].pc = "execute"
                     /\ worker[w].results[s] = "pending"
                     /\ worker'[w].pc = "saveRow"
                     /\ worker'[w].results[s] # "pending"
                     => s \notin everDone
<1>1. Records => Step
  BY DEF Records, Working, Completed
<1>2. TypeOK /\ OneActive /\ Begun /\ Records => [Step]_vars
  BY <1>1
<1> QED BY <1>2, PatientHolds, PTL DEF CompletedNotRerun
=============================================================================
