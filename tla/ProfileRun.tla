----------------------------- MODULE ProfileRun ------------------------------
(***************************************************************************)
(* One profile run, orchestrator/runs.py with the commands of cli/runs.py: *)
(* its row of `profile_runs', its run.json, the detached worker processes  *)
(* that execute it and the short-lived commands (`run status', `run        *)
(* cancel', `run resume') that look at it from other processes.            *)
(*                                                                         *)
(* Every SELECT or UPDATE is a statement of its own, so a command reads    *)
(* the row in one step and acts on what it read in a later one.  What      *)
(* happens inside `execute' is the business of Dag: here a worker finishes *)
(* steps one at a time, in any order.                                      *)
(***************************************************************************)
EXTENDS FiniteSets

CONSTANTS
  Workers,     \* worker processes that may ever be spawned: one more than
               \* the number of resumes
  Clients,     \* the terminals (or MCP calls) commands are typed in
  Steps,       \* step ids of the profile
  OptionalSteps,
  Commands,    \* commands the clients use, among "status", "cancel", "resume"
  MayRaise,    \* may the preparation, or execute itself, raise?
  MayDie,      \* may a worker be killed from outside (OOM, reboot, kill -9)?
  NoPid        \* the pid column is NULL

ASSUME OptionalKnown == OptionalSteps \in SUBSET Steps
ASSUME CommandsKnown == Commands \in SUBSET {"status", "cancel", "resume"}
ASSUME NoPidNoWorker == NoPid \notin Workers
ASSUME ClientsNoWorkers == Clients \cap Workers = {}
ASSUME SwitchesBool == MayRaise \in BOOLEAN /\ MayDie \in BOOLEAN

VARIABLES
  row,        \* the row: status, pid, and the steps recorded "completed"
  manifest,   \* run.json: status and completed steps
  worker,     \* what each worker process is doing and what it holds in memory
  client,     \* the command each process is in and the row it has read
  started,    \* `run start' has spawned the first worker
  everDone    \* history: steps once recorded "completed" in the row

vars == <<row, manifest, worker, client, started, everDone>>

ACTIVE    == {"pending", "running", "cancelling"}
Verdict   == {"completed", "completed_with_errors", "failed", "cancelled"}
RunStatus == ACTIVE \cup Verdict
Result    == {"pending", "completed", "skipped", "bad"}   \* bad: failed, timeout, cancelled

SeenType == [status : RunStatus, pid : Workers \cup {NoPid}]
RowType == [status : RunStatus, pid : Workers \cup {NoPid}, done : SUBSET Steps]

\* Program counter of a worker.  "boot" and "marked" are before the SIGTERM
\* handler; from "report" on its verdict is in the row.
Booting  == {"boot", "marked"}
Working  == {"prepare", "execute", "saveRow", "saveManifest"}
Ending   == {"manifest", "verdict"}
WorkerPc == {"unborn", "report", "exited", "killed"} \cup Booting \cup Working \cup Ending

WorkerType == [pc : WorkerPc, resume : BOOLEAN, cancel : BOOLEAN,
               results : [Steps -> Result], final : Verdict]

\* A worker ends with run_status, so it is an actor of the commands as well.
Actors == Clients \cup Workers

ClientPc == {"idle", "statusRead", "statusCheck", "statusWrite", "statusReread",
             "cancelRead", "cancelCheck", "cancelWrite", "kill", "closeWrite",
             "spawn"}
ClientType == [pc : ClientPc, cmd : {"status", "cancel", "resume"}, seen : SeenType]

\* Mutant of Alive: a process that is over but not reaped is alive.
AliveZombie(p) == p \in Workers /\ worker[p].pc # "unborn"

\* is_alive (a pid is not used again for another process).
Alive(p) == p \in Workers /\ worker[p].pc \notin {"unborn", "exited", "killed"}

Unborn == [pc |-> "unborn", resume |-> FALSE, cancel |-> FALSE,
           results |-> [s \in Steps |-> "pending"], final |-> "failed"]

Unread == [status |-> "pending", pid |-> NoPid]

\* The memory of process w is gone.
Gone(w, pc) == [worker EXCEPT ![w] = [Unborn EXCEPT !.pc = pc, !.final = worker[w].final]]

\* create_run has inserted the row.
Init ==
  /\ row = [status |-> "pending", pid |-> NoPid, done |-> {}]
  /\ manifest = [status |-> "none", done |-> {}]
  /\ worker = [w \in Workers |-> Unborn]
  /\ client = [a \in Actors |-> [pc |-> "idle", cmd |-> "status", seen |-> Unread]]
  /\ started = FALSE
  /\ everDone = {}

SetRow(r) == row' = r /\ everDone' = everDone \cup r.done

\* The steps a worker would write as "completed".
Completed(w) == {s \in Steps : worker[w].results[s] = "completed"}

\* Popen of `defair run worker'.
SpawnWorker(resume) ==
  \E w \in Workers :
    /\ worker[w].pc = "unborn"
    /\ worker' = [worker EXCEPT ![w].pc = "boot", ![w].resume = resume]

\* `run start' after create_run; it may also never come to it.
Start ==
  /\ ~started
  /\ started' = TRUE
  /\ SpawnWorker(FALSE)
  /\ UNCHANGED <<row, manifest, client, everDone>>
-----------------------------------------------------------------------------
(* The worker, execute_run.                                                *)

WorkerAt(w, from, to) ==
  /\ worker[w].pc = from
  /\ worker' = [worker EXCEPT ![w].pc = to]
  /\ UNCHANGED <<client, started>>

\* The row is marked running whatever its status was.
Mark(w) ==
  /\ WorkerAt(w, "boot", "marked")
  /\ SetRow([row EXCEPT !.status = "running", !.pid = w])
  /\ UNCHANGED manifest

\* Mutant of Load: the recorded steps are not taken over.
LoadForgetting(w) ==
  /\ worker[w].pc = "marked"
  /\ worker' = [worker EXCEPT ![w].pc = "prepare", ![w].resume = FALSE]
  /\ UNCHANGED <<row, manifest, client, started, everDone>>

\* get_run, then the SIGTERM handler; a resumed worker takes over the steps
\* recorded as completed (they reach `execute' as `previous').
Load(w) ==
  /\ worker[w].pc = "marked"
  /\ worker' = [worker EXCEPT
                  ![w].pc = "prepare", ![w].resume = FALSE,
                  ![w].results = [s \in Steps |->
                     IF worker[w].resume /\ s \in row.done THEN "completed" ELSE "pending"]]
  /\ UNCHANGED <<row, manifest, client, started, everDone>>

Prepared(w) ==
  WorkerAt(w, "prepare", "execute") /\ UNCHANGED <<row, manifest, everDone>>

\* An exception before execute has returned (a wrong password, an archive too
\* large, Ctrl-C on a foreground run): `results' is still the empty dict.
Raise(w) ==
  /\ MayRaise
  /\ worker[w].pc \in {"prepare", "execute"}
  /\ worker' = [worker EXCEPT ![w].pc = "manifest", ![w].final = "failed",
                              ![w].results = [s \in Steps |-> "pending"]]
  /\ UNCHANGED <<row, manifest, client, started, everDone>>

\* Mutant of StepEnds: on_update writes run.json only.
StepEndsUnsaved(w, s) ==
  /\ worker[w].pc = "execute"
  /\ worker[w].results[s] = "pending"
  /\ \E r \in Result \ {"pending"} :
       worker' = [worker EXCEPT ![w].pc = "saveManifest", ![w].results[s] = r]
  /\ UNCHANGED <<row, manifest, client, started, everDone>>

\* A step ends inside execute; then on_update runs.
StepEnds(w, s) ==
  /\ worker[w].pc = "execute"
  /\ worker[w].results[s] = "pending"
  /\ \E r \in Result \ {"pending"} :
       worker' = [worker EXCEPT ![w].pc = "saveRow", ![w].results[s] = r]
  /\ UNCHANGED <<row, manifest, client, started, everDone>>

SaveRow(w) ==
  /\ WorkerAt(w, "saveRow", "saveManifest")
  /\ SetRow([row EXCEPT !.done = Completed(w)])
  /\ UNCHANGED manifest

SaveManifest(w) ==
  /\ WorkerAt(w, "saveManifest", "execute")
  /\ manifest' = [status |-> "running", done |-> Completed(w)]
  /\ UNCHANGED <<row, everDone>>

\* watch_db polls the row until the finally clause cancels it.
PollCancel(w) ==
  /\ worker[w].pc \in Working
  /\ row.status = "cancelling"
  /\ ~worker[w].cancel
  /\ worker' = [worker EXCEPT ![w].cancel = TRUE]
  /\ UNCHANGED <<row, manifest, client, started, everDone>>

\* Mutant of FinalStatus: the failure of a step is taken for that of the run.
FinalStatusMutant(results, cancelled) ==
  IF cancelled THEN "cancelled"
  ELSE IF \E s \in Steps : results[s] = "bad" THEN "bad" ELSE "completed"

\* _final_status.
FinalStatus(results, cancelled) ==
  LET bad == {s \in Steps : results[s] = "bad"}
  IN IF cancelled THEN "cancelled"
     ELSE IF bad = {} THEN "completed"
     ELSE IF \/ bad \subseteq OptionalSteps
             \/ \E s \in Steps : results[s] = "completed"
          THEN "completed_with_errors" ELSE "failed"

\* execute returns: every step has a verdict; a cancel decides the pending
\* ones.  Its own last on_update is subsumed by the two final writes.
ExecuteReturns(w) ==
  LET results == [s \in Steps |-> IF worker[w].results[s] = "pending" THEN "bad"
                                  ELSE worker[w].results[s]]
  IN /\ worker[w].pc = "execute"
     /\ worker[w].cancel \/ \A s \in Steps : worker[w].results[s] # "pending"
     /\ worker' = [worker EXCEPT ![w].pc = "manifest", ![w].results = results,
                     ![w].final = FinalStatus(results, worker[w].cancel)]
     /\ UNCHANGED <<row, manifest, client, started, everDone>>

WriteManifest(w) ==
  /\ WorkerAt(w, "manifest", "verdict")
  /\ manifest' = [status |-> worker[w].final, done |-> Completed(w)]
  /\ UNCHANGED <<row, everDone>>

\* Mutant of WriteVerdict: the last update writes the steps run by this worker.
WriteVerdictPartial(w) ==
  /\ worker[w].pc = "verdict"
  /\ worker' = [worker EXCEPT ![w].pc = "report"]
  /\ SetRow([row EXCEPT !.status = worker[w].final, !.done = Completed(w) \ @])
  /\ client' = [client EXCEPT ![w].pc = "statusRead"]
  /\ UNCHANGED <<manifest, started>>

WriteVerdict(w) ==
  /\ worker[w].pc = "verdict"
  /\ worker' = [worker EXCEPT ![w].pc = "report"]
  /\ SetRow([row EXCEPT !.status = worker[w].final, !.done = Completed(w)])
  /\ client' = [client EXCEPT ![w].pc = "statusRead"]
  /\ UNCHANGED <<manifest, started>>

\* run_status has returned: print it and end.
Exit(w) ==
  /\ worker[w].pc = "report"
  /\ client[w].pc = "idle"
  /\ worker' = Gone(w, "exited")
  /\ UNCHANGED <<row, manifest, client, started, everDone>>

Die(w) ==
  /\ MayDie
  /\ Alive(w)
  /\ worker' = Gone(w, "killed")
  /\ client' = [client EXCEPT ![w] = [pc |-> "idle", cmd |-> "status", seen |-> Unread]]
  /\ UNCHANGED <<row, manifest, started, everDone>>
-----------------------------------------------------------------------------
(* The commands.                                                           *)

\* Actor a goes on with its command; the row it has read is of no use to the
\* statements in Fresh.
Fresh == {"idle", "statusRead", "statusReread", "spawn"}

At(a, from, to) ==
  /\ client[a].pc = from
  /\ client' = [client EXCEPT ![a].pc = to,
                              ![a].seen = IF to \in Fresh THEN Unread ELSE @]
  /\ UNCHANGED <<manifest, started>>

ReadsOnly == UNCHANGED <<row, everDone, worker>>

\* get_run.
Reads(a, from, to) ==
  /\ client[a].pc = from
  /\ client' = [client EXCEPT ![a].pc = to,
                              ![a].seen = [status |-> row.status, pid |-> row.pid]]
  /\ ReadsOnly
  /\ UNCHANGED <<manifest, started>>

Type(c, cmd) ==
  /\ client[c].pc = "idle"
  /\ client' = [client EXCEPT ![c].cmd = cmd,
                   ![c].pc = IF cmd = "cancel" THEN "cancelRead" ELSE "statusRead"]
  /\ ReadsOnly
  /\ UNCHANGED <<manifest, started>>

\* run_status has returned `status': `run resume' refuses an active run.
AfterStatus(a, status) ==
  IF client[a].cmd = "resume" /\ status \notin ACTIVE THEN "spawn" ELSE "idle"

StatusRead(a) == Reads(a, "statusRead", "statusCheck")

\* Mutant of Orphaned: a run being cancelled is not looked at.
OrphanedMutant(seen) == seen.status = "running" /\ ~Alive(seen.pid)

Orphaned(seen) == seen.status \in {"running", "cancelling"} /\ ~Alive(seen.pid)

StatusCheck(a) ==
  /\ At(a, "statusCheck", IF Orphaned(client[a].seen) THEN "statusWrite"
                          ELSE AfterStatus(a, client[a].seen.status))
  /\ ReadsOnly

\* What was read decides, not what the row is by now.
StatusWrite(a) ==
  /\ At(a, "statusWrite", "statusReread")
  /\ SetRow([row EXCEPT !.status =
        IF client[a].seen.status = "cancelling" THEN "cancelled" ELSE "failed"])
  /\ UNCHANGED worker

StatusReread(a) ==
  /\ At(a, "statusReread", AfterStatus(a, row.status))
  /\ ReadsOnly

\* spawn_worker, or execute_run in the foreground; Workers bounds the resumes.
Respawn(a) ==
  /\ At(a, "spawn", "idle")
  /\ UNCHANGED <<row, everDone>>
  /\ \/ SpawnWorker(TRUE)
     \/ (\A w \in Workers : worker[w].pc # "unborn") /\ UNCHANGED worker

CancelRead(a) == Reads(a, "cancelRead", "cancelCheck")

CancelCheck(a) ==
  /\ At(a, "cancelCheck",
        IF client[a].seen.status \notin ACTIVE THEN "idle"
        ELSE IF Alive(client[a].seen.pid) THEN "cancelWrite" ELSE "closeWrite")
  /\ ReadsOnly

CancelWrite(a) ==
  /\ At(a, "cancelWrite", "kill")
  /\ SetRow([row EXCEPT !.status = "cancelling"])
  /\ UNCHANGED worker

\* SIGTERM: the handler sets cancel_event; before it is installed the process
\* dies; when the process is gone os.kill raises and ends the command.
Kill(a) ==
  LET p == client[a].seen.pid
  IN /\ At(a, "kill", IF Alive(p) THEN "statusRead" ELSE "idle")
     /\ UNCHANGED <<row, everDone>>
     /\ \/ ~Alive(p) /\ UNCHANGED worker
        \/ /\ Alive(p) /\ worker[p].pc \in Booting
           /\ worker' = Gone(p, "killed")
        \/ /\ Alive(p) /\ worker[p].pc \notin Booting
           /\ worker' = [worker EXCEPT ![p].cancel = TRUE]

CloseWrite(a) ==
  /\ At(a, "closeWrite", "statusRead")
  /\ SetRow([row EXCEPT !.status = "cancelled"])
  /\ UNCHANGED worker
-----------------------------------------------------------------------------
WorkerStep(w) ==
  \/ Mark(w) \/ Load(w) \/ Prepared(w) \/ Raise(w)
  \/ \E s \in Steps : StepEnds(w, s)
  \/ SaveRow(w) \/ SaveManifest(w) \/ ExecuteReturns(w)
  \/ WriteManifest(w) \/ WriteVerdict(w) \/ Exit(w)

RunStatusStep(a) == \/ StatusRead(a) \/ StatusCheck(a) \/ StatusWrite(a)
                    \/ StatusReread(a) \/ Respawn(a)

CancelStep(a) == \/ CancelRead(a) \/ CancelCheck(a) \/ CancelWrite(a)
                 \/ Kill(a) \/ CloseWrite(a)

Next == \/ Start
        \/ \E w \in Workers : WorkerStep(w) \/ PollCancel(w) \/ Die(w)
        \/ \E c \in Clients, cmd \in Commands : Type(c, cmd)
        \/ \E a \in Actors : RunStatusStep(a) \/ CancelStep(a)

Spec == Init /\ [][Next]_vars

\* A live process runs on and its steps have timeouts; somebody keeps typing
\* `defair run status', as `run start' advises.  Nothing else is promised: no
\* start, no cancel, no resume.
FairSpec ==
  /\ Spec
  /\ \A w \in Workers : WF_vars(WorkerStep(w)) /\ WF_vars(PollCancel(w))
  /\ \A a \in Actors : WF_vars(RunStatusStep(a) \/ CancelStep(a))
  /\ \A c \in Clients : WF_vars(Type(c, "status"))
-----------------------------------------------------------------------------
(* Properties.                                                             *)

TypeOK ==
  /\ row \in RowType
  /\ manifest \in [status : Verdict \cup {"none", "running"}, done : SUBSET Steps]
  /\ worker \in [Workers -> WorkerType]
  /\ client \in [Actors -> ClientType]
  /\ started \in BOOLEAN
  /\ everDone \in SUBSET Steps

Executing(w) == worker[w].pc \in {"marked"} \cup Working \cup Ending

\* runs.py:6: "a run executes in a detached worker process", and `run resume'
\* refuses an active run.  Two processes never execute the same run at the same
\* time.  The code does not ensure it: `run resume' looks at the status and
\* spawns later, nothing is reserved in between, so two resumes that both look
\* first both spawn (MCProfileRun_twice.cfg).
OneExecutor ==
  \A v, w \in Workers : Executing(v) /\ Executing(w) => v = w

\* A step once recorded as completed stays recorded, across crashes and
\* resumes: each write of the row carries all that the earlier ones did.
RecordedStepsKept == [][row.done \subseteq row'.done]_vars

\* cli/runs.py:284, `run resume': "completed steps are not re-run".
CompletedNotRerun ==
  [][\A w \in Workers, s \in Steps :
       /\ worker[w].pc = "execute"
       /\ worker[w].results[s] = "pending"
       /\ worker'[w].pc = "saveRow"
       /\ worker'[w].results[s] # "pending"
       => s \notin everDone]_vars

\* on_update writes the row, then run.json; the end of the run does it the
\* other way round.  Whatever the crash, run.json shows no completed step that
\* a resume would run again.
ManifestBehindRow == manifest.done \subseteq row.done

\* With somebody watching, no run stays "running" or "cancelling" forever,
\* wherever its worker or the cancelling command stopped.
RunningEnds ==
  row.status \in {"running", "cancelling"} ~> row.status \notin {"running", "cancelling"}

\* runs.py:3-4, the lifecycle ends with the verdict: a run nobody resumes does
\* not leave "cancelled".
CancelledIsFinal == [][row.status = "cancelled" => row'.status = "cancelled"]_vars
=============================================================================
