----------------------------- MODULE Supertimeline -----------------------------
(***************************************************************************)
(* Supertimeline jobs on one piece of evidence: prepare and import in the  *)
(* case container (services/supertimeline_service.py), start, status and   *)
(* cancel on the host (services/supertimeline_host.py, worker_service.py), *)
(* the steps in a job container (workers/entry.py).  The three share the   *)
(* files of the workspace and never talk to each other.                    *)
(***************************************************************************)
EXTENDS Naturals, Sequences, FiniteSets, SequencesExt

CONSTANTS
  Jobs,      \* runs that may be prepared
  Hosts,     \* terminals on the host, each with the import it waits for
  Mortal,    \* those that may be killed
  Params,    \* parsers, time zone, hash of the evidence
  Modes,     \* modes that are asked for
  FsTypes,   \* number of file system types tried, see order_fs_types
  Alone,     \* does nobody prepare a job while another one runs?
  None

ASSUME MortalHosts == Mortal \subseteq Hosts
ASSUME ModesKnown == Modes \subseteq {"plaso", "bodyfile", "both", "unallocated", "all"}
ASSUME FsTypesPos == FsTypes \in Nat \ {0}
ASSUME AloneBool == Alone \in BOOLEAN
ASSUME NoneElse == None \notin Jobs \cup Params

VARIABLES
  storage,   \* <EVD>.plaso: who writes or wrote it, and who is not done
  meta,      \* <EVD>.meta.json
  job,       \* phase of the request, then job.json; was a reused storage compared?
  row,       \* tool_runs: status and imported_at
  runner,    \* the process in the job container
  status,    \* status.json
  output,    \* files of the job: events.jsonl, bodyfile, strings
  timeline,  \* timeline_events and strings artifacts of the run
  host       \* the command each terminal has typed

vars == <<storage, meta, job, row, runner, status, output, timeline, host>>

Ended == {"completed", "failed", "cancelled"}

\* _steps_for, in the order of job.json.  mmls, which never fails, is left out.
Steps(mode) ==
  (IF mode \in {"plaso", "both", "all"} THEN <<"log2timeline", "psort">> ELSE <<>>)
  \o (IF mode \in {"bodyfile", "both", "all"} THEN <<"fls">> ELSE <<>>)
  \o (IF mode \in {"unallocated", "all"} THEN <<"blkls">> ELSE <<>>)

HasStep(j, step) == Contains(Steps(job[j].mode), step)
WithPlaso(j) == HasStep(j, "psort")

\* allow_failure.
Tolerated == {"fls", "blkls"}

\* A storage nobody is writing and that only jobs with parameters p wrote
\* (log2timeline appends to a storage that exists).
BuiltFor(s, p) ==
  /\ s # None
  /\ s.unfinished = {}
  /\ \A k \in s.by : job[k].params = p

\* A runner that has done nothing yet, or whose memory is gone.
Process(at) == [at |-> at, step |-> 1, tries |-> FsTypes,
                term |-> FALSE, late |-> FALSE, hash |-> None]

Init ==
  /\ storage = None
  /\ meta = None
  /\ job = [j \in Jobs |-> [phase |-> "idle", mode |-> None, params |-> None,
                            overwrite |-> FALSE, reused |-> FALSE, compared |-> FALSE]]
  /\ row = [j \in Jobs |-> [status |-> None, imported |-> FALSE]]
  /\ runner = [j \in Jobs |-> Process("off")]
  /\ status = [j \in Jobs |-> [state |-> None, steps |-> <<>>, hash |-> None]]
  /\ output = [j \in Jobs |-> [events |-> None, fls |-> None, blkls |-> None]]
  /\ timeline = [j \in Jobs |-> [plaso |-> None, tsk |-> None, strings |-> 0]]
  /\ host = [h \in Hosts |-> [at |-> "idle", job |-> None]]
-----------------------------------------------------------------------------
(* prepare_job, in the case container, then start_job.                     *)

\* storage_decision.
Decision(p, overwrite) ==
  IF overwrite \/ storage = None THEN "build"
  ELSE IF \/ meta = None
          \/ meta.params # p
          \/ meta.sha # None /\ meta.sha # storage THEN "refuse"
  ELSE "reuse"

\* Neither its prepare nor its container is at work, imported or not.
Settled(j) ==
  \/ job[j].phase \in {"idle", "refused", "died"}
  \/ runner[j].at \in {"exit", "dead", "removed"}

\* The arguments are checked and RUN-NNN is reserved.
Reserve(j, mode, p, overwrite) ==
  /\ job[j].phase = "idle"
  /\ Alone => \A k \in Jobs : Settled(k)
  /\ job' = [job EXCEPT ![j] = [phase |-> "reserved", mode |-> mode, params |-> p,
                                overwrite |-> overwrite, reused |-> FALSE, compared |-> FALSE]]
  /\ row' = [row EXCEPT ![j].status = "running"]
  /\ UNCHANGED <<storage, meta, runner, status, output, timeline, host>>

Refuse(j) ==
  /\ job[j].phase = "reserved"
  /\ WithPlaso(j)
  /\ Decision(job[j].params, job[j].overwrite) = "refuse"
  /\ job' = [job EXCEPT ![j].phase = "refused"]
  /\ row' = [row EXCEPT ![j].status = "failed"]
  /\ UNCHANGED <<storage, meta, runner, status, output, timeline, host>>

\* Metadata without a hash is not compared with the storage.
Decide(j) ==
  LET decision == Decision(job[j].params, job[j].overwrite)
      reused   == WithPlaso(j) /\ decision = "reuse"
  IN /\ job[j].phase = "reserved"
     /\ WithPlaso(j) => decision # "refuse"
     /\ job' = [job EXCEPT ![j] = [@ EXCEPT !.phase = "decided", !.reused = reused,
                                            !.compared = reused /\ meta.sha # None]]
     /\ UNCHANGED <<storage, meta, row, runner, status, output, timeline, host>>

Rebuilds(j) == WithPlaso(j) /\ ~job[j].reused /\ storage # None

\* A storage that will be rebuilt goes...
Unlink(j) ==
  /\ job[j].phase = "decided"
  /\ Rebuilds(j)
  /\ storage' = None
  /\ job' = [job EXCEPT ![j].phase = "unlinking"]
  /\ UNCHANGED <<meta, row, runner, status, output, timeline, host>>

\* ...then its metadata; job.json is written.
WriteSpec(j) ==
  /\ \/ job[j].phase = "decided" /\ ~Rebuilds(j) /\ UNCHANGED meta
     \/ job[j].phase = "unlinking" /\ meta' = None
  /\ job' = [job EXCEPT ![j].phase = "prepared"]
  /\ UNCHANGED <<storage, row, runner, status, output, timeline, host>>

\* prepare_job is killed, or the host never starts the container: the image of
\* the worker is missing.  Nobody takes the row back.
PrepareDies(j) ==
  /\ job[j].phase \in {"reserved", "decided", "unlinking", "prepared"}
  /\ job' = [job EXCEPT ![j].phase = "died"]
  /\ UNCHANGED <<storage, meta, row, runner, status, output, timeline, host>>

\* start_job.
Start(j) ==
  /\ job[j].phase = "prepared"
  /\ job' = [job EXCEPT ![j].phase = "started"]
  /\ runner' = [runner EXCEPT ![j].at = "boot"]
  /\ UNCHANGED <<storage, meta, row, status, output, timeline, host>>
-----------------------------------------------------------------------------
(* The job container.                                                      *)

Alive(j) == runner[j].at \notin {"off", "exit", "dead", "removed"}
StepNow(j) == Steps(job[j].mode)[runner[j].step]
StateOf(j, step) ==
  LET at == {i \in DOMAIN status[j].steps : Steps(job[j].mode)[i] = step}
  IN IF at = {} THEN None ELSE status[j].steps[CHOOSE i \in at : TRUE]
HasFailed(j) == Contains(status[j].steps, "failed")

\* SIGTERM has a handler from here on; the first save of status.json.
Boot(j) ==
  /\ runner[j].at = "boot"
  /\ runner' = [runner EXCEPT ![j].at = "loop"]
  /\ status' = [status EXCEPT ![j].state = "running"]
  /\ UNCHANGED <<storage, meta, job, row, output, timeline, host>>

\* The loop over the steps goes on...
NextStep(j) ==
  /\ runner[j].at = "loop"
  /\ ~runner[j].term /\ ~HasFailed(j)
  /\ runner[j].step <= Len(Steps(job[j].mode))
  /\ IF StepNow(j) = "log2timeline" /\ job[j].reused
       THEN /\ runner' = [runner EXCEPT ![j].step = @ + 1]
            /\ status' = [status EXCEPT ![j].steps = Append(@, "skipped")]
       ELSE /\ runner' = [runner EXCEPT ![j].at = "spawn", ![j].tries = FsTypes]
            /\ UNCHANGED status
  /\ UNCHANGED <<storage, meta, job, row, output, timeline, host>>

\* Mutant of LeaveLoop: a cancel between two steps does not leave the loop.
LeaveLoopMutant(j) ==
  /\ runner[j].at = "loop"
  /\ HasFailed(j) \/ runner[j].step > Len(Steps(job[j].mode))
  /\ runner' = [runner EXCEPT ![j].at = "hash"]
  /\ UNCHANGED <<storage, meta, job, row, status, output, timeline, host>>

\* ...or is left: a cancel, a failed step, no step left, or the clock is past
\* the deadline, which it stays.
LeaveLoop(j) ==
  /\ runner[j].at = "loop"
  /\ \E late \in BOOLEAN :
       /\ \/ late \/ runner[j].term \/ HasFailed(j)
          \/ runner[j].step > Len(Steps(job[j].mode))
       /\ runner' = [runner EXCEPT ![j].at = "hash", ![j].late = late]
  /\ UNCHANGED <<storage, meta, job, row, status, output, timeline, host>>

\* The tool starts and opens its output.  A SIGTERM since the check of
\* `cancelled' has nothing to kill: the tool starts all the same.
Spawn(j) ==
  LET step == StepNow(j)
  IN /\ runner[j].at = "spawn"
     /\ runner' = [runner EXCEPT ![j].at = "tool"]
     /\ storage' = IF step # "log2timeline" THEN storage
                   ELSE IF storage = None THEN [by |-> {j}, unfinished |-> {j}]
                   ELSE [by |-> storage.by \cup {j}, unfinished |-> storage.unfinished \cup {j}]
     /\ output' = CASE step = "psort"    -> [output EXCEPT ![j].events = storage]
                    [] step \in Tolerated -> [output EXCEPT ![j][step] = "partial"]
                    [] OTHER              -> output
     /\ UNCHANGED <<meta, job, row, status, timeline, host>>

\* The tool succeeds; the step is "cancelled" if SIGTERM came too late to kill
\* it.  The record and its save are one step: nobody reads it before the end.
ToolSucceeds(j) ==
  LET step == StepNow(j)
  IN /\ runner[j].at = "tool"
     /\ step = "psort" => output[j].events # None
     /\ storage' = IF step = "log2timeline" /\ storage # None
                     THEN [storage EXCEPT !.unfinished = @ \ {j}] ELSE storage
     /\ output' = IF step \in Tolerated THEN [output EXCEPT ![j][step] = "whole"] ELSE output
     /\ status' = [status EXCEPT ![j].steps =
                     Append(@, IF runner[j].term THEN "cancelled" ELSE "completed")]
     /\ runner' = [runner EXCEPT ![j].at = "loop", ![j].step = @ + 1]
     /\ UNCHANGED <<meta, job, row, timeline, host>>

\* Mutant of TryNext: one file system type too many.
TryNextMutant(j) ==
  LET step == StepNow(j)
  IN /\ runner[j].at \in {"tool", "killed"}
     /\ step \in Tolerated
     /\ ~runner[j].term
     /\ output' = [output EXCEPT ![j][step] = None]
     /\ runner' = [runner EXCEPT ![j].at = "spawn", ![j].tries = @ - 1]
     /\ UNCHANGED <<storage, meta, job, row, status, timeline, host>>

\* A failed alternative leaves no output and the next one is tried.
TryNext(j) ==
  LET step == StepNow(j)
  IN /\ runner[j].at \in {"tool", "killed"}
     /\ step \in Tolerated
     /\ ~runner[j].term
     /\ runner[j].tries > 1
     /\ output' = [output EXCEPT ![j][step] = None]
     /\ runner' = [runner EXCEPT ![j].at = "spawn", ![j].tries = @ - 1]
     /\ UNCHANGED <<storage, meta, job, row, status, timeline, host>>

\* The tool fails, times out or was killed by on_term.  A cancelled alternative
\* keeps its partial output.
ToolFails(j) ==
  LET step == StepNow(j)
  IN /\ runner[j].at \in {"tool", "killed"}
     /\ step \in Tolerated /\ ~runner[j].term => runner[j].tries = 1
     /\ status' = [status EXCEPT ![j].steps =
                     Append(@, IF runner[j].term THEN "cancelled"
                               ELSE IF step \in Tolerated THEN "tolerated" ELSE "failed")]
     /\ output' = IF step \in Tolerated /\ ~runner[j].term
                    THEN [output EXCEPT ![j][step] = None] ELSE output
     /\ runner' = [runner EXCEPT ![j].at = "loop", ![j].step = @ + 1]
     /\ UNCHANGED <<storage, meta, job, row, timeline, host>>

\* The storage is hashed unless a step failed or the job was cancelled; a file
\* that is not there has no hash.
Hash(j) ==
  LET hashed == WithPlaso(j) /\ ~HasFailed(j) /\ ~runner[j].term
  IN /\ runner[j].at = "hash"
     /\ runner' = [runner EXCEPT ![j].at = "verdict",
                                 ![j].hash = IF hashed THEN storage ELSE None]
     /\ UNCHANGED <<storage, meta, job, row, status, output, timeline, host>>

\* Mutant of Verdict: the deadline is looked at in the loop only.
VerdictMutant(j) ==
  /\ runner[j].at = "verdict"
  /\ status' = [status EXCEPT
       ![j].state = IF runner[j].term THEN "cancelled"
                    ELSE IF HasFailed(j) THEN "failed" ELSE "completed",
       ![j].hash = runner[j].hash]
  /\ runner' = [runner EXCEPT ![j] = Process("exit")]
  /\ UNCHANGED <<storage, meta, job, row, output, timeline, host>>

\* The last save of status.json; the process and its container end.  The
\* deadline may also pass after the last step.
Verdict(j) ==
  /\ runner[j].at = "verdict"
  /\ \E late \in {runner[j].late, TRUE} :
       status' = [status EXCEPT
         ![j].state = IF runner[j].term THEN "cancelled"
                      ELSE IF late \/ HasFailed(j) THEN "failed" ELSE "completed",
         ![j].hash = runner[j].hash]
  /\ runner' = [runner EXCEPT ![j] = Process("exit")]
  /\ UNCHANGED <<storage, meta, job, row, output, timeline, host>>

\* cancel_job, first half: docker sends SIGTERM.  on_term kills the tool, if
\* there is one at this moment.  A process without a handler, as the first of
\* its container, does not notice.
Cancel(j) ==
  /\ Alive(j) /\ runner[j].at # "boot"
  /\ runner[j].term => runner[j].at = "tool"
  /\ runner' = [runner EXCEPT ![j].term = TRUE,
                              ![j].at = IF @ = "tool" THEN "killed" ELSE @]
  /\ UNCHANGED <<storage, meta, job, row, status, output, timeline, host>>

\* SIGKILL: 30 seconds after SIGTERM, out of memory, or the host goes down.
Kill(j) ==
  /\ Alive(j)
  /\ runner' = [runner EXCEPT ![j] = Process("dead")]
  /\ UNCHANGED <<storage, meta, job, row, status, output, timeline, host>>
-----------------------------------------------------------------------------
(* supertimeline status on the host and the import in the case container.  *)

At(h, at) == host[h].at = at
Go(h, at) == host' = [host EXCEPT ![h].at = at]
Leave(h) == host' = [host EXCEPT ![h] = [at |-> "idle", job |-> None]]
NoJob == UNCHANGED <<job, runner, status, output>>

\* job_status says that the container has exited.  Asking again about a job that
\* is imported and whose container is removed changes nothing.
Ask(h, j) ==
  /\ At(h, "idle")
  /\ runner[j].at \in {"exit", "dead"}
  /\ host' = [host EXCEPT ![h] = [at |-> "row", job |-> j]]
  /\ NoJob /\ UNCHANGED <<storage, meta, row, timeline>>

\* normalize rerun, or import --force: the row is not looked at.
Rerun(h, j) ==
  /\ At(h, "idle")
  /\ job[j].phase = "started"
  /\ host' = [host EXCEPT ![h] = [at |-> "status", job |-> j]]
  /\ NoJob /\ UNCHANGED <<storage, meta, row, timeline>>

\* Is imported_at set?
ReadRow(h) ==
  /\ At(h, "row")
  /\ Go(h, IF row[host[h].job].imported THEN "remove" ELSE "status")
  /\ NoJob /\ UNCHANGED <<storage, meta, row, timeline>>

\* status.json does not change any more once it says the job has ended.
ReadStatus(h) ==
  /\ At(h, "status")
  /\ IF status[host[h].job].state \in Ended THEN Go(h, "storage") ELSE Leave(h)
  /\ NoJob /\ UNCHANGED <<storage, meta, row, timeline>>

\* "a half-built storage must never be reused".
DropStorage(h) ==
  LET j == host[h].job
      halfBuilt == /\ WithPlaso(j) /\ ~job[j].reused
                   /\ StateOf(j, "log2timeline") # "completed"
  IN /\ At(h, "storage")
     /\ storage' = IF halfBuilt THEN None ELSE storage
     /\ Go(h, IF StateOf(j, "psort") = "completed" THEN "plaso" ELSE "tsk")
     /\ NoJob /\ UNCHANGED <<meta, row, timeline>>

\* stream_timeline_events replaces the run's events in one transaction.
ImportPlaso(h) ==
  LET j == host[h].job
  IN /\ At(h, "plaso")
     /\ timeline' = [timeline EXCEPT ![j].plaso = output[j].events]
     /\ Go(h, "meta")
     /\ NoJob /\ UNCHANGED <<storage, meta, row>>

\* Mutant of WriteMeta: the storage is hashed by the import, not by the job.
WriteMetaMutant(h) ==
  LET j == host[h].job
  IN /\ At(h, "meta")
     /\ meta' = IF job[j].reused THEN meta
                ELSE [params |-> job[j].params, sha |-> storage]
     /\ Go(h, "tsk")
     /\ NoJob /\ UNCHANGED <<storage, row, timeline>>

\* _write_meta, whatever storage is there by now.
WriteMeta(h) ==
  LET j == host[h].job
  IN /\ At(h, "meta")
     /\ meta' = IF job[j].reused THEN meta
                ELSE [params |-> job[j].params, sha |-> status[j].hash]
     /\ Go(h, "tsk")
     /\ NoJob /\ UNCHANGED <<storage, row, timeline>>

\* Mutant of ImportTsk: the run is updated without its bodyfile events.
ImportTskMutant(h) ==
  /\ At(h, "tsk")
  /\ Go(h, "strings")
  /\ NoJob /\ UNCHANGED <<storage, meta, row, timeline>>

\* The bodyfiles that are there, whatever their step's state.
ImportTsk(h) ==
  LET j == host[h].job
  IN /\ At(h, "tsk")
     /\ timeline' = IF output[j].fls = None THEN timeline
                    ELSE [timeline EXCEPT ![j].tsk = output[j].fls]
     /\ Go(h, "strings")
     /\ NoJob /\ UNCHANGED <<storage, meta, row>>

\* Every import inserts another artifact, under a new id and number; they are
\* counted up to two.
RegisterStrings(h) ==
  LET j == host[h].job
  IN /\ At(h, "strings")
     /\ timeline' = IF StateOf(j, "blkls") # "completed" THEN timeline
                    ELSE [timeline EXCEPT ![j].strings = IF @ = 0 THEN 1 ELSE 2]
     /\ Go(h, "update")
     /\ NoJob /\ UNCHANGED <<storage, meta, row>>

\* The UPDATE of tool_runs, then manifest.json.
UpdateRow(h) ==
  LET j == host[h].job
  IN /\ At(h, "update")
     /\ row' = [row EXCEPT ![j] = [status |-> status[j].state, imported |-> TRUE]]
     /\ Go(h, "remove")
     /\ NoJob /\ UNCHANGED <<storage, meta, timeline>>

\* remove_job: the container of an imported job goes.
RemoveJob(h) ==
  /\ At(h, "remove")
  /\ runner' = [runner EXCEPT ![host[h].job].at = "removed"]
  /\ Leave(h)
  /\ UNCHANGED <<storage, meta, job, row, status, output, timeline>>

\* The terminal or the import it waits for is killed between two steps; a write
\* the database refuses ("database is locked") ends it in the same way.
Die(h) ==
  /\ h \in Mortal
  /\ ~At(h, "idle")
  /\ Leave(h)
  /\ NoJob /\ UNCHANGED <<storage, meta, row, timeline>>

Prepare(j) ==
  \/ \E mode \in Modes, p \in Params, overwrite \in BOOLEAN : Reserve(j, mode, p, overwrite)
  \/ Refuse(j) \/ Decide(j) \/ Unlink(j) \/ WriteSpec(j) \/ PrepareDies(j) \/ Start(j)

RunnerStep(j) ==
  \/ Boot(j) \/ NextStep(j) \/ LeaveLoop(j) \/ Spawn(j)
  \/ ToolSucceeds(j) \/ TryNext(j) \/ ToolFails(j) \/ Hash(j) \/ Verdict(j)

Import(h) ==
  \/ ReadRow(h) \/ ReadStatus(h) \/ DropStorage(h) \/ ImportPlaso(h) \/ WriteMeta(h)
  \/ ImportTsk(h) \/ RegisterStrings(h) \/ UpdateRow(h) \/ RemoveJob(h)

Next ==
  \/ \E j \in Jobs : Prepare(j) \/ RunnerStep(j) \/ Cancel(j) \/ Kill(j)
  \/ \E h \in Hosts : Import(h) \/ Die(h) \/ \E j \in Jobs : Ask(h, j) \/ Rerun(h, j)

Spec == Init /\ [][Next]_vars

\* The runner runs on (tools have a timeout, blkls is taken to end), some terminal
\* survives and its user asks for the status of each run again and again.
FairSpec ==
  /\ Spec
  /\ \A j \in Jobs : WF_vars(RunnerStep(j))
  /\ \A h \in Hosts \ Mortal :
       /\ WF_vars(Import(h))
       /\ \A j \in Jobs : SF_vars(Ask(h, j))
-----------------------------------------------------------------------------
(* Properties.                                                             *)

File    == [by : SUBSET Jobs, unfinished : SUBSET Jobs]
Partial == {None, "partial", "whole"}

ASSUME NoneApart == None \notin File \cup Ended \cup {"running", "partial", "whole"}

TypeOK ==
  /\ storage \in File \cup {None}
  /\ meta \in [params : Params, sha : File \cup {None}] \cup {None}
  /\ \A j \in Jobs :
       /\ job[j].phase \in {"idle", "reserved", "refused", "died", "decided", "unlinking",
                         "prepared", "started"}
       /\ row[j].status \in {None, "running"} \cup Ended
       /\ runner[j].at \in {"off", "boot", "loop", "spawn", "tool", "killed", "hash",
                            "verdict", "exit", "dead", "removed"}
       /\ runner[j].tries \in 1..FsTypes
       /\ status[j].state \in {None, "running"} \cup Ended
       /\ status[j].steps \in Seq({"skipped", "completed", "failed", "tolerated", "cancelled"})
       /\ output[j].events \in File \cup {None}
       /\ output[j].fls \in Partial /\ output[j].blkls \in Partial
       /\ timeline[j].strings \in 0..2
  /\ \A h \in Hosts : host[h].at = "idle" <=> host[h].job = None

\* supertimeline_service.py:10-15 and README.md:530: a storage whose metadata has a
\* hash is reused only if it is complete and was built with the parameters that
\* are asked for, although late and repeated imports write the metadata of their
\* job over newer storages and prepare may die between the two deletions.
ReuseIsSound ==
  \A p \in Params :
    Decision(p, FALSE) = "reuse" /\ meta.sha # None => BuiltFor(storage, p)

\* A run recorded as completed has all its events: those of a complete storage
\* built with the parameters of the run, and no partial output.  A late import may
\* drop the storage after the decision to reuse it.  A run that reuses a storage
\* whose metadata has no hash is left out.
CompletedIsWhole ==
  \A j \in Jobs :
    row[j].status = "completed" =>
      /\ WithPlaso(j) /\ (job[j].reused => job[j].compared) =>
           BuiltFor(timeline[j].plaso, job[j].params)
      /\ timeline[j].tsk # "partial"
      /\ timeline[j].strings > 0 => output[j].blkls # "partial"

\* import_job may be killed and repeated, also by two terminals at once: a run
\* marked imported has the verdict of its job and exactly the events its job
\* wrote; the strings are registered, if only once or more often is not said.
ImportIsFaithful ==
  \A j \in Jobs :
    row[j].imported =>
      /\ row[j].status = status[j].state
      /\ timeline[j].tsk = output[j].fls
      /\ timeline[j].plaso # None <=> StateOf(j, "psort") = "completed"
      /\ timeline[j].plaso \in {None, output[j].events}
      /\ timeline[j].strings > 0 <=> StateOf(j, "blkls") = "completed"

\* The import happens although the terminals that asked for it die: a job whose
\* container was started and was not killed hard gets a verdict in the database.
JobsEnd ==
  \A j \in Jobs : job[j].phase = "started" ~> row[j].status \in Ended \/ runner[j].at = "dead"

\* As ReuseIsSound, with or without a hash.  TLC refutes it: the metadata of a job
\* cancelled after psort has none.
ReuseIsAlwaysSound ==
  \A p \in Params : Decision(p, FALSE) = "reuse" => BuiltFor(storage, p)

\* supertimeline_service.py:234, "idempotent": a repeated import adds no strings
\* artifact.  TLC refutes it.
StringsOnce == \A j \in Jobs : timeline[j].strings < 2

\* supertimeline_service.py:263: an import removes a storage that is half built.
\* TLC refutes it: a repeated import of a job that failed removes the complete
\* storage of a later one.
DropsHalfBuilt ==
  [][\A h \in Hosts : DropStorage(h) /\ storage' # storage => storage.unfinished # {}]_vars
=============================================================================
