# DEFAIR in TLA+

DEFAIR is a forensic workbench: a case database (SQLite), a workspace of
files, wrappers around forensic tools, profiles (DAGs of steps) that run the
tools over a piece of evidence, and side programs (job containers, a rule
store, an MCP server). This directory models its concurrent core and the parts
around it, checks them with TLC on small instances and proves most of what is
checked with TLAPS, for instances of any size: every safety property that a run
checks is also a theorem, some under hypotheses on the environment.  Where the
code breaks what a document says, a configuration outside the runs shows it
(section 5).

Paths below are relative to `src/src/defair/`.

## 1. The system

| component | state | operations | interacts with |
|---|---|---|---|
| **DAG executor** `orchestrator/dag.py` | results by step, dict of asyncio tasks, semaphore, cancel event | `execute`: scan, start, wait, reap; `run_one`: acquire, notify, attempt, retry; `watch_cancel` | called by a profile run; calls the step runner and `on_update` |
| **Profile runs** `orchestrator/runs.py`, `cli/runs.py` | a row of `profile_runs` (status, pid, steps), `run.json`, a detached process | start, worker, status, cancel, resume | other processes, through the row, `/proc/<pid>` and SIGTERM |
| **Tool runs** `services/analysis_service.py`, `tools/base.py` | rows of `tool_runs`, output directories | reserve a number, run, save, fall back to another tool | all steps of a process share one connection |
| **Normalization** `normalizers/pipeline.py`, `services/normalization_service.py` | rows of `artifacts`, JSONL files with recorded hashes | store, replay, rerun | after each tool run; later from the CLI |
| **Database** `database.py` | one connection per process, WAL; `db_lock` per connection; schema version | lock, migrate | every service |
| **Profile files** `orchestrator/profile.py` | YAML | validate the graph | input of the executor |
| **Step runner** `orchestrator/steps.py` | outputs of earlier steps | candidate chain over engines, fallbacks, locations | executor, tool runs |
| **Supertimeline jobs** `services/supertimeline_*.py`, `services/worker_service.py`, `workers/` | job.json, status.json, Plaso storage and its metadata, `timeline_events` | prepare (case container), start / cancel (host), run (job container), import | three machines that share a directory |
| **Rule store** `rules/`, `tools/raijin.py` | lock and manifests, installed sources, staging directories, INDEX / CONFLICTS.json | refresh the lock, sync, verify, assemble | the network; scans and hunts |
| **Evidence preparation** `sources/` | `sources/EVD-NNN/`, `evidence.prepared`, a host artifact | detect, extract, detect again, locate, record | profile runs and the step runner read the record |
| **Case records** `services/case_service.py`, `evidence_service.py`, `finding_service.py`, `hunting_service.py`, `scanning_service.py`, `watchlist_service.py`, `host_profile_service.py` | numbered rows of cases, evidence, profile runs, findings | create each; hunt, scan, search, profile a host | artifacts in, findings out |
| **Case containers** `services/container_service.py`, `cli/proxy.py` | docker's containers and their mounts | create, start, stop, remove, run a command in | docker, shared with everything else on the host |
| **MCP server, CLI** `mcp_server/server.py`, `cli/` | none | each tool and each host command is one command line for the CLI in a container | case containers |
| **Readers, parsers, tool wrappers, engines, images** | little of their own | | |

`PROJECT.json` lists them all with what is modelled of each.

### What is hard

* **Interleaving inside one process.** Every `await` of `execute`, `run_one`
  and `run_tool` lets any other task run. A cancel may arrive at each of them.
* **Interleaving between processes.** Commands read the row in one statement
  and act on what they read in a later one; the lock that protects numbering
  is per connection; SQLite serializes writers, not read-then-write sequences.
* **One transaction shared by all tasks of a process.** A commit of one task
  commits what another, perhaps cancelled, has written so far.
* **Crashes.** A worker dies between any two statements; the row, run.json,
  the artifacts and the JSONL files are written one after the other.
* **Retries, timeouts and late answers.** A failed attempt is visible before
  its retry; a verdict may arrive after the cancellation, a cancellation after
  the verdict.
* **Liveness.** Somebody has to notice that a worker died.

### What makes each component correct

* Executor: dependencies, propagation, bounded parallelism, resume, retries;
  verdicts are final; a cancel stops every runner; `execute` returns, with a
  verdict for every step.
* Profile runs: one executor (which the code does not enforce, section 5);
  recorded work survives crashes and is not done again; run.json never promises more than the row; no run is left "running".
* Tool runs: unique numbers; rows and artifacts are never replaced; artifacts
  belong to completed runs; nothing holds the lock or the database forever.
* Normalization: what is recorded is what is in the table; a run is there
  whole or not at all; an artifact keeps its number.
* Supertimeline: a half-built storage is never imported or reused; a finished
  job is imported once; a cancelled job is never reported complete.
* Rule store: what a scan loads is pinned; a sync that ends leaves it intact.
* Preparation: a record lists, when it is written, what is on disk; what can be
  reached is found.
* Step runner: "completed" means that every location has been read.
* Case records: one finding per rule or term, none lost, no number failure
  inside one process.
* Containers and calls: every command line is understood where it arrives, an
  option that matters is not lost on the way, nobody else's container is
  touched, evidence is mounted read-only.

`PROJECT.json` "hazards" lists, at the line where it bites, what a test would
hardly reach; each names the properties that cover it, or says why none does.

## 2. Modules

| module | models | abstraction |
|---|---|---|
| `Dag` | `orchestrator/dag.py` | code between two awaits is one step; the scan is written one iteration at a time and holds the event loop (`main = "scan"`) |
| `StepGraph` | what `dag.py` promises a profile's author | no event loop, semaphore or retry |
| `DagRefinement` | the mapping of `Dag` to `StepGraph` | a step is active from the creation of its task until its verdict is in and its runner will not be called again |
| `DagProofs` | theorems about `Dag` and its refinement of `StepGraph` | |
| `ToolRunsProofs`, `ProfileRunProofs`, `SupertimelineProofs`, `NormalizationProofs`, `CaseRecordsProofs` | theorems about the module of that name | |
| `StepRunnerProofs` | theorems about `StepRunner` and `Preparation` | |
| `HostProofs` | theorems about what the processes of a host share: `RuleStore`, and `Sessions` with its two tables | |
| `ProfileRun` | `runs.py`, `cli/runs.py` | each SELECT or UPDATE is one step; inside `execute` steps finish one at a time in any order; a step's verdict is `completed`, `skipped` or `bad` |
| `ToolRuns` | `run_tool`, numbering, insertion of artifacts | one artifact per run; timeout counts as failed; a fallback tool is another task |
| `Supertimeline` | `supertimeline_service.py`, `supertimeline_host.py`, `worker_service.py`, `workers/entry.py` | one piece of evidence, one partition, one bodyfile; a storage is who wrote it and who has not finished |
| `Normalization` | `normalize_run`, `_store_run`, `rerun`, `replay` | an artifact is its id, type, version and number; the hash of a file is its content |
| `RuleStore` | `refresh_lock`, `sync_rules`, `verify_store`, `assemble_signatures`, `build_index` around a scan | the bytes of a file are the version they come from; one rule, which moves between files |
| `Preparation` | `prepare_evidence`, `prepare_path`, detection, extractors | a file is an item of some kind in a container; an extraction is whole, torn or refused |
| `StepRunner` | `run_step`, `_candidates`, `_run_tool`, over `Preparation` | a tool at a location completes, fails or is missing |
| `Interface` | the CLI as click declares it | a command is its words, number of values, options |
| `McpTools` | the command lines written in `server.py` | the same |
| `Sessions` | containers, name resolution, calls through them, over `McpTools` | a container is an identity, whose it is, whether it runs, its mounts |
| `CaseRecords` | numbered rows, and the operations that make findings | a detection is a rule and a severity |
| `MCDag`, `MCProfileRun`, `MCToolRuns`, `MCSupertimeline`, `MCNormalization`, `MCRuleStore`, `MCStepRunner`, `MCSessions`, `MCCaseRecords` | the instances TLC checks | |

`StepRunner` composes `Preparation` (EXTENDS, a shared record); `Sessions`
composes `McpTools` and `Interface` (the sender's and the receiver's side of a
command line); `DagRefinement` relates `Dag` to `StepGraph`. The rest share no
state but the database, whose locks and transactions each of them models.

### Dag and the code

| state | code |
|---|---|
| `status`, `attempts` | `results[step].status`, `.attempts` |
| `stage` | the await the task of a step is suspended in: `queued` (semaphore), `starting` (first notify), `attempt` (runner), `backoff` (sleep), `ending` (last notify), then `returned` or `cancelled` |
| `running` | keys of the dict `running` |
| `permits` | the semaphore's counter |
| `cancelSet`, `fired`, `cancelReq` | `cancel_event`; `watch_cancel` has run; tasks with a CancelledError on its way |
| `main`, `cursor` | where the main loop is; position of `for step in steps` |

`Scan*` are the four outcomes of one iteration of the loop (lines 164-180),
`LeaveLoop` the end of the `while` with the sweep of lines 185-189, `ReapDone`
lines 191-195, `Interrupt` a cancellation of the coroutine itself (Ctrl-C on a
foreground run), `Close` the `finally`. `RequestCancel` is the event set from
outside, at any moment. A runner that swallows its CancelledError is not
modelled: the tool wrappers re-raise it.

### ProfileRun and the code

`Workers` are the processes that may be spawned (one more than the resumes),
`Clients` the terminals. A worker goes through `boot` (before its first
UPDATE), `marked` (before its SIGTERM handler), `prepare`, `execute`,
`saveRow` / `saveManifest` (`on_update`), `manifest` / `verdict` (the
`finally`) and `report` (the `run_status` it ends with, for which it is an
actor like a client). `seen` is the row a command has read. A killed process
loses its memory. A pid is never used again for another process; `kill` on a
process that is gone ends the command with an exception, as `os.kill` does.

### ToolRuns and the code

`committed` is the database, `pending` the same as the open transaction sees
it, `writer` the connection that has it open. A task's `pc` names its next
statement. `Cut` gives, for each await, where a CancelledError takes the task:
only the await of the tool is inside the `try` of `run_tool`. A statement
already handed to the connection's thread is executed although its task is
cancelled, so the cancellation is a choice in the same step as the statement's
effect. `NumbersUnique` is about tool runs of one process that execute at the
same time. INSERT OR REPLACE removes a row with the same id *or* the same number,
and the foreign key of `artifacts.run_id` refuses to remove a run that has
artifacts. `OtherWrite` / `OtherCommit` are the statements of anything else on
the same database, in the same process (the row of the profile run) or not.

### Supertimeline and the code

`job` is the request and then job.json, `runner` the process in the job
container (`at` is where it is in `_main` and `run_step`), `status` is
status.json, `storage` and `meta` the two files under `/workspace/plaso`,
`host` the command each terminal waits for: `Ask` is `job_status`, then the
import one commit or file at a time. The hash of a file is the file itself:
who wrote it and who has not finished. `log2timeline` appends to a storage
that exists; a tool that has a file open goes on writing when the file is
unlinked, which nobody sees. `Decide`, `Unlink` and `WriteSpec` are the
decision to reuse, the deletion of the storage and that of its metadata, and
prepare may die between any two of them (`PrepareDies`). The strings of a run
are counted, 0, 1 or more artifacts: an import inserts one each time. A tool's end and the save of its record are one
step. The clock is read where the code reads it, with any outcome, but a
deadline seen in the loop stays passed. `Cancel` is the SIGTERM of `docker
stop`, `Kill` its SIGKILL 30 seconds later or any other. `Alone` says that an
analyst prepares a job on an evidence only when no other job on it is being
prepared or runs; the imports of the earlier ones may still be to come, be
repeated or be forced (`Rerun`) at any moment.

Left out: the strings of all runs of one evidence share their files, so a
later cancelled run leaves a partial file behind an artifact of an earlier
one; an import killed after its UPDATE leaves the run without manifest.json,
because the next import returns at once.

### Normalization and the code

`committed`, `pending` and `writer` are the database, as in `ToolRuns`; `disk`
the JSONL files; `task` what each task holds in memory (the rows, the numbers
kept, the files still to write or to read). `Rows[v][r]` is what version v of
a normalizer makes of run r: two rows may have one record key, a row may be
skipped. A list of artifacts, and the content of a file, is a function over the
places of their rows in the raw output, in that order. `_store_run` is: the
numbers, the deletion of the records, each file (opened, which truncates it,
then written and recorded), the rows in batches of any size, the commit. `Die`
is a kill anywhere, or with `Halves` an exception inside `_store_run` after
which the process goes on with the transaction open. `SiblingCommit` is the
commit, without `db_lock`, of the status of a step or of a tool run: it commits
what a task of the same profile run has stored so far, and that task goes on.
`torn` remembers the runs of which such a commit has taken a part, until they
are stored whole; if the process dies before, they stay torn. `Careful` says
that an analyst does not work on one run in two commands, does not rerun a run
that is torn, and replays a case when nobody works on it and none is torn.

### RuleStore and the code

`locked` and `manifest` are `rules.lock` and `lock/manifests/*.json`, written
one after the other by `RefreshSource` / `RefreshLock`; `dir` and `staging`
the installed source and its staging directory, file by file; `index` is
INDEX.json. A sync goes through `fetch`, `extract` (each file checked against
the manifest), `remove`, `rename` for each source, then `done` with the index.
A scan verifies source by source, links, and reads file by file while syncs go
on. `Absent` stands for a source that is not there.

### Preparation, StepRunner and the code

`kind` and `within` are the evidence, any nesting of containers; `held` and
`torn` what lies under `sources/EVD-NNN`, whole or truncated; `deep` the
Windows trees that lie more than MAX_DEPTH levels down a folder, `crowded`
whether a search meets more than MAX_ENTRIES entries and is cut off (`Walks`);
`record` is
`evidence.prepared`. `PrepareBegin` is the answer from the record or the
removal of the old directory, `Derive` one container, `DeriveRefused` a
missing secret or an unsupported format, `DeriveStops` a limit, `Rescan` one
round of the nesting loop, `Record` and `SaveHost` the two commits. `Wipe` is
an analyst who removes the directory. An action (hunt, scan) does not ask
whether its engine is installed: it fails. In `StepRunner`, `run` is the call of
`run_step`: the locations still to do, the candidates left at this one, what
ran, what failed; `parsed` counts completed passes by location.

### Sessions, McpTools, Interface and the code

`Interface` has one `Cmd` for each click command and `McpTools` one `Tool` for
each function that calls `_proxy_defair`, both written from the source in the
order of the files. `CallTool` and `TypeCommand` build the line, resolve the
container and log; `ExecRun` is docker's part and the parsing inside
(`Understood`, `Used`). `Find` and `Act` are the two halves of start, stop and
remove: the second goes by the identity of the container found, `Held`, as
docker does. In between, and at any other moment, others on the same host
create containers, remove and rename them, DEFAIR's too (`StrangerComes`,
`OthersRemove`, `OthersRename`). `OpenShell` and `DockerExec` are `container
shell`, which goes by the name. `Volumes` keeps the path of the workspace as it
was given and resolves those of evidence and keys (`Real`; `Below` is what lies
in a directory). An option that the proxy of `hunt` forwards only along with
`--engine`, and the one `analyze` never forwards, are marked in the table.
`Foreign` containers carry no DEFAIR label. The words of a command are one
string, joined by a dot. The definitions that `RuleStore` has too carry another
name here (`SessionsSpec`, `Nothing`), because `HostProofs` extends both.

### CaseRecords and the code

`rows` are the tables by date; `ReadNumber` reads the last number, under the
`db_lock` where the code takes it, `InsertRow` inserts and commits,
`InsertFails` is the UNIQUE constraint. `Begin` gives an operation its input
and thereby the rows it is going to insert, one by one: `HuntFindings`,
`ScanFindings`, `WatchFindings` say which. A search gets the lines that each
run of ripgrep gives, at most `MaxCount` (10000) of a file, and links at most
`MaxLinked` (500) artifacts to a finding; which ones is left open. `Cap` is the last number with as
many digits as the first (999), beyond which the largest text is no longer the
largest number. A host profile is the one record that replaces others
(`Stays`): it is written with INSERT OR REPLACE and a fixed id per evidence.

## 3. Runs

| run | instance | question |
|---|---|---|
| `dag_general` | 3 steps; 8 graphs listed forwards or backwards, as far as they allow; first step optional or not, retried once; 2 permits; `on_update` may fail | the safety of the executor, whatever happens |
| `dag_listed` | 3 steps, 8 graphs, needs listed first, no retry, `on_update` does not fail | refinement of `StepGraph`, nothing swept, termination |
| `profile_resume` | 2 workers, 2 terminals, 2 steps; status and one resume, no cancel; workers killed anywhere | crash and resume |
| `profile_live` | 1 worker, 2 terminals, 2 steps; status and cancel; raise, kill, early SIGTERM | no run stays active |
| `tools_one` | 3 tool runs in process p, process q beside it; cancel anywhere | numbering, traceability, liveness |
| `timeline_alone` | 2 jobs in 2 modes, 2 parameter sets, 1 mortal terminal, 1 file system type; one job at a time, imports late, repeated, forced | reuse of the storage, whole results |
| `timeline_live` | 1 job in 3 modes, 2 terminals (one mortal), 2 file system types, reruns | imports at once and repeated; whole results, strings included; every job ends |
| `artifacts_rebuild` | 2 tasks of a process, 2 runs (3 artifacts of 2 types, and 1), batches, commits of the profile run at any moment, a second version of the normalizer, loss, hand edits, kills | what a table and its files say of each other |
| `rules_sync` | 1 sync, 1 scan, the lock refresh; 2 sources, 2 files, 2 versions; kills | what a scan reads, what a sync leaves |
| `evidence_steps` | 4 items of every kind in every nesting, too deep or too many, 1 preparation after another, 1 nesting round; 4 kinds of steps, 3 engines, every set of tools, 1 retry | the record, what it found, what a step covered |
| `calls` | every MCP tool and CLI command with none, one or all options; 2 names, 1 caller, 1 keeper, other users of docker at any moment | both sides of a command line; whose container |
| `findings` | 3 tasks in 2 processes; runs of 2 detections, 2 rules, 4 severities; a watchlist of a word and an expression, 3 lines, 2 of which ripgrep gives and a finding links | one finding each, numbers |

Other configurations in this directory show a behaviour that refutes something
the documents say (section 5). They are run by hand, `tlc -config X.cfg MC...`,
and end with a counterexample: `MCDag_retry`, `MCProfileRun_lostcancel`,
`MCProfileRun_twice`, `MCProfileRun_wiped`, `MCToolRuns_two`,
`MCNormalization_grown`, `_half`, `_parallel`, `_torn`, `MCRuleStore_traced`,
`MCStepRunner_race`, and `MCSupertimeline_documented`,
`MCStepRunner_documented`, `MCSessions_documented`, `MCCaseRecords_documented`, each of which has several properties of which one
is left uncommented. The type invariants of `Normalization`, `RuleStore`,
`StepRunner` and `ToolRuns`, and the properties a configuration names in its
last line, hold on the same instances; `BoundedParallelism`, which follows from
`PermitsAccounted`, is proved instead.

**Why the bounds are enough.** Three steps give every shape a scheduler
distinguishes: chain, fork, join, independent, and a step queued behind two
permits. One retry distinguishes "during an attempt" from "between attempts".
Two workers are a run and its resume, three a resume of a resume; two
terminals give every pair of concurrent commands. Three tool runs are one
inserting, one waiting for the lock and one being cancelled. Two jobs are one
that leaves a storage and one that finds it, imported early, late or twice
(the strings and the alternatives of a tool, one job's own affair, are in
`timeline_live` only); two file system types are a first and a last alternative. Of two runs one
may be numbered before the other or after; three artifacts are two under one
record key and one in a file of its own; three rows fall into one, two or three batches,
with a commit of the profile run between any two; `MaxNumber` bounds
the losses only. Two sources are one that is done and one still to come when a
sync stops, two files a file of before and one of after. Four items nest three
deep, one more than the nesting bound of the instance (1 instead of 3), so the
bound bites; `SevenDepth` likewise. One caller and one keeper race for two
names, of which one is the other with the prefix. Two detections are alike or
not in rule and severity; two lines within the limits of a search and one
beyond are every case they distinguish; three tasks are two that share a lock and one that
does not. All the counters are bounded by these constants; no state constraint
is used. Deadlock is not checked, except in `rules_sync`: each of the other
systems stops when its work is done.

**Symmetry** (terminals, processes, jobs, parameter sets, each among
themselves; tasks of one process in `Normalization`) is used in safety runs of
`ProfileRun`, `Supertimeline` and `Normalization` only,
never with a liveness property.

**Fairness.** `Dag`: the event loop runs every ready task, and every attempt
ends because `default_timeout` (7200 s) applies where a step has none; weak
fairness of the scan, of the main loop, of each step's task and of the watcher
follows. A cancel or an interrupt is never promised. `ProfileRun`: a live
process runs on; `defair run status` is typed again and again (`run start`
tells the user to); a start, a cancel, a resume and a crash are never
promised. `ToolRuns`: some ready task goes on; a write that waits for another
connection's transaction raises after SQLite's busy timeout. `Supertimeline`:
the runner goes on, tools end (all but `blkls` have a timeout, `entry.py:163`),
and a user whose terminal survives asks for the status of each run again and
again (strong fairness: the terminal may be busy with another run in between);
a start, a cancel, a rerun and a kill are never promised. The other modules
state safety only: what they model ends by itself or at the next command.

## 4. Proofs

The theorems hold for every value of the constants that the ASSUMEs of the
module allow: any number of steps, tool runs, processes, terminals, jobs,
sources, files, items, detections. Each follows the same argument: an inductive
invariant (named below) that holds initially, is kept by every action, one
lemma per group of actions, and implies the property. TLC checked the
invariants on the instances of section 3 before they were proved.

Some theorems have hypotheses on the environment, written as operators of the
proof module and as ASSUME in the theorem. They are the conditions under which
the code keeps its promise; section 5 and the configurations named there show
the behaviours that break it otherwise.

| module | theorems | hypotheses |
|---|---|---|
| `DagProofs` | `TypeCorrect`, `PermitsConserved`, `ParallelismBounded`, `ResumedStepsKept`, `ReturnsSettled`, `VerdictsFinal`, `CancelStopsRunners`, `CancelStopsStarts`, `RetriesAreExhausted` | none |
| | `ScanLeavesNothing` | needs are listed first, `on_update` does not fail |
| | `ExecutorImplements`, `NeedsAreFinished` | the same, and no step that others need is retried |
| `ProfileRunProofs` | `TypeCorrect` | none |
| | `PatientManifest`, `PatientRecords`, `PatientResumes` | `[][Patient]_vars`: a worker is spawned when no other is at work, and a worker raises only before a step is recorded; any number of kills, cancels and resumes. The code enforces neither |
| `ToolRunsProofs` | `TypeCorrect` | none |
| | `NumbersAreUnique` (of runs that execute at the same time), `ArtifactsTrace`, `RowsAreKept`, `ArtifactsAreKept` | all tool runs in one process (`Together`) |
| `SupertimelineProofs` | `TypeCorrect`, `ImportsAreFaithful` | none |
| | `ReusedStorageIsWhole`, `CompletedRunsAreWhole` | `Alone`: a job is prepared when no other is at work on the evidence; imports at any time. The properties leave out storages whose metadata has no hash |
| `NormalizationProofs` | `TypeCorrect` | none |
| | `RecordsMatch`, `RunsAreWhole`, `NumbersAreKept` | `Kept`: one process, no exception inside `_store_run`, the care of `Careful`, and no version of a normalizer finds an artifact the one before did not. The properties leave out the runs a sibling's commit tore |
| `HostProofs` | `ScanReadsWhatIsPinned`, `SyncLeavesWhatIsPinned` | one sync at a time (`OneSyncer`) |
| | `ForeignIsUntouched` | none; `container shell` is not among the calls it is about |
| | `CallsAreUnderstood` | no value starts with a dash (`~MayDash`) |
| `StepRunnerProofs` | `PreparationTypes`, `StepsCover` | none |
| | `RecordsAreWhole`, `WhatIsThereIsFound` | one preparation at a time (`OnePrep`); records of derived evidence, when they are written, and searches that are not cut off |
| `CaseRecordsProofs` | `OnlyOthersTakeNumbers`, `DetectionsAreFound` | none; operations that ended well, within the limits of a search |

### The invariants, and why they are needed

* **Dag.** The permits need only `TypeOK`, the finiteness of `Steps` and the
  fact that each action adds or removes at most one holder. `VerdictIsFinal`
  and `EndsSettled` are not inductive: that a task which is over has a verdict
  depends on who may be in `running`. `VerdictInv` relates `stage`, `status`
  and `running`: a step without a task is not running and is undecided or was
  decided by the scan; a live task is in `running` until it is reaped; a task
  in the queue is still "pending"; once `watch_cancel` has fired every live
  task has a cancellation on its way, so no runner can be called again.
  `RetryInv` counts the attempts by stage. `StuckInv` follows the cursor: while
  no task runs, every step it has passed is settled, because what such a step
  needs was listed, and so settled, before it.
* **Dag implements StepGraph.** `RefineInv` adds what the mapping hides: a step
  out of `running` is settled or never began, a cancellation of a task goes
  back to a request, and a step that is not retried is "running" during its
  attempt. Each iteration of the scan and each action of `run_one` is then a
  step of `StepGraph` or a stutter, as is each action of the main loop
  (`ScanImplements`, `RunOneImplements`, `Implements`). From the refinement the
  executor inherits that a verdict is final (`PhaseIsFinal`); with it `Waited`
  is inductive: what a begun or skipped step needs is over, which gives
  `NeedsFinishedFirst`. `MCDag_retry` shows what retried needs break.
* **ProfileRun.** `Records`: the worker's memory is the row's `done`, but for
  the step that has just ended, and `run.json` is behind both. It needs that at
  most one worker is active, which `Patient` gives: users wait for one worker
  to end before they type the next resume. The code looks for an active run and
  then spawns: with two resumes, or a cancel and a resume, TLC finds two
  executors (`MCProfileRun_twice`), and a raise forgets what was recorded
  (`MCProfileRun_wiped`).
* **ToolRuns.** `Inv` says who holds `db_lock`, that the tasks of the process
  see one transaction, and for each statement of `run_tool` what its task has
  in the database (`Recorded`): the number it has read is still larger than
  every number there, because the lock is held. `MCToolRuns_two` shows why two
  processes are not covered.
* **Supertimeline.** Four invariants: `RunnerInv` relates `status.json` to the
  process that writes it (which steps may follow which, when an output is
  partial, what "completed" implies); `ImportInv` says for each place of an
  import what is in the database already, which makes it repeatable at every
  point; `StorageInv` says that at most one job is open, i.e. may still write the
  storage, that metadata with a hash is about a whole storage of its
  parameters, and what each job has left or will find there, although an import
  may remove it in between. `ImportsAreFaithful` needs the first two only,
  hence no hypotheses: any number of terminals may import, die and repeat, with
  force. Reuse needs all of them: the open job is the only one because users
  prepare one at a time (`Alone`); late and repeated imports are harmless
  because what they write down is the hash of the storage of their own job.
  Without a hash nothing is compared (`MCSupertimeline_documented`).
* **Normalization.** What the runs check is not inductive: in the middle of a
  `_store_run` the files on disk are ahead of the database, and after a kill
  they stay so. `Inv` has three parts. `Consistent` is about the committed
  database: an artifact that is there is recorded, one that is recorded is
  there unless its run is among the lost ones, the records of a run are all of
  one version (of the torn runs nothing is said), and no two recorded rows have an id or a number in common, so
  that a replay can read back what was lost beside what was not. `TaskInv` says,
  statement by statement, how far the open transaction is from `Consistent`
  for the run of its task and that it agrees with it for every other run: that
  the numbers to come are above all others or those of the same artifact
  (`RowsFit`), which files are written, recorded, still to be opened, which
  rows are inserted. `SiblingCommit` turns the half-way state into the committed
  one: what TaskInv says of the transaction then holds of the database, and
  the run is torn until its task commits.
  `Together` says which tasks may be at work side by side. Each part of the
  hypothesis `Kept` is needed: `MCNormalization_parallel`, `_half` and `_grown`
  show what two processes, an exception and a normalizer that finds more do.
  The instance of `artifacts_rebuild`, whose second version skips a row and
  changes the type of another, satisfies it.
* **RuleStore.** `LockFollows` and `SyncFollows`: versions only go up, the
  manifest's before the lock's, and what is installed was pinned; a running
  sync installs what the lock it has read pins. `ScanPinned`: once a scan has
  verified a source, the source holds the bytes the scan's lock pins, or misses
  some, and never others.
* **Preparation and StepRunner.** `EvidenceInv` gives, for each stage of a
  preparation, which items are held or torn and which round of nesting they
  belong to; the recursive functions `Reach` and `Unpack7z` are unfolded by
  induction on the naturals stated with sets (`NatSet`, `Iterates`), which needs
  no operator as a parameter. `StepInv` says that a run in progress
  has still to do, has covered or has recorded as failed every goal.
* **Sessions.** `SessionsInv` says that a process never holds the identity of
  somebody else's container, however long ago it asked docker for it and
  whatever others do to names since. `CallsOK` adds that the line is one the
  CLI parses: it rests on lemmas about the tables, that each tool sends what
  some command of its words requires and nothing that command does not know
  (`AllServed`), and that a proxy forwards options of the command it serves
  (`AllDeclared`). From there it holds whatever `MaxGiven` is, hence for every
  choice of optional options.
* **CaseRecords.** `NumberInv`: the i-th row has number i, and a task about to
  insert holds its process's lock with a number that is the next one or that
  another process has taken since. `FindInv`: each finding of an operation is still to be
  made, about to be inserted, or exactly one row.

Assumptions beyond finiteness and types: the bottom value `None` is none of the
other values (`NoneElse`, `NoneApart`), and a graph satisfies `ProfileOK`, which
`orchestrator/profile.py` checks when it loads it.

### Only model-checked

* Liveness: `Termination`, `RunningEnds`, `RunsEnd`, `JobsEnd` (fairness and
  ENABLED are out of the prover's reach).
* The hypotheses themselves: that a behaviour outside them breaks the property
  is shown on the instances that section 5 names, not proved.

## 5. Where the code and its documents disagree

Each is listed under "findings" in `PROJECT.json` with the sentence it
contradicts; the configuration named here shows the behaviour.

Executor, runs, jobs:

* **A step being retried counts as settled** (`MCDag_retry`). Its dependents
  are skipped, or started, although the next attempt may succeed. `dag.py:131`
  against `dag.py:6`. No built-in profile sets retries; `default_retries` may.
* **A cancel of a starting run is lost** (`MCProfileRun_lostcancel`).
  `runs.py:344` marks the run running whatever its status.
* **A failed resume forgets the completed steps** (`MCProfileRun_wiped`).
  `runs.py:412` writes the empty results over the recorded ones when the
  preparation raises; `cli/runs.py:284` promises they are not run again.
* **Two processes, one RUN-NNN** (`MCToolRuns_two`). The lock is per
  connection and the row is written with INSERT OR REPLACE;
  `analysis_service.py:121`.
* **Two workers on one run** (`MCProfileRun_twice`). `run resume` checks the
  status, then spawns (`cli/runs.py:302`); nothing is reserved in between.
* Jobs (`MCSupertimeline_documented`, one property at a time).
  `ReuseIsAlwaysSound`: the import writes metadata for a storage it has not
  looked at, and without a hash when the job was cancelled after psort, so a
  half-built storage becomes reusable; `supertimeline_service.py:334` against
  line 263 and the repository's `README.md:530`. `StringsOnce`: a repeated
  import registers the strings again (line 287, "idempotent" in line 234).
  `DropsHalfBuilt`: the repeated import of a failed job removes the whole
  storage of a later one (line 264).

Artifacts and rules:

* **A rerun that finds more loses an artifact** (`MCNormalization_grown`): new
  numbers start from a MAX read after the deletion, and meet the kept ones.
* **Half a run is committed by a sibling** (`_half`): no rollback after an
  exception inside `_store_run`.
* **A part of a run is committed by a sibling** (`_torn`): the status of steps
  and runs is committed without `db_lock`, between two batches of another
  step; killed then, the process leaves a part. `runs.py:115` against
  `pipeline.py:181`.
* **Two processes number alike** (`_parallel`): the MAX is read before the
  write transaction, INSERT OR REPLACE drops the other's artifact.
* **A replay after the loss of the database restores nothing** (by reading):
  it looks for the uuid of a case that now has another.
* **A match is traced to the wrong file** (`MCRuleStore_traced`): a sync that
  stops after its first source leaves the index of before. Two syncs at once
  share a staging directory (by reading).

Evidence and steps (`MCStepRunner_documented`, one property at a time, and
`MCStepRunner_race`):

* `KnownIsWhole`: a forced preparation that fails leaves the old record in
  force over what it has destroyed; `RecordIsWhole` with two at a time.
* `EveryRecordIsWhole`: beside the logs of a ready folder the old content is
  not removed and a truncated file is not extracted again (`image.py:157`).
* `ImagesOpened`: a disk image beside a Windows tree is not opened.
* `HostSaved`: killed between two commits, the host artifact is never made.
* `UacPrepares`, `FolderPrepares`: a UAC collection with an archive in it, and
  a folder of nothing but images, are refused.
* `OncePerLocation`: a retry, or a second Dissect plugin, reads a location
  again.

Calls and containers (`MCSessions_documented`):

* `OptionsArrive`: `analyze -O no_logs=false` is overwritten; the host's `rules`
  commands do not send `--store`.
* `CallsUnderstood` with `MayDash`: a value that starts with a dash is refused
  in the container, for want of a `--`.
* `EvidenceMounted`: one host path has one mount; evidence that is also the
  key directory is at `/keys` only.
* `EvidenceReadOnly`: a workspace that is a link to the evidence, or a directory
  above it, mounts it a second time, read-write (`container_service.py:243`).
* `ShellInOwn`: `container shell` looks at the label, then goes by the name
  (`cli/containers.py:234`).
* `ShownIsFound`: `get` shows a container that `stop` refuses.
* By reading: `container list --case` compares the text of the label.

Records (`MCCaseRecords_documented`):

* `NumberIsFree`: after EVD-1000 (or the thousandth case of a year) every
  registration fails, for ever.
* `PathRegisteredOnce`: a `run start` that fails and is repeated registers the
  path twice.
* `HostOfFirst`: "the case's first evidence" is the last one.
* `EnginesAgree`: ripgrep and the scan in Python count differently.

Noticed while modelling and stated as hazards without a property:
`run_status` may overwrite the verdict of a worker that finished while it
looked; a worker that dies before its first UPDATE leaves the run pending; a
job container killed hard is never imported and its row stays running; a
migration interrupted between its script and `user_version` runs again. Two
jobs may be prepared on one evidence at the same time, and a cancel during the
reservation of a tool run leaves its row RUNNING. `hunt` forwards
`--rule-profile` and `--min-severity` only with another engine, `analyze` never
forwards `--normalize`: neither changes what the command does.

## 6. Plan

1. `OneExecutor` without `Patient`: it needs a change of the code (today two
   resumes typed before the new worker marks the row both spawn), such as a
   claim of the row in the transaction that reads it.
2. The sentence of `dag.py:6` with retried needs: it needs a change of the code
   (a status of its own for a step between two attempts); `NeedsNotRetried`
   then falls away as a hypothesis.
3. `RunsWhole` without `torn`: a status saved under `db_lock`, or on a
   connection of its own; and a rerun of a torn run, which meets numbers already
   taken.
4. `SyncLeavesWhatIsPinned` with a lock around `sync_rules`, the change of the
   code that its hypothesis asks for.

## 7. Not modelled

Parsers and normalizers (pure, row by row), the command lines of the forensic
tools and the parsing of their output, SQL readers and reports, the text of
findings, the correlation of single artifacts, the scopes of a search other
than artifacts, `resolve_conflicts` (which rule
of two with one name is kept), the validation of profile files, ports, labels
and limits of containers, configuration and logging, the schema migration, the
engines (Raijin, orc-decrypt, vendored YARA-X) and the images. Secrets: that a
command line carries their option, not what the host logs of it. Pids that the system gives to another
process.
