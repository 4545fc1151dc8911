-------------------------- MODULE SupertimelineProofs --------------------------
(***************************************************************************)
(* Theorems about Supertimeline: jobs, imports and the storage they share, *)
(* for any number of jobs and terminals, any modes and parameters.         *)
(***************************************************************************)
EXTENDS Supertimeline, TLAPS

(***************************************************************************)
(* Types.                                                                  *)
(***************************************************************************)
Phases  == {"idle", "reserved", "refused", "died", "decided", "unlinking", "prepared", "started"}
States  == {"skipped", "completed", "failed", "tolerated", "cancelled"}
Tools   == {"log2timeline", "psort", "fls", "blkls"}
Places  == {"off", "boot", "loop", "spawn", "tool", "killed", "hash", "verdict", "exit",
            "dead", "removed"}
Reading == {"status", "storage", "plaso", "meta", "tsk", "strings", "update"}

JobType == [phase : Phases, mode : Modes \cup {None}, params : Params \cup {None},
            overwrite : BOOLEAN, reused : BOOLEAN, compared : BOOLEAN]
RowType == [status : {None, "running"} \cup Ended, imported : BOOLEAN]
RunnerType == [at : Places, step : Nat, tries : 1..FsTypes, term : BOOLEAN, late : BOOLEAN,
               hash : File \cup {None}]
StatusType == [state : {None, "running"} \cup Ended, steps : Seq(States), hash : File \cup {None}]
OutputType == [events : File \cup {None}, fls : Partial, blkls : Partial]
TimelineType == [plaso : File \cup {None}, tsk : Partial, strings : 0..2]
HostType == [at : {"idle", "row", "remove"} \cup Reading, job : Jobs \cup {None}]
MetaType == [params : Params, sha : File \cup {None}]

\* The type of every variable.
Typed ==
  /\ storage \in File \cup {None}
  /\ meta \in MetaType \cup {None}
  /\ job \in [Jobs -> JobType]
  /\ row \in [Jobs -> RowType]
  /\ runner \in [Jobs -> RunnerType]
  /\ status \in [Jobs -> StatusType]
  /\ output \in [Jobs -> OutputType]
  /\ timeline \in [Jobs -> TimelineType]
  /\ host \in [Hosts -> HostType]
  /\ \A j \in Jobs : job[j].phase # "idle" => job[j].mode \in Modes /\ job[j].params \in Params
  /\ \A h \in Hosts : host[h].at = "idle" <=> host[h].job = None

\* Only a started job has a container or an import.
Begun ==
  /\ \A j \in Jobs : runner[j].at # "off" => job[j].phase = "started"
  /\ \A h \in Hosts : host[h].at # "idle" => job[host[h].job].phase = "started"

(***************************************************************************)
(* The runner of a job.                                                    *)
(***************************************************************************)
\* A runner exists only in the container of a started job, whose state is final
\* when it has exited.
RunnerStarted(j) ==
  /\ runner[j].at # "off" <=> job[j].phase = "started"
  /\ runner[j].at = "off" =>
       /\ runner[j].step = 1 /\ ~runner[j].term /\ ~runner[j].late
       /\ status[j].state = None /\ status[j].steps = <<>>
       /\ output[j].events = None /\ output[j].fls = None /\ output[j].blkls = None
  /\ status[j].state \in Ended <=> runner[j].at \in {"exit", "removed"}

\* The steps that are recorded are those of job.json, in order.
StepsRecorded(j) ==
  /\ Alive(j) => runner[j].step = Len(status[j].steps) + 1
  /\ runner[j].at # "off" => Len(status[j].steps) <= Len(Steps(job[j].mode))
  /\ runner[j].at \in {"spawn", "tool", "killed"} =>
       /\ Len(status[j].steps) < Len(Steps(job[j].mode))
       /\ \A i \in 1..Len(status[j].steps) :
            status[j].steps[i] \in {"skipped", "completed", "tolerated"}
       /\ job[j].reused => StepNow(j) # "log2timeline"
  /\ \A i \in 1..Len(status[j].steps) :
       i < Len(status[j].steps) => status[j].steps[i] \in {"skipped", "completed", "tolerated"}
  /\ runner[j].at = "killed" => runner[j].term
  /\ Alive(j) /\ ~runner[j].term => \A i \in 1..Len(status[j].steps) : status[j].steps[i] # "cancelled"
  /\ \A i \in 1..Len(status[j].steps) :
       /\ status[j].steps[i] = "skipped" =>
            job[j].reused /\ Steps(job[j].mode)[i] = "log2timeline"
       /\ status[j].steps[i] = "tolerated" => Steps(job[j].mode)[i] \in Tolerated
       /\ status[j].steps[i] = "completed" /\ Steps(job[j].mode)[i] = "psort" =>
            output[j].events # None

\* An output is partial only while its tool runs or after a cancel.
OutputWhole(j, out, step) ==
  /\ Alive(j) /\ ~runner[j].term /\ ~(runner[j].at = "tool" /\ StepNow(j) = step) => out # "partial"
  /\ status[j].state = "completed" => out # "partial"

\* A job is completed only when every step has ended well.
AllStepsDone(j) ==
  /\ runner[j].at \in {"hash", "verdict"} /\ ~runner[j].term /\ ~runner[j].late =>
       HasFailed(j) \/ Len(status[j].steps) >= Len(Steps(job[j].mode))
  /\ status[j].state = "completed" =>
       /\ Len(status[j].steps) >= Len(Steps(job[j].mode))
       /\ \A i \in 1..Len(status[j].steps) : status[j].steps[i] \notin {"failed", "cancelled"}

RunnerOK(j) ==
  /\ RunnerStarted(j)
  /\ StepsRecorded(j)
  /\ OutputWhole(j, output[j].fls, "fls")
  /\ OutputWhole(j, output[j].blkls, "blkls")
  /\ AllStepsDone(j)

RunnerInv == \A j \in Jobs : RunnerOK(j)

(***************************************************************************)
(* The import.                                                             *)
(***************************************************************************)
PsortDone(j) == StateOf(j, "psort") = "completed"
BlklsDone(j) == StateOf(j, "blkls") = "completed"

\* The events in the database are those the job wrote, once it has ended.
EventsOf(j) ==
  /\ timeline[j].plaso \in {None, output[j].events}
  /\ timeline[j].tsk \in {None, output[j].fls}
  /\ timeline[j].strings > 0 => BlklsDone(j)
  /\ timeline[j].plaso # None => PsortDone(j)
  /\ status[j].state \notin Ended =>
       timeline[j].plaso = None /\ timeline[j].tsk = None /\ timeline[j].strings = 0

PlasoIn(j) == PsortDone(j) => timeline[j].plaso = output[j].events
StringsIn(j) == BlklsDone(j) => timeline[j].strings > 0

\* The row of a run says imported when all is in.
RowSays(j) ==
  /\ row[j].imported => /\ row[j].status = status[j].state /\ status[j].state \in Ended
                        /\ timeline[j].tsk = output[j].fls
                        /\ PlasoIn(j) /\ StringsIn(j)
  /\ row[j].status = "running" <=> job[j].phase \notin {"idle", "refused"} /\ ~row[j].imported
  /\ row[j].status = "completed" => row[j].imported

\* What an import has put in so far.
ImportAt(h, j) ==
  /\ host[h].at \in Reading \ {"status"} => status[j].state \in Ended
  /\ host[h].at \in {"plaso", "meta"} => PsortDone(j)
  /\ host[h].at \in {"meta", "tsk", "strings", "update"} => PlasoIn(j)
  /\ host[h].at \in {"strings", "update"} => timeline[j].tsk = output[j].fls
  /\ host[h].at = "update" => StringsIn(j)
  /\ host[h].at = "remove" => row[j].imported

ImportInv ==
  /\ \A j \in Jobs : EventsOf(j) /\ RowSays(j)
  /\ \A h \in Hosts, j \in Jobs : host[h].job = j => job[j].phase = "started" /\ ImportAt(h, j)

(***************************************************************************)
(* The storage.                                                            *)
(***************************************************************************)
OneOpen == \A j, k \in Jobs : ~Settled(j) /\ ~Settled(k) => j = k

\* The complete storage of job j, and of some job prepared with parameters p.
Own(j) == [by |-> {j}, unfinished |-> {}]
Whole(s, p) == \E k \in Jobs : s = Own(k) /\ job[k].phase # "idle" /\ job[k].params = p

\* The storage of a job that builds it: its own, or none since a late import of
\* another job drops it.
Fresh(j) ==
  /\ status[j].steps = <<>> =>
       \/ storage = None
       \/ runner[j].at \in {"tool", "killed"} /\ storage = [by |-> {j}, unfinished |-> {j}]
  /\ status[j].steps # <<>> /\ status[j].steps[1] = "completed" => storage \in {None, Own(j)}

Building(j) == job[j].phase \in {"prepared", "started"} /\ WithPlaso(j) /\ ~job[j].reused
Reusing(j) == job[j].phase \in {"decided", "prepared", "started"} /\ WithPlaso(j) /\ job[j].reused
Trusted(j) == job[j].reused => job[j].compared

\* A hash of a job that built its storage is that of a complete one.
HashOf(j, hash) ==
  hash # None => /\ job[j].phase = "started"
                 /\ ~job[j].reused => Whole(hash, job[j].params)

JobStorage(j) ==
  /\ ~Settled(j) =>
       /\ Building(j) => Fresh(j)
       /\ Reusing(j) /\ job[j].compared => storage = None \/ Whole(storage, job[j].params)
       /\ job[j].phase = "unlinking" => storage = None
  /\ output[j].events # None /\ Trusted(j) => Whole(output[j].events, job[j].params)
  /\ HashOf(j, runner[j].hash)
  /\ HashOf(j, status[j].hash)

StorageInv ==
  /\ OneOpen
  /\ meta # None /\ meta.sha # None => Whole(meta.sha, meta.params)
  /\ \A j \in Jobs : JobStorage(j)

\* What a job has decided.
Decided(j) ==
  \E reused \in BOOLEAN, compared \in BOOLEAN :
    job' = [job EXCEPT ![j] = [phase |-> "decided", mode |-> job[j].mode, params |-> job[j].params,
                               overwrite |-> job[j].overwrite, reused |-> reused, compared |-> compared]]

LEMMA DecideJob ==
  ASSUME NEW j \in Jobs, job \in [Jobs -> JobType], Decide(j)
  PROVE  Decided(j) /\ job[j].phase = "reserved"
<1> DEFINE decision == Decision(job[j].params, job[j].overwrite)
           reused   == WithPlaso(j) /\ decision = "reuse"
           compared == reused /\ meta.sha # None
<1>1. job[j] \in JobType
  OBVIOUS
<1>2. PICK r \in BOOLEAN, c \in BOOLEAN : r = reused /\ c = compared
  OBVIOUS
<1>3. job' = [job EXCEPT ![j] = [job[j] EXCEPT !.phase = "decided", !.reused = r, !.compared = c]]
  BY <1>2 DEF Decide
<1>4. [job[j] EXCEPT !.phase = "decided", !.reused = r, !.compared = c]
        = [phase |-> "decided", mode |-> job[j].mode, params |-> job[j].params,
           overwrite |-> job[j].overwrite, reused |-> r, compared |-> c]
  <2>1. PICK x \in JobType : x = job[j]
    BY <1>1
  <2>2. PICK y \in JobType : y = [x EXCEPT !.phase = "decided"]
    BY DEF JobType, Phases
  <2>3. PICK z \in JobType : z = [y EXCEPT !.reused = r]
    BY DEF JobType
  <2>4. [z EXCEPT !.compared = c]
          = [phase |-> z.phase, mode |-> z.mode, params |-> z.params,
             overwrite |-> z.overwrite, reused |-> z.reused, compared |-> c]
    BY DEF JobType
  <2>5. z.phase = "decided" /\ z.reused = r /\ z.mode = x.mode /\ z.params = x.params
          /\ z.overwrite = x.overwrite
    BY <2>2, <2>3 DEF JobType
  <2> QED BY ONLY <2>1, <2>2, <2>3, <2>4, <2>5
<1> QED BY <1>3, <1>4 DEF Decided, Decide

\* Each action keeps every variable in its type.
LEMMA TypedStep == ASSUME Typed, Begun, [Next]_vars PROVE Typed'
<1>s. storage \in File \cup {None}
  BY DEF Typed
<1>m. meta \in MetaType \cup {None}
  BY DEF Typed
<1>j. job \in [Jobs -> JobType]
  BY DEF Typed
<1>r. row \in [Jobs -> RowType]
  BY DEF Typed
<1>u. runner \in [Jobs -> RunnerType]
  BY DEF Typed
<1>t. status \in [Jobs -> StatusType]
  BY DEF Typed
<1>o. output \in [Jobs -> OutputType]
  BY DEF Typed
<1>e. timeline \in [Jobs -> TimelineType]
  BY DEF Typed
<1>h. host \in [Hosts -> HostType]
  BY DEF Typed
<1>k. \A j \in Jobs : job[j].phase # "idle" => job[j].mode \in Modes /\ job[j].params \in Params
  BY DEF Typed
<1>1. ASSUME NEW j \in Jobs, Prepare(j) PROVE Typed'
  <2>1. ASSUME NEW mode \in Modes, NEW p \in Params, NEW overwrite \in BOOLEAN,
               Reserve(j, mode, p, overwrite)
        PROVE  Typed'
    <3>1. job' \in [Jobs -> JobType]
      BY <1>j, <2>1 DEF Reserve, JobType, Phases
    <3>2. row' \in [Jobs -> RowType]
      BY <1>r, <2>1 DEF Reserve, RowType
    <3>3. \A k \in Jobs : job'[k] = IF k = j THEN [phase |-> "reserved", mode |-> mode, params |-> p,
                                       overwrite |-> overwrite, reused |-> FALSE, compared |-> FALSE]
                                       ELSE job[k]
      BY <1>j, <2>1 DEF Reserve
    <3>4. \A k \in Jobs : job'[k].phase # "idle" => job'[k].mode \in Modes /\ job'[k].params \in Params
      BY <1>k, <3>3
    <3> QED BY <2>1, <3>1, <3>2, <3>4 DEF Reserve, Typed
  <2>2. CASE Refuse(j)
    <3>1. job' = [job EXCEPT ![j].phase = "refused"] /\ job[j].phase = "reserved"
      BY <2>2 DEF Refuse
    <3>2. job' \in [Jobs -> JobType]
      BY <1>j, <3>1 DEF JobType, Phases
    <3>3. row' \in [Jobs -> RowType]
      BY <1>r, <2>2 DEF Refuse, RowType, Ended
    <3>4. \A k \in Jobs : job'[k].phase # "idle" => job'[k].mode \in Modes /\ job'[k].params \in Params
      BY <1>j, <1>k, <3>1 DEF JobType
    <3> QED BY <2>2, <3>2, <3>3, <3>4 DEF Refuse, Typed
  <2>3. CASE Decide(j)
    <3>1. Decided(j) /\ job[j].phase = "reserved"
      BY <1>j, <2>3, DecideJob
    <3>2. job' \in [Jobs -> JobType]
      BY <1>j, <3>1 DEF Decided, JobType, Phases
    <3>4. \A k \in Jobs : job'[k].phase # "idle" => job'[k].mode \in Modes /\ job'[k].params \in Params
      BY <1>j, <1>k, <3>1 DEF Decided, JobType
    <3> QED BY <2>3, <3>2, <3>4 DEF Decide, Typed
  <2>6. CASE Unlink(j)
    <3>1. job' = [job EXCEPT ![j].phase = "unlinking"] /\ job[j].phase = "decided"
      BY <2>6 DEF Unlink
    <3>2. job' \in [Jobs -> JobType]
      BY <1>j, <3>1 DEF JobType, Phases
    <3>4. \A k \in Jobs : job'[k].phase # "idle" => job'[k].mode \in Modes /\ job'[k].params \in Params
      BY <1>j, <1>k, <3>1 DEF JobType
    <3> QED BY <2>6, <3>2, <3>4 DEF Unlink, Typed
  <2>7. CASE PrepareDies(j)
    <3>1. job' = [job EXCEPT ![j].phase = "died"] /\ job[j].phase # "idle"
      BY <2>7 DEF PrepareDies
    <3>2. job' \in [Jobs -> JobType]
      BY <1>j, <3>1 DEF JobType, Phases
    <3>4. \A k \in Jobs : job'[k].phase # "idle" => job'[k].mode \in Modes /\ job'[k].params \in Params
      BY <1>j, <1>k, <3>1 DEF JobType
    <3> QED BY <2>7, <3>2, <3>4 DEF PrepareDies, Typed
  <2>4. CASE WriteSpec(j)
    <3>1. job' = [job EXCEPT ![j].phase = "prepared"] /\ job[j].phase # "idle"
      BY <2>4 DEF WriteSpec
    <3>2. job' \in [Jobs -> JobType]
      BY <1>j, <3>1 DEF JobType, Phases
    <3>3. storage' \in File \cup {None} /\ meta' \in MetaType \cup {None}
      BY <1>s, <1>m, <2>4 DEF WriteSpec
    <3>4. \A k \in Jobs : job'[k].phase # "idle" => job'[k].mode \in Modes /\ job'[k].params \in Params
      BY <1>j, <1>k, <3>1 DEF JobType
    <3> QED BY <2>4, <3>2, <3>3, <3>4 DEF WriteSpec, Typed
  <2>5. CASE Start(j)
    <3>1. job' = [job EXCEPT ![j].phase = "started"] /\ job[j].phase = "prepared"
      BY <2>5 DEF Start
    <3>2. job' \in [Jobs -> JobType]
      BY <1>j, <3>1 DEF JobType, Phases
    <3>3. runner' \in [Jobs -> RunnerType]
      BY <1>u, <2>5 DEF Start, RunnerType, Places
    <3>4. \A k \in Jobs : job'[k].phase # "idle" => job'[k].mode \in Modes /\ job'[k].params \in Params
      BY <1>j, <1>k, <3>1 DEF JobType
    <3> QED BY <2>5, <3>2, <3>3, <3>4 DEF Start, Typed
  <2> QED BY <1>1, <2>1, <2>2, <2>3, <2>4, <2>5, <2>6, <2>7 DEF Prepare
<1>2. ASSUME NEW j \in Jobs, RunnerStep(j) \/ Cancel(j) \/ Kill(j) PROVE Typed'
  <2>1. UNCHANGED <<meta, job, row, timeline, host>>
    BY <1>2 DEF RunnerStep, Boot, NextStep, LeaveLoop, Spawn, ToolSucceeds, TryNext, ToolFails,
                Hash, Verdict, Cancel, Kill
  <2> SUFFICES /\ storage' \in File \cup {None} /\ runner' \in [Jobs -> RunnerType]
               /\ status' \in [Jobs -> StatusType] /\ output' \in [Jobs -> OutputType]
    BY <2>1 DEF Typed
  <2>2. CASE Boot(j)
    <3>1. runner' \in [Jobs -> RunnerType]
      BY <1>u, <2>2 DEF Boot, RunnerType, Places
    <3>2. status' \in [Jobs -> StatusType]
      BY <1>t, <2>2 DEF Boot, StatusType
    <3> QED BY <1>s, <1>o, <2>2, <3>1, <3>2 DEF Boot
  <2>3. CASE NextStep(j)
    <3>1. runner' \in [Jobs -> RunnerType]
      <4>1. CASE runner' = [runner EXCEPT ![j].step = @ + 1]
        BY <1>u, <4>1 DEF RunnerType
      <4>2. CASE runner' = [runner EXCEPT ![j].at = "spawn", ![j].tries = FsTypes]
        <5>1. FsTypes \in 1..FsTypes
          BY FsTypesPos
        <5> QED BY ZenonT(60), <1>u, <4>2, <5>1 DEF RunnerType, Places
      <4> QED BY <2>3, <4>1, <4>2 DEF NextStep
    <3>2. status' \in [Jobs -> StatusType]
      <4>1. CASE status' = [status EXCEPT ![j].steps = Append(@, "skipped")]
        <5>1. status[j].steps \in Seq(States)
          BY <1>t DEF StatusType
        <5>2. Append(status[j].steps, "skipped") \in Seq(States)
          BY <5>1 DEF States
        <5> QED BY <1>t, <4>1, <5>2 DEF StatusType
      <4> QED BY <1>t, <2>3, <4>1 DEF NextStep
    <3> QED BY <1>s, <1>o, <2>3, <3>1, <3>2 DEF NextStep
  <2>4. CASE LeaveLoop(j)
    <3>1. PICK late \in BOOLEAN : runner' = [runner EXCEPT ![j].at = "hash", ![j].late = late]
      BY <2>4 DEF LeaveLoop
    <3>2. runner' \in [Jobs -> RunnerType]
      BY ZenonT(60), <1>u, <3>1 DEF RunnerType, Places
    <3> QED BY <1>s, <1>t, <1>o, <2>4, <3>2 DEF LeaveLoop
  <2>5. CASE Spawn(j)
    <3>1. runner' \in [Jobs -> RunnerType]
      BY <1>u, <2>5 DEF Spawn, RunnerType, Places
    <3>2. storage' \in File \cup {None}
      BY <1>s, <2>5 DEF Spawn, File
    <3>3. output' \in [Jobs -> OutputType]
      <4>1. CASE StepNow(j) = "psort"
        <5>1. output' = [output EXCEPT ![j].events = storage]
          BY <2>5, <4>1 DEF Spawn, Tolerated
        <5> QED BY <1>o, <1>s, <5>1 DEF OutputType
      <4>2. CASE StepNow(j) \in Tolerated
        <5>1. StepNow(j) # "psort"
          BY <4>2 DEF Tolerated
        <5>2. PICK step \in Tolerated : output' = [output EXCEPT ![j][step] = "partial"]
          BY <2>5, <4>2, <5>1 DEF Spawn
        <5> QED BY <1>o, <5>2 DEF OutputType, Tolerated, Partial
      <4>3. CASE StepNow(j) \notin Tolerated \cup {"psort"}
        BY <1>o, <2>5, <4>3 DEF Spawn
      <4> QED BY <4>1, <4>2, <4>3
    <3> QED BY <1>t, <2>5, <3>1, <3>2, <3>3 DEF Spawn
  <2>6. CASE ToolSucceeds(j)
    <3>1. runner' \in [Jobs -> RunnerType]
      BY <1>u, <2>6 DEF ToolSucceeds, RunnerType, Places
    <3>2. storage' \in File \cup {None}
      BY <1>s, <2>6 DEF ToolSucceeds, File
    <3>3. output' \in [Jobs -> OutputType]
      <4>2. ASSUME NEW step \in Tolerated, output' = [output EXCEPT ![j][step] = "whole"]
            PROVE  output' \in [Jobs -> OutputType]
        BY <1>o, <4>2 DEF OutputType, Tolerated, Partial
      <4> QED BY <1>o, <2>6, <4>2 DEF ToolSucceeds
    <3>4. PICK x \in {"cancelled", "completed"} : status' = [status EXCEPT ![j].steps = Append(@, x)]
      BY <2>6 DEF ToolSucceeds
    <3>5. Append(status[j].steps, x) \in Seq(States)
      BY <1>t DEF StatusType, States
    <3>6. status' \in [Jobs -> StatusType]
      BY <1>t, <3>4, <3>5 DEF StatusType
    <3> QED BY <3>1, <3>2, <3>3, <3>6
  <2>7. CASE TryNext(j)
    <3>1. runner[j].tries \in 1..FsTypes /\ runner[j].tries > 1
      BY <1>u, <2>7 DEF TryNext, RunnerType
    <3>2. PICK n \in 1..FsTypes : runner' = [runner EXCEPT ![j].at = "spawn", ![j].tries = n]
      <4>1. runner[j].tries - 1 \in 1..FsTypes
        BY FsTypesPos, <3>1
      <4> QED BY <2>7, <4>1 DEF TryNext
    <3>3. runner' \in [Jobs -> RunnerType]
      BY ZenonT(60), <1>u, <3>2 DEF RunnerType, Places
    <3>4. PICK step \in Tolerated : output' = [output EXCEPT ![j][step] = None]
      BY <2>7 DEF TryNext
    <3>5. output' \in [Jobs -> OutputType]
      BY <1>o, <3>4 DEF OutputType, Tolerated, Partial
    <3> QED BY <1>s, <1>t, <2>7, <3>3, <3>5 DEF TryNext
  <2>8. CASE ToolFails(j)
    <3>1. runner' \in [Jobs -> RunnerType]
      BY <1>u, <2>8 DEF ToolFails, RunnerType, Places
    <3>3. output' \in [Jobs -> OutputType]
      <4>2. ASSUME NEW step \in Tolerated, output' = [output EXCEPT ![j][step] = None]
            PROVE  output' \in [Jobs -> OutputType]
        BY <1>o, <4>2 DEF OutputType, Tolerated, Partial
      <4> QED BY <1>o, <2>8, <4>2 DEF ToolFails
    <3>4. PICK x \in {"cancelled", "tolerated", "failed"} : status' = [status EXCEPT ![j].steps = Append(@, x)]
      BY <2>8 DEF ToolFails
    <3>5. Append(status[j].steps, x) \in Seq(States)
      BY <1>t DEF StatusType, States
    <3>6. status' \in [Jobs -> StatusType]
      BY <1>t, <3>4, <3>5 DEF StatusType
    <3> QED BY <1>s, <2>8, <3>1, <3>3, <3>6 DEF ToolFails
  <2>9. CASE Hash(j)
    <3>1. PICK x \in File \cup {None} : runner' = [runner EXCEPT ![j].at = "verdict", ![j].hash = x]
      BY <1>s, <2>9 DEF Hash
    <3>2. runner' \in [Jobs -> RunnerType]
      BY ZenonT(60), <1>u, <3>1 DEF RunnerType, Places
    <3> QED BY <1>s, <1>t, <1>o, <2>9, <3>2 DEF Hash
  <2>10. CASE Verdict(j)
    <3>1. runner[j].hash \in File \cup {None}
      BY <1>u DEF RunnerType
    <3>2. PICK x \in Ended : status' = [status EXCEPT ![j].state = x, ![j].hash = runner[j].hash]
      BY <2>10 DEF Verdict, Ended
    <3>3. status' \in [Jobs -> StatusType]
      BY <1>t, <3>1, <3>2 DEF StatusType
    <3>4. Process("exit") \in RunnerType
      BY FsTypesPos DEF Process, RunnerType, Places
    <3>5. runner' \in [Jobs -> RunnerType]
      BY <1>u, <2>10, <3>4 DEF Verdict
    <3> QED BY <1>s, <1>o, <2>10, <3>3, <3>5 DEF Verdict
  <2>11. CASE Cancel(j)
    <3>1. PICK at \in Places : runner' = [runner EXCEPT ![j].term = TRUE, ![j].at = at]
      BY <1>u, <2>11 DEF Cancel, RunnerType, Places
    <3>2. runner' \in [Jobs -> RunnerType]
      BY ZenonT(60), <1>u, <3>1 DEF RunnerType
    <3> QED BY <1>s, <1>t, <1>o, <2>11, <3>2 DEF Cancel
  <2>12. CASE Kill(j)
    <3>1. Process("dead") \in RunnerType
      BY FsTypesPos DEF Process, RunnerType, Places
    <3>2. runner' \in [Jobs -> RunnerType]
      BY <1>u, <2>12, <3>1 DEF Kill
    <3> QED BY <1>s, <1>t, <1>o, <2>12, <3>2 DEF Kill
  <2> QED BY <1>2, <2>2, <2>3, <2>4, <2>5, <2>6, <2>7, <2>8, <2>9, <2>10, <2>11, <2>12 DEF RunnerStep
<1>3. ASSUME NEW h \in Hosts, \/ Import(h) \/ Die(h) \/ \E j \in Jobs : Ask(h, j) \/ Rerun(h, j)
      PROVE  Typed'
  <2>1. UNCHANGED <<job, status, output>>
    BY <1>3 DEF Import, Die, Ask, Rerun, NoJob, ReadRow, ReadStatus, DropStorage, ImportPlaso,
                WriteMeta, ImportTsk, RegisterStrings, UpdateRow, RemoveJob
  <2>h. ASSUME NEW at \in {"row", "remove"} \cup Reading, NEW j \in Jobs,
               \/ host' = [host EXCEPT ![h] = [at |-> at, job |-> j]]
               \/ host' = [host EXCEPT ![h].at = at] /\ j = host[h].job
        PROVE  host' \in [Hosts -> HostType] /\ \A g \in Hosts : host'[g].at = "idle" <=> host'[g].job = None
    <3>1. \A g \in Hosts : host[g].at = "idle" <=> host[g].job = None
      BY DEF Typed
    <3>2. at # "idle" /\ j # None
      BY NoneElse DEF Reading
    <3>3. host' \in [Hosts -> HostType]
      BY <1>h, <2>h DEF HostType
    <3>4. /\ \A g \in Hosts \ {h} : host'[g] = host[g]
          /\ host'[h].at = at /\ host'[h].job = j
      BY <1>h, <2>h DEF HostType
    <3> QED BY <3>1, <3>2, <3>3, <3>4
  <2>l. ASSUME Leave(h)
        PROVE  host' \in [Hosts -> HostType] /\ \A g \in Hosts : host'[g].at = "idle" <=> host'[g].job = None
    <3>1. \A g \in Hosts : host[g].at = "idle" <=> host[g].job = None
      BY DEF Typed
    <3>2. host' \in [Hosts -> HostType]
      BY <1>h, <2>l DEF HostType, Leave
    <3> QED BY <1>h, <2>l, <3>1, <3>2 DEF Leave
  <2> DEFINE k == host[h].job
  <2>k. host[h].at # "idle" => k \in Jobs
    <3>1. host[h].at # "idle" => host[h].job # None
      BY DEF Typed
    <3> QED BY <1>h, <3>1 DEF HostType
  <2> HIDE DEF k
  <2>2. ASSUME NEW j \in Jobs, Ask(h, j) \/ Rerun(h, j) PROVE Typed'
    <3>1. \E at \in {"row", "status"} : host' = [host EXCEPT ![h] = [at |-> at, job |-> j]]
      BY <2>2 DEF Ask, Rerun
    <3>2. UNCHANGED <<storage, meta, row, runner, timeline>>
      BY <2>2 DEF Ask, Rerun, NoJob
    <3> QED BY <2>1, <2>h, <3>1, <3>2 DEF Typed, Reading
  <2>3. CASE Die(h) \/ ReadRow(h) \/ ReadStatus(h)
    <3>1. \/ Leave(h)
          \/ k \in Jobs /\ \E at \in {"remove", "status", "storage"} : Go(h, at)
      BY <2>3, <2>k DEF Die, ReadRow, ReadStatus, At
    <3>2. UNCHANGED <<storage, meta, row, runner, timeline>>
      BY <2>3 DEF Die, ReadRow, ReadStatus, NoJob
    <3>3. host' \in [Hosts -> HostType] /\ \A g \in Hosts : host'[g].at = "idle" <=> host'[g].job = None
      BY <2>h, <2>l, <3>1 DEF Go, Reading, k
    <3> QED BY <2>1, <3>2, <3>3 DEF Typed
  <2>4. CASE DropStorage(h) \/ ImportPlaso(h) \/ WriteMeta(h) \/ ImportTsk(h) \/ RegisterStrings(h)
             \/ UpdateRow(h)
    <3>1. k \in Jobs /\ \E at \in {"plaso", "tsk", "meta", "strings", "update", "remove"} : Go(h, at)
      BY <2>4, <2>k DEF DropStorage, ImportPlaso, WriteMeta, ImportTsk, RegisterStrings, UpdateRow, At
    <3>2. host' \in [Hosts -> HostType] /\ \A g \in Hosts : host'[g].at = "idle" <=> host'[g].job = None
      BY <2>h, <3>1 DEF Go, Reading, k
    <3>o. output[k] \in OutputType /\ status[k] \in StatusType /\ job[k] \in JobType
      BY <1>o, <1>t, <1>j, <3>1
    <3>3. timeline' \in [Jobs -> TimelineType]
      <4>1. ASSUME NEW x \in File \cup {None}, timeline' = [timeline EXCEPT ![k].plaso = x]
            PROVE  timeline' \in [Jobs -> TimelineType]
        BY <1>e, <4>1 DEF TimelineType
      <4>2. ASSUME NEW x \in Partial, timeline' = [timeline EXCEPT ![k].tsk = x]
            PROVE  timeline' \in [Jobs -> TimelineType]
        BY <1>e, <4>2 DEF TimelineType
      <4>3. ASSUME NEW x \in 0..2, timeline' = [timeline EXCEPT ![k].strings = x]
            PROVE  timeline' \in [Jobs -> TimelineType]
        BY <1>e, <4>3 DEF TimelineType
      <4>4. output[k].events \in File \cup {None} /\ output[k].fls \in Partial /\ output[k].blkls \in Partial
        BY <3>o DEF OutputType
      <4>5. CASE timeline' = timeline
        BY <1>e, <4>5
      <4>6. CASE RegisterStrings(h)
        <5>1. CASE StateOf(k, "blkls") # "completed"
          BY <4>5, <4>6, <5>1 DEF RegisterStrings, k
        <5>2. CASE StateOf(k, "blkls") = "completed"
          <6>1. PICK x \in 0..2 : x = IF timeline[k].strings = 0 THEN 1 ELSE 2
            OBVIOUS
          <6>2. timeline' = [timeline EXCEPT ![k].strings = x]
            BY <4>6, <5>2, <6>1 DEF RegisterStrings, k
          <6> QED BY <4>3, <6>2
        <5> QED BY <5>1, <5>2
      <4> QED BY <2>4, <4>1, <4>2, <4>3, <4>4, <4>5, <4>6
              DEF DropStorage, ImportPlaso, WriteMeta, ImportTsk, UpdateRow, k
    <3>4. row' \in [Jobs -> RowType]
      <4>1. CASE UpdateRow(h)
        <5>1. status[k].state \in {None, "running"} \cup Ended
          BY <3>o DEF StatusType
        <5> QED BY <1>r, <4>1, <5>1 DEF UpdateRow, RowType, k
      <4> QED BY <1>r, <2>4, <4>1 DEF DropStorage, ImportPlaso, WriteMeta, ImportTsk, RegisterStrings
    <3>5. meta' \in MetaType \cup {None}
      <4>1. CASE WriteMeta(h)
        <5>1. host[h].at = "meta"
          BY <4>1 DEF WriteMeta, At
        <5>2. CASE meta' = [params |-> job[k].params, sha |-> status[k].hash]
          <6>1. job[k].params \in Params /\ status[k].hash \in File \cup {None}
            BY <1>k, <3>1, <3>o, <5>1 DEF StatusType, Begun, k
          <6> QED BY <5>2, <6>1 DEF MetaType
        <5> QED BY <1>m, <4>1, <5>2 DEF WriteMeta, k
      <4> QED BY <1>m, <2>4, <4>1 DEF DropStorage, ImportPlaso, UpdateRow, ImportTsk, RegisterStrings
    <3>6. storage' \in File \cup {None} /\ runner' = runner
      BY <1>s, <2>4 DEF DropStorage, ImportPlaso, WriteMeta, ImportTsk, RegisterStrings, UpdateRow, NoJob
    <3> QED BY <2>1, <3>2, <3>3, <3>4, <3>5, <3>6 DEF Typed
  <2>5. CASE RemoveJob(h)
    <3>1. runner' \in [Jobs -> RunnerType]
      BY ZenonT(60), <1>u, <2>5 DEF RemoveJob, RunnerType, Places
    <3> QED BY <2>1, <2>5, <2>l, <3>1 DEF RemoveJob, Typed
  <2> QED BY <1>3, <2>2, <2>3, <2>4, <2>5 DEF Import
<1>4. CASE UNCHANGED vars
  BY <1>4 DEF vars, Typed
<1> QED BY <1>1, <1>2, <1>3, <1>4 DEF Next

\* Only started jobs are run and imported.
LEMMA BegunStep == ASSUME Typed, Begun, [Next]_vars PROVE Begun'
<1>j. /\ job \in [Jobs -> JobType] /\ runner \in [Jobs -> RunnerType] /\ host \in [Hosts -> HostType]
      /\ \A h \in Hosts : host[h].at # "idle" => host[h].job \in Jobs
  <2>1. \A h \in Hosts : host[h].at # "idle" => host[h].job # None
    BY DEF Typed
  <2> QED BY <2>1 DEF Typed, HostType
<1>1. ASSUME NEW j \in Jobs, Prepare(j) PROVE Begun'
  <2>1. /\ \A k \in Jobs \ {j} : job'[k] = job[k] /\ runner'[k] = runner[k]
        /\ host' = host
        /\ job[j].phase # "started"
        /\ runner'[j] = runner[j] \/ job'[j].phase = "started"
    <3>1. \/ runner' = runner
          \/ /\ job' = [job EXCEPT ![j].phase = "started"]
             /\ runner' = [runner EXCEPT ![j].at = "boot"]
      BY <1>1 DEF Prepare, Reserve, Refuse, Decide, Unlink, WriteSpec, PrepareDies, Start
    <3>2. /\ \A k \in Jobs \ {j} : job'[k] = job[k]
          /\ host' = host
          /\ job[j].phase # "started"
      BY <1>j, <1>1 DEF Prepare, Reserve, Refuse, Decide, Unlink, WriteSpec, PrepareDies, Start
    <3> QED BY <1>j, <3>1, <3>2 DEF JobType, RunnerType
  <2> QED BY <1>j, <2>1 DEF Begun
<1>2. ASSUME NEW j \in Jobs, RunnerStep(j) \/ Cancel(j) \/ Kill(j) PROVE Begun'
  <2>1. /\ \A k \in Jobs \ {j} : runner'[k] = runner[k]
        /\ job' = job /\ host' = host /\ runner[j].at # "off"
    BY <1>j, <1>2 DEF RunnerStep, Boot, NextStep, LeaveLoop, Spawn, ToolSucceeds, TryNext, ToolFails,
                Hash, Verdict, Cancel, Kill, Alive
  <2> QED BY <1>j, <2>1 DEF Begun
<1>3. ASSUME NEW h \in Hosts, \/ Import(h) \/ Die(h) \/ \E j \in Jobs : Ask(h, j) \/ Rerun(h, j)
      PROVE  Begun'
  <2>1. job' = job /\ \A g \in Hosts \ {h} : host'[g] = host[g]
    BY <1>j, <1>3 DEF Import, Die, Ask, Rerun, NoJob, ReadRow, ReadStatus, DropStorage, ImportPlaso,
                WriteMeta, ImportTsk, RegisterStrings, UpdateRow, RemoveJob, Go, Leave
  <2>2. host'[h].at # "idle" => job[host'[h].job].phase = "started"
    <3>1. ASSUME NEW j \in Jobs, Ask(h, j) \/ Rerun(h, j)
          PROVE  host'[h].job = j /\ job[j].phase = "started"
      BY <1>j, <3>1 DEF Ask, Rerun, Begun
    <3>2. CASE Import(h) \/ Die(h)
      <4>1. Leave(h) \/ (host[h].at # "idle" /\ \E at : Go(h, at))
        <5>1. CASE Die(h) \/ RemoveJob(h)
          <6>1. Leave(h)
            BY <5>1 DEF Die, RemoveJob
          <6> QED BY <6>1
        <5>2. CASE ReadRow(h) \/ ReadStatus(h)
          <6>1. host[h].at # "idle"
            BY <5>2 DEF ReadRow, ReadStatus, At
          <6>2. Leave(h) \/ \E at : Go(h, at)
            BY <5>2 DEF ReadRow, ReadStatus
          <6> QED BY <6>1, <6>2
        <5>3. CASE DropStorage(h) \/ ImportPlaso(h) \/ WriteMeta(h)
          BY <5>3 DEF DropStorage, ImportPlaso, WriteMeta, At
        <5>4. CASE ImportTsk(h) \/ RegisterStrings(h) \/ UpdateRow(h)
          BY <5>4 DEF ImportTsk, RegisterStrings, UpdateRow, At
        <5> QED BY <3>2, <5>1, <5>2, <5>3, <5>4 DEF Import
      <4>2. (host'[h].job = host[h].job /\ host[h].at # "idle") \/ host'[h].at = "idle"
        BY <1>j, <4>1 DEF Leave, Go, HostType
      <4> QED BY <4>2 DEF Begun
    <3> QED BY <1>3, <3>1, <3>2
  <2>3. \A j \in Jobs : runner'[j].at # "off" => job[j].phase = "started"
    <3>1. CASE RemoveJob(h)
      <4>1. host[h].job \in Jobs /\ job[host[h].job].phase = "started"
        BY <1>j, <3>1 DEF RemoveJob, At, Begun
      <4>2. \A j \in Jobs \ {host[h].job} : runner'[j] = runner[j]
        BY <1>j, <3>1 DEF RemoveJob
      <4> QED BY <4>1, <4>2 DEF Begun
    <3>2. runner' = runner \/ RemoveJob(h)
      BY <1>3 DEF Import, Die, Ask, Rerun, NoJob, ReadRow, ReadStatus, DropStorage, ImportPlaso,
                WriteMeta, ImportTsk, RegisterStrings, UpdateRow
    <3> QED BY <3>1, <3>2 DEF Begun
  <2> QED BY <2>1, <2>2, <2>3 DEF Begun
<1>4. CASE UNCHANGED vars
  BY <1>4 DEF vars, Begun
<1> QED BY <1>1, <1>2, <1>3, <1>4 DEF Next

\* The first state is well typed.
LEMMA TypedInit == ASSUME Init PROVE Typed /\ Begun
<1>1. job \in [Jobs -> JobType] /\ row \in [Jobs -> RowType]
  BY DEF Init, JobType, RowType, Phases
<1>2. runner \in [Jobs -> RunnerType]
  BY FsTypesPos DEF Init, Process, RunnerType, Places
<1>3. status \in [Jobs -> StatusType] /\ output \in [Jobs -> OutputType]
  BY DEF Init, StatusType, OutputType, Partial
<1>4. timeline \in [Jobs -> TimelineType] /\ host \in [Hosts -> HostType]
  BY SMT DEF Init, TimelineType, HostType, Partial
<1>5. /\ \A j \in Jobs : job[j].phase = "idle" /\ runner[j].at = "off"
      /\ \A h \in Hosts : host[h].at = "idle" /\ host[h].job = None
  BY DEF Init, Process
<1> QED BY <1>1, <1>2, <1>3, <1>4, <1>5 DEF Init, Typed, Begun

\* Files, rows and processes keep their types: TypeOK, for any number of jobs and terminals.
THEOREM TypeCorrect == Spec => []TypeOK
<1>1. Init => Typed /\ Begun
  BY TypedInit
<1>2. Typed /\ Begun /\ [Next]_vars => Typed' /\ Begun'
  BY TypedStep, BegunStep
<1>3. Typed => TypeOK
  BY DEF Typed, TypeOK, Phases, Places, States, JobType, RowType, RunnerType, StatusType, OutputType,
         MetaType, TimelineType
<1> QED BY <1>1, <1>2, <1>3, PTL DEF Spec

(***************************************************************************)
(* The steps of a job.                                                     *)
(***************************************************************************)
\* What the steps of a mode are: log2timeline and psort come first, or not at all.
LEMMA StepsFacts ==
  ASSUME NEW m \in Modes
  PROVE  /\ Steps(m) \in Seq(Tools)
         /\ \A i \in 1..Len(Steps(m)) :
              /\ Steps(m)[i] = "log2timeline" => i = 1
              /\ Steps(m)[i] = "psort" => i = 2 /\ Steps(m)[1] = "log2timeline"
              /\ i = 1 /\ Steps(m)[1] = "log2timeline" => Len(Steps(m)) >= 2 /\ Steps(m)[2] = "psort"
<1> USE DEF Tools
<1>1. CASE m = "plaso"
  <2>1. Steps(m) = (<<"log2timeline", "psort">> \o <<>>) \o <<>>
    BY <1>1 DEF Steps
  <2> QED BY <2>1
<1>2. CASE m = "both"
  <2>1. Steps(m) = (<<"log2timeline", "psort">> \o <<"fls">>) \o <<>>
    BY <1>2 DEF Steps
  <2> QED BY <2>1
<1>3. CASE m = "bodyfile"
  <2>1. Steps(m) = (<<>> \o <<"fls">>) \o <<>>
    BY <1>3 DEF Steps
  <2> QED BY <2>1
<1>4. CASE m = "unallocated"
  <2>1. Steps(m) = (<<>> \o <<>>) \o <<"blkls">>
    BY <1>4 DEF Steps
  <2> QED BY <2>1
<1>5. CASE m = "all"
  <2>1. Steps(m) = (<<"log2timeline", "psort">> \o <<"fls">>) \o <<"blkls">>
    BY <1>5 DEF Steps
  <2> QED BY <2>1
<1> QED BY <1>1, <1>2, <1>3, <1>4, <1>5, ModesKnown

\* What an appended record changes.
LEMMA Appended ==
  ASSUME NEW s \in Seq(States), NEW x \in States
  PROVE  /\ Len(Append(s, x)) = Len(s) + 1 /\ Len(s) \in Nat
         /\ \A i \in 1..Len(s) : Append(s, x)[i] = s[i] /\ i # Len(s) + 1
         /\ Append(s, x)[Len(s) + 1] = x
         /\ \A i \in 1..Len(Append(s, x)) : i \in 1..Len(s) \/ i = Len(s) + 1
         /\ Append(s, x) # <<>>
<1>1. Len(Append(s, x)) = Len(s) + 1 /\ Len(s) \in Nat
  OBVIOUS
<1>2. \A i \in 1..Len(s) : Append(s, x)[i] = s[i] /\ i # Len(s) + 1
  OBVIOUS
<1>3. Append(s, x)[Len(s) + 1] = x
  OBVIOUS
<1>4. \A i \in 1..Len(Append(s, x)) : i \in 1..Len(s) \/ i = Len(s) + 1
  BY <1>1
<1>5. Append(s, x) # <<>>
  BY <1>1
<1> QED BY <1>1, <1>2, <1>3, <1>4, <1>5

\* What is known of a job, field by field.
LEMMA JobTypes ==
  ASSUME Typed, NEW j \in Jobs
  PROVE  /\ runner[j] \in RunnerType /\ status[j] \in StatusType /\ output[j] \in OutputType
         /\ job[j] \in JobType /\ row[j] \in RowType /\ timeline[j] \in TimelineType
         /\ runner[j].at \in Places /\ runner[j].step \in Nat /\ runner[j].tries \in 1..FsTypes
         /\ runner[j].term \in BOOLEAN /\ runner[j].late \in BOOLEAN
         /\ status[j].state \in {None, "running"} \cup Ended /\ status[j].steps \in Seq(States)
         /\ Len(status[j].steps) \in Nat
         /\ \A i \in 1..Len(status[j].steps) : status[j].steps[i] \in States
         /\ output[j].events \in File \cup {None} /\ output[j].fls \in Partial /\ output[j].blkls \in Partial
         /\ job[j].phase \in Phases /\ job[j].reused \in BOOLEAN
<1>1. /\ runner[j] \in RunnerType /\ status[j] \in StatusType /\ output[j] \in OutputType
      /\ job[j] \in JobType /\ row[j] \in RowType /\ timeline[j] \in TimelineType
  BY DEF Typed
<1>2. /\ runner[j].at \in Places /\ runner[j].step \in Nat /\ runner[j].tries \in 1..FsTypes
      /\ runner[j].term \in BOOLEAN /\ runner[j].late \in BOOLEAN
  BY <1>1 DEF RunnerType
<1>3. status[j].state \in {None, "running"} \cup Ended /\ status[j].steps \in Seq(States)
  BY <1>1 DEF StatusType
<1>4. Len(status[j].steps) \in Nat /\ \A i \in 1..Len(status[j].steps) : status[j].steps[i] \in States
  BY <1>3
<1>5. output[j].events \in File \cup {None} /\ output[j].fls \in Partial /\ output[j].blkls \in Partial
  BY <1>1 DEF OutputType
<1>6. job[j].phase \in Phases /\ job[j].reused \in BOOLEAN
  BY <1>1 DEF JobType
<1> QED BY <1>1, <1>2, <1>3, <1>4, <1>5, <1>6

\* What stands in the way of the next step.
LEMMA FailedStep ==
  ASSUME NEW j
  PROVE  HasFailed(j) <=> \E i \in 1..Len(status[j].steps) : status[j].steps[i] = "failed"
BY DEF HasFailed, Contains

\* A job nobody touches stays as it is.
LEMMA RunnerKept ==
  ASSUME NEW j, RunnerOK(j), runner'[j] = runner[j], status'[j] = status[j], output'[j] = output[j],
         job'[j].phase = "started" <=> job[j].phase = "started",
         runner[j].at # "off" => job'[j] = job[j]
  PROVE  RunnerOK(j)'
<1>1. RunnerStarted(j)'
  BY DEF RunnerOK, RunnerStarted
<1>2. CASE runner[j].at # "off"
  BY <1>1, <1>2 DEF RunnerOK, RunnerStarted, StepsRecorded, OutputWhole, AllStepsDone, HasFailed, Alive, StepNow
<1>3. CASE runner[j].at = "off"
  <2>1. status'[j].steps = <<>> /\ runner'[j].at = "off" /\ status'[j].state = None
    BY <1>3 DEF RunnerOK, RunnerStarted
  <2>2. ~Alive(j)' /\ status'[j].state # "completed" /\ Len(status'[j].steps) = 0
    <3>1. None # "completed"
      BY NoneApart DEF Ended
    <3>2. Len(status'[j].steps) = 0
      BY <2>1
    <3> QED BY <2>1, <3>1, <3>2 DEF Alive
  <2> QED BY <1>1, <2>1, <2>2 DEF RunnerOK, StepsRecorded, OutputWhole, AllStepsDone
<1> QED BY <1>2, <1>3

\* Each step of the runner keeps what is recorded of its job.
LEMMA RunnerJob ==
  ASSUME Typed, Begun, NEW j \in Jobs, RunnerOK(j), RunnerStep(j) \/ Cancel(j) \/ Kill(j)
  PROVE  RunnerOK(j)'
<1>t. /\ runner \in [Jobs -> RunnerType] /\ status \in [Jobs -> StatusType]
      /\ output \in [Jobs -> OutputType]
  BY DEF Typed
<1>j. job' = job
  BY DEF RunnerStep, Boot, NextStep, LeaveLoop, Spawn, ToolSucceeds, TryNext, ToolFails, Hash, Verdict,
         Cancel, Kill
<1>f. /\ runner[j].at \in Places /\ runner[j].step \in Nat /\ runner[j].tries \in 1..FsTypes
      /\ runner[j].term \in BOOLEAN /\ runner[j].late \in BOOLEAN
      /\ status[j].state \in {None, "running"} \cup Ended /\ status[j].steps \in Seq(States)
      /\ Len(status[j].steps) \in Nat
      /\ \A i \in 1..Len(status[j].steps) : status[j].steps[i] \in States
      /\ output[j].events \in File \cup {None} /\ output[j].fls \in Partial /\ output[j].blkls \in Partial
      /\ job[j].phase \in Phases /\ job[j].reused \in BOOLEAN
  BY JobTypes
<1>o. RunnerStarted(j) /\ StepsRecorded(j) /\ AllStepsDone(j)
      /\ OutputWhole(j, output[j].fls, "fls") /\ OutputWhole(j, output[j].blkls, "blkls")
  BY DEF RunnerOK
<1>p. /\ runner[j].at # "off" /\ job[j].phase = "started" /\ Alive(j)
      /\ status[j].state \notin Ended /\ status[j].state # "completed"
      /\ runner[j].step = Len(status[j].steps) + 1
  <2>1. Alive(j)
    BY DEF RunnerStep, Boot, NextStep, LeaveLoop, Spawn, ToolSucceeds, TryNext, ToolFails, Hash, Verdict,
           Cancel, Kill, Alive
  <2> QED BY <1>o, <2>1 DEF RunnerStarted, Alive, Ended, StepsRecorded
<1>s. Steps(job[j].mode) \in Seq(Tools) /\ Len(Steps(job[j].mode)) \in Nat
  <2>1. job[j].mode \in Modes
    BY <1>p DEF Typed
  <2> QED BY <2>1, StepsFacts
<1>1. CASE Boot(j)
  <2>1. /\ runner[j].at = "boot" /\ runner'[j].at = "loop"
        /\ runner'[j].step = runner[j].step /\ runner'[j].term = runner[j].term
        /\ status'[j].steps = status[j].steps /\ status'[j].state = "running"
        /\ output' = output
    BY <1>t, <1>1 DEF Boot, RunnerType, StatusType
  <2> QED BY <1>j, <1>o, <1>p, <2>1 DEF RunnerOK, RunnerStarted, StepsRecorded, OutputWhole, AllStepsDone,
          Alive, StepNow, Ended
<1>2. CASE NextStep(j) /\ StepNow(j) = "log2timeline" /\ job[j].reused
  <2>1. /\ runner[j].at = "loop" /\ runner'[j].at = "loop" /\ ~runner[j].term
        /\ runner'[j].step = runner[j].step + 1 /\ runner'[j].term = runner[j].term
        /\ status'[j].steps = Append(status[j].steps, "skipped") /\ status'[j].state = status[j].state
        /\ output' = output
        /\ StepNow(j) = Steps(job[j].mode)[Len(status[j].steps) + 1]
        /\ runner[j].step <= Len(Steps(job[j].mode))
    BY <1>t, <1>p, <1>2 DEF NextStep, RunnerType, StatusType, StepNow
  <2>2. /\ Len(status'[j].steps) = Len(status[j].steps) + 1
        /\ \A i \in 1..Len(status[j].steps) : status'[j].steps[i] = status[j].steps[i]
        /\ status'[j].steps[Len(status[j].steps) + 1] = "skipped"
        /\ \A i \in 1..Len(status'[j].steps) : i \in 1..Len(status[j].steps) \/ i = Len(status[j].steps) + 1
    BY <1>f, <2>1, Appended DEF States
  <2>3. RunnerStarted(j)'
    BY <1>j, <1>o, <1>p, <2>1 DEF RunnerStarted
  <2>n. Len(status'[j].steps) <= Len(Steps(job'[j].mode))
    BY <1>f, <1>s, <1>j, <1>p, <2>1, <2>2
  <2>m. \A i \in 1..Len(status[j].steps) : status[j].steps[i] \in {"skipped", "completed", "tolerated"}
    <3>1. ~HasFailed(j)
      BY <1>2 DEF NextStep
    <3> QED BY <1>f, <1>o, <1>p, <2>1, <3>1, FailedStep DEF States, StepsRecorded
  <2>4. StepsRecorded(j)'
    <3>1. \A i \in 1..Len(status'[j].steps) :
            i < Len(status'[j].steps) => status'[j].steps[i] \in {"skipped", "completed", "tolerated"}
      BY <1>f, <2>2, <2>m
    <3> QED BY SMTT(30), <1>f, <1>s, <1>j, <1>o, <1>p, <1>2, <2>1, <2>2, <2>n, <3>1 DEF StepsRecorded, Alive
  <2>5. AllStepsDone(j)' /\ OutputWhole(j, output[j].fls, "fls")' /\ OutputWhole(j, output[j].blkls, "blkls")'
    BY <1>j, <1>o, <1>p, <2>1 DEF OutputWhole, AllStepsDone, Alive
  <2> QED BY <2>3, <2>4, <2>5 DEF RunnerOK
<1>3. CASE NextStep(j) /\ ~(StepNow(j) = "log2timeline" /\ job[j].reused)
  <2>1. /\ runner[j].at = "loop" /\ runner'[j].at = "spawn" /\ ~runner[j].term /\ ~HasFailed(j)
        /\ runner'[j].step = runner[j].step /\ runner'[j].term = runner[j].term
        /\ status' = status /\ output' = output
        /\ runner[j].step <= Len(Steps(job[j].mode))
    BY <1>t, <1>3 DEF NextStep, RunnerType
  <2>2. \A i \in 1..Len(status[j].steps) : status[j].steps[i] \in {"skipped", "completed", "tolerated"}
    BY <1>f, <1>o, <1>p, <2>1, FailedStep DEF States, StepsRecorded
  <2>3. Len(status[j].steps) < Len(Steps(job[j].mode))
    BY <1>f, <1>s, <1>p, <2>1
  <2>4. StepNow(j)' = StepNow(j)
    BY <1>j, <2>1 DEF StepNow
  <2>5. StepsRecorded(j)'
    BY <1>j, <1>o, <1>p, <1>3, <2>1, <2>2, <2>3, <2>4 DEF StepsRecorded, Alive
  <2>6. RunnerStarted(j)' /\ AllStepsDone(j)' /\ OutputWhole(j, output[j].fls, "fls")'
        /\ OutputWhole(j, output[j].blkls, "blkls")'
    BY <1>j, <1>o, <1>p, <2>1 DEF RunnerStarted, OutputWhole, AllStepsDone, Alive
  <2> QED BY <2>5, <2>6 DEF RunnerOK
<1>4. CASE LeaveLoop(j)
  <2>1. PICK late \in BOOLEAN : /\ late \/ runner[j].term \/ HasFailed(j) \/ runner[j].step > Len(Steps(job[j].mode))
                                /\ runner' = [runner EXCEPT ![j].at = "hash", ![j].late = late]
    BY <1>4 DEF LeaveLoop
  <2>2. /\ runner[j].at = "loop" /\ runner'[j].at = "hash" /\ runner'[j].late = late
        /\ runner'[j].step = runner[j].step /\ runner'[j].term = runner[j].term
        /\ status' = status /\ output' = output
    BY <1>t, <1>4, <2>1 DEF LeaveLoop, RunnerType
  <2>3. AllStepsDone(j)'
    <3>1. runner[j].step > Len(Steps(job[j].mode)) => Len(status[j].steps) >= Len(Steps(job[j].mode))
      BY <1>f, <1>p, <1>s
    <3> QED BY <1>j, <1>p, <2>1, <2>2, <3>1 DEF AllStepsDone, HasFailed
  <2> QED BY <1>j, <1>o, <1>p, <2>2, <2>3 DEF RunnerOK, RunnerStarted, StepsRecorded, OutputWhole, Alive
<1>5. CASE Spawn(j)
  <2>1. /\ runner[j].at = "spawn" /\ runner'[j].at = "tool"
        /\ runner'[j].step = runner[j].step /\ runner'[j].term = runner[j].term
        /\ status' = status
    BY <1>t, <1>5 DEF Spawn, RunnerType
  <2>2. StepNow(j)' = StepNow(j) /\ StepNow(j) = Steps(job[j].mode)[Len(status[j].steps) + 1]
    BY <1>j, <1>p, <2>1 DEF StepNow
  <2>3. /\ StepNow(j) # "psort" => output'[j].events = output[j].events
        /\ StepNow(j) # "fls" => output'[j].fls = output[j].fls
        /\ StepNow(j) # "blkls" => output'[j].blkls = output[j].blkls
    <3>1. CASE StepNow(j) = "psort"
      <4>1. output' = [output EXCEPT ![j].events = storage]
        BY <1>5, <3>1 DEF Spawn, Tolerated
      <4> QED BY <1>t, <3>1, <4>1 DEF OutputType
    <3>2. CASE StepNow(j) = "fls"
      <4>1. output' = [output EXCEPT ![j]["fls"] = "partial"]
        BY <1>5, <3>2 DEF Spawn, Tolerated
      <4> QED BY <1>t, <3>2, <4>1 DEF OutputType
    <3>3. CASE StepNow(j) = "blkls"
      <4>1. output' = [output EXCEPT ![j]["blkls"] = "partial"]
        BY <1>5, <3>3 DEF Spawn, Tolerated
      <4> QED BY <1>t, <3>3, <4>1 DEF OutputType
    <3>4. CASE StepNow(j) \notin {"psort", "fls", "blkls"}
      BY <1>5, <3>4 DEF Spawn, Tolerated
    <3> QED BY <3>1, <3>2, <3>3, <3>4
  <2>4. StepsRecorded(j)'
    <3>1. ASSUME NEW i \in 1..Len(status[j].steps), Steps(job[j].mode)[i] = "psort"
          PROVE  StepNow(j) # "psort"
      <4>1. job[j].mode \in Modes
        BY <1>p DEF Typed
      <4>2. i \in 1..Len(Steps(job[j].mode)) /\ Len(status[j].steps) + 1 \in 1..Len(Steps(job[j].mode))
            /\ i # Len(status[j].steps) + 1
        BY <1>f, <1>s, <1>o, <2>1 DEF StepsRecorded
      <4> QED BY <2>2, <3>1, <4>1, <4>2, StepsFacts
    <3> QED BY <1>j, <1>o, <1>p, <2>1, <2>2, <2>3, <3>1 DEF StepsRecorded, Alive
  <2>5. OutputWhole(j, output[j].fls, "fls")' /\ OutputWhole(j, output[j].blkls, "blkls")'
    BY <1>o, <1>p, <2>1, <2>2, <2>3 DEF OutputWhole, Alive
  <2> QED BY <1>j, <1>o, <1>p, <2>1, <2>4, <2>5 DEF RunnerOK, RunnerStarted, AllStepsDone
<1>6. CASE ToolSucceeds(j)
  <2> DEFINE x == IF runner[j].term THEN "cancelled" ELSE "completed"
  <2>1. /\ runner[j].at = "tool" /\ runner'[j].at = "loop"
        /\ runner'[j].step = runner[j].step + 1 /\ runner'[j].term = runner[j].term
        /\ status'[j].steps = Append(status[j].steps, x) /\ status'[j].state = status[j].state
        /\ StepNow(j) = Steps(job[j].mode)[Len(status[j].steps) + 1]
        /\ StepNow(j) = "psort" => output[j].events # None
    BY <1>t, <1>p, <1>6 DEF ToolSucceeds, RunnerType, StatusType, StepNow
  <2>2. /\ Len(status'[j].steps) = Len(status[j].steps) + 1
        /\ \A i \in 1..Len(status[j].steps) : status'[j].steps[i] = status[j].steps[i]
        /\ status'[j].steps[Len(status[j].steps) + 1] = x
        /\ \A i \in 1..Len(status'[j].steps) : i \in 1..Len(status[j].steps) \/ i = Len(status[j].steps) + 1
    BY <1>f, <2>1, Appended DEF States
  <2>3. /\ output'[j].events = output[j].events
        /\ output'[j].fls = IF StepNow(j) = "fls" THEN "whole" ELSE output[j].fls
        /\ output'[j].blkls = IF StepNow(j) = "blkls" THEN "whole" ELSE output[j].blkls
    <3>2. CASE StepNow(j) = "fls"
      <4>1. output' = [output EXCEPT ![j]["fls"] = "whole"]
        BY <1>6, <3>2 DEF ToolSucceeds, Tolerated
      <4> QED BY <1>t, <3>2, <4>1 DEF OutputType
    <3>3. CASE StepNow(j) = "blkls"
      <4>1. output' = [output EXCEPT ![j]["blkls"] = "whole"]
        BY <1>6, <3>3 DEF ToolSucceeds, Tolerated
      <4> QED BY <1>t, <3>3, <4>1 DEF OutputType
    <3>4. CASE StepNow(j) \notin {"fls", "blkls"}
      BY <1>6, <3>4 DEF ToolSucceeds, Tolerated
    <3> QED BY <3>2, <3>3, <3>4
  <2>n. Len(status'[j].steps) <= Len(Steps(job'[j].mode))
    BY <1>f, <1>s, <1>j, <1>o, <2>1, <2>2 DEF StepsRecorded
  <2>4. StepsRecorded(j)'
    <3>1. \A i \in 1..Len(status'[j].steps) :
            i < Len(status'[j].steps) => status'[j].steps[i] \in {"skipped", "completed", "tolerated"}
      BY <1>f, <1>o, <2>1, <2>2 DEF StepsRecorded
    <3>2. \A i \in 1..Len(status'[j].steps) :
            /\ status'[j].steps[i] = "skipped" =>
                 job[j].reused /\ Steps(job[j].mode)[i] = "log2timeline"
            /\ status'[j].steps[i] = "tolerated" => Steps(job[j].mode)[i] \in Tolerated
            /\ status'[j].steps[i] = "completed" /\ Steps(job[j].mode)[i] = "psort" =>
                 output'[j].events # None
      BY <1>f, <1>o, <2>1, <2>2, <2>3 DEF StepsRecorded
    <3>3. ~runner[j].term => \A i \in 1..Len(status'[j].steps) : status'[j].steps[i] # "cancelled"
      BY <1>f, <1>o, <1>p, <2>1, <2>2 DEF StepsRecorded
    <3>4. runner'[j].step = Len(status'[j].steps) + 1
      BY <1>p, <2>1, <2>2
    <3> QED BY <1>j, <2>1, <2>n, <3>1, <3>2, <3>3, <3>4 DEF StepsRecorded
  <2>5. OutputWhole(j, output[j].fls, "fls")' /\ OutputWhole(j, output[j].blkls, "blkls")'
    BY <1>o, <1>p, <2>1, <2>3 DEF OutputWhole, Alive
  <2> HIDE DEF x
  <2> QED BY <1>j, <1>o, <1>p, <2>1, <2>4, <2>5 DEF RunnerOK, RunnerStarted, AllStepsDone
<1>7. CASE TryNext(j)
  <2>1. /\ runner[j].at = "tool" /\ runner'[j].at = "spawn" /\ ~runner[j].term
        /\ runner'[j].step = runner[j].step /\ runner'[j].term = runner[j].term
        /\ status' = status /\ StepNow(j) \in Tolerated
    BY <1>t, <1>o, <1>7 DEF TryNext, RunnerType, StepsRecorded
  <2>2. StepNow(j)' = StepNow(j)
    BY <1>j, <2>1 DEF StepNow
  <2>3. /\ output'[j].events = output[j].events
        /\ output'[j].fls = IF StepNow(j) = "fls" THEN None ELSE output[j].fls
        /\ output'[j].blkls = IF StepNow(j) = "blkls" THEN None ELSE output[j].blkls
    <3>2. CASE StepNow(j) = "fls"
      <4>1. output' = [output EXCEPT ![j]["fls"] = None]
        BY <1>7, <3>2 DEF TryNext
      <4> QED BY <1>t, <3>2, <4>1 DEF OutputType
    <3>3. CASE StepNow(j) = "blkls"
      <4>1. output' = [output EXCEPT ![j]["blkls"] = None]
        BY <1>7, <3>3 DEF TryNext
      <4> QED BY <1>t, <3>3, <4>1 DEF OutputType
    <3> QED BY <2>1, <3>2, <3>3 DEF Tolerated
  <2>4. StepsRecorded(j)'
    BY <1>j, <1>o, <1>p, <2>1, <2>2, <2>3 DEF StepsRecorded, Alive
  <2>5. OutputWhole(j, output[j].fls, "fls")' /\ OutputWhole(j, output[j].blkls, "blkls")'
    <3>1. None # "partial"
      BY NoneApart DEF Ended
    <3> QED BY <1>o, <1>p, <2>1, <2>3, <3>1 DEF OutputWhole, Alive
  <2> QED BY <1>j, <1>o, <1>p, <2>1, <2>4, <2>5 DEF RunnerOK, RunnerStarted, AllStepsDone
<1>8. CASE ToolFails(j)
  <2> DEFINE x == IF runner[j].term THEN "cancelled"
                  ELSE IF StepNow(j) \in Tolerated THEN "tolerated" ELSE "failed"
  <2>1. /\ runner[j].at \in {"tool", "killed"} /\ runner'[j].at = "loop"
        /\ runner'[j].step = runner[j].step + 1 /\ runner'[j].term = runner[j].term
        /\ status'[j].steps = Append(status[j].steps, x) /\ status'[j].state = status[j].state
        /\ StepNow(j) = Steps(job[j].mode)[Len(status[j].steps) + 1]
    BY <1>t, <1>p, <1>8 DEF ToolFails, RunnerType, StatusType, StepNow
  <2>2. /\ Len(status'[j].steps) = Len(status[j].steps) + 1
        /\ \A i \in 1..Len(status[j].steps) : status'[j].steps[i] = status[j].steps[i]
        /\ status'[j].steps[Len(status[j].steps) + 1] = x
        /\ \A i \in 1..Len(status'[j].steps) : i \in 1..Len(status[j].steps) \/ i = Len(status[j].steps) + 1
    BY <1>f, <2>1, Appended DEF States
  <2>3. /\ output'[j].events = output[j].events
        /\ output'[j].fls = IF StepNow(j) = "fls" /\ ~runner[j].term THEN None ELSE output[j].fls
        /\ output'[j].blkls = IF StepNow(j) = "blkls" /\ ~runner[j].term THEN None ELSE output[j].blkls
    <3>2. CASE StepNow(j) = "fls" /\ ~runner[j].term
      <4>1. output' = [output EXCEPT ![j]["fls"] = None]
        BY <1>8, <3>2 DEF ToolFails, Tolerated
      <4> QED BY <1>t, <3>2, <4>1 DEF OutputType
    <3>3. CASE StepNow(j) = "blkls" /\ ~runner[j].term
      <4>1. output' = [output EXCEPT ![j]["blkls"] = None]
        BY <1>8, <3>3 DEF ToolFails, Tolerated
      <4> QED BY <1>t, <3>3, <4>1 DEF OutputType
    <3>4. CASE StepNow(j) \notin {"fls", "blkls"} \/ runner[j].term
      BY <1>8, <3>4 DEF ToolFails, Tolerated
    <3> QED BY <3>2, <3>3, <3>4
  <2>n. Len(status'[j].steps) <= Len(Steps(job'[j].mode))
    BY <1>f, <1>s, <1>j, <1>o, <2>1, <2>2 DEF StepsRecorded
  <2>4. StepsRecorded(j)'
    <3>1. \A i \in 1..Len(status'[j].steps) :
            i < Len(status'[j].steps) => status'[j].steps[i] \in {"skipped", "completed", "tolerated"}
      BY <1>f, <1>o, <2>1, <2>2 DEF StepsRecorded
    <3>2. \A i \in 1..Len(status'[j].steps) :
            /\ status'[j].steps[i] = "skipped" =>
                 job[j].reused /\ Steps(job[j].mode)[i] = "log2timeline"
            /\ status'[j].steps[i] = "tolerated" => Steps(job[j].mode)[i] \in Tolerated
            /\ status'[j].steps[i] = "completed" /\ Steps(job[j].mode)[i] = "psort" =>
                 output'[j].events # None
      BY SMTT(30), <1>f, <1>o, <2>1, <2>2, <2>3 DEF StepsRecorded
    <3>3. ~runner[j].term => \A i \in 1..Len(status'[j].steps) : status'[j].steps[i] # "cancelled"
      BY <1>f, <1>o, <1>p, <2>1, <2>2 DEF StepsRecorded
    <3>4. runner'[j].step = Len(status'[j].steps) + 1
      BY <1>p, <2>1, <2>2
    <3> QED BY <1>j, <2>1, <2>n, <3>1, <3>2, <3>3, <3>4 DEF StepsRecorded
  <2>5. OutputWhole(j, output[j].fls, "fls")' /\ OutputWhole(j, output[j].blkls, "blkls")'
    <3>1. None # "partial"
      BY NoneApart DEF Ended
    <3> QED BY <1>o, <1>p, <2>1, <2>3, <3>1 DEF OutputWhole, Alive, StepsRecorded
  <2> HIDE DEF x
  <2> QED BY <1>j, <1>o, <1>p, <2>1, <2>4, <2>5 DEF RunnerOK, RunnerStarted, AllStepsDone
<1>9. CASE Hash(j)
  <2>1. PICK x : runner' = [runner EXCEPT ![j].at = "verdict", ![j].hash = x]
    BY <1>9 DEF Hash
  <2>2. /\ runner[j].at = "hash" /\ runner'[j].at = "verdict" /\ runner'[j].late = runner[j].late
        /\ runner'[j].step = runner[j].step /\ runner'[j].term = runner[j].term
        /\ status' = status /\ output' = output
    BY <1>t, <1>9, <2>1 DEF Hash, RunnerType
  <2> QED BY <1>j, <1>o, <1>p, <2>2 DEF RunnerOK, RunnerStarted, StepsRecorded, OutputWhole, AllStepsDone, Alive,
          HasFailed
<1>10. CASE Verdict(j)
  <2>1. PICK late \in {runner[j].late, TRUE} :
          status' = [status EXCEPT
            ![j].state = IF runner[j].term THEN "cancelled"
                         ELSE IF late \/ HasFailed(j) THEN "failed" ELSE "completed",
            ![j].hash = runner[j].hash]
    BY <1>10 DEF Verdict
  <2>2. /\ runner[j].at = "verdict" /\ runner'[j].at = "exit" /\ output' = output
        /\ runner' = [runner EXCEPT ![j] = Process("exit")]
    BY <1>t, <1>10 DEF Verdict, Process
  <2>3. /\ status'[j].state \in Ended /\ status'[j].steps = status[j].steps
        /\ status'[j].state = "completed" => ~runner[j].term /\ ~runner[j].late /\ ~HasFailed(j)
    <3> DEFINE x == IF runner[j].term THEN "cancelled"
                    ELSE IF late \/ HasFailed(j) THEN "failed" ELSE "completed"
    <3>1. x \in Ended /\ (x = "completed" => ~runner[j].term /\ ~late /\ ~HasFailed(j))
      BY DEF Ended
    <3>2. late = FALSE => runner[j].late = FALSE
      BY <1>f, <2>1
    <3>3. status' = [status EXCEPT ![j].state = x, ![j].hash = runner[j].hash]
      BY <2>1
    <3> HIDE DEF x
    <3>4. status'[j].state = x /\ status'[j].steps = status[j].steps
      BY <1>t, <3>3 DEF StatusType
    <3> QED BY <1>f, <2>1, <3>1, <3>2, <3>4
  <2>4. RunnerStarted(j)' /\ StepsRecorded(j)'
    BY <1>j, <1>o, <1>p, <2>2, <2>3 DEF RunnerStarted, StepsRecorded, Alive
  <2>5. AllStepsDone(j)'
    <3>1. status'[j].state = "completed" =>
            /\ Len(status[j].steps) >= Len(Steps(job[j].mode))
            /\ \A i \in 1..Len(status[j].steps) : status[j].steps[i] \notin {"failed", "cancelled"}
      BY <1>o, <1>p, <2>2, <2>3, FailedStep DEF AllStepsDone, StepsRecorded
    <3> QED BY <1>j, <2>2, <2>3, <3>1 DEF AllStepsDone
  <2>6. OutputWhole(j, output[j].fls, "fls")' /\ OutputWhole(j, output[j].blkls, "blkls")'
    BY <1>o, <1>p, <2>2, <2>3 DEF OutputWhole, Alive
  <2> QED BY <2>4, <2>5, <2>6 DEF RunnerOK
<1>11. CASE Cancel(j)
  <2>1. /\ runner'[j].at = IF runner[j].at = "tool" THEN "killed" ELSE runner[j].at
        /\ runner'[j].step = runner[j].step /\ runner'[j].term = TRUE
        /\ status' = status /\ output' = output
    BY <1>t, <1>11 DEF Cancel, RunnerType
  <2>2. StepNow(j)' = StepNow(j)
    BY <1>j, <2>1 DEF StepNow
  <2>3. StepsRecorded(j)'
    BY <1>j, <1>o, <1>p, <2>1, <2>2 DEF StepsRecorded, Alive
  <2> QED BY <1>j, <1>o, <1>p, <2>1, <2>3 DEF RunnerOK, RunnerStarted, OutputWhole, AllStepsDone, Alive
<1>12. CASE Kill(j)
  <2>1. /\ runner'[j].at = "dead" /\ status' = status /\ output' = output
    BY <1>t, <1>12 DEF Kill, Process
  <2> QED BY <1>j, <1>o, <1>p, <2>1 DEF RunnerOK, RunnerStarted, StepsRecorded, OutputWhole, AllStepsDone, Alive
<1> QED BY <1>1, <1>2, <1>3, <1>4, <1>5, <1>6, <1>7, <1>8, <1>9, <1>10, <1>11, <1>12 DEF RunnerStep

(***************************************************************************)
(* The import of a job.                                                    *)
(***************************************************************************)
\* A step of the storage is done when its record says so; it has only one.
LEMMA StateDone ==
  ASSUME NEW j, job[j].mode \in Modes, status[j].steps \in Seq(States),
         Len(status[j].steps) <= Len(Steps(job[j].mode)), NEW step \in {"log2timeline", "psort"}
  PROVE  StateOf(j, step) = "completed" <=>
           \E i \in 1..Len(status[j].steps) :
             Steps(job[j].mode)[i] = step /\ status[j].steps[i] = "completed"
<1> DEFINE at == {i \in DOMAIN status[j].steps : Steps(job[j].mode)[i] = step}
<1>1. DOMAIN status[j].steps = 1..Len(status[j].steps) /\ Len(status[j].steps) \in Nat
      /\ Len(Steps(job[j].mode)) \in Nat
  BY StepsFacts
<1>2. \A i \in at : i \in 1..Len(Steps(job[j].mode))
  BY <1>1
<1>3. \A i, k \in at : i = k
  BY <1>2, StepsFacts
<1>4. CASE at = {}
  <2>1. StateOf(j, step) = None
    BY <1>4 DEF StateOf
  <2>2. None # "completed"
    BY NoneApart DEF Ended
  <2> QED BY <1>1, <1>4, <2>1, <2>2
<1>5. CASE at # {}
  <2> DEFINE i == CHOOSE i \in at : TRUE
  <2>1. i \in at
    BY <1>5
  <2>2. StateOf(j, step) = status[j].steps[i]
    BY <1>5 DEF StateOf
  <2> HIDE DEF i
  <2>3. i \in 1..Len(status[j].steps) /\ Steps(job[j].mode)[i] = step
    BY <1>1, <2>1
  <2>4. ASSUME NEW k \in 1..Len(status[j].steps), Steps(job[j].mode)[k] = step PROVE k = i
    BY <1>1, <1>3, <2>1, <2>4
  <2> QED BY <2>2, <2>3, <2>4
<1> QED BY <1>4, <1>5

\* When psort is done the events are there.
LEMMA PsortEvents ==
  ASSUME Typed, NEW j \in Jobs, RunnerOK(j), PsortDone(j) PROVE output[j].events # None
<1>1. runner[j].at # "off" => job[j].phase = "started"
  BY DEF RunnerOK, RunnerStarted
<1>2. CASE runner[j].at = "off"
  <2>1. status[j].steps = <<>>
    BY <1>2 DEF RunnerOK, RunnerStarted
  <2>2. StateOf(j, "psort") = None
    BY <2>1 DEF StateOf
  <2> QED BY <2>2, NoneApart DEF PsortDone, Ended
<1>3. CASE runner[j].at # "off"
  <2>1. /\ job[j].mode \in Modes /\ status[j].steps \in Seq(States)
        /\ Len(status[j].steps) <= Len(Steps(job[j].mode))
    BY <1>1, <1>3, JobTypes DEF Typed, RunnerOK, StepsRecorded
  <2>2. PICK i \in 1..Len(status[j].steps) :
          Steps(job[j].mode)[i] = "psort" /\ status[j].steps[i] = "completed"
    BY <2>1, StateDone DEF PsortDone
  <2> QED BY <2>2 DEF RunnerOK, StepsRecorded
<1> QED BY <1>2, <1>3

\* What an import says of a job nobody touches stays true.
LEMMA ImportKept ==
  ASSUME NEW j, row'[j] = row[j], timeline'[j] = timeline[j], status'[j] = status[j],
         output'[j] = output[j], job'[j] = job[j]
  PROVE  /\ EventsOf(j) => EventsOf(j)'
         /\ RowSays(j) => RowSays(j)'
         /\ \A h \in Hosts : host'[h] = host[h] /\ ImportAt(h, j) => ImportAt(h, j)'
<1>1. PsortDone(j)' = PsortDone(j) /\ BlklsDone(j)' = BlklsDone(j)
  BY DEF PsortDone, BlklsDone, StateOf
<1> QED BY <1>1 DEF EventsOf, RowSays, ImportAt, PlasoIn, StringsIn

\* Nothing has been imported of a job that has not ended, and no import of it is
\* past the look at status.json.
LEMMA NotYet ==
  ASSUME Typed, ImportInv, NEW j \in Jobs, status[j].state \notin Ended
  PROVE  /\ timeline[j].plaso = None /\ timeline[j].tsk = None /\ timeline[j].strings = 0
         /\ ~row[j].imported
         /\ \A h \in Hosts : host[h].job = j => host[h].at \in {"row", "status"}
<1>1. /\ timeline[j].plaso = None /\ timeline[j].tsk = None /\ timeline[j].strings = 0
      /\ ~row[j].imported
  BY DEF ImportInv, EventsOf, RowSays
<1>2. ASSUME NEW h \in Hosts, host[h].job = j PROVE host[h].at \in {"row", "status"}
  <2>1. host[h].at # "idle" /\ host[h].at \in {"idle", "row", "remove"} \cup Reading
    BY <1>2, NoneElse DEF Typed, HostType
  <2>2. ImportAt(h, j)
    BY <1>2, <2>1 DEF ImportInv
  <2> QED BY <1>1, <2>1, <2>2 DEF ImportAt, Reading
<1> QED BY <1>1, <1>2

\* What is known of a job before it ends.
LEMMA ImportEarly ==
  ASSUME Typed, Begun, ImportInv, NEW j \in Jobs, status[j].state \notin Ended,
         row'[j].imported = row[j].imported, timeline' = timeline, host' = host,
         job[j].phase = "started" => job'[j].phase = "started",
         row'[j].status = "running" <=> job'[j].phase \notin {"idle", "refused"},
         row'[j].status # "completed"
  PROVE  /\ EventsOf(j)' /\ RowSays(j)'
         /\ \A h \in Hosts : host[h].job = j => job'[j].phase = "started" /\ ImportAt(h, j)'
<1>1. /\ timeline[j].plaso = None /\ timeline[j].tsk = None /\ timeline[j].strings = 0
      /\ ~row[j].imported
      /\ \A h \in Hosts : host[h].job = j => host[h].at \in {"row", "status"}
  BY NotYet
<1>2. EventsOf(j)' /\ RowSays(j)'
  BY <1>1 DEF EventsOf, RowSays
<1>3. ASSUME NEW h \in Hosts, host[h].job = j PROVE job'[j].phase = "started" /\ ImportAt(h, j)'
  <2>1. host'[h].at \in {"row", "status"} /\ job[j].phase = "started"
    BY <1>1, <1>3 DEF Begun
  <2> QED BY <2>1 DEF ImportAt, Reading
<1> QED BY <1>2, <1>3

\* A step of an import keeps what the others have seen.
LEMMA ImportHost ==
  ASSUME Typed, ImportInv, NEW h \in Hosts, NEW k \in Jobs,
         UNCHANGED <<job, status, output>>, job[k].phase = "started",
         \A j \in Jobs \ {k} : row'[j] = row[j] /\ timeline'[j] = timeline[j],
         \A g \in Hosts \ {h} : host'[g] = host[g],
         EventsOf(k)', RowSays(k)',
         PlasoIn(k) => PlasoIn(k)', StringsIn(k) => StringsIn(k)',
         timeline[k].tsk = output[k].fls => timeline'[k].tsk = output[k].fls,
         row[k].imported => row'[k].imported,
         host'[h].job = None \/ (host'[h].job = k /\ ImportAt(h, k)')
  PROVE  ImportInv'
<1>1. \A j \in Jobs : EventsOf(j)' /\ RowSays(j)'
  BY ImportKept DEF ImportInv
<1>2. ASSUME NEW g \in Hosts, NEW j \in Jobs, host'[g].job = j
      PROVE  job'[j].phase = "started" /\ ImportAt(g, j)'
  <2>1. CASE g # h
    <3>1. host'[g] = host[g] /\ host[g].job = j
      BY <1>2, <2>1
    <3>2. job[j].phase = "started" /\ ImportAt(g, j)
      BY <3>1 DEF ImportInv
    <3>3. CASE j # k
      <4>1. ImportAt(g, j)'
        BY <3>1, <3>2, <3>3, ImportKept
      <4> QED BY <3>2, <4>1
    <3>4. CASE j = k
      <4>1. PsortDone(k)' = PsortDone(k) /\ BlklsDone(k)' = BlklsDone(k)
        BY DEF PsortDone, BlklsDone, StateOf
      <4>2. ImportAt(g, k)'
        BY <3>1, <3>2, <3>4, <4>1 DEF ImportAt
      <4> QED BY <3>2, <3>4, <4>2
    <3> QED BY <3>3, <3>4
  <2>2. CASE g = h
    <3>1. j = k /\ ImportAt(h, k)'
      BY <1>2, <2>2, NoneElse
    <3> QED BY <2>2, <3>1
  <2> QED BY <2>1, <2>2
<1> QED BY <1>1, <1>2 DEF ImportInv

\* A job that is prepared has not been run or imported.
LEMMA PrepareImport ==
  ASSUME Typed, Begun, RunnerInv, ImportInv, NEW j \in Jobs, Prepare(j)
  PROVE  RunnerInv' /\ ImportInv'
<1>1. /\ UNCHANGED <<status, output, timeline, host>>
      /\ \A k \in Jobs \ {j} : job'[k] = job[k] /\ row'[k] = row[k] /\ runner'[k] = runner[k]
      /\ job[j].phase # "started"
  BY DEF Prepare, Reserve, Refuse, Decide, Unlink, WriteSpec, PrepareDies, Start, Typed
<1>2. /\ runner[j].at = "off" /\ status[j].state = None /\ status[j].state \notin Ended
      /\ RunnerStarted(j) /\ RunnerOK(j)
  BY <1>1, NoneApart DEF Begun, RunnerInv, RunnerOK, RunnerStarted
<1>3. /\ row'[j].imported = row[j].imported
      /\ row'[j].status = "running" <=> job'[j].phase \notin {"idle", "refused"}
      /\ row'[j].status # "completed"
      /\ RunnerOK(j)'
  <2>r. /\ row \in [Jobs -> RowType] /\ job \in [Jobs -> JobType] /\ runner \in [Jobs -> RunnerType]
    BY DEF Typed
  <2>i. RowSays(j) /\ ~row[j].imported
    BY <1>2, NotYet DEF ImportInv
  <2>1. ASSUME NEW mode \in Modes, NEW p \in Params, NEW overwrite \in BOOLEAN,
               Reserve(j, mode, p, overwrite)
        PROVE  row'[j].status = "running" /\ job'[j].phase = "reserved" /\ runner' = runner
               /\ row'[j].imported = row[j].imported
    BY <2>r, <2>1 DEF Reserve, RowType
  <2>2. ASSUME Refuse(j)
        PROVE  row'[j].status = "failed" /\ job'[j].phase = "refused" /\ runner' = runner
               /\ row'[j].imported = row[j].imported
    BY <2>r, <2>2 DEF Refuse, RowType, JobType
  <2>3. ASSUME Decide(j)
        PROVE  row' = row /\ job[j].phase = "reserved" /\ job'[j].phase = "decided" /\ runner' = runner
    <3>1. Decided(j) /\ job[j].phase = "reserved"
      BY <2>r, <2>3, DecideJob
    <3> QED BY <2>r, <2>3, <3>1 DEF Decide, Decided
  <2>4. ASSUME Unlink(j) \/ WriteSpec(j) \/ PrepareDies(j)
        PROVE  /\ row' = row /\ runner' = runner
               /\ job[j].phase \in {"reserved", "decided", "unlinking", "prepared"}
               /\ job'[j].phase \in {"unlinking", "prepared", "died"}
    BY <2>r, <2>4 DEF Unlink, WriteSpec, PrepareDies, JobType
  <2>5. ASSUME Start(j)
        PROVE  /\ row' = row /\ job[j].phase = "prepared" /\ job'[j].phase = "started"
               /\ runner'[j] = [runner[j] EXCEPT !.at = "boot"]
    BY <2>r, <2>5 DEF Start, JobType
  <2>6. /\ row'[j].imported = row[j].imported
        /\ row'[j].status = "running" <=> job'[j].phase \notin {"idle", "refused"}
        /\ row'[j].status # "completed"
    <3>1. CASE row' = row /\ job[j].phase \in {"reserved", "decided", "unlinking", "prepared"}
               /\ job'[j].phase \in {"decided", "unlinking", "prepared", "died", "started"}
      BY <2>i, <3>1 DEF RowSays
    <3>2. CASE Refuse(j)
      BY <2>2, <3>2
    <3>3. CASE \E mode \in Modes, p \in Params, overwrite \in BOOLEAN : Reserve(j, mode, p, overwrite)
      BY <2>1, <3>3
    <3> QED BY <2>3, <2>4, <2>5, <3>1, <3>2, <3>3 DEF Prepare
  <2>7. CASE runner' = runner /\ job'[j].phase # "started"
    <3>1. /\ runner'[j] = runner[j] /\ status'[j] = status[j] /\ output'[j] = output[j]
          /\ (job'[j].phase = "started") <=> (job[j].phase = "started")
      BY <1>1, <2>7
    <3> QED BY <1>2, <2>6, <3>1, RunnerKept
  <2>8. CASE Start(j)
    <3>1. /\ runner'[j].at = "boot" /\ runner'[j].step = 1 /\ ~runner'[j].term /\ ~runner'[j].late
      BY <1>2, <2>r, <2>5, <2>8 DEF RunnerStarted, RunnerType
    <3>2. /\ Len(status'[j].steps) = 0 /\ status'[j].state = None /\ status'[j].steps = <<>>
          /\ output'[j].fls = None /\ output'[j].blkls = None
      BY <1>1, <1>2 DEF RunnerStarted
    <3>3. Len(Steps(job'[j].mode)) >= 0
      <4>1. job'[j].mode \in Modes
        BY <1>1, <2>5, <2>8, TypedStep DEF Next, Typed
      <4> QED BY <4>1, StepsFacts
    <3>4. RunnerStarted(j)'
      BY <2>5, <2>8, <3>1, <3>2, NoneApart DEF RunnerStarted, Ended
    <3>5. StepsRecorded(j)'
      BY <3>1, <3>2, <3>3 DEF StepsRecorded
    <3>6. None # "partial" /\ None # "completed"
      BY NoneApart DEF Ended
    <3>7. OutputWhole(j, output[j].fls, "fls")' /\ OutputWhole(j, output[j].blkls, "blkls")'
      BY <3>1, <3>2, <3>6 DEF OutputWhole
    <3>8. AllStepsDone(j)'
      BY <3>1, <3>2, <3>6 DEF AllStepsDone
    <3> QED BY <2>6, <3>4, <3>5, <3>7, <3>8 DEF RunnerOK
  <2> QED BY <2>1, <2>2, <2>3, <2>4, <2>6, <2>7, <2>8 DEF Prepare
<1>4. RunnerInv'
  <2>1. ASSUME NEW k \in Jobs \ {j} PROVE RunnerOK(k)'
    BY <1>1, RunnerKept DEF RunnerInv
  <2> QED BY <1>3, <2>1 DEF RunnerInv
<1>5. EventsOf(j)' /\ RowSays(j)' /\ \A h \in Hosts : host[h].job = j => job'[j].phase = "started" /\ ImportAt(h, j)'
  BY <1>1, <1>2, <1>3, ImportEarly
<1>6. ASSUME NEW k \in Jobs \ {j}
      PROVE  EventsOf(k)' /\ RowSays(k)' /\ \A h \in Hosts : host[h].job = k => job'[k].phase = "started" /\ ImportAt(h, k)'
  BY <1>1, ImportKept DEF ImportInv
<1> QED BY <1>1, <1>4, <1>5, <1>6 DEF ImportInv

\* The runner of a job touches the storage and what is its own.
LEMMA RunnerFrame ==
  ASSUME Typed, NEW j \in Jobs, RunnerStep(j) \/ Cancel(j) \/ Kill(j)
  PROVE  /\ UNCHANGED <<meta, job, row, timeline, host>>
         /\ \A k \in Jobs \ {j} : runner'[k] = runner[k] /\ status'[k] = status[k] /\ output'[k] = output[k]
         /\ Alive(j)
<1>1. /\ UNCHANGED <<meta, job, row, timeline, host>>
      /\ \A k \in Jobs \ {j} : runner'[k] = runner[k] /\ status'[k] = status[k]
      /\ Alive(j)
  BY DEF RunnerStep, Boot, NextStep, LeaveLoop, ToolSucceeds, TryNext, ToolFails, Spawn,
         Hash, Verdict, Cancel, Kill, Alive, Typed
<1>2. \A k \in Jobs \ {j} : output'[k] = output[k]
  <2>1. output' = output \/ \E x : output' = [output EXCEPT ![j] = x]
    <3>1. CASE Spawn(j)
      <4>1. CASE StepNow(j) = "psort"
        <5>1. output' = [output EXCEPT ![j].events = storage]
          BY <3>1, <4>1 DEF Spawn, Tolerated
        <5> QED BY <5>1 DEF Typed
      <4>2. CASE StepNow(j) \in Tolerated
        <5>1. output' = [output EXCEPT ![j][StepNow(j)] = "partial"]
          BY <3>1, <4>2 DEF Spawn, Tolerated
        <5> QED BY <5>1 DEF Typed
      <4>3. CASE StepNow(j) \notin Tolerated \cup {"psort"}
        BY <3>1, <4>3 DEF Spawn
      <4> QED BY <4>1, <4>2, <4>3
    <3>2. CASE ToolSucceeds(j) \/ TryNext(j) \/ ToolFails(j)
      BY <3>2 DEF ToolSucceeds, TryNext, ToolFails, Typed
    <3>3. CASE output' = output
      BY <3>3
    <3> QED BY <3>1, <3>2, <3>3 DEF RunnerStep, Boot, NextStep, LeaveLoop, Hash, Verdict, Cancel, Kill
  <2> QED BY <2>1 DEF Typed
<1> QED BY <1>1, <1>2

\* A job that runs has not been imported.
LEMMA RunnerImport ==
  ASSUME Typed, Begun, RunnerInv, ImportInv, NEW j \in Jobs, RunnerStep(j) \/ Cancel(j) \/ Kill(j)
  PROVE  RunnerInv' /\ ImportInv'
<1>1. /\ UNCHANGED <<job, row, timeline, host>>
      /\ \A k \in Jobs \ {j} : runner'[k] = runner[k] /\ status'[k] = status[k] /\ output'[k] = output[k]
      /\ Alive(j)
  BY RunnerFrame
<1>3. RunnerOK(j) /\ status[j].state \notin Ended
  BY <1>1 DEF RunnerInv, RunnerOK, RunnerStarted, Alive
<1>4. RunnerInv'
  <2>1. ASSUME NEW k \in Jobs \ {j} PROVE RunnerOK(k)'
    BY <1>1, RunnerKept DEF RunnerInv
  <2>2. RunnerOK(j)'
    BY <1>3, RunnerJob
  <2> QED BY <2>1, <2>2 DEF RunnerInv
<1>5. row[j].status = "running" <=> job[j].phase \notin {"idle", "refused"}
  BY <1>3, NotYet DEF ImportInv, RowSays
<1>6. row[j].status # "completed"
  BY <1>3, NotYet DEF ImportInv, RowSays
<1>7. EventsOf(j)' /\ RowSays(j)' /\ \A h \in Hosts : host[h].job = j => job'[j].phase = "started" /\ ImportAt(h, j)'
  BY <1>1, <1>3, <1>5, <1>6, ImportEarly
<1>8. ASSUME NEW k \in Jobs \ {j}
      PROVE  EventsOf(k)' /\ RowSays(k)' /\ \A h \in Hosts : host[h].job = k => job'[k].phase = "started" /\ ImportAt(h, k)'
  BY <1>1, ImportKept DEF ImportInv
<1> QED BY <1>1, <1>4, <1>7, <1>8 DEF ImportInv

\* The steps of a terminal and of its import.
LEMMA HostImport ==
  ASSUME Typed, Begun, RunnerInv, ImportInv, NEW h \in Hosts,
         \/ Import(h) \/ Die(h) \/ \E j \in Jobs : Ask(h, j) \/ Rerun(h, j)
  PROVE  RunnerInv' /\ ImportInv'
<1>1. UNCHANGED <<job, status, output>> /\ \A g \in Hosts \ {h} : host'[g] = host[g]
  BY DEF Import, Die, Ask, Rerun, NoJob, ReadRow, ReadStatus, DropStorage, ImportPlaso, WriteMeta,
         ImportTsk, RegisterStrings, UpdateRow, RemoveJob, Go, Leave, Typed
<1>t. /\ host \in [Hosts -> HostType] /\ timeline \in [Jobs -> TimelineType] /\ row \in [Jobs -> RowType]
      /\ runner \in [Jobs -> RunnerType]
  BY DEF Typed
<1>2. ASSUME NEW j \in Jobs, Ask(h, j) \/ Rerun(h, j) PROVE RunnerInv' /\ ImportInv'
  <2>1. /\ UNCHANGED <<row, timeline, runner>> /\ host'[h].job = j /\ host'[h].at \in {"row", "status"}
        /\ job[j].phase = "started"
    BY <1>t, <1>2 DEF Ask, Rerun, NoJob, Begun
  <2>2. ImportAt(h, j)'
    BY <2>1 DEF ImportAt, Reading
  <2>3. EventsOf(j)' /\ RowSays(j)' /\ (PlasoIn(j) => PlasoIn(j)') /\ (StringsIn(j) => StringsIn(j)')
    BY <1>1, <2>1, ImportKept DEF ImportInv, PlasoIn, PsortDone, StringsIn, BlklsDone, StateOf
  <2>4. ImportInv'
    BY <1>1, <2>1, <2>2, <2>3, ImportHost
  <2>5. RunnerInv'
    BY <1>1, <2>1, RunnerKept DEF RunnerInv
  <2> QED BY <2>4, <2>5
<1>3. ASSUME NEW k \in Jobs, k = host[h].job, Import(h) \/ Die(h) PROVE RunnerInv' /\ ImportInv'
  <2>1. /\ job[k].phase = "started" /\ ImportAt(h, k) /\ EventsOf(k) /\ RowSays(k) /\ RunnerOK(k)
    BY <1>3 DEF ImportInv, RunnerInv
  <2>2. /\ PsortDone(k)' = PsortDone(k) /\ (StateOf(k, "psort") = "completed" <=> PsortDone(k))
        /\ PlasoIn(k)' <=> (PsortDone(k) => timeline'[k].plaso = output[k].events)
        /\ BlklsDone(k)' = BlklsDone(k) /\ (StateOf(k, "blkls") = "completed" <=> BlklsDone(k))
        /\ StringsIn(k)' <=> (BlklsDone(k) => timeline'[k].strings > 0)
    BY <1>1 DEF PsortDone, BlklsDone, StateOf, PlasoIn, StringsIn
  <2>k. row' = row /\ timeline' = timeline =>
          EventsOf(k)' /\ RowSays(k)' /\ (PlasoIn(k) => PlasoIn(k)') /\ (StringsIn(k) => StringsIn(k)')
    BY <1>1, <2>1, <2>2 DEF EventsOf, RowSays, PlasoIn, StringsIn
  <2>r. runner' = runner => RunnerInv'
    BY <1>1, RunnerKept DEF RunnerInv
  <2>3. CASE Die(h)
    <3>1. UNCHANGED <<row, timeline, runner>> /\ host'[h].job = None
      BY <1>t, <2>3 DEF Die, Leave, NoJob
    <3> QED BY <1>1, <2>1, <2>k, <2>r, <3>1, ImportHost
  <2>4. CASE ReadRow(h)
    <3>1. /\ UNCHANGED <<row, timeline, runner>> /\ host'[h].job = k
          /\ host'[h].at = IF row[k].imported THEN "remove" ELSE "status"
      BY <1>t, <1>3, <2>4 DEF ReadRow, Go, NoJob, HostType
    <3>2. ImportAt(h, k)'
      BY <3>1 DEF ImportAt, Reading
    <3> QED BY <1>1, <2>1, <2>k, <2>r, <3>1, <3>2, ImportHost
  <2>5. CASE ReadStatus(h)
    <3>1. /\ UNCHANGED <<row, timeline, runner>>
          /\ host'[h].job = None \/ (host'[h].job = k /\ host'[h].at = "storage" /\ status[k].state \in Ended)
      BY <1>t, <1>3, <2>5 DEF ReadStatus, Go, Leave, NoJob, HostType
    <3>2. host'[h].job = None \/ ImportAt(h, k)'
      BY <1>1, <3>1 DEF ImportAt, Reading
    <3> QED BY <1>1, <2>1, <2>k, <2>r, <3>1, <3>2, ImportHost
  <2>6. CASE DropStorage(h)
    <3>1. /\ UNCHANGED <<row, timeline, runner>> /\ host[h].at = "storage"
          /\ host'[h].job = k /\ host'[h].at = IF PsortDone(k) THEN "plaso" ELSE "tsk"
      BY <1>t, <1>3, <2>6 DEF DropStorage, At, Go, NoJob, HostType, PsortDone, StateOf
    <3>2. ImportAt(h, k)'
      BY <1>1, <2>1, <2>2, <3>1 DEF ImportAt, Reading
    <3> QED BY <1>1, <2>1, <2>k, <2>r, <3>1, <3>2, ImportHost
  <2>7. CASE ImportPlaso(h)
    <3>1. /\ UNCHANGED <<row, runner>> /\ host[h].at = "plaso" /\ host'[h].job = k /\ host'[h].at = "meta"
          /\ timeline' = [timeline EXCEPT ![k].plaso = output[k].events]
      BY <1>t, <1>3, <2>7 DEF ImportPlaso, At, Go, NoJob, HostType
    <3>2. /\ timeline'[k].plaso = output[k].events /\ timeline'[k].tsk = timeline[k].tsk
          /\ timeline'[k].strings = timeline[k].strings
          /\ \A j \in Jobs \ {k} : timeline'[j] = timeline[j]
      BY <1>t, <3>1 DEF TimelineType
    <3>3. PsortDone(k) /\ status[k].state \in Ended
      BY <2>1, <3>1 DEF ImportAt, Reading
    <3>4. ImportAt(h, k)'
      BY <1>1, <2>2, <3>1, <3>2, <3>3 DEF ImportAt, Reading
    <3>s. StringsIn(k) => StringsIn(k)'
      BY <2>2, <3>2 DEF StringsIn
    <3>5. EventsOf(k)' /\ RowSays(k)'
      BY <1>1, <2>1, <2>2, <3>1, <3>2, <3>3, <3>s DEF EventsOf, RowSays
    <3> QED BY <1>1, <2>1, <2>2, <2>r, <3>1, <3>2, <3>4, <3>5, <3>s, ImportHost
  <2>8. CASE WriteMeta(h)
    <3>1. /\ UNCHANGED <<row, timeline, runner>> /\ host[h].at = "meta" /\ host'[h].job = k /\ host'[h].at = "tsk"
      BY <1>t, <1>3, <2>8 DEF WriteMeta, At, Go, NoJob, HostType
    <3>2. ImportAt(h, k)'
      BY <1>1, <2>1, <2>k, <3>1 DEF ImportAt, Reading
    <3> QED BY <1>1, <2>1, <2>k, <2>r, <3>1, <3>2, ImportHost
  <2>9. CASE ImportTsk(h)
    <3>1. /\ UNCHANGED <<row, runner>> /\ host[h].at = "tsk" /\ host'[h].job = k /\ host'[h].at = "strings"
          /\ timeline' = IF output[k].fls = None THEN timeline ELSE [timeline EXCEPT ![k].tsk = output[k].fls]
      BY <1>t, <1>3, <2>9 DEF ImportTsk, At, Go, NoJob, HostType
    <3>2. /\ timeline'[k].plaso = timeline[k].plaso /\ timeline'[k].tsk = output[k].fls
          /\ timeline'[k].strings = timeline[k].strings
          /\ \A j \in Jobs \ {k} : timeline'[j] = timeline[j]
      <4>1. CASE output[k].fls = None
        BY <2>1, <3>1, <4>1 DEF EventsOf
      <4>2. CASE output[k].fls # None
        BY <1>t, <3>1, <4>2 DEF TimelineType
      <4> QED BY <4>1, <4>2
    <3>3. PlasoIn(k) /\ status[k].state \in Ended
      BY <2>1, <3>1 DEF ImportAt, Reading
    <3>p. PlasoIn(k)' /\ (StringsIn(k) => StringsIn(k)')
      BY <2>2, <3>2, <3>3 DEF PlasoIn, StringsIn
    <3>4. ImportAt(h, k)'
      BY <1>1, <3>1, <3>2, <3>3, <3>p DEF ImportAt, Reading
    <3>5. EventsOf(k)' /\ RowSays(k)'
      BY <1>1, <2>1, <2>2, <3>1, <3>2, <3>3, <3>p DEF EventsOf, RowSays
    <3> QED BY <1>1, <2>1, <2>r, <3>1, <3>2, <3>p, <3>4, <3>5, ImportHost
  <2>10. CASE RegisterStrings(h)
    <3>1. /\ UNCHANGED <<row, runner>> /\ host[h].at = "strings" /\ host'[h].job = k /\ host'[h].at = "update"
          /\ \/ ~BlklsDone(k) /\ timeline' = timeline
             \/ BlklsDone(k) /\ \E x \in {1, 2} : timeline' = [timeline EXCEPT ![k].strings = x]
      <4>1. /\ UNCHANGED <<row, runner>> /\ host[h].at = "strings" /\ host'[h].job = k /\ host'[h].at = "update"
        BY <1>t, <1>3, <2>10 DEF RegisterStrings, At, Go, NoJob, HostType
      <4>2. CASE StateOf(k, "blkls") # "completed"
        <5>1. timeline' = timeline
          BY <1>3, <2>10, <4>2 DEF RegisterStrings
        <5> QED BY <4>1, <4>2, <5>1 DEF BlklsDone
      <4>3. CASE StateOf(k, "blkls") = "completed"
        <5>1. PICK x \in {1, 2} : x = IF timeline[k].strings = 0 THEN 1 ELSE 2
          OBVIOUS
        <5>2. timeline' = [timeline EXCEPT ![k].strings = x]
          BY <1>3, <2>10, <4>3, <5>1 DEF RegisterStrings
        <5> QED BY <4>1, <4>3, <5>2 DEF BlklsDone
      <4> QED BY <4>2, <4>3
    <3>2. /\ timeline'[k].plaso = timeline[k].plaso /\ timeline'[k].tsk = timeline[k].tsk
          /\ timeline'[k].strings = timeline[k].strings \/ BlklsDone(k)
          /\ BlklsDone(k) => timeline'[k].strings > 0
          /\ \A j \in Jobs \ {k} : timeline'[j] = timeline[j]
      BY <1>t, <3>1 DEF TimelineType
    <3>3. PlasoIn(k) /\ status[k].state \in Ended /\ timeline[k].tsk = output[k].fls
      BY <2>1, <3>1 DEF ImportAt, Reading
    <3>p. PlasoIn(k)' /\ StringsIn(k)'
      BY <2>2, <3>2, <3>3 DEF PlasoIn, StringsIn
    <3>4. ImportAt(h, k)'
      BY <1>1, <3>1, <3>2, <3>3, <3>p DEF ImportAt, Reading
    <3>5. EventsOf(k)' /\ RowSays(k)'
      BY <1>1, <2>1, <2>2, <3>1, <3>2, <3>3, <3>p DEF EventsOf, RowSays
    <3> QED BY <1>1, <2>1, <2>r, <3>1, <3>2, <3>p, <3>4, <3>5, ImportHost
  <2>11. CASE UpdateRow(h)
    <3>1. /\ UNCHANGED <<timeline, runner>> /\ host[h].at = "update" /\ host'[h].job = k /\ host'[h].at = "remove"
          /\ row'[k] = [status |-> status[k].state, imported |-> TRUE]
          /\ \A j \in Jobs \ {k} : row'[j] = row[j]
      BY <1>t, <1>3, <2>11 DEF UpdateRow, At, Go, NoJob, HostType
    <3>3. PlasoIn(k) /\ StringsIn(k) /\ status[k].state \in Ended /\ timeline[k].tsk = output[k].fls
      BY <2>1, <3>1 DEF ImportAt, Reading
    <3>p. PlasoIn(k)' /\ StringsIn(k)'
      BY <2>2, <3>1, <3>3 DEF PlasoIn, StringsIn
    <3>4. ImportAt(h, k)'
      BY <3>1 DEF ImportAt, Reading
    <3>5. EventsOf(k)' /\ RowSays(k)'
      <4>1. status[k].state # "running"
        BY <3>3 DEF Ended
      <4> QED BY <1>1, <2>1, <2>2, <3>1, <3>3, <3>p, <4>1 DEF EventsOf, RowSays
    <3> QED BY <1>1, <2>1, <2>r, <3>1, <3>p, <3>4, <3>5, ImportHost
  <2>12. CASE RemoveJob(h)
    <3>1. /\ UNCHANGED <<row, timeline>> /\ host[h].at = "remove" /\ host'[h].job = None
          /\ runner' = [runner EXCEPT ![k].at = "removed"]
      BY <1>t, <1>3, <2>12 DEF RemoveJob, At, Leave
    <3>2. row[k].imported /\ status[k].state \in Ended
      BY <2>1, <3>1 DEF ImportAt, RowSays
    <3>3. runner[k].at \in {"exit", "removed"} /\ runner'[k].at = "removed"
      BY <1>t, <2>1, <3>1, <3>2 DEF RunnerOK, RunnerStarted, RunnerType
    <3>4. RunnerOK(k)'
      BY <1>1, <2>1, <3>3 DEF RunnerOK, RunnerStarted, StepsRecorded, OutputWhole, AllStepsDone, Alive
    <3>5. \A j \in Jobs \ {k} : runner'[j] = runner[j]
      BY <1>t, <3>1
    <3>6. RunnerInv'
      <4>1. ASSUME NEW j \in Jobs \ {k} PROVE RunnerOK(j)'
        BY <1>1, <3>5, RunnerKept DEF RunnerInv
      <4> QED BY <3>4, <4>1 DEF RunnerInv
    <3> QED BY <1>1, <2>1, <2>k, <3>1, <3>6, ImportHost
  <2> QED BY <1>3, <2>3, <2>4, <2>5, <2>6, <2>7, <2>8, <2>9, <2>10, <2>11, <2>12 DEF Import
<1>4. ASSUME Import(h) \/ Die(h) PROVE host[h].job \in Jobs
  <2>1. host[h].at # "idle"
    BY <1>4 DEF Import, Die, ReadRow, ReadStatus, DropStorage, ImportPlaso, WriteMeta, ImportTsk,
                RegisterStrings, UpdateRow, RemoveJob, At
  <2>2. host[h].job # None
    BY <2>1 DEF Typed
  <2> QED BY <1>t, <2>2 DEF HostType
<1> QED BY <1>2, <1>3, <1>4

\* Each action keeps what is known of the runners and of the imports.
LEMMA ImportStep == ASSUME Typed, Begun, RunnerInv, ImportInv, [Next]_vars PROVE RunnerInv' /\ ImportInv'
<1>1. CASE UNCHANGED vars
  <2>1. UNCHANGED <<job, row, runner, status, output, timeline, host>>
    BY <1>1 DEF vars
  <2>2. RunnerInv'
    BY <2>1, RunnerKept DEF RunnerInv
  <2>3. ImportInv'
    BY <2>1, ImportKept DEF ImportInv
  <2> QED BY <2>2, <2>3
<1> QED BY <1>1, PrepareImport, RunnerImport, HostImport DEF Next

\* Nothing has been run or imported in the first state.
LEMMA ImportInit == ASSUME Init PROVE RunnerInv /\ ImportInv
<1>0. None \notin Ended /\ None \notin {"running", "partial", "completed"}
  BY NoneApart DEF Ended
<1>1. ASSUME NEW j \in Jobs PROVE RunnerOK(j)
  <2>1. /\ runner[j] = Process("off") /\ status[j].state = None /\ status[j].steps = <<>>
        /\ output[j] = [events |-> None, fls |-> None, blkls |-> None] /\ job[j].phase = "idle"
    BY DEF Init
  <2>2. /\ runner[j].at = "off" /\ runner[j].step = 1 /\ ~runner[j].term /\ ~runner[j].late
        /\ Len(status[j].steps) = 0
    BY <2>1 DEF Process
  <2> QED BY <1>0, <2>1, <2>2 DEF RunnerOK, RunnerStarted, StepsRecorded, OutputWhole, AllStepsDone, Alive
<1>2. ASSUME NEW j \in Jobs PROVE EventsOf(j) /\ RowSays(j)
  <2>1. /\ timeline[j].plaso = None /\ timeline[j].tsk = None /\ timeline[j].strings = 0
        /\ row[j].status = None /\ ~row[j].imported /\ job[j].phase = "idle"
    BY DEF Init
  <2> QED BY <1>0, <2>1 DEF EventsOf, RowSays
<1>3. \A h \in Hosts : host[h].job = None
  BY DEF Init
<1> QED BY <1>1, <1>2, <1>3, NoneElse DEF RunnerInv, ImportInv

\* A run marked imported has the verdict of its job and exactly the events the job
\* wrote, however often an import was killed and repeated and by however many
\* terminals at once: ImportIsFaithful.
THEOREM ImportsAreFaithful == Spec => []ImportIsFaithful
<1>1. Init => Typed /\ Begun /\ RunnerInv /\ ImportInv
  BY TypedInit, ImportInit
<1>2. Typed /\ Begun /\ RunnerInv /\ ImportInv /\ [Next]_vars => Typed' /\ Begun' /\ RunnerInv' /\ ImportInv'
  BY TypedStep, BegunStep, ImportStep
<1>3. Typed /\ Begun /\ RunnerInv /\ ImportInv => ImportIsFaithful
  <2> SUFFICES ASSUME Typed, RunnerInv, ImportInv, NEW j \in Jobs, row[j].imported
               PROVE  /\ row[j].status = status[j].state
                      /\ timeline[j].tsk = output[j].fls
                      /\ timeline[j].plaso # None <=> StateOf(j, "psort") = "completed"
                      /\ timeline[j].plaso \in {None, output[j].events}
                      /\ timeline[j].strings > 0 <=> StateOf(j, "blkls") = "completed"
    BY DEF ImportIsFaithful
  <2>1. EventsOf(j) /\ RowSays(j) /\ RunnerOK(j)
    BY DEF ImportInv, RunnerInv
  <2>2. PsortDone(j) => output[j].events # None
    BY <2>1, PsortEvents
  <2>3. PsortDone(j) <=> StateOf(j, "psort") = "completed"
    BY DEF PsortDone
  <2>4. BlklsDone(j) <=> StateOf(j, "blkls") = "completed"
    BY DEF BlklsDone
  <2> QED BY <2>1, <2>2, <2>3, <2>4 DEF EventsOf, RowSays, PlasoIn, StringsIn
<1> QED BY <1>1, <1>2, <1>3, PTL DEF Spec

(***************************************************************************)
(* The storage, when nobody prepares a job while another one runs.         *)
(***************************************************************************)
\* A complete storage has one writer, who has finished.
LEMMA WholeIsBuilt ==
  ASSUME NEW s, NEW p, Whole(s, p) PROVE BuiltFor(s, p) /\ s # None
<1>1. PICK k \in Jobs : s = Own(k) /\ job[k].params = p
  BY DEF Whole
<1>2. Own(k) \in File
  BY DEF File, Own
<1>3. Own(k) # None
  BY <1>2, NoneApart
<1>4. s.unfinished = {} /\ s.by = {k}
  BY <1>1 DEF Own
<1> QED BY <1>1, <1>3, <1>4 DEF BuiltFor

\* Parameters do not change once a run is reserved.
Stay == \A k \in Jobs : job[k].phase # "idle" => job'[k].phase # "idle" /\ job'[k].params = job[k].params

LEMMA WholeKept ==
  ASSUME Stay, NEW s, NEW p, Whole(s, p)
  PROVE  \E k \in Jobs : s = Own(k) /\ job'[k].phase # "idle" /\ job'[k].params = p
BY DEF Stay, Whole

\* A job nobody touches, while at most another import drops the storage.
LEMMA JobStorageKept ==
  ASSUME Stay, NEW j \in Jobs, JobStorage(j), job'[j] = job[j], status'[j] = status[j],
         output'[j] = output[j], runner'[j].hash = runner[j].hash,
         Settled(j)' \/ (runner'[j] = runner[j] /\ storage' \in {storage, None})
  PROVE  JobStorage(j)'
<1> DEFINE W(s, p) == \E k \in Jobs : s = Own(k) /\ job'[k].phase # "idle" /\ job'[k].params = p
<1>1. \A s, p : Whole(s, p) => W(s, p)
  BY WholeKept
<1>2. ASSUME ~Settled(j)'
      PROVE  (/\ Building(j) => Fresh(j)
              /\ Reusing(j) /\ job[j].compared => storage = None \/ Whole(storage, job[j].params)
              /\ job[j].phase = "unlinking" => storage = None)'
  <2>1. ~Settled(j) /\ runner'[j] = runner[j] /\ storage' \in {storage, None}
    BY <1>2 DEF Settled
  <2>2. Building(j)' = Building(j) /\ Reusing(j)' = Reusing(j)
    BY DEF Building, Reusing, WithPlaso, HasStep
  <2>3. Building(j)' => Fresh(j)'
    BY <2>1, <2>2 DEF JobStorage, Fresh, Own
  <2>4. Reusing(j)' /\ job'[j].compared => storage' = None \/ W(storage', job'[j].params)
    BY <1>1, <2>1, <2>2 DEF JobStorage
  <2>5. job'[j].phase = "unlinking" => storage' = None
    BY <2>1 DEF JobStorage
  <2> QED BY <2>3, <2>4, <2>5 DEF Whole, Own
<1>3. /\ output'[j].events # None /\ Trusted(j)' => W(output'[j].events, job'[j].params)
      /\ \A x \in {runner'[j].hash, status'[j].hash} :
           x # None => job'[j].phase = "started" /\ (~job'[j].reused => W(x, job'[j].params))
  BY <1>1 DEF JobStorage, HashOf, Trusted
<1> QED BY <1>2, <1>3 DEF JobStorage, HashOf, Whole, Own

\* The metadata stay true, whatever they stand beside.
LEMMA MetaKept ==
  ASSUME Stay, StorageInv, meta' = meta \/ meta' = None
  PROVE  (meta # None /\ meta.sha # None => Whole(meta.sha, meta.params))'
<1>1. ASSUME meta' = meta, meta # None, meta.sha # None
      PROVE  \E k \in Jobs : meta.sha = Own(k) /\ job'[k].phase # "idle" /\ job'[k].params = meta.params
  BY <1>1, WholeKept DEF StorageInv
<1> QED BY <1>1 DEF Whole, Own

\* What is not settled is not begun by a step of another job.
LEMMA OnlyOne ==
  ASSUME StorageInv, NEW j \in Jobs, ~Settled(j),
         \A i \in Jobs \ {j} : job'[i] = job[i] /\ runner'[i] = runner[i]
  PROVE  OneOpen' /\ \A i \in Jobs \ {j} : Settled(i)'
<1>1. \A i \in Jobs \ {j} : Settled(i)
  BY DEF StorageInv, OneOpen
<1>2. \A i \in Jobs \ {j} : Settled(i)'
  BY <1>1 DEF Settled
<1> QED BY <1>2 DEF OneOpen

\* A job that is not started has no output and no hash.
LEMMA NothingYet ==
  ASSUME Typed, RunnerInv, StorageInv, NEW j \in Jobs, job[j].phase # "started"
  PROVE  /\ runner[j].at = "off" /\ status[j].steps = <<>> /\ output[j].events = None
         /\ runner[j].hash = None /\ status[j].hash = None
<1>1. RunnerStarted(j) /\ JobStorage(j)
  BY DEF RunnerInv, RunnerOK, StorageInv
<1> QED BY <1>1 DEF RunnerStarted, JobStorage, HashOf

\* A job that is prepared compares the storage and drops an old one.
LEMMA PrepareStorage ==
  ASSUME Typed, Begun, RunnerInv, StorageInv, Alone, NEW j \in Jobs, Prepare(j)
  PROVE  StorageInv'
<1>t. job \in [Jobs -> JobType] /\ runner \in [Jobs -> RunnerType]
  BY DEF Typed
<1>1. /\ UNCHANGED <<status, output>>
      /\ \A k \in Jobs \ {j} : job'[k] = job[k] /\ runner'[k] = runner[k]
      /\ job[j].phase # "started"
      /\ meta' \in {meta, None}
  BY DEF Prepare, Reserve, Refuse, Decide, Unlink, WriteSpec, PrepareDies, Start, Typed
<1>2. /\ runner[j].at = "off" /\ status[j].steps = <<>> /\ output[j].events = None
      /\ runner[j].hash = None /\ status[j].hash = None
  BY <1>1, NothingYet
<1>3. ASSUME Stay, OneOpen', \A i \in Jobs \ {j} : Settled(i)', runner'[j].hash = None,
             ~Settled(j)' =>
               (/\ Building(j) => Fresh(j)
                /\ Reusing(j) /\ job[j].compared => storage = None \/ Whole(storage, job[j].params)
                /\ job[j].phase = "unlinking" => storage = None)'
      PROVE  StorageInv'
  <2>1. \A i \in Jobs \ {j} : JobStorage(i)'
    BY <1>1, <1>3, JobStorageKept DEF StorageInv
  <2>2. JobStorage(j)'
    BY <1>1, <1>2, <1>3 DEF JobStorage, HashOf
  <2>3. (meta # None /\ meta.sha # None => Whole(meta.sha, meta.params))'
    BY <1>1, <1>3, MetaKept
  <2> QED BY <1>3, <2>1, <2>2, <2>3 DEF StorageInv
<1>4. ASSUME NEW mode \in Modes, NEW p \in Params, NEW overwrite \in BOOLEAN,
             Reserve(j, mode, p, overwrite)
      PROVE  StorageInv'
  <2>1. /\ job[j].phase = "idle" /\ job'[j].phase = "reserved" /\ runner' = runner
        /\ \A k \in Jobs : Settled(k)
    BY <1>t, <1>4 DEF Reserve
  <2>2. \A i \in Jobs \ {j} : Settled(i)'
    BY <1>1, <2>1 DEF Settled
  <2>3. OneOpen' /\ Stay
    BY <1>1, <2>1, <2>2 DEF OneOpen, Stay
  <2>4. ~Building(j)' /\ ~Reusing(j)' /\ job'[j].phase # "unlinking"
    BY <2>1 DEF Building, Reusing
  <2> QED BY <1>2, <1>3, <2>1, <2>2, <2>3, <2>4
<1>5. ASSUME ~Settled(j), job'[j].phase # "idle", job'[j].params = job[j].params
      PROVE  Stay /\ OneOpen' /\ \A i \in Jobs \ {j} : Settled(i)'
  BY <1>1, <1>5, OnlyOne DEF Stay
<1>6. ASSUME job[j].phase \in {"reserved", "decided", "unlinking", "prepared"} PROVE ~Settled(j)
  BY <1>2, <1>6 DEF Settled
<1>7. CASE Refuse(j) \/ PrepareDies(j)
  <2>1. /\ job[j].phase \in {"reserved", "decided", "unlinking", "prepared"}
        /\ job'[j].phase \in {"refused", "died"} /\ job'[j].params = job[j].params /\ runner' = runner
    BY <1>t, <1>7 DEF Refuse, PrepareDies, JobType
  <2>2. Settled(j)'
    BY <2>1 DEF Settled
  <2> QED BY <1>2, <1>3, <1>5, <1>6, <2>1, <2>2
<1>8. CASE Decide(j)
  <2> DEFINE decision == Decision(job[j].params, job[j].overwrite)
  <2>1. /\ job[j].phase = "reserved" /\ runner' = runner /\ UNCHANGED <<storage, meta>>
        /\ job'[j].phase = "decided" /\ job'[j].params = job[j].params
        /\ job'[j].compared => decision = "reuse" /\ meta.sha # None
    <3>1. job'[j] = [job[j] EXCEPT !.phase = "decided", !.reused = WithPlaso(j) /\ decision = "reuse",
                        !.compared = (WithPlaso(j) /\ decision = "reuse") /\ meta.sha # None]
      BY <1>t, <1>8 DEF Decide
    <3>2. job[j] \in JobType
      BY <1>t
    <3>3. /\ job'[j].params = job[j].params /\ job'[j].phase = "decided"
          /\ job'[j].compared = ((WithPlaso(j) /\ decision = "reuse") /\ meta.sha # None)
      BY <3>1, <3>2 DEF JobType
    <3> QED BY <1>8, <3>3 DEF Decide
  <2>2. Stay /\ OneOpen' /\ \A i \in Jobs \ {j} : Settled(i)'
    BY <1>5, <1>6, <2>1
  <2>3. ASSUME job'[j].compared PROVE Whole(storage, job[j].params)'
    <3>1. storage # None /\ meta # None /\ meta.params = job[j].params /\ meta.sha = storage
      BY <2>1, <2>3 DEF Decision
    <3>2. Whole(storage, job[j].params)
      BY <2>1, <2>3, <3>1 DEF StorageInv
    <3>3. \E k \in Jobs : storage = Own(k) /\ job'[k].phase # "idle" /\ job'[k].params = job[j].params
      BY <2>2, <3>2, WholeKept
    <3> QED BY <2>1, <3>3 DEF Whole, Own
  <2>4. ~Building(j)' /\ job'[j].phase # "unlinking"
    BY <2>1 DEF Building
  <2> QED BY <1>2, <1>3, <2>1, <2>2, <2>3, <2>4
<1>9. CASE Unlink(j)
  <2>1. /\ job[j].phase = "decided" /\ job'[j].phase = "unlinking" /\ job'[j].params = job[j].params
        /\ runner' = runner /\ storage' = None
    BY <1>t, <1>9 DEF Unlink, JobType
  <2>2. ~Building(j)' /\ ~Reusing(j)'
    BY <2>1 DEF Building, Reusing
  <2> QED BY <1>2, <1>3, <1>5, <1>6, <2>1, <2>2
<1>10. CASE WriteSpec(j)
  <2>1. /\ job'[j].phase = "prepared" /\ runner' = runner /\ storage' = storage
        /\ job[j].phase \in {"decided", "unlinking"}
        /\ job'[j].params = job[j].params /\ job'[j].mode = job[j].mode
        /\ job'[j].reused = job[j].reused /\ job'[j].compared = job[j].compared
    BY <1>t, <1>10 DEF WriteSpec, JobType
  <2>2. ~Settled(j) /\ JobStorage(j)
    BY <1>6, <2>1 DEF StorageInv
  <2>3. Stay /\ OneOpen' /\ \A i \in Jobs \ {j} : Settled(i)'
    BY <1>5, <2>1, <2>2
  <2>w. WithPlaso(j)' = WithPlaso(j)
    BY <2>1 DEF WithPlaso, HasStep
  <2>4. Building(j)' => storage' = None
    <3>1. CASE job[j].phase = "decided"
      BY <1>10, <2>1, <2>w, <3>1 DEF WriteSpec, Rebuilds, Building
    <3>2. CASE job[j].phase = "unlinking"
      BY <2>1, <2>2, <3>2 DEF JobStorage
    <3> QED BY <2>1, <3>1, <3>2
  <2>5. ASSUME Reusing(j)', job'[j].compared PROVE storage' = None \/ Whole(storage, job[j].params)'
    <3>1. CASE job[j].phase = "decided"
      <4>1. storage = None \/ Whole(storage, job[j].params)
        BY <2>1, <2>2, <2>5, <2>w, <3>1 DEF JobStorage, Reusing
      <4> QED BY <2>1, <2>3, <4>1, WholeKept DEF Whole, Own
    <3>2. CASE job[j].phase = "unlinking"
      BY <2>1, <2>2, <3>2 DEF JobStorage
    <3> QED BY <2>1, <3>1, <3>2
  <2>6. Building(j)' => Fresh(j)'
    BY <1>1, <1>2, <2>4 DEF Fresh
  <2> QED BY <1>2, <1>3, <2>1, <2>3, <2>5, <2>6
<1>11. CASE Start(j)
  <2>1. /\ UNCHANGED <<storage, meta>> /\ job[j].phase = "prepared"
        /\ job'[j] = [job[j] EXCEPT !.phase = "started"]
        /\ runner'[j].at = "boot" /\ runner'[j].hash = runner[j].hash
    BY <1>t, <1>11 DEF Start, RunnerType
  <2>2. /\ job'[j].phase = "started" /\ job'[j].mode = job[j].mode /\ job'[j].params = job[j].params
        /\ job'[j].reused = job[j].reused /\ job'[j].compared = job[j].compared
    BY <1>t, <2>1 DEF JobType
  <2>3. ~Settled(j) /\ JobStorage(j)
    BY <1>6, <2>1 DEF StorageInv
  <2>4. Stay /\ OneOpen' /\ \A i \in Jobs \ {j} : Settled(i)'
    BY <1>5, <2>2, <2>3
  <2>w. WithPlaso(j)' = WithPlaso(j)
    BY <2>2 DEF WithPlaso, HasStep
  <2>5. (Building(j) => Fresh(j))'
    <3>1. Building(j)' => Fresh(j)
      BY <2>1, <2>2, <2>3, <2>w DEF Building, JobStorage
    <3>2. Building(j)' => storage' = None
      BY <1>2, <2>1, <3>1 DEF Fresh
    <3> QED BY <1>1, <1>2, <3>2 DEF Fresh
  <2>6. ASSUME Reusing(j)', job'[j].compared PROVE storage' = None \/ Whole(storage, job[j].params)'
    <3>1. storage = None \/ Whole(storage, job[j].params)
      BY <2>1, <2>2, <2>3, <2>6, <2>w DEF JobStorage, Reusing
    <3> QED BY <2>1, <2>2, <2>4, <3>1, WholeKept DEF Whole, Own
  <2> QED BY <1>2, <1>3, <2>1, <2>2, <2>4, <2>5, <2>6
<1> QED BY <1>4, <1>7, <1>8, <1>9, <1>10, <1>11 DEF Prepare

\* log2timeline comes first, and psort after a log2timeline that went well.
LEMMA StorageSteps ==
  ASSUME Typed, Begun, RunnerInv, NEW j \in Jobs
  PROVE  /\ runner[j].at \in {"spawn", "tool", "killed"} =>
              /\ StepNow(j) = "log2timeline" => status[j].steps = <<>> /\ Building(j)
              /\ status[j].steps = <<>> /\ Building(j) => StepNow(j) = "log2timeline"
              /\ StepNow(j) = "psort" =>
                   /\ status[j].steps # <<>>
                   /\ Building(j) \/ Reusing(j)
                   /\ Building(j) => status[j].steps[1] = "completed"
         /\ PsortDone(j) /\ runner[j].at # "off" =>
              /\ status[j].steps # <<>>
              /\ Building(j) \/ Reusing(j)
              /\ Building(j) => status[j].steps[1] = "completed"
<1> DEFINE steps == Steps(job[j].mode)
           done  == status[j].steps
<1>1. RunnerOK(j) /\ StepsRecorded(j) /\ RunnerStarted(j)
  BY DEF RunnerInv, RunnerOK
<1>2. done \in Seq(States) /\ Len(done) \in Nat /\ runner[j].step \in Nat
  BY JobTypes
<1>3. WithPlaso(j) <=> \E i \in 1..Len(steps) : steps[i] = "psort"
  BY DEF WithPlaso, HasStep, Contains
<1>4. CASE runner[j].at # "off"
  <2>1. job[j].phase = "started" /\ job[j].mode \in Modes
    BY <1>1, <1>4 DEF RunnerStarted, Typed
  <2>2. /\ steps \in Seq(Tools) /\ Len(steps) \in Nat
        /\ \A i \in 1..Len(steps) :
              /\ steps[i] = "log2timeline" => i = 1
              /\ steps[i] = "psort" => i = 2 /\ steps[1] = "log2timeline"
              /\ i = 1 /\ steps[1] = "log2timeline" => Len(steps) >= 2 /\ steps[2] = "psort"
    BY <2>1, StepsFacts
  <2>3. Len(done) = 0 <=> done = <<>>
    BY <1>2
  <2>d. \A i \in 1..Len(done) :
          /\ done[i] = "skipped" => job[j].reused
          /\ done[i] = "tolerated" => steps[i] \in Tolerated
          /\ i < Len(done) => done[i] \in {"skipped", "completed", "tolerated"}
    BY <1>1 DEF StepsRecorded
  <2> HIDE DEF steps, done
  <2>4. WithPlaso(j) => 1 \in 1..Len(steps) /\ steps[1] = "log2timeline"
    BY <1>3, <2>2
  <2>5. WithPlaso(j) => Building(j) \/ Reusing(j)
    BY <2>1 DEF Building, Reusing
  <2>6. ASSUME runner[j].at \in {"spawn", "tool", "killed"}
        PROVE  /\ StepNow(j) = "log2timeline" => done = <<>> /\ Building(j)
               /\ done = <<>> /\ Building(j) => StepNow(j) = "log2timeline"
               /\ StepNow(j) = "psort" =>
                    /\ done # <<>>
                    /\ Building(j) \/ Reusing(j)
                    /\ Building(j) => done[1] = "completed"
    <3>1. /\ StepNow(j) = steps[Len(done) + 1] /\ Len(done) < Len(steps)
          /\ \A i \in 1..Len(done) : done[i] \in {"skipped", "completed", "tolerated"}
          /\ job[j].reused => StepNow(j) # "log2timeline"
      BY <1>1, <2>6 DEF StepsRecorded, Alive, StepNow, steps, done
    <3>2. Len(done) + 1 \in 1..Len(steps)
      BY <1>2, <2>2, <3>1 DEF done
    <3>3. ASSUME StepNow(j) = "log2timeline" PROVE done = <<>> /\ Building(j)
      <4>1. Len(done) + 1 = 1
        BY <2>2, <3>1, <3>2, <3>3
      <4>2. WithPlaso(j)
        <5>1. 1 \in 1..Len(steps) /\ steps[1] = "log2timeline"
          BY <3>1, <3>2, <3>3, <4>1
        <5>2. Len(steps) >= 2 /\ steps[2] = "psort"
          BY <2>2, <5>1
        <5>3. 2 \in 1..Len(steps)
          BY <2>2, <5>2
        <5> QED BY <1>3, <5>2, <5>3
      <4> QED BY <1>2, <2>1, <2>3, <3>1, <3>3, <4>1, <4>2 DEF Building, done
    <3>4. ASSUME done = <<>>, Building(j) PROVE StepNow(j) = "log2timeline"
      <4>1. Len(done) = 0 /\ WithPlaso(j)
        BY <2>3, <3>4 DEF Building
      <4> QED BY <2>4, <3>1, <4>1
    <3>5. ASSUME StepNow(j) = "psort"
          PROVE  /\ done # <<>> /\ (Building(j) \/ Reusing(j))
                 /\ Building(j) => done[1] = "completed"
      <4>1. Len(done) + 1 = 2 /\ WithPlaso(j)
        BY <1>3, <2>2, <3>1, <3>2, <3>5
      <4>2. 1 \in 1..Len(done)
        BY <1>2, <4>1 DEF done
      <4>3. Building(j) => done[1] = "completed"
        <5>1. done[1] \in {"skipped", "completed", "tolerated"}
          BY <3>1, <4>2
        <5>2. done[1] # "tolerated"
          BY <2>4, <2>d, <4>1, <4>2 DEF Tolerated
        <5> QED BY <2>d, <4>2, <5>1, <5>2 DEF Building
      <4>4. done # <<>>
        BY <1>2, <2>3, <4>1 DEF done
      <4> QED BY <2>5, <4>1, <4>3, <4>4
    <3> QED BY <3>3, <3>4, <3>5
  <2>7. ASSUME PsortDone(j)
        PROVE  /\ done # <<>> /\ (Building(j) \/ Reusing(j))
               /\ Building(j) => done[1] = "completed"
    <3>1. PICK i \in 1..Len(done) : steps[i] = "psort" /\ done[i] = "completed"
      <4>1. Len(done) <= Len(steps)
        BY <1>1, <1>4 DEF StepsRecorded, done, steps
      <4> QED BY <1>2, <2>1, <2>7, <4>1, StateDone DEF PsortDone, done, steps
    <3>2. i \in 1..Len(steps) /\ Len(done) <= Len(steps)
      BY <1>1, <1>2, <1>4, <2>2 DEF StepsRecorded, done, steps
    <3>3. i = 2 /\ WithPlaso(j)
      BY <1>3, <2>2, <3>1, <3>2 DEF steps
    <3>4. 1 \in 1..Len(done) /\ 1 < Len(done)
      BY <1>2, <3>3 DEF done
    <3>5. Building(j) => done[1] = "completed"
      <4>1. done[1] # "tolerated"
        BY <2>4, <2>d, <3>3, <3>4 DEF Tolerated
      <4> QED BY <2>d, <3>4, <4>1 DEF Building
    <3>6. done # <<>>
      BY <1>2, <2>3, <3>4 DEF done
    <3> QED BY <2>5, <3>3, <3>5, <3>6
  <2> QED BY <2>6, <2>7 DEF done
<1> QED BY <1>4

\* The storage a job hashes is complete.
LEMMA HashedIsWhole ==
  ASSUME Typed, Begun, RunnerInv, StorageInv, NEW j \in Jobs, runner[j].at = "hash",
         ~HasFailed(j), ~runner[j].term, WithPlaso(j), ~job[j].reused, storage # None
  PROVE  Whole(storage, job[j].params)
<1>1. /\ job[j].phase = "started" /\ job[j].mode \in Modes
      /\ RunnerOK(j) /\ JobStorage(j) /\ ~Settled(j) /\ Building(j)
  BY DEF Begun, Typed, RunnerInv, StorageInv, Settled, Building
<1>2. /\ status[j].steps \in Seq(States)
      /\ \A i \in 1..Len(status[j].steps) : status[j].steps[i] \in States
  BY JobTypes
<1>3. status[j].steps # <<>>
  BY <1>1 DEF JobStorage, Fresh
<1>4. 1 \in 1..Len(status[j].steps)
  BY <1>2, <1>3
<1>5. Steps(job[j].mode)[1] = "log2timeline"
  <2>1. PICK i \in 1..Len(Steps(job[j].mode)) : Steps(job[j].mode)[i] = "psort"
    BY DEF WithPlaso, HasStep, Contains
  <2> QED BY <1>1, <2>1, StepsFacts
<1>6. status[j].steps[1] = "completed"
  <2>1. status[j].steps[1] \notin {"failed", "skipped", "tolerated", "cancelled"}
    BY <1>1, <1>4, <1>5, FailedStep DEF RunnerOK, StepsRecorded, Alive, Tolerated
  <2> QED BY <1>2, <1>4, <2>1 DEF States
<1>7. storage = Own(j)
  BY <1>1, <1>3, <1>6 DEF JobStorage, Fresh
<1> QED BY <1>1, <1>7 DEF Whole

\* A job that runs builds its storage or leaves it alone.
LEMMA RunnerStorage ==
  ASSUME Typed, Begun, RunnerInv, StorageInv, NEW j \in Jobs,
         RunnerStep(j) \/ Cancel(j) \/ Kill(j)
  PROVE  StorageInv'
<1>t. runner \in [Jobs -> RunnerType] /\ status \in [Jobs -> StatusType] /\ output \in [Jobs -> OutputType]
  BY DEF Typed
<1>1. /\ UNCHANGED <<meta, job>>
      /\ \A k \in Jobs \ {j} : runner'[k] = runner[k] /\ status'[k] = status[k] /\ output'[k] = output[k]
      /\ Alive(j)
  BY RunnerFrame
<1>2. /\ RunnerOK(j) /\ JobStorage(j) /\ job[j].phase = "started" /\ ~Settled(j)
      /\ runner[j].at # "off"
  BY <1>1 DEF RunnerInv, StorageInv, Begun, Alive, Settled
<1>3. Stay /\ OneOpen' /\ \A i \in Jobs \ {j} : Settled(i)'
  BY <1>1, <1>2, OnlyOne DEF Stay
<1>4. /\ Building(j)' = Building(j) /\ Reusing(j)' = Reusing(j) /\ Trusted(j)' = Trusted(j)
      /\ \A s, p : Whole(s, p)' = Whole(s, p)
  BY <1>1 DEF Building, Reusing, Trusted, WithPlaso, HasStep, Whole, Own
<1>5. /\ Building(j) => Fresh(j)
      /\ Reusing(j) /\ job[j].compared => storage = None \/ Whole(storage, job[j].params)
  BY <1>2 DEF JobStorage
<1>f. status[j].steps \in Seq(States)
  BY JobTypes
<1>6. ASSUME Building(j) => Fresh(j)',
             storage' = storage \/ Building(j),
             output'[j].events = output[j].events
               \/ (Trusted(j) => output'[j].events = None \/ Whole(output'[j].events, job[j].params)),
             HashOf(j, runner'[j].hash), HashOf(j, status'[j].hash)
      PROVE  StorageInv'
  <2>1. \A i \in Jobs \ {j} : JobStorage(i)'
    BY <1>1, <1>3, JobStorageKept DEF StorageInv
  <2>2. (meta # None /\ meta.sha # None => Whole(meta.sha, meta.params))'
    BY <1>1, <1>3, MetaKept
  <2>3. ~(Building(j) /\ Reusing(j))
    BY DEF Building, Reusing
  <2>4. (Reusing(j) /\ job[j].compared => storage = None \/ Whole(storage, job[j].params))'
    <3>1. Reusing(j) /\ job[j].compared => storage' = None \/ Whole(storage', job[j].params)
      BY <1>5, <1>6, <2>3
    <3> QED BY <1>1, <1>4, <3>1 DEF Whole, Own
  <2>5. (output[j].events # None /\ Trusted(j) => Whole(output[j].events, job[j].params))'
    <3>1. output'[j].events # None /\ Trusted(j) => Whole(output'[j].events, job[j].params)
      BY <1>2, <1>6 DEF JobStorage
    <3> QED BY <1>1, <1>4, <3>1 DEF Whole, Own
  <2>6. HashOf(j, runner[j].hash)' /\ HashOf(j, status[j].hash)'
    BY <1>1, <1>6 DEF HashOf, Whole, Own
  <2>7. JobStorage(j)'
    BY <1>1, <1>2, <1>4, <1>6, <2>4, <2>5, <2>6 DEF JobStorage
  <2> QED BY <1>3, <2>1, <2>2, <2>7 DEF StorageInv
<1>h. HashOf(j, runner[j].hash) /\ HashOf(j, status[j].hash)
  BY <1>2 DEF JobStorage
<1>n. ASSUME NEW x \in States, status'[j].steps = Append(status[j].steps, x)
      PROVE  /\ status'[j].steps # <<>>
             /\ status[j].steps = <<>> => status'[j].steps[1] = x
             /\ status[j].steps # <<>> => status'[j].steps[1] = status[j].steps[1]
  <2>1. Append(status[j].steps, x) # <<>> /\ Append(status[j].steps, x)[Len(status[j].steps) + 1] = x
    BY <1>f, Appended
  <2>2. status[j].steps = <<>> => Len(status[j].steps) = 0
    OBVIOUS
  <2>3. status[j].steps # <<>> => 1 \in 1..Len(status[j].steps)
    BY <1>f
  <2>4. \A i \in 1..Len(status[j].steps) : Append(status[j].steps, x)[i] = status[j].steps[i]
    BY <1>f, Appended
  <2> QED BY <1>n, <2>1, <2>2, <2>3, <2>4
<1>10. CASE Boot(j) \/ LeaveLoop(j)
  <2>1. /\ storage' = storage /\ output' = output /\ status'[j].steps = status[j].steps
        /\ runner[j].at \notin {"tool", "killed"} /\ runner'[j].at \notin {"tool", "killed"}
        /\ runner'[j].hash = runner[j].hash /\ status'[j].hash = status[j].hash
    <3>1. CASE Boot(j)
      BY <1>t, <3>1 DEF Boot, RunnerType, StatusType
    <3>2. CASE LeaveLoop(j)
      <4>1. PICK late : runner' = [runner EXCEPT ![j].at = "hash", ![j].late = late]
        BY <3>2 DEF LeaveLoop
      <4> QED BY <1>t, <3>2, <4>1 DEF LeaveLoop, RunnerType
    <3> QED BY <1>10, <3>1, <3>2
  <2>2. Fresh(j) => Fresh(j)'
    BY <1>1, <2>1 DEF Fresh, Own
  <2> QED BY <1>5, <1>6, <1>h, <2>1, <2>2
<1>19. CASE Hash(j)
  <2> DEFINE hashed == WithPlaso(j) /\ ~HasFailed(j) /\ ~runner[j].term
  <2>1. PICK x : x = (IF hashed THEN storage ELSE None)
                 /\ runner' = [runner EXCEPT ![j].at = "verdict", ![j].hash = x]
    BY <1>19 DEF Hash
  <2>2. /\ storage' = storage /\ output' = output /\ status' = status
        /\ runner[j].at = "hash" /\ runner'[j].at = "verdict" /\ runner'[j].hash = x
    BY <1>t, <1>19, <2>1 DEF Hash, RunnerType
  <2>3. Fresh(j) => Fresh(j)'
    BY <1>1, <2>2 DEF Fresh, Own
  <2>4. HashOf(j, x)
    <3>1. ASSUME x # None, ~job[j].reused PROVE Whole(x, job[j].params)
      BY <2>1, <2>2, <3>1, HashedIsWhole
    <3> QED BY <1>2, <3>1 DEF HashOf
  <2> QED BY <1>5, <1>6, <1>h, <2>2, <2>3, <2>4
<1>20. CASE Verdict(j)
  <2>1. PICK y : status' = [status EXCEPT ![j].state = y, ![j].hash = runner[j].hash]
    BY <1>20 DEF Verdict
  <2>2. status'[j].steps = status[j].steps /\ status'[j].hash = runner[j].hash
    BY <1>t, <2>1 DEF StatusType
  <2>3. /\ storage' = storage /\ output' = output /\ runner'[j].hash = None /\ runner'[j].at = "exit"
        /\ runner[j].at = "verdict"
    BY <1>t, <1>20 DEF Verdict, Process
  <2>4. Fresh(j) => Fresh(j)'
    BY <1>1, <2>2, <2>3 DEF Fresh, Own
  <2>5. HashOf(j, None)
    BY DEF HashOf
  <2> QED BY <1>5, <1>6, <1>h, <2>2, <2>3, <2>4, <2>5
<1>11. CASE NextStep(j) /\ StepNow(j) = "log2timeline" /\ job[j].reused
  <2>1. /\ storage' = storage /\ output' = output /\ runner' = [runner EXCEPT ![j].step = @ + 1]
        /\ status' = [status EXCEPT ![j].steps = Append(@, "skipped")]
    BY <1>11 DEF NextStep
  <2>2. runner'[j].hash = runner[j].hash /\ status'[j].hash = status[j].hash
    BY <1>t, <2>1 DEF RunnerType, StatusType
  <2>3. ~Building(j)
    BY <1>11 DEF Building
  <2> QED BY <1>6, <1>h, <2>1, <2>2, <2>3
<1>12. CASE NextStep(j) /\ ~(StepNow(j) = "log2timeline" /\ job[j].reused)
  <2>1. /\ storage' = storage /\ output' = output /\ status' = status
        /\ runner[j].at = "loop" /\ runner'[j].at = "spawn" /\ runner'[j].hash = runner[j].hash
    <3>1. runner' = [runner EXCEPT ![j].at = "spawn", ![j].tries = FsTypes]
      BY <1>12 DEF NextStep
    <3> QED BY <1>t, <1>12, <3>1 DEF NextStep, RunnerType
  <2>2. Fresh(j) => Fresh(j)'
    BY <1>1, <2>1 DEF Fresh, Own
  <2> QED BY <1>5, <1>6, <1>h, <2>1, <2>2
<1>13. CASE Spawn(j)
  <2>1. /\ runner[j].at = "spawn" /\ runner'[j].at = "tool" /\ status' = status
        /\ runner'[j].hash = runner[j].hash
    BY <1>t, <1>13 DEF Spawn, RunnerType
  <2>2. CASE StepNow(j) = "log2timeline"
    <3>1. status[j].steps = <<>> /\ Building(j)
      BY <2>1, <2>2, StorageSteps
    <3>2. storage = None
      BY <1>5, <2>1, <3>1 DEF Fresh
    <3>3. storage' = [by |-> {j}, unfinished |-> {j}] /\ output' = output
      BY <1>13, <2>2, <3>2 DEF Spawn, Tolerated
    <3>4. Fresh(j)'
      BY <1>1, <2>1, <3>1, <3>3 DEF Fresh
    <3> QED BY <1>6, <1>h, <2>1, <3>1, <3>3, <3>4
  <2>3. CASE StepNow(j) = "psort"
    <3>1. /\ status[j].steps # <<>> /\ (Building(j) \/ Reusing(j))
          /\ Building(j) => status[j].steps[1] = "completed"
      BY <2>1, <2>3, StorageSteps
    <3>2. storage' = storage /\ output' = [output EXCEPT ![j].events = storage]
      BY <1>13, <2>3 DEF Spawn, Tolerated
    <3>3. output'[j].events = storage
      BY <1>t, <3>2 DEF OutputType
    <3>4. Trusted(j) => storage = None \/ Whole(storage, job[j].params)
      <4>1. CASE Building(j)
        BY <1>2, <1>5, <3>1, <4>1 DEF Fresh, Whole
      <4>2. CASE Reusing(j)
        BY <1>5, <4>2 DEF Reusing, Trusted
      <4> QED BY <3>1, <4>1, <4>2
    <3>5. Building(j) => Fresh(j)'
      BY <1>1, <1>5, <2>1, <3>1, <3>2 DEF Fresh, Own
    <3> QED BY <1>6, <1>h, <2>1, <3>2, <3>3, <3>4, <3>5
  <2>4. CASE StepNow(j) \notin {"log2timeline", "psort"}
    <3>1. storage' = storage
      BY <1>13, <2>4 DEF Spawn
    <3>2. output'[j].events = output[j].events
      <4>1. CASE StepNow(j) \in Tolerated
        <5>1. output' = [output EXCEPT ![j][StepNow(j)] = "partial"]
          BY <1>13, <2>4, <4>1 DEF Spawn
        <5>2. StepNow(j) # "events"
          BY <4>1 DEF Tolerated
        <5> QED BY <1>t, <5>1, <5>2 DEF OutputType
      <4>2. CASE StepNow(j) \notin Tolerated
        BY <1>13, <2>4, <4>2 DEF Spawn
      <4> QED BY <4>1, <4>2
    <3>3. Building(j) => Fresh(j)'
      <4>1. Building(j) => status[j].steps # <<>>
        BY <2>1, <2>4, StorageSteps
      <4> QED BY <1>1, <1>5, <2>1, <3>1, <4>1 DEF Fresh, Own
    <3> QED BY <1>6, <1>h, <2>1, <3>1, <3>2, <3>3
  <2> QED BY <2>2, <2>3, <2>4
<1>14. CASE ToolSucceeds(j)
  <2>1. PICK x \in {"cancelled", "completed"} :
          /\ runner[j].at = "tool" /\ runner'[j].at = "loop"
          /\ status'[j].steps = Append(status[j].steps, x) /\ status'[j].hash = status[j].hash
    BY <1>t, <1>14 DEF ToolSucceeds, RunnerType, StatusType
  <2>h. runner'[j].hash = runner[j].hash
    <3>1. runner' = [runner EXCEPT ![j].at = "loop", ![j].step = @ + 1]
      BY <1>14 DEF ToolSucceeds
    <3> QED BY <1>t, <3>1 DEF RunnerType
  <2>2. output'[j].events = output[j].events
    <3>1. CASE StepNow(j) \in Tolerated
      <4>1. output' = [output EXCEPT ![j][StepNow(j)] = "whole"]
        BY <1>14, <3>1 DEF ToolSucceeds
      <4>2. StepNow(j) # "events"
        BY <3>1 DEF Tolerated
      <4> QED BY <1>t, <4>1, <4>2 DEF OutputType
    <3>2. CASE StepNow(j) \notin Tolerated
      BY <1>14, <3>2 DEF ToolSucceeds
    <3> QED BY <3>1, <3>2
  <2>n. /\ status'[j].steps # <<>>
        /\ status[j].steps # <<>> => status'[j].steps[1] = status[j].steps[1]
    BY <1>n, <2>1 DEF States
  <2>3. CASE StepNow(j) = "log2timeline"
    <3>1. status[j].steps = <<>> /\ Building(j)
      BY <2>1, <2>3, StorageSteps
    <3>2. storage = None \/ storage = [by |-> {j}, unfinished |-> {j}]
      BY <1>5, <3>1 DEF Fresh
    <3>3. storage' \in {None, Own(j)}
      <4>1. CASE storage = None
        BY <1>14, <4>1 DEF ToolSucceeds
      <4>2. CASE storage # None
        <5>1. storage' = [storage EXCEPT !.unfinished = @ \ {j}]
          BY <1>14, <2>3, <4>2 DEF ToolSucceeds
        <5> QED BY <3>2, <4>2, <5>1 DEF Own
      <4> QED BY <4>1, <4>2
    <3>4. Fresh(j)'
      BY <2>n, <3>3 DEF Fresh, Own
    <3> QED BY <1>6, <1>h, <2>1, <2>2, <2>h, <3>1, <3>4
  <2>4. CASE StepNow(j) # "log2timeline"
    <3>1. storage' = storage
      BY <1>14, <2>4 DEF ToolSucceeds
    <3>2. Building(j) => status[j].steps # <<>>
      BY <2>1, <2>4, StorageSteps
    <3>3. Building(j) => Fresh(j)'
      BY <1>1, <1>5, <2>n, <3>1, <3>2 DEF Fresh, Own
    <3> QED BY <1>6, <1>h, <2>1, <2>2, <2>h, <3>1, <3>3
  <2> QED BY <2>3, <2>4
<1>15. CASE TryNext(j)
  <2>1. /\ runner[j].at \in {"tool", "killed"} /\ runner'[j].at = "spawn"
        /\ status' = status /\ storage' = storage /\ runner'[j].hash = runner[j].hash
        /\ StepNow(j) \in Tolerated
        /\ output' = [output EXCEPT ![j][StepNow(j)] = None]
    <3>1. runner' = [runner EXCEPT ![j].at = "spawn", ![j].tries = @ - 1]
      BY <1>15 DEF TryNext
    <3> QED BY <1>t, <1>15, <3>1 DEF TryNext, RunnerType
  <2>2. output'[j].events = output[j].events
    <3>1. StepNow(j) # "events"
      BY <2>1 DEF Tolerated
    <3> QED BY <1>t, <2>1, <3>1 DEF OutputType
  <2>3. Building(j) => status[j].steps # <<>>
    BY <2>1, StorageSteps DEF Tolerated
  <2>4. Building(j) => Fresh(j)'
    BY <1>1, <1>5, <2>1, <2>3 DEF Fresh, Own
  <2> QED BY <1>6, <1>h, <2>1, <2>2, <2>4
<1>16. CASE ToolFails(j)
  <2>1. PICK x \in {"cancelled", "tolerated", "failed"} :
          /\ runner[j].at \in {"tool", "killed"} /\ runner'[j].at = "loop"
          /\ status'[j].steps = Append(status[j].steps, x) /\ status'[j].hash = status[j].hash
    BY <1>t, <1>16 DEF ToolFails, RunnerType, StatusType
  <2>h. runner'[j].hash = runner[j].hash
    <3>1. runner' = [runner EXCEPT ![j].at = "loop", ![j].step = @ + 1]
      BY <1>16 DEF ToolFails
    <3> QED BY <1>t, <3>1 DEF RunnerType
  <2>2. storage' = storage
    BY <1>16 DEF ToolFails
  <2>3. output'[j].events = output[j].events
    <3>1. CASE StepNow(j) \in Tolerated /\ ~runner[j].term
      <4>1. output' = [output EXCEPT ![j][StepNow(j)] = None]
        BY <1>16, <3>1 DEF ToolFails
      <4>2. StepNow(j) # "events"
        BY <3>1 DEF Tolerated
      <4> QED BY <1>t, <4>1, <4>2 DEF OutputType
    <3>2. CASE ~(StepNow(j) \in Tolerated /\ ~runner[j].term)
      BY <1>16, <3>2 DEF ToolFails
    <3> QED BY <3>1, <3>2
  <2>4. Building(j) => Fresh(j)'
    <3>1. /\ status'[j].steps # <<>>
          /\ status[j].steps = <<>> => status'[j].steps[1] = x
          /\ status[j].steps # <<>> => status'[j].steps[1] = status[j].steps[1]
      BY <1>n, <2>1 DEF States
    <3>2. CASE status[j].steps = <<>>
      <4>1. status'[j].steps[1] # "completed"
        BY <2>1, <3>1, <3>2
      <4> QED BY <3>1, <4>1 DEF Fresh
    <3>3. CASE status[j].steps # <<>>
      BY <1>1, <1>5, <2>2, <3>1, <3>3 DEF Fresh, Own
    <3> QED BY <3>2, <3>3
  <2> QED BY <1>6, <1>h, <2>1, <2>2, <2>3, <2>4, <2>h
<1>17. CASE Cancel(j)
  <2>1. /\ storage' = storage /\ output' = output /\ status' = status
        /\ runner'[j].at \in {"tool", "killed"} <=> runner[j].at \in {"tool", "killed"}
        /\ runner'[j].hash = runner[j].hash
    BY <1>t, <1>17 DEF Cancel, RunnerType
  <2>2. Fresh(j) => Fresh(j)'
    BY <1>1, <2>1 DEF Fresh, Own
  <2> QED BY <1>5, <1>6, <1>h, <2>1, <2>2
<1>18. CASE Kill(j)
  <2>1. /\ storage' = storage /\ output' = output /\ status' = status
        /\ runner'[j].at = "dead" /\ runner'[j].hash = None
    BY <1>t, <1>18 DEF Kill, Process
  <2>2. Settled(j)'
    BY <2>1 DEF Settled
  <2>3. JobStorage(j)'
    BY <1>1, <1>2, <2>1, <2>2 DEF JobStorage, HashOf, Trusted, Whole, Own
  <2>4. \A i \in Jobs \ {j} : JobStorage(i)'
    BY <1>1, <1>3, JobStorageKept DEF StorageInv
  <2>5. (meta # None /\ meta.sha # None => Whole(meta.sha, meta.params))'
    BY <1>1, <1>3, MetaKept
  <2> QED BY <1>3, <2>3, <2>4, <2>5 DEF StorageInv
<1> QED BY <1>10, <1>11, <1>12, <1>13, <1>14, <1>15, <1>16, <1>17, <1>18, <1>19, <1>20 DEF RunnerStep

\* An import, of whatever job and however late, drops the storage or leaves it alone,
\* and describes the one its job has hashed.
LEMMA HostStorage ==
  ASSUME Typed, Begun, RunnerInv, ImportInv, StorageInv, NEW h \in Hosts,
         \/ Import(h) \/ Die(h) \/ \E j \in Jobs : Ask(h, j) \/ Rerun(h, j)
  PROVE  StorageInv'
<1>t. host \in [Hosts -> HostType] /\ runner \in [Jobs -> RunnerType]
  BY DEF Typed
<1>1. UNCHANGED <<job, status, output>> /\ storage' \in {storage, None}
  BY DEF Import, Die, Ask, Rerun, NoJob, ReadRow, ReadStatus, DropStorage, ImportPlaso, WriteMeta,
         ImportTsk, RegisterStrings, UpdateRow, RemoveJob
<1>2. Stay
  BY <1>1 DEF Stay
<1>3. \A j \in Jobs : runner'[j].hash = runner[j].hash /\ (Settled(j)' \/ runner'[j] = runner[j])
  <2>1. CASE RemoveJob(h)
    <3>1. runner' = [runner EXCEPT ![host[h].job].at = "removed"]
      BY <2>1 DEF RemoveJob
    <3> QED BY <1>t, <3>1 DEF RunnerType, Settled
  <2>2. CASE runner' = runner
    BY <2>2
  <2> QED BY <2>1, <2>2 DEF Import, Die, Ask, Rerun, NoJob, ReadRow, ReadStatus, DropStorage, ImportPlaso,
          WriteMeta, ImportTsk, RegisterStrings, UpdateRow
<1>4. \A j \in Jobs : JobStorage(j)'
  BY <1>1, <1>2, <1>3, JobStorageKept DEF StorageInv
<1>5. OneOpen'
  <2>1. \A j \in Jobs : Settled(j) => Settled(j)'
    BY <1>1, <1>3 DEF Settled
  <2> QED BY <2>1 DEF StorageInv, OneOpen
<1>6. (meta # None /\ meta.sha # None => Whole(meta.sha, meta.params))'
  <2>1. CASE meta' = meta
    BY <1>2, <2>1, MetaKept
  <2>2. CASE meta' # meta
    <3> DEFINE k == host[h].job
    <3>1. /\ WriteMeta(h) /\ ~job[k].reused
          /\ meta' = [params |-> job[k].params, sha |-> status[k].hash]
      BY <2>2 DEF Import, Die, Ask, Rerun, NoJob, ReadRow, ReadStatus, DropStorage, ImportPlaso, WriteMeta,
         ImportTsk, RegisterStrings, UpdateRow, RemoveJob
    <3>2. k \in Jobs
      <4>1. host[h].at # "idle"
        BY <3>1 DEF WriteMeta, At
      <4>2. host[h].job # None
        BY <4>1 DEF Typed
      <4> QED BY <1>t, <4>2 DEF HostType
    <3> HIDE DEF k
    <3>3. meta'.params = job[k].params /\ meta'.sha = status[k].hash
      BY <3>1
    <3>4. status[k].hash # None => Whole(status[k].hash, job[k].params)
      BY <3>1, <3>2 DEF StorageInv, JobStorage, HashOf
    <3> QED BY <1>1, <3>3, <3>4 DEF Whole, Own
  <2> QED BY <2>1, <2>2
<1> QED BY <1>4, <1>5, <1>6 DEF StorageInv

\* Each action keeps what is known of the storage.
LEMMA StorageStep ==
  ASSUME Typed, Begun, RunnerInv, ImportInv, StorageInv, Alone, [Next]_vars
  PROVE  StorageInv'
<1>1. CASE UNCHANGED vars
  <2>1. UNCHANGED <<storage, meta, job, runner, status, output>>
    BY <1>1 DEF vars
  <2>2. Stay
    BY <2>1 DEF Stay
  <2>3. \A j \in Jobs : JobStorage(j)'
    BY <2>1, <2>2, JobStorageKept DEF StorageInv
  <2>4. OneOpen'
    BY <2>1 DEF StorageInv, OneOpen, Settled
  <2> QED BY <2>1, <2>2, <2>3, <2>4, MetaKept DEF StorageInv
<1> QED BY <1>1, PrepareStorage, RunnerStorage, HostStorage DEF Next

\* There is no storage in the first state.
LEMMA StorageInit == ASSUME Init PROVE StorageInv
<1>1. /\ meta = None
      /\ \A j \in Jobs : /\ job[j].phase = "idle" /\ output[j].events = None
                         /\ runner[j] = Process("off") /\ status[j].hash = None
  BY DEF Init
<1>2. \A j \in Jobs : runner[j].hash = None /\ Settled(j)
  BY <1>1 DEF Process, Settled
<1> QED BY <1>1, <1>2 DEF StorageInv, OneOpen, JobStorage, HashOf

\* When nobody prepares a job while another one runs, every hash that is recorded
\* is that of a complete storage of one job.
LEMMA StorageCorrect ==
  ASSUME Alone PROVE Spec => [](Typed /\ Begun /\ RunnerInv /\ ImportInv /\ StorageInv)
<1>1. Init => Typed /\ Begun /\ RunnerInv /\ ImportInv /\ StorageInv
  BY TypedInit, ImportInit, StorageInit
<1>2. /\ Typed /\ Begun /\ RunnerInv /\ ImportInv /\ StorageInv /\ [Next]_vars
      => Typed' /\ Begun' /\ RunnerInv' /\ ImportInv' /\ StorageInv'
  BY TypedStep, BegunStep, ImportStep, StorageStep
<1> QED BY <1>1, <1>2, PTL DEF Spec

\* A storage whose metadata has a hash is reused only if it is complete and was built
\* with the parameters that are asked for, however late or often jobs are imported
\* and wherever prepare dies: ReuseIsSound, when nobody prepares a job on the
\* evidence while another one runs.
THEOREM ReusedStorageIsWhole == ASSUME Alone PROVE Spec => []ReuseIsSound
<1>1. StorageInv => ReuseIsSound
  <2> SUFFICES ASSUME StorageInv, NEW p \in Params, Decision(p, FALSE) = "reuse", meta.sha # None
               PROVE  BuiltFor(storage, p)
    BY DEF ReuseIsSound
  <2>1. meta # None /\ meta.params = p /\ meta.sha = storage
    BY DEF Decision
  <2>2. Whole(storage, p)
    BY <2>1 DEF StorageInv
  <2> QED BY <2>2, WholeIsBuilt
<1> QED BY <1>1, StorageCorrect, PTL

\* A run recorded as completed has the events of a complete storage built with its
\* parameters, unless it reuses one that has no hash, and no partial output:
\* CompletedIsWhole, under the same hypothesis.
THEOREM CompletedRunsAreWhole == ASSUME Alone PROVE Spec => []CompletedIsWhole
<1>1. Typed /\ Begun /\ RunnerInv /\ ImportInv /\ StorageInv => CompletedIsWhole
  <2> SUFFICES ASSUME Typed, RunnerInv, ImportInv, StorageInv, NEW j \in Jobs, row[j].status = "completed"
               PROVE  /\ WithPlaso(j) /\ Trusted(j) => BuiltFor(timeline[j].plaso, job[j].params)
                      /\ timeline[j].tsk # "partial"
                      /\ timeline[j].strings > 0 => output[j].blkls # "partial"
    BY DEF CompletedIsWhole, Trusted
  <2>0. RunnerOK(j) /\ EventsOf(j) /\ RowSays(j) /\ None # "partial"
    BY NoneApart DEF RunnerInv, ImportInv
  <2>1. status[j].state = "completed" /\ PlasoIn(j) /\ timeline[j].tsk = output[j].fls
    BY <2>0 DEF RowSays
  <2>2. timeline[j].tsk # "partial" /\ output[j].blkls # "partial"
    BY <2>0, <2>1 DEF RunnerOK, OutputWhole
  <2>3. ASSUME WithPlaso(j), Trusted(j) PROVE BuiltFor(timeline[j].plaso, job[j].params)
    <3>1. runner[j].at # "off" /\ job[j].mode \in Modes
      <4>1. runner[j].at \in {"exit", "removed"}
        BY <2>0, <2>1 DEF RunnerOK, RunnerStarted, Ended
      <4> QED BY <2>0, <4>1 DEF RunnerOK, RunnerStarted, Typed
    <3>2. /\ status[j].steps \in Seq(States) /\ Len(status[j].steps) \in Nat
          /\ Len(Steps(job[j].mode)) \in Nat
          /\ Len(status[j].steps) <= Len(Steps(job[j].mode))
          /\ Len(status[j].steps) >= Len(Steps(job[j].mode))
          /\ \A i \in 1..Len(status[j].steps) : status[j].steps[i] \notin {"failed", "cancelled"}
      BY <2>0, <2>1, <3>1, JobTypes, StepsFacts DEF RunnerOK, StepsRecorded, AllStepsDone
    <3>3. PICK i \in 1..Len(Steps(job[j].mode)) : Steps(job[j].mode)[i] = "psort"
      BY <2>3 DEF WithPlaso, HasStep, Contains
    <3>4. i \in 1..Len(status[j].steps) /\ status[j].steps[i] \in States
      BY <3>2
    <3>5. status[j].steps[i] = "completed"
      <4>1. status[j].steps[i] \notin {"skipped", "tolerated"}
        BY <2>0, <3>3, <3>4 DEF RunnerOK, StepsRecorded, Tolerated
      <4> QED BY <3>2, <3>4, <4>1 DEF States
    <3>6. PsortDone(j)
      BY <3>1, <3>2, <3>3, <3>4, <3>5, StateDone DEF PsortDone
    <3>7. timeline[j].plaso = output[j].events /\ output[j].events # None
      BY <2>0, <2>1, <3>6, PsortEvents DEF PlasoIn
    <3>8. Whole(output[j].events, job[j].params)
      BY <2>3, <3>7 DEF StorageInv, JobStorage
    <3> QED BY <3>7, <3>8, WholeIsBuilt
  <2> QED BY <2>2, <2>3
<1> QED BY <1>1, StorageCorrect, PTL
=============================================================================
