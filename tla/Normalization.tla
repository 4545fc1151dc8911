---------------------------- MODULE Normalization ----------------------------
(***************************************************************************)
(* The artifacts of tool runs, their JSONL files and their rebuilding:     *)
(* normalizers/pipeline.py (normalize_run, _store_run) and                 *)
(* services/normalization_service.py (replay, rerun).                      *)
(*                                                                         *)
(* A process is one command with a connection of its own; the steps of a   *)
(* profile run are tasks of one process that share its connection, hence   *)
(* its transaction, under db_lock.  A file is written on disk before the   *)
(* transaction that records its SHA-256 commits; a process may die         *)
(* anywhere.  Commits outside of db_lock commit what the task that holds   *)
(* the lock has done so far.  The hash of a content is the content itself. *)
(***************************************************************************)
EXTENDS Naturals, Sequences, FiniteSets

CONSTANTS
  Tasks,     \* tasks
  Process,   \* Process[y]: the process of task y
  Runs,      \* completed tool runs, their raw output on disk
  Keys,      \* keys of the records of the raw output
  Types,     \* artifact types
  Rows,      \* Rows[v][r]: what version v of the normalizer makes of run r
  Careful,   \* no two commands on one run, and a replay alone, at once after a loss?
  Halves,    \* may a task fail in _store_run while its process goes on?
  MaxNumber, \* bound: no loss once a number is above it
  None

Versions == 1..Len(Rows)

\* A row of the raw output has a record key, not always a unique one, and gives
\* an artifact of some type, or is skipped (or fails, which is counted apart).
Skipped == "skipped"
Row == [key : Keys, type : Types \cup {Skipped}]

ASSUME RowsShape ==
  /\ Rows \in Seq([Runs -> Seq(Row)]) \ {<<>>}
  /\ Skipped \notin Types
ASSUME SwitchesBool == Careful \in BOOLEAN /\ Halves \in BOOLEAN
ASSUME ProcessOfTasks == DOMAIN Process = Tasks
ASSUME MaxNumberNat == MaxNumber \in Nat
ASSUME NoneApart == None \notin {Process[t] : t \in Tasks} \cup {"run", "rerun", "replay"}

VARIABLES
  committed,  \* the database: artifacts, and normalized_files with their hashes
  pending,    \* the same, as the open write transaction sees it
  writer,     \* the process whose transaction is open
  disk,       \* normalized/<type>/<run>.jsonl
  version,    \* the installed normalizer
  task,       \* what each task does, and what it holds in memory
  lost,       \* runs whose artifacts were lost and not rebuilt since
  torn        \* runs of which a part was committed, and not all of it since

vars == <<committed, pending, writer, disk, version, task, lost, torn>>

Idle == [pc |-> "idle", cmd |-> None, run |-> None, keep |-> {}, rows |-> <<>>, todo |-> {}, got |-> <<>>]

Init ==
  /\ committed = [arts |-> {}, files |-> {}]
  /\ pending = committed
  /\ writer = None
  /\ disk = [f \in Types \X Runs |-> None]
  /\ version = 1
  /\ task = [t \in Tasks |-> Idle]
  /\ lost = {}
  /\ torn = {}
-----------------------------------------------------------------------------
(* The database.                                                           *)

View(t) == IF writer = Process[t] THEN pending ELSE committed

Write(t, db) ==
  /\ writer \in {None, Process[t]}
  /\ writer' = Process[t]
  /\ pending' = db
  /\ UNCHANGED committed

\* A commit in no transaction changes nothing.
Commit(y) ==
  /\ committed' = IF writer = y THEN pending ELSE committed
  /\ writer' = IF writer = y THEN None ELSE writer
  /\ UNCHANGED pending

NoDb == UNCHANGED <<committed, pending, writer>>

\* INSERT OR REPLACE of rows, in order: the id is the primary key and the
\* number is UNIQUE, so a row goes when a later one has either of its own.
Clash(a, b) == a.id = b.id \/ a.number = b.number

BulkInsert(arts, rows) ==
  {a \in arts : \A i \in DOMAIN rows : ~Clash(a, rows[i])}
    \cup {rows[i] : i \in {j \in DOMAIN rows : \A k \in DOMAIN rows :
                             k > j => ~Clash(rows[j], rows[k])}}

RangeOf(s) == {s[i] : i \in DOMAIN s}

ArtsOf(db, r) == {a \in db.arts : a.id[1] = r}

\* next_artifact_sequence: n is the highest number + 1.
NextSequence(n, db) ==
  /\ n \in {1} \cup {a.number + 1 : a \in db.arts}
  /\ \A a \in db.arts : a.number < n
-----------------------------------------------------------------------------
(* normalize_directory and enrich: the artifacts of a run, by the place of  *)
(* their row in the raw output.  A list of artifacts, and the content of a  *)
(* file, is a function over such places, in their order.                    *)

\* The key of the n-th artifact of one record is suffixed ~n; the id is derived
\* from the run and the key.
Enrich(v, r) ==
  LET rows == Rows[v][r]
      kept == {i \in DOMAIN rows : rows[i].type # Skipped}
  IN [i \in kept |->
        [id      |-> <<r, rows[i].key, Cardinality({j \in kept : j <= i /\ rows[j].key = rows[i].key})>>,
         type    |-> rows[i].type,
         version |-> v]]

\* _store_run: a known id keeps its number, the others continue the sequence.
Numbered(arts, keep, next) ==
  LET Kept(i) == \E k \in keep : k.id = arts[i].id
  IN [i \in DOMAIN arts |->
        [id |-> arts[i].id, type |-> arts[i].type, version |-> arts[i].version,
         number |-> IF Kept(i)
                      THEN (CHOOSE k \in keep : k.id = arts[i].id).number
                      ELSE next + Cardinality({j \in DOMAIN arts : j < i /\ ~Kept(j)})]]

OfType(rows, y) == [i \in {j \in DOMAIN rows : rows[j].type = y} |-> rows[i]]
-----------------------------------------------------------------------------
(* A first normalization or a rerun.                                       *)

Goto(t, pc) == task' = [task EXCEPT ![t].pc = pc]

Storing == {"store", "open", "write", "batch", "commit"}

\* The other tasks of the process of t.
Siblings(t) == {u \in Tasks \ {t} : Process[u] = Process[t]}

Alone(t) == \A u \in Siblings(t) : task[u].pc = "idle"

\* What a careful user waits for before normalizing run r; nobody reruns a run
\* of which there is only a part...
MayNormalize(r) ==
  Careful => /\ r \notin torn
             /\ lost = {} \/ (lost = {r} /\ ArtsOf(committed, r) = {})
             /\ \A u \in Tasks : task[u].run # r /\ task[u].cmd # "replay"

\* ... and before a replay.
MayReplay == Careful => torn = {} /\ \A u \in Tasks : task[u].pc = "idle"

\* run_tool_and_normalize: a run has just completed.
Normalize(t, r) ==
  /\ task[t].pc = "idle" /\ MayNormalize(r)
  /\ \A u \in Siblings(t) : task[u].cmd \in {None, "run"} /\ task[u].run # r
  /\ ArtsOf(committed, r) = {} /\ r \notin lost \cup torn
  /\ task' = [task EXCEPT ![t] = [Idle EXCEPT !.pc = "number", !.cmd = "run", !.run = r,
                                            !.rows = Enrich(version, r)]]
  /\ NoDb
  /\ UNCHANGED <<disk, version, lost, torn>>

\* Mutant of RerunRead: the artifacts of a rerun are numbered anew.
RerunReadMutant(t, r) ==
  /\ task[t].pc = "idle" /\ Alone(t) /\ MayNormalize(r)
  /\ task' = [task EXCEPT ![t] = [Idle EXCEPT !.pc = "delete", !.cmd = "rerun", !.run = r]]
  /\ NoDb
  /\ UNCHANGED <<disk, version, lost, torn>>

\* rerun: the ids and numbers of the run are read...
RerunRead(t, r) ==
  /\ task[t].pc = "idle" /\ Alone(t) /\ MayNormalize(r)
  /\ task' = [task EXCEPT ![t] = [Idle EXCEPT !.pc = "delete", !.cmd = "rerun", !.run = r,
                !.keep = {[id |-> a.id, number |-> a.number] : a \in ArtsOf(committed, r)}]]
  /\ NoDb
  /\ UNCHANGED <<disk, version, lost, torn>>

\* Mutant of RerunDelete: the deletion is committed at once.
RerunDeleteMutant(t) ==
  /\ task[t].pc = "delete"
  /\ writer = None
  /\ committed' = [committed EXCEPT !.arts = @ \ ArtsOf(committed, task[t].run)]
  /\ UNCHANGED <<pending, writer>>
  /\ task' = [task EXCEPT ![t].pc = "number", ![t].rows = Enrich(version, task[t].run)]
  /\ UNCHANGED <<disk, version, lost, torn>>

\* ... its artifacts deleted, the raw output normalized again.
RerunDelete(t) ==
  /\ task[t].pc = "delete"
  /\ Write(t, [View(t) EXCEPT !.arts = @ \ ArtsOf(View(t), task[t].run)])
  /\ task' = [task EXCEPT ![t].pc = "number", ![t].rows = Enrich(version, task[t].run)]
  /\ UNCHANGED <<disk, version, lost, torn>>

\* _store_run, under db_lock: the numbers are read, in no transaction yet when
\* the run is new...
ReadNumbers(t, n) ==
  LET rows == Numbered(task[t].rows, task[t].keep, n)
  IN /\ task[t].pc = "number"
     /\ \A u \in Siblings(t) : task[u].pc \notin Storing
     /\ NextSequence(n, View(t))
     /\ task' = [task EXCEPT ![t].pc = "store", ![t].rows = rows,
                             ![t].todo = {rows[i].type : i \in DOMAIN rows}]
     /\ NoDb
     /\ UNCHANGED <<disk, version, lost, torn>>

\* ... then DELETE FROM normalized_files opens one.
DropRecords(t) ==
  /\ task[t].pc = "store"
  /\ Write(t, [View(t) EXCEPT !.files = {f \in @ : f.run # task[t].run}])
  /\ Goto(t, "open")
  /\ UNCHANGED <<disk, version, lost, torn>>

\* _write_jsonl of the next type: the file is truncated...
OpenFile(t, y) ==
  /\ task[t].pc = "open" /\ y \in task[t].todo
  /\ disk' = [disk EXCEPT ![<<y, task[t].run>>] = <<>>]
  /\ task' = [task EXCEPT ![t].pc = "write", ![t].todo = @ \ {y}, ![t].got = <<y>>]
  /\ NoDb
  /\ UNCHANGED <<version, lost, torn>>

\* Mutant of WriteFile: the hash is the one of the previous file.
WriteFileMutant(t) ==
  LET y == task[t].got[1]
      c == OfType(task[t].rows, y)
      r == task[t].run
  IN /\ task[t].pc = "write"
     /\ disk' = [disk EXCEPT ![<<y, r>>] = c]
     /\ Write(t, [View(t) EXCEPT !.files = @ \cup
          {[run |-> r, type |-> y, hash |-> LET old == {f \in committed.files : f.run = r /\ f.type = y}
                                            IN IF old = {} THEN c ELSE (CHOOSE f \in old : TRUE).hash]}])
     /\ Goto(t, "open")
     /\ UNCHANGED <<version, lost, torn>>

\* ... and filled, its hash inserted.
WriteFile(t) ==
  LET y == task[t].got[1]
      c == OfType(task[t].rows, y)
  IN /\ task[t].pc = "write"
     /\ disk' = [disk EXCEPT ![<<y, task[t].run>>] = c]
     /\ Write(t, [View(t) EXCEPT !.files =
                    @ \cup {[run |-> task[t].run, type |-> y, hash |-> c]}])
     /\ Goto(t, "open")
     /\ UNCHANGED <<version, lost, torn>>

\* The rows that wait to be inserted, by their place.
Left(c) == IF c.pc = "open" THEN DOMAIN c.rows ELSE c.todo

\* bulk_insert: the next batch, up to the n-th row.
InsertArtifacts(t, n) ==
  LET left  == Left(task[t])
      batch == {i \in left : i <= n}
  IN /\ task[t].pc = "batch" \/ (task[t].pc = "open" /\ task[t].todo = {})
     /\ left # {} => batch # {}
     /\ Write(t, [View(t) EXCEPT !.arts = BulkInsert(@, [i \in batch |-> task[t].rows[i]])])
     /\ task' = [task EXCEPT ![t].pc = IF batch = left THEN "commit" ELSE "batch",
                             ![t].todo = left \ batch]
     /\ UNCHANGED <<disk, version, lost, torn>>

\* The files and the artifacts are committed together; the counters follow.
StoreCommit(t) ==
  /\ task[t].pc = "commit"
  /\ Commit(Process[t])
  /\ task' = [task EXCEPT ![t] = Idle]
  /\ lost' = lost \ {task[t].run}
  /\ torn' = torn \ {task[t].run}
  /\ UNCHANGED <<disk, version>>

\* A profile run saves the status of a step or of a tool run, without db_lock:
\* the half of a run that a task has stored is committed with it.
SiblingCommit(y) ==
  LET Ours == {t \in Tasks : Process[t] = y}
  IN /\ writer = y
     /\ \E t, u \in Ours : t # u
     /\ \A t \in Ours : task[t].cmd \in {None, "run"}
     /\ Commit(y)
     /\ torn' = torn \cup {task[t].run : t \in {u \in Ours : task[u].pc \in Storing}}
     /\ UNCHANGED <<disk, version, task, lost>>
-----------------------------------------------------------------------------
(* replay, from the recorded files.                                        *)

ReplayList(t) ==
  /\ task[t].pc = "idle" /\ Alone(t) /\ MayReplay
  /\ committed.files # {}
  /\ task' = [task EXCEPT ![t] = [Idle EXCEPT !.pc = "file", !.cmd = "replay", !.todo = committed.files]]
  /\ NoDb
  /\ UNCHANGED <<disk, version, lost, torn>>

\* A missing file, or one whose hash differs, is refused; the others are read.
\* (Hashing and reading are back to back: one step.)
ReplayFile(t, f) ==
  /\ task[t].pc = "file" /\ f \in task[t].todo
  /\ task' = IF disk[f.type, f.run] # f.hash
               THEN [task EXCEPT ![t].todo = @ \ {f}]
               ELSE [task EXCEPT ![t].todo = @ \ {f}, ![t].pc = "insert", ![t].run = f.run,
                                 ![t].got = disk[f.type, f.run]]
  /\ NoDb
  /\ UNCHANGED <<disk, version, lost, torn>>

\* bulk_insert of one file, committed.  A run is rebuilt once the rows of all
\* its recorded files are back.
ReplayInsert(t) ==
  LET arts == BulkInsert(committed.arts, task[t].got)
      r    == task[t].run
  IN /\ task[t].pc = "insert"
     /\ writer = None
     /\ committed' = [committed EXCEPT !.arts = arts]
     /\ lost' = IF \A f \in committed.files : f.run = r => RangeOf(f.hash) \subseteq arts
                  THEN lost \ {r} ELSE lost
     /\ task' = [task EXCEPT ![t].pc = "file", ![t].got = <<>>]
     /\ UNCHANGED <<pending, writer, disk, version, torn>>

ReplayEnd(t) ==
  /\ task[t].pc = "file" /\ task[t].todo = {}
  /\ task' = [task EXCEPT ![t] = Idle]
  /\ NoDb
  /\ UNCHANGED <<disk, version, lost, torn>>
-----------------------------------------------------------------------------
(* The rest of the world.                                                  *)

\* The process dies: its open transaction is rolled back.  With Halves, a task
\* may also fail alone (its normalizer raises, the disk is full, the database
\* stays locked): nothing rolls its changes back, and the next commit on the
\* connection takes them along.
Die(t) ==
  /\ task[t].pc # "idle"
  /\ \E alone \in (IF Halves /\ task[t].cmd = "run" THEN BOOLEAN ELSE {FALSE}) :
       LET dead == IF alone THEN {t} ELSE {t} \cup Siblings(t)
       IN /\ task' = [u \in Tasks |-> IF u \in dead THEN Idle ELSE task[u]]
          /\ writer' = IF ~alone /\ writer = Process[t] THEN None ELSE writer
  /\ UNCHANGED <<committed, pending, disk, version, lost, torn>>

\* DEFAIR is upgraded between two commands.
Upgrade ==
  /\ version + 1 \in Versions
  /\ \A t \in Tasks : task[t].pc = "idle"
  /\ version' = version + 1
  /\ UNCHANGED <<committed, pending, writer, disk, task, lost, torn>>

\* The artifacts of a run are lost, its files and their record are not.
Lose(r) ==
  /\ writer = None
  /\ Careful => \A t \in Tasks : task[t].pc = "idle"
  /\ ArtsOf(committed, r) # {}
  /\ \A a \in committed.arts : a.number <= MaxNumber
  /\ committed' = [committed EXCEPT !.arts = @ \ ArtsOf(committed, r)]
  /\ lost' = lost \cup {r}
  /\ UNCHANGED <<pending, writer, disk, version, task, torn>>

\* A file is edited by hand.
Tamper(f) ==
  /\ disk[f] \notin {None, <<>>}
  /\ \A t \in Tasks : task[t].pc = "idle"
  /\ disk' = [disk EXCEPT ![f] = [i \in DOMAIN disk[f] |-> [disk[f][i] EXCEPT !.version = 0]]]
  /\ UNCHANGED <<committed, pending, writer, version, task, lost, torn>>

Next ==
  \/ \E t \in Tasks :
       \/ \E r \in Runs : Normalize(t, r) \/ RerunRead(t, r)
       \/ RerunDelete(t) \/ DropRecords(t) \/ WriteFile(t)
       \/ \E n \in {1} \cup {a.number + 1 : a \in View(t).arts} : ReadNumbers(t, n)
       \/ \E y \in Types : OpenFile(t, y)
       \/ (\E n \in {0} \cup DOMAIN task[t].rows : InsertArtifacts(t, n)) \/ StoreCommit(t)
       \/ ReplayList(t) \/ ReplayInsert(t) \/ ReplayEnd(t) \/ Die(t)
       \/ \E f \in task[t].todo : task[t].pc = "file" /\ ReplayFile(t, f)
  \/ \E y \in {Process[t] : t \in Tasks} : SiblingCommit(y)
  \/ Upgrade
  \/ \E r \in Runs : Lose(r)
  \/ \E f \in Types \X Runs : Tamper(f)

Spec == Init /\ [][Next]_vars
-----------------------------------------------------------------------------
(* Properties.                                                             *)

ArtRow  == [id : Runs \X Keys \X Nat, type : Types, version : Nat, number : Nat]

TypeOK ==
  /\ \A db \in {committed, pending} :
       /\ DOMAIN db = {"arts", "files"}
       /\ \A a, b \in db.arts : a \in ArtRow /\ (Clash(a, b) => a = b)
       /\ \A f \in db.files : /\ DOMAIN f = {"run", "type", "hash"}
                              /\ f.run \in Runs /\ f.type \in Types
                              /\ \A i \in DOMAIN f.hash : f.hash[i] \in ArtRow
  /\ writer \in {Process[t] : t \in Tasks} \cup {None}
  /\ \A t \in Tasks : task[t].pc \in Storing => \A u \in Siblings(t) : task[u].pc \notin Storing
  /\ version \in Versions
  /\ lost \subseteq Runs /\ torn \subseteq Runs

\* pipeline.py:1-19: the JSONL files and their hashes describe the artifacts of
\* the database: whatever process died where, a replay that accepts the files
\* of a run gives back its artifacts with their ids and numbers, and no other.
\* Runs that a sibling's commit tore, until all of them is committed, are left out.
RecordMatchesTable ==
  \A r \in Runs \ torn :
    LET recorded == UNION {RangeOf(f.hash) : f \in {g \in committed.files : g.run = r}}
    IN IF r \in lost THEN ArtsOf(committed, r) \subseteq recorded
                     ELSE ArtsOf(committed, r) = recorded

\* normalization_service.py:6 ("re-normalize a tool run from its raw output"):
\* the artifacts of a run are those of one version of its normalizer, all of
\* them: a rerun that dies leaves the old ones, and none is lost on the way.  Torn
\* runs are left out.
Whole(r) ==
  \/ ArtsOf(committed, r) = {}
  \/ \E v \in Versions :
       {[id |-> a.id, type |-> a.type, version |-> a.version] : a \in ArtsOf(committed, r)}
         = RangeOf(Enrich(v, r))

RunsWhole == \A r \in Runs \ (lost \cup torn) : Whole(r)

\* pipeline.py:181 ("one commit at the end"): there is never a part of a run that
\* nobody is storing.  TLC refutes it: a sibling commits between two batches, then
\* the process dies.
NoPart ==
  \A r \in Runs \ lost : Whole(r) \/ \E t \in Tasks : task[t].run = r

\* pipeline.py:230-231: an artifact keeps its number as well as its id on a rerun;
\* findings and reports quote the number.
NumbersKept ==
  [][\A a \in committed.arts, b \in committed'.arts : a.id = b.id => a.number = b.number]_vars
=============================================================================
