------------------------------- MODULE ToolRuns -------------------------------
(***************************************************************************)
(* Tool runs and their artifacts in the case database:                     *)
(* services/analysis_service.py (run_tool) with the numbering and the bulk *)
(* insertion of normalizers/pipeline.py.                                   *)
(*                                                                         *)
(* Every process has one SQLite connection, shared by its asyncio tasks;   *)
(* each task executes one tool.  Numbers (RUN-NNN, ART-NNN) are read from  *)
(* the table, then inserted, under a lock of the connection.  A connection *)
(* that has written sees its own changes, the others see what is           *)
(* committed, and there is one open write transaction at a time (WAL).     *)
(***************************************************************************)
EXTENDS Naturals, FiniteSets

CONSTANTS
  Conns,      \* connections, one per process
  Tasks,      \* tool runs; a task's name is also the uuid of its row
  ConnOf,     \* the process each task belongs to
  MayCancel,  \* may a task be cancelled (step timeout, cancelled run)?
  Nobody

ASSUME ConnOfType == ConnOf \in [Tasks -> Conns]
ASSUME MayCancelBool == MayCancel \in BOOLEAN
ASSUME NobodyElse == Nobody \notin Conns \cup Tasks

VARIABLES
  committed,  \* the database
  pending,    \* the database as the open write transaction sees it
  writer,     \* the connection whose transaction is open
  lock,       \* db_lock(conn): the task that holds it
  pc,         \* next statement of each task
  number,     \* run number of each task, 0 before it has one
  artNumber   \* number of its artifact (one per run is enough)

vars == <<committed, pending, writer, lock, pc, number, artNumber>>

\* Statements executed inside `async with db_lock(conn)'.
Locked == {"max", "insert", "insertCommit", "normMax", "normInsert", "normCommit"}
Over   == {"done", "failed", "cancelled"}
Pc     == {"idle", "lock", "tool", "save", "saveCommit", "failCommit",
           "cancelSave", "cancelCommit", "normLock"} \cup Locked \cup Over

RunStatus == {"running", "completed", "failed", "cancelled"}   \* failed: or timeout
RunRow == [id : Tasks, number : Nat, status : RunStatus]
ArtRow == [run : Tasks, number : Nat]
Db     == [runs : SUBSET RunRow, arts : SUBSET ArtRow]

Init ==
  /\ committed = [runs |-> {}, arts |-> {}]
  /\ pending = committed
  /\ writer = Nobody
  /\ lock = [c \in Conns |-> Nobody]
  /\ pc = [t \in Tasks |-> "idle"]
  /\ number = [t \in Tasks |-> 0]
  /\ artNumber = [t \in Tasks |-> 0]
-----------------------------------------------------------------------------
(* The database and the event loop.                                        *)

View(c) == IF writer = c THEN pending ELSE committed

CanWrite(c) == writer \in {Nobody, c}

Write(c, db) ==
  /\ CanWrite(c)
  /\ writer' = c
  /\ pending' = db
  /\ UNCHANGED committed

\* commit() ends whatever transaction the connection has, if any.
Commit(c) ==
  IF writer = c
    THEN committed' = pending /\ writer' = Nobody /\ UNCHANGED pending
    ELSE UNCHANGED <<committed, pending, writer>>

NoDb == UNCHANGED <<committed, pending, writer>>

\* MAX(number) + 1.
NextNumber(n, rows) ==
  /\ n \in {1} \cup {r.number + 1 : r \in rows}
  /\ \A r \in rows : r.number < n

\* INSERT OR REPLACE into tool_runs: a row with the same id or the same number
\* goes; the foreign key of the artifacts forbids that a run with artifacts does.
Put(runs, row) == {r \in runs : r.id # row.id /\ r.number # row.number} \cup {row}

Referenced(db, row) ==
  \E r \in db.runs, a \in db.arts :
    r.number = row.number /\ r.id # row.id /\ a.run = r.id

\* Mutant of Goto: the lock is not released by an exception.
GotoMutant(t, next) ==
  LET c == ConnOf[t]
  IN /\ pc' = [pc EXCEPT ![t] = next]
     /\ lock' = IF lock[c] = t /\ next \notin Locked \cup {"failed", "cancelled"}
                  THEN [lock EXCEPT ![c] = Nobody] ELSE lock

\* Task t goes to statement `next'; leaving the `async with' frees the lock.
Goto(t, next) ==
  LET c == ConnOf[t]
  IN /\ pc' = [pc EXCEPT ![t] = next]
     /\ lock' = IF lock[c] = t /\ next \notin Locked
                  THEN [lock EXCEPT ![c] = Nobody] ELSE lock

\* CancelledError in the await of statement `from'.  A statement once queued is
\* executed by the connection's thread all the same.  Only the tool itself is
\* inside the `try' of run_tool.
Cut(from) ==
  IF ~MayCancel THEN {}
  ELSE IF from = "tool" THEN {"cancelSave"} ELSE {"cancelled"}

Step(t, from, to) ==
  /\ pc[t] = from
  /\ \E next \in {to} \cup Cut(from) : Goto(t, next)

\* The write of a run's row, or the IntegrityError of the foreign key.
SaveRun(t, from, status, to) ==
  LET c   == ConnOf[t]
      row == [id |-> t, number |-> number[t], status |-> status]
  IN \/ /\ ~Referenced(View(c), row)
        /\ Write(c, [View(c) EXCEPT !.runs = Put(@, row)])
        /\ Step(t, from, to)
     \/ /\ Referenced(View(c), row)
        /\ Write(c, View(c))
        /\ Step(t, from, "failed")
-----------------------------------------------------------------------------
(* run_tool.                                                               *)

Begin(t) == pc[t] = "idle" /\ Goto(t, "lock") /\ NoDb /\ UNCHANGED <<number, artNumber>>

\* Mutant of TakeLock: nothing serializes the tasks of a connection.
TakeLockMutant(t) ==
  /\ \/ Step(t, "lock", "max")
     \/ Step(t, "normLock", "normMax")
  /\ NoDb
  /\ UNCHANGED <<number, artNumber>>

TakeLock(t) ==
  /\ lock[ConnOf[t]] = Nobody
  /\ \E from \in {"lock", "normLock"} :
       /\ pc[t] = from
       /\ pc' = [pc EXCEPT ![t] = IF from = "lock" THEN "max" ELSE "normMax"]
  /\ lock' = [lock EXCEPT ![ConnOf[t]] = t]
  /\ NoDb
  /\ UNCHANGED <<number, artNumber>>

\* A task may be cancelled while it waits for the lock.
LeaveQueue(t) ==
  /\ MayCancel
  /\ pc[t] \in {"lock", "normLock"}
  /\ Goto(t, "cancelled")
  /\ NoDb
  /\ UNCHANGED <<number, artNumber>>

\* Mutant of ReadMax: the + 1 is forgotten.
ReadMaxMutant(t) ==
  /\ Step(t, "max", "insert")
  /\ \E n \in {1} \cup {r.number : r \in View(ConnOf[t]).runs} :
       /\ \A r \in View(ConnOf[t]).runs : r.number <= n
       /\ number' = [number EXCEPT ![t] = n]
  /\ NoDb
  /\ UNCHANGED artNumber

\* _next_run_number.
ReadMax(t) ==
  /\ Step(t, "max", "insert")
  /\ \E n \in {1} \cup {r.number + 1 : r \in View(ConnOf[t]).runs} :
       /\ NextNumber(n, View(ConnOf[t]).runs)
       /\ number' = [number EXCEPT ![t] = n]
  /\ NoDb
  /\ UNCHANGED artNumber

Insert(t) == SaveRun(t, "insert", "running", "insertCommit") /\ UNCHANGED <<number, artNumber>>

InsertCommit(t) ==
  Step(t, "insertCommit", "tool") /\ Commit(ConnOf[t]) /\ UNCHANGED <<number, artNumber>>

\* tool.run returns: whatever the exit code, the row is saved.
ToolEnds(t) ==
  Step(t, "tool", "save") /\ NoDb /\ UNCHANGED <<number, artNumber>>

SaveCompleted(t) ==
  SaveRun(t, "save", "completed", "saveCommit") /\ UNCHANGED <<number, artNumber>>

\* Mutant of SaveFailed: the output of a failed run is normalized.
SaveFailedMutant(t) ==
  SaveRun(t, "save", "failed", "saveCommit") /\ UNCHANGED <<number, artNumber>>

SaveFailed(t) ==
  SaveRun(t, "save", "failed", "failCommit") /\ UNCHANGED <<number, artNumber>>

\* Only a completed run is normalized.
SaveCommit(t) ==
  /\ Step(t, "saveCommit", "normLock") \/ Step(t, "failCommit", "done")
  /\ Commit(ConnOf[t])
  /\ UNCHANGED <<number, artNumber>>

SaveCancelled(t) ==
  SaveRun(t, "cancelSave", "cancelled", "cancelCommit") /\ UNCHANGED <<number, artNumber>>

CancelCommit(t) ==
  Step(t, "cancelCommit", "cancelled") /\ Commit(ConnOf[t]) /\ UNCHANGED <<number, artNumber>>
-----------------------------------------------------------------------------
(* _store_run: the artifacts of a completed run.                           *)

\* Mutant of NormMax: each run numbers its artifacts from 1.
NormMaxMutant(t) ==
  /\ Step(t, "normMax", "normInsert")
  /\ artNumber' = [artNumber EXCEPT ![t] = 1]
  /\ NoDb
  /\ UNCHANGED number

NormMax(t) ==
  /\ Step(t, "normMax", "normInsert")
  /\ \E n \in {1} \cup {a.number + 1 : a \in View(ConnOf[t]).arts} :
       /\ NextNumber(n, View(ConnOf[t]).arts)
       /\ artNumber' = [artNumber EXCEPT ![t] = n]
  /\ NoDb
  /\ UNCHANGED number

\* bulk_insert: INSERT OR REPLACE; the run the artifact refers to must exist.
NormInsert(t) ==
  LET c   == ConnOf[t]
      art == [run |-> t, number |-> artNumber[t]]
  IN /\ \/ /\ \E r \in View(c).runs : r.id = t
           /\ Write(c, [View(c) EXCEPT !.arts =
                          {a \in @ : a.run # t /\ a.number # art.number} \cup {art}])
           /\ Step(t, "normInsert", "normCommit")
        \/ /\ \A r \in View(c).runs : r.id # t
           /\ Write(c, View(c))
           /\ Step(t, "normInsert", "failed")
     /\ UNCHANGED <<number, artNumber>>

NormCommit(t) ==
  Step(t, "normCommit", "done") /\ Commit(ConnOf[t]) /\ UNCHANGED <<number, artNumber>>
-----------------------------------------------------------------------------
(* What else happens on the connection.                                    *)

\* A statement that is not of a tool run (the row of a profile run, another
\* command in another process) opens a transaction on connection c...
OtherWrite(c) ==
  /\ writer = Nobody
  /\ Write(c, committed)
  /\ UNCHANGED <<lock, pc, number, artNumber>>

\* ...or commits, with what a cancelled task has left uncommitted.
OtherCommit(c) ==
  /\ writer = c
  /\ Commit(c)
  /\ UNCHANGED <<lock, pc, number, artNumber>>

\* The process ends: its open transaction is rolled back.
Close(c) ==
  /\ writer = c
  /\ \A t \in Tasks : ConnOf[t] = c => pc[t] \in Over
  /\ writer' = Nobody
  /\ pending' = committed
  /\ UNCHANGED <<committed, lock, pc, number, artNumber>>

\* A write that waits for another connection's transaction gives up after the
\* busy timeout: "database is locked".
Busy(t) ==
  /\ ~CanWrite(ConnOf[t])
  /\ pc[t] \in {"insert", "save", "cancelSave", "normInsert"}
  /\ Goto(t, "failed")
  /\ NoDb
  /\ UNCHANGED <<number, artNumber>>

TaskStep(t) ==
  \/ TakeLock(t) \/ ReadMax(t) \/ Insert(t) \/ InsertCommit(t) \/ ToolEnds(t)
  \/ SaveCompleted(t) \/ SaveFailed(t) \/ SaveCommit(t)
  \/ SaveCancelled(t) \/ CancelCommit(t)
  \/ NormMax(t) \/ NormInsert(t) \/ NormCommit(t)

Next == \/ \E t \in Tasks : Begin(t) \/ TaskStep(t) \/ LeaveQueue(t) \/ Busy(t)
        \/ \E c \in Conns : OtherWrite(c) \/ OtherCommit(c) \/ Close(c)

Spec == Init /\ [][Next]_vars

\* Ready tasks run and tools have timeouts; a write that cannot get the
\* database raises after the busy timeout.
FairSpec == Spec /\ WF_vars(\E t \in Tasks : TaskStep(t) \/ Busy(t))
-----------------------------------------------------------------------------
(* Properties.                                                             *)

TypeOK ==
  /\ committed \in Db /\ pending \in Db
  /\ writer \in Conns \cup {Nobody}
  /\ lock \in [Conns -> Tasks \cup {Nobody}]
  /\ pc \in [Tasks -> Pc]
  /\ number \in [Tasks -> Nat]
  /\ artNumber \in [Tasks -> Nat]

\* analysis_service.py:121: "Insert a RUNNING row so parallel runs never get
\* the same RUN-NNN".  Runs with the same number would also write into, and
\* empty, the same output directory.
NumbersUnique ==
  \A t, u \in Tasks :
    pc[t] = "tool" /\ pc[u] = "tool" /\ number[t] = number[u] => t = u

\* The record of a tool run is never replaced by the record of another.
RunRowsKept ==
  [][\A r \in committed.runs :
       \E q \in committed'.runs : q.id = r.id /\ q.number = r.number]_vars

\* An artifact that was stored stays, whatever is stored after it: findings and
\* replays refer to it by its id.
ArtifactsKept == [][committed.arts \subseteq committed'.arts]_vars

\* models/tool_run.py: every artifact can be traced back to the tool run that
\* created it, a run that completed.
ArtifactsTraceable ==
  \A a \in committed.arts :
    \E r \in committed.runs : r.id = a.run /\ r.status = "completed"

\* Every tool run that has begun ends: the lock of the connection is released
\* and no open transaction blocks the other processes forever.
RunsEnd == <>[](\A t \in Tasks : pc[t] \in {"idle"} \cup Over)
=============================================================================
