---------------------------- MODULE ToolRunsProofs ----------------------------
(***************************************************************************)
(* Theorems about ToolRuns, for any number of tool runs of one process,    *)
(* with or without cancellation, beside any number of other connections.   *)
(***************************************************************************)
EXTENDS ToolRuns, TLAPS

\* The hypothesis of the theorems about the records: all tool runs belong to
\* one process.  (Nothing orders the numbering of two processes.)
Together == \A t, u \in Tasks : ConnOf[t] = ConnOf[u]

Home == {ConnOf[t] : t \in Tasks}

\* No two rows of a database have the same id or number, and an artifact is of
\* a run that completed.
SoundDb(db) ==
  /\ \A r, q \in db.runs : r.id = q.id \/ r.number = q.number => r = q
  /\ \A a \in db.arts : \E r \in db.runs : r.id = a.run /\ r.status = "completed"

\* Nothing of the database `old' is missing in `new'.
Grows(old, new) ==
  /\ \A r \in old.runs : \E q \in new.runs : q.id = r.id /\ q.number = r.number
  /\ old.arts \subseteq new.arts

\* Exactly the tasks inside `async with db_lock(conn)' hold the lock.
LockHeld ==
  \A c \in Conns, t \in Tasks :
    lock[c] = t <=> ConnOf[t] = c /\ pc[t] \in Locked

\* What the open transaction sees is what the tasks see: a transaction of
\* another process has changed nothing of the tool runs.
OneView == writer \notin Home => pending = committed

Unrecorded == {"idle", "lock", "max", "insert"}
Completed  == {"saveCommit", "normLock", "normMax", "normInsert", "normCommit"}

\* A task has no row before its insertion and its own row afterwards, until it
\* is over; a number it has read is still free when it is used.
Recorded(t) ==
  /\ pc[t] \in Unrecorded => \A r \in pending.runs : r.id # t
  /\ pc[t] = "insert" => \A r \in pending.runs : r.number < number[t]
  /\ pc[t] \notin Unrecorded \cup Over =>
       \E r \in pending.runs :
         /\ r.id = t /\ r.number = number[t]
         /\ pc[t] \in Completed => r.status = "completed"
  /\ pc[t] \notin {"normCommit"} \cup Over => \A a \in pending.arts : a.run # t
  /\ pc[t] = "normInsert" => \A a \in pending.arts : a.number < artNumber[t]

Inv ==
  /\ TypeOK
  /\ LockHeld
  /\ OneView
  /\ SoundDb(committed) /\ SoundDb(pending) /\ Grows(committed, pending)
  /\ \A t \in Tasks : Recorded(t)

(***************************************************************************)
(* Type correctness, for any assignment of tasks to connections.           *)
(***************************************************************************)
\* A number read from a table of numbered rows is a natural number, so every
\* action keeps every variable of run_tool in its type.
LEMMA TypeStep == TypeOK /\ [Next]_vars => TypeOK'
<1> SUFFICES ASSUME TypeOK, [Next]_vars PROVE TypeOK'
  OBVIOUS
<1> USE ConnOfType DEF TypeOK, Db, Pc, Locked, Over
<1>0. \A c : View(c) \in Db
  BY DEF View
<1>1. ASSUME NEW t \in Tasks, NEW next \in Pc, Goto(t, next)
      PROVE  pc' \in [Tasks -> Pc] /\ lock' \in [Conns -> Tasks \cup {Nobody}]
  BY <1>1 DEF Goto
<1>2. ASSUME NEW t \in Tasks, NEW from \in Pc, NEW to \in Pc, Step(t, from, to)
      PROVE  pc' \in [Tasks -> Pc] /\ lock' \in [Conns -> Tasks \cup {Nobody}]
  BY <1>1, <1>2 DEF Step, Cut
<1>3. ASSUME NEW c \in Conns, NEW db \in Db, Write(c, db)
      PROVE  committed' \in Db /\ pending' \in Db /\ writer' \in Conns \cup {Nobody}
  BY <1>3 DEF Write
<1>4. ASSUME NEW c \in Conns, Commit(c)
      PROVE  committed' \in Db /\ pending' \in Db /\ writer' \in Conns \cup {Nobody}
  BY <1>4 DEF Commit
<1>5. ASSUME NEW t \in Tasks, NEW from \in Pc, NEW status \in RunStatus, NEW to \in Pc,
             SaveRun(t, from, status, to), UNCHANGED <<number, artNumber>>
      PROVE  TypeOK'
  <2> DEFINE row == [id |-> t, number |-> number[t], status |-> status]
  <2>1. row \in RunRow
    BY DEF RunRow
  <2>2. [View(ConnOf[t]) EXCEPT !.runs = Put(@, row)] \in Db
    BY <1>0, <2>1 DEF Put
  <2>3. committed' \in Db /\ pending' \in Db /\ writer' \in Conns \cup {Nobody}
    BY <1>0, <1>3, <1>5, <2>2 DEF SaveRun
  <2>4. Step(t, from, to) \/ Step(t, from, "failed")
    BY <1>5 DEF SaveRun
  <2> QED BY <1>2, <1>5, <2>3, <2>4
<1>6. ASSUME NEW rows, NEW n, NextNumber(n, rows), \A r \in rows : r.number \in Nat
      PROVE  n \in Nat
  BY <1>6 DEF NextNumber
<1> USE DEF NoDb, RunStatus
<1>7. ASSUME NEW t \in Tasks, Begin(t) \/ LeaveQueue(t) \/ Busy(t) PROVE TypeOK'
  BY <1>1, <1>7 DEF Begin, LeaveQueue, Busy
<1>8. ASSUME NEW t \in Tasks, TakeLock(t) PROVE TypeOK'
  BY <1>8 DEF TakeLock
<1>9. ASSUME NEW t \in Tasks, ReadMax(t) PROVE TypeOK'
  <2>1. number' \in [Tasks -> Nat]
    BY <1>0, <1>6, <1>9 DEF ReadMax, RunRow
  <2> QED BY <1>2, <1>9, <2>1 DEF ReadMax
<1>10. ASSUME NEW t \in Tasks, Insert(t) PROVE TypeOK'
  BY <1>5, <1>10 DEF Insert
<1>11. ASSUME NEW t \in Tasks, InsertCommit(t) \/ SaveCommit(t) \/ CancelCommit(t)
                               \/ NormCommit(t)
       PROVE TypeOK'
  <2>1. Commit(ConnOf[t]) /\ UNCHANGED <<number, artNumber>>
    BY <1>11 DEF InsertCommit, SaveCommit, CancelCommit, NormCommit
  <2>2. pc' \in [Tasks -> Pc] /\ lock' \in [Conns -> Tasks \cup {Nobody}]
    BY <1>2, <1>11 DEF InsertCommit, SaveCommit, CancelCommit, NormCommit
  <2> QED BY <1>4, <2>1, <2>2
<1>12. ASSUME NEW t \in Tasks, ToolEnds(t) PROVE TypeOK'
  BY <1>2, <1>12 DEF ToolEnds
<1>13. ASSUME NEW t \in Tasks, SaveCompleted(t) \/ SaveFailed(t) \/ SaveCancelled(t)
       PROVE TypeOK'
  BY <1>5, <1>13 DEF SaveCompleted, SaveFailed, SaveCancelled
<1>14. ASSUME NEW t \in Tasks, NormMax(t) PROVE TypeOK'
  <2>1. artNumber' \in [Tasks -> Nat]
    BY <1>0, <1>6, <1>14 DEF NormMax, ArtRow
  <2> QED BY <1>2, <1>14, <2>1 DEF NormMax
<1>15. ASSUME NEW t \in Tasks, NormInsert(t) PROVE TypeOK'
  <2> DEFINE art == [run |-> t, number |-> artNumber[t]]
             db == [View(ConnOf[t]) EXCEPT !.arts =
                      {a \in @ : a.run # t /\ a.number # art.number} \cup {art}]
  <2>1. db \in Db
    BY <1>0 DEF ArtRow
  <2>2. Write(ConnOf[t], db) \/ Write(ConnOf[t], View(ConnOf[t]))
    BY <1>15 DEF NormInsert
  <2>3. committed' \in Db /\ pending' \in Db /\ writer' \in Conns \cup {Nobody}
    BY <1>0, <1>3, <2>1, <2>2
  <2>4. Step(t, "normInsert", "normCommit") \/ Step(t, "normInsert", "failed")
    BY <1>15 DEF NormInsert
  <2>5. UNCHANGED <<number, artNumber>>
    BY <1>15 DEF NormInsert
  <2> QED BY <1>2, <2>3, <2>4, <2>5
<1>16. ASSUME NEW c \in Conns, OtherWrite(c) \/ OtherCommit(c) \/ Close(c) PROVE TypeOK'
  BY <1>3, <1>4, <1>16 DEF OtherWrite, OtherCommit, Close
<1>17. CASE UNCHANGED vars
  BY <1>17 DEF vars
<1> QED
  BY <1>7, <1>8, <1>9, <1>10, <1>11, <1>12, <1>13, <1>14, <1>15, <1>16, <1>17
     DEF Next, TaskStep

\* The first state is well typed.
LEMMA TypeInit == Init => TypeOK
BY ConnOfType DEF Init, TypeOK, Db, Pc

\* Every state of run_tool and of its database is well typed.
THEOREM TypeCorrect == Spec => []TypeOK
BY TypeInit, TypeStep, PTL DEF Spec

(***************************************************************************)
(* The lock of the connection.                                             *)
(***************************************************************************)
\* A move of a task takes the lock on entering a locked statement only through
\* TakeLock and frees it on leaving the last one.
LEMMA LockStep ==
  ASSUME TypeOK, LockHeld, [Next]_vars PROVE LockHeld'
<1> USE ConnOfType, NobodyElse DEF TypeOK, LockHeld, Locked
<1>1. ASSUME NEW t \in Tasks, NEW next, Goto(t, next),
             next \in Locked => pc[t] \in Locked
      PROVE LockHeld'
  BY <1>1 DEF Goto, Pc
<1>2. ASSUME NEW t \in Tasks, NEW from, NEW to, Step(t, from, to),
             to \in Locked => from \in Locked
      PROVE LockHeld'
  BY <1>1, <1>2 DEF Step, Cut
<1>3. ASSUME NEW t \in Tasks, NEW from, NEW status, NEW to, SaveRun(t, from, status, to),
             to \in Locked => from \in Locked
      PROVE LockHeld'
  <2>1. Step(t, from, to) \/ Step(t, from, "failed")
    BY <1>3 DEF SaveRun
  <2> QED BY <1>2, <1>3, <2>1
<1>4. ASSUME NEW t \in Tasks, Begin(t) \/ LeaveQueue(t) \/ Busy(t) PROVE LockHeld'
  BY <1>1, <1>4 DEF Begin, LeaveQueue, Busy
<1>5. ASSUME NEW t \in Tasks, TakeLock(t) PROVE LockHeld'
  <2>1. lock[ConnOf[t]] = Nobody /\ lock' = [lock EXCEPT ![ConnOf[t]] = t]
    BY <1>5 DEF TakeLock
  <2>2. PICK q \in {"max", "normMax"} : pc' = [pc EXCEPT ![t] = q]
    BY <1>5 DEF TakeLock
  <2>3. ASSUME NEW c \in Conns, NEW u \in Tasks
        PROVE  lock'[c] = u <=> ConnOf[u] = c /\ pc'[u] \in Locked
    BY <2>1, <2>2
  <2> QED BY <2>3
<1>6. ASSUME NEW t \in Tasks, Insert(t) \/ SaveCompleted(t) \/ SaveFailed(t) \/ SaveCancelled(t)
      PROVE LockHeld'
  BY <1>3, <1>6 DEF Insert, SaveCompleted, SaveFailed, SaveCancelled
<1>7. ASSUME NEW t \in Tasks,
             ReadMax(t) \/ InsertCommit(t) \/ ToolEnds(t) \/ SaveCommit(t)
             \/ CancelCommit(t) \/ NormMax(t) \/ NormInsert(t) \/ NormCommit(t)
      PROVE LockHeld'
  BY <1>2, <1>7 DEF ReadMax, InsertCommit, ToolEnds, SaveCommit, CancelCommit,
                    NormMax, NormInsert, NormCommit
<1>8. ASSUME NEW c \in Conns, OtherWrite(c) \/ OtherCommit(c) \/ Close(c) PROVE LockHeld'
  BY <1>8 DEF OtherWrite, OtherCommit, Close
<1>9. CASE UNCHANGED vars
  BY <1>9 DEF vars
<1> QED
  BY <1>4, <1>5, <1>6, <1>7, <1>8, <1>9 DEF Next, TaskStep

(***************************************************************************)
(* The database.                                                           *)
(***************************************************************************)
Databases ==
  /\ OneView
  /\ SoundDb(committed) /\ SoundDb(pending) /\ Grows(committed, pending)

\* What a task reads is `pending', whoever has the open transaction.
LEMMA ViewIsPending ==
  ASSUME Together, TypeOK, OneView, NEW t \in Tasks
  PROVE  View(ConnOf[t]) = pending
BY ConnOfType, NobodyElse DEF Together, OneView, Home, View

\* A commit, whoever makes it, publishes what the tasks see already.
LEMMA CommitKeeps ==
  ASSUME TypeOK, Databases, NEW c \in Conns, Commit(c)
  PROVE  Databases' /\ pending' = pending /\ committed' \in {committed, pending}
<1>1. pending' = pending /\ committed' \in {committed, pending}
  BY DEF Commit
<1>2. OneView'
  BY DEF Commit, Databases, OneView, Home
<1>3. SoundDb(committed') /\ SoundDb(pending')
  BY <1>1 DEF Databases
<1>4. Grows(committed', pending')
  BY <1>1 DEF Databases, Grows
<1> QED BY <1>1, <1>2, <1>3, <1>4 DEF Databases, SoundDb, Grows

\* One task at a time is between reading the last number and the commit of the
\* row that uses it.
LEMMA OneNumbering ==
  ASSUME Together, TypeOK, LockHeld, NEW t \in Tasks, NEW u \in Tasks,
         pc[t] \in Locked, pc[u] \in Locked
  PROVE  t = u
BY ConnOfType DEF Together, LockHeld, TypeOK

Saves == {"insert", "save", "cancelSave"}

\* At the write of a run's row its number is free or its own: the row of no
\* other run is replaced, and the foreign key of the artifacts never refuses it.
LEMMA SaveKeeps ==
  ASSUME Together, TypeOK, Databases, NEW t \in Tasks, Recorded(t),
         NEW from \in Saves, NEW status, NEW to, SaveRun(t, from, status, to)
  PROVE  /\ Databases'
         /\ Step(t, from, to)
         /\ pending'.arts = pending.arts
         /\ pending'.runs = {r \in pending.runs : r.id # t}
                              \cup {[id |-> t, number |-> number[t], status |-> status]}
         /\ committed' = committed
<1> USE DEF Saves
<1> DEFINE row == [id |-> t, number |-> number[t], status |-> status]
           new == [pending EXCEPT !.runs = Put(@, row)]
<1>1. pc[t] = from /\ View(ConnOf[t]) = pending
  BY ViewIsPending DEF SaveRun, Step, Databases
<1>2. \A r \in pending.runs : r.number = number[t] => r.id = t
  BY <1>1 DEF Recorded, Unrecorded, Over, Databases, SoundDb, TypeOK, Db, RunRow
<1>3. ~Referenced(pending, row)
  BY <1>2 DEF Referenced
<1>4. Write(ConnOf[t], new) /\ Step(t, from, to)
  BY <1>1, <1>3 DEF SaveRun
<1>5. pending' = new /\ committed' = committed /\ writer' = ConnOf[t]
  BY <1>4 DEF Write
<1>6. pending \in [runs : SUBSET RunRow, arts : SUBSET ArtRow]
  BY DEF TypeOK, Db
<1>7. /\ pending'.arts = pending.arts
      /\ pending'.runs = Put(pending.runs, row)
  BY <1>5, <1>6
<1>8. pending'.runs = {r \in pending.runs : r.id # t} \cup {row}
  BY <1>2, <1>7 DEF Put
<1>9. \A a \in pending.arts : a.run # t
  BY <1>1 DEF Recorded, Over
<1>10. OneView'
  BY <1>5 DEF OneView, Home
<1>11. SoundDb(pending)'
  <2>1. ASSUME NEW r \in pending'.runs, NEW q \in pending'.runs,
               r.id = q.id \/ r.number = q.number
        PROVE  r = q
    BY <1>2, <1>8, <2>1 DEF Databases, SoundDb
  <2>2. ASSUME NEW a \in pending'.arts
        PROVE  \E r \in pending'.runs : r.id = a.run /\ r.status = "completed"
    <3>1. PICK r \in pending.runs : r.id = a.run /\ r.status = "completed"
      BY <1>7 DEF Databases, SoundDb
    <3>2. r.id # t
      BY <1>7, <1>9, <3>1
    <3> QED BY <1>8, <3>1, <3>2
  <2> QED BY <2>1, <2>2 DEF SoundDb
<1>12. Grows(committed, pending)'
  <2>1. ASSUME NEW r \in committed.runs
        PROVE  \E q \in pending'.runs : q.id = r.id /\ q.number = r.number
    <3>1. PICK q \in pending.runs : q.id = r.id /\ q.number = r.number
      BY DEF Databases, Grows
    <3>2. CASE q.id # t
      BY <1>8, <3>1, <3>2
    <3>3. CASE q.id = t
      <4>1. q.number = number[t]
        BY <1>1, <3>3 DEF Recorded, Unrecorded, Over, Databases, SoundDb
      <4>2. row \in pending'.runs /\ row.id = t /\ row.number = number[t]
        BY <1>8
      <4> QED BY <3>1, <3>3, <4>1, <4>2
    <3> QED BY <3>2, <3>3
  <2> QED BY <1>5, <1>7, <2>1 DEF Grows, Databases
<1>13. SoundDb(committed)'
  BY <1>5 DEF Databases, SoundDb
<1> QED BY <1>4, <1>5, <1>7, <1>8, <1>10, <1>11, <1>12, <1>13 DEF Databases

\* An artifact is stored under a number of its own, for a run that completed.
LEMMA StoreKeeps ==
  ASSUME Together, TypeOK, Databases, NEW t \in Tasks, Recorded(t), NormInsert(t)
  PROVE  /\ Databases'
         /\ Step(t, "normInsert", "normCommit")
         /\ pending'.runs = pending.runs
         /\ pending'.arts = pending.arts \cup {[run |-> t, number |-> artNumber[t]]}
         /\ committed' = committed
<1> DEFINE art == [run |-> t, number |-> artNumber[t]]
           new == [pending EXCEPT !.arts =
                     {a \in @ : a.run # t /\ a.number # art.number} \cup {art}]
<1>1. pc[t] = "normInsert" /\ View(ConnOf[t]) = pending
  BY ViewIsPending DEF NormInsert, Step, Databases
<1>2. PICK r \in pending.runs : r.id = t /\ r.status = "completed"
  BY <1>1 DEF Recorded, Unrecorded, Over, Completed
<1>3. Write(ConnOf[t], new) /\ Step(t, "normInsert", "normCommit")
  BY <1>1, <1>2 DEF NormInsert
<1>4. pending' = new /\ committed' = committed /\ writer' = ConnOf[t]
  BY <1>3 DEF Write
<1>5. pending \in [runs : SUBSET RunRow, arts : SUBSET ArtRow]
  BY DEF TypeOK, Db
<1>6. \A a \in pending.arts : a.run # t /\ a.number < artNumber[t] /\ a.number \in Nat
  BY <1>1, <1>5 DEF Recorded, Over, ArtRow
<1>7. /\ pending'.runs = pending.runs
      /\ pending'.arts = {a \in pending.arts : a.run # t /\ a.number # art.number} \cup {art}
  BY <1>4, <1>5
<1>8. \A a \in pending.arts : a.run # t /\ a.number # art.number
  BY <1>6 DEF TypeOK
<1>9. pending'.arts = pending.arts \cup {art}
  BY <1>7, <1>8
<1>10. OneView'
  BY <1>4 DEF OneView, Home
<1>11. SoundDb(pending)'
  BY <1>2, <1>7, <1>9 DEF Databases, SoundDb
<1>12. Grows(committed, pending)'
  BY <1>4, <1>7, <1>9 DEF Databases, Grows
<1>13. SoundDb(committed)'
  BY <1>4 DEF Databases, SoundDb
<1> QED BY <1>3, <1>4, <1>7, <1>9, <1>10, <1>11, <1>12, <1>13 DEF Databases

\* A statement that reads or writes no row of its own leaves every task's claim
\* on the database as it was, as long as the task itself stays on the same side
\* of its statements.
LEMMA RecordedKept ==
  ASSUME NEW u \in Tasks, Recorded(u), pending' = pending,
         pc'[u] = pc[u], number'[u] = number[u], artNumber'[u] = artNumber[u]
  PROVE  Recorded(u)'
BY DEF Recorded

\* The other tasks after the write of task t's row.
LEMMA OthersAfterSave ==
  ASSUME Together, TypeOK, LockHeld, Databases, NEW t \in Tasks, Recorded(t),
         NEW from \in Saves, NEW status, NEW to, SaveRun(t, from, status, to),
         UNCHANGED <<number, artNumber>>,
         NEW u \in Tasks, u # t, Recorded(u)
  PROVE  Recorded(u)'
<1> DEFINE row == [id |-> t, number |-> number[t], status |-> status]
<1> USE DEF Saves
<1>1. /\ pending'.arts = pending.arts
      /\ pending'.runs = {r \in pending.runs : r.id # t} \cup {row}
      /\ Step(t, from, to)
  BY SaveKeeps
<1>2. pc'[u] = pc[u] /\ pc[t] = from
  BY <1>1 DEF Step, Goto, TypeOK
<1>3. row.id = t /\ row.number = number[t]
  OBVIOUS
<1>4. ASSUME pc[u] \in Unrecorded PROVE \A r \in pending'.runs : r.id # u
  BY <1>1, <1>3, <1>4 DEF Recorded
<1>5. ASSUME pc[u] = "insert" PROVE \A r \in pending'.runs : r.number < number[u]
  <2>1. pc[t] \notin Unrecorded \cup Over
    BY <1>2, <1>5, OneNumbering DEF Locked, Unrecorded, Over
  <2>2. PICK r \in pending.runs : r.number = number[t]
    BY <2>1 DEF Recorded
  <2> QED BY <1>1, <1>3, <1>5, <2>2 DEF Recorded
<1>6. ASSUME pc[u] \notin Unrecorded \cup Over
      PROVE  \E r \in pending'.runs :
               /\ r.id = u /\ r.number = number[u]
               /\ pc[u] \in Completed => r.status = "completed"
  BY <1>1, <1>6 DEF Recorded
<1> QED BY <1>1, <1>2, <1>4, <1>5, <1>6 DEF Recorded

(***************************************************************************)
(* The inductive invariant.                                                *)
(***************************************************************************)
\* Only the three writes and the end of a process change what the tasks see,
\* and only a commit changes the database.
LEMMA DatabaseStep ==
  ASSUME Together, Inv, [Next]_vars
  PROVE  Databases' /\ Grows(committed, committed')
<1> USE DEF Inv
<1>0. Databases /\ \A db : Grows(db, db)
  BY DEF Databases, Grows
<1>1. ASSUME UNCHANGED <<committed, pending, writer>>
      PROVE  Databases' /\ Grows(committed, committed')
  BY <1>0, <1>1 DEF Databases, OneView, Home, SoundDb, Grows
<1>2. ASSUME NEW c \in Conns, Commit(c) PROVE Databases' /\ Grows(committed, committed')
  BY <1>0, <1>2, CommitKeeps DEF Databases
<1>3. ASSUME NEW t \in Tasks, NEW from \in Saves, NEW status, NEW to,
             SaveRun(t, from, status, to)
      PROVE  Databases' /\ Grows(committed, committed')
  BY <1>0, <1>3, SaveKeeps
<1>4. ASSUME NEW t \in Tasks,
             Begin(t) \/ LeaveQueue(t) \/ Busy(t) \/ TakeLock(t) \/ ReadMax(t)
             \/ ToolEnds(t) \/ NormMax(t)
      PROVE  Databases' /\ Grows(committed, committed')
  BY <1>1, <1>4 DEF Begin, LeaveQueue, Busy, TakeLock, ReadMax, ToolEnds, NormMax, NoDb
<1>5. ASSUME NEW t \in Tasks,
             Insert(t) \/ SaveCompleted(t) \/ SaveFailed(t) \/ SaveCancelled(t)
      PROVE  Databases' /\ Grows(committed, committed')
  BY <1>3, <1>5 DEF Insert, SaveCompleted, SaveFailed, SaveCancelled, Saves
<1>6. ASSUME NEW t \in Tasks,
             InsertCommit(t) \/ SaveCommit(t) \/ CancelCommit(t) \/ NormCommit(t)
      PROVE  Databases' /\ Grows(committed, committed')
  BY <1>2, <1>6, ConnOfType DEF InsertCommit, SaveCommit, CancelCommit, NormCommit
<1>7. ASSUME NEW t \in Tasks, NormInsert(t) PROVE Databases' /\ Grows(committed, committed')
  BY <1>0, <1>7, StoreKeeps
<1>8. ASSUME NEW c \in Conns, OtherWrite(c) \/ Close(c)
      PROVE  Databases' /\ Grows(committed, committed')
  <2>1. pending' = committed /\ committed' = committed
    BY <1>8 DEF OtherWrite, Write, Close
  <2> QED BY <1>0, <2>1 DEF Databases, OneView, SoundDb
<1>9. ASSUME NEW c \in Conns, OtherCommit(c) PROVE Databases' /\ Grows(committed, committed')
  BY <1>2, <1>9 DEF OtherCommit
<1>10. CASE UNCHANGED vars
  BY <1>1, <1>10 DEF vars
<1> QED
  BY <1>4, <1>5, <1>6, <1>7, <1>8, <1>9, <1>10 DEF Next, TaskStep

\* Each action keeps every task's claim on the database: its own because its
\* statements follow one another, the others' because of the lock.
LEMMA RecordedStep ==
  ASSUME Together, Inv, [Next]_vars, NEW u \in Tasks
  PROVE  Recorded(u)'
<1> USE DEF Inv, Unrecorded, Completed, Over
<1>0. Databases /\ Recorded(u)
  BY DEF Databases
<1>1. ASSUME NEW t \in Tasks, NEW from \in Saves, NEW status, NEW to,
             SaveRun(t, from, status, to), UNCHANGED <<number, artNumber>>,
             to \notin Unrecorded \cup Over \cup {"normCommit", "normInsert"},
             to \in Completed => status = "completed"
      PROVE  Recorded(u)'
  <2> DEFINE row == [id |-> t, number |-> number[t], status |-> status]
  <2>1. CASE u # t
    BY <1>0, <1>1, <2>1, OthersAfterSave
  <2>2. CASE u = t
    <3>1. /\ pending'.arts = pending.arts
          /\ pending'.runs = {r \in pending.runs : r.id # t} \cup {row}
          /\ Step(t, from, to)
      BY <1>0, <1>1, SaveKeeps
    <3>2. pc[t] = from /\ pc'[t] \in {to} \cup Cut(from)
      BY <3>1 DEF Step, Goto, TypeOK
    <3>3. pc'[t] = to \/ pc'[t] = "cancelled"
      BY <3>2 DEF Cut, Saves
    <3>4. row \in pending'.runs /\ row.id = t /\ row.number = number[t] /\ row.status = status
      BY <3>1
    <3>5. \A a \in pending'.arts : a.run # t
      BY <1>0, <3>1, <3>2 DEF Recorded, Saves
    <3> QED BY <1>1, <2>2, <3>3, <3>4, <3>5 DEF Recorded
  <2> QED BY <2>1, <2>2
\* A statement that leaves what the tasks see unchanged.
<1>2. ASSUME pending' = pending, UNCHANGED <<number, artNumber>>,
             NEW t \in Tasks, NEW from, NEW to, Step(t, from, to),
             \/ from \in {"insertCommit", "tool"}
                /\ to \in {"insertCommit", "tool", "save"}
             \/ from = "saveCommit" /\ to = "normLock"
             \/ to = "done"
             \/ from = "cancelCommit" /\ to = "cancelled"
      PROVE  Recorded(u)'
  <2>1. CASE u # t
    BY <1>2, <2>1, RecordedKept DEF Step, Goto, TypeOK
  <2>2. CASE u = t
    <3>1. pc[t] = from /\ pc'[t] \in {to} \cup Cut(from)
      BY <1>2 DEF Step, Goto, TypeOK
    <3>2. pc'[t] = to \/ pc'[t] = "cancelled" \/ (from = "tool" /\ pc'[t] = "cancelSave")
      BY <3>1 DEF Cut
    <3> QED BY <1>2, <2>2, <3>1, <3>2 DEF Recorded
  <2> QED BY <2>1, <2>2
<1>3. ASSUME NEW t \in Tasks, Begin(t) PROVE Recorded(u)'
  BY <1>3 DEF Begin, Goto, NoDb, Recorded, TypeOK
<1>4. ASSUME NEW t \in Tasks, LeaveQueue(t) \/ Busy(t) PROVE Recorded(u)'
  BY <1>4 DEF LeaveQueue, Busy, Goto, NoDb, Recorded, TypeOK
<1>5. ASSUME NEW t \in Tasks, TakeLock(t) PROVE Recorded(u)'
  BY <1>5 DEF TakeLock, NoDb, Recorded, TypeOK
<1>6. ASSUME NEW t \in Tasks, ReadMax(t) PROVE Recorded(u)'
  <2>1. pending' = pending /\ artNumber' = artNumber
    BY <1>6 DEF ReadMax, NoDb
  <2>2. CASE u # t
    BY <1>6, <2>1, <2>2, RecordedKept DEF ReadMax, Step, Goto, TypeOK
  <2>3. CASE u = t
    <3>1. pc[t] = "max" /\ pc'[t] \in {"insert", "cancelled"}
      BY <1>6 DEF ReadMax, Step, Goto, Cut, TypeOK
    <3>2. \A r \in pending.runs : r.number < number'[t]
      BY <1>0, <1>6, ViewIsPending DEF ReadMax, NextNumber, TypeOK, Databases
    <3> QED BY <2>1, <2>3, <3>1, <3>2 DEF Recorded
  <2> QED BY <2>2, <2>3
<1>7. ASSUME NEW t \in Tasks, Insert(t) \/ SaveCompleted(t) \/ SaveFailed(t) \/ SaveCancelled(t)
      PROVE Recorded(u)'
  BY <1>1, <1>7 DEF Insert, SaveCompleted, SaveFailed, SaveCancelled, Saves
<1>8. ASSUME NEW t \in Tasks,
             InsertCommit(t) \/ SaveCommit(t) \/ CancelCommit(t) \/ NormCommit(t)
      PROVE Recorded(u)'
  <2>1. pending' = pending /\ UNCHANGED <<number, artNumber>>
    BY <1>8 DEF InsertCommit, SaveCommit, CancelCommit, NormCommit, Commit
  <2> QED BY <1>2, <1>8, <2>1 DEF InsertCommit, SaveCommit, CancelCommit, NormCommit
<1>9. ASSUME NEW t \in Tasks, ToolEnds(t) PROVE Recorded(u)'
  BY <1>2, <1>9 DEF ToolEnds, NoDb
<1>10. ASSUME NEW t \in Tasks, NormMax(t) PROVE Recorded(u)'
  <2>1. pending' = pending /\ number' = number
    BY <1>10 DEF NormMax, NoDb
  <2>2. CASE u # t
    BY <1>10, <2>1, <2>2, RecordedKept DEF NormMax, Step, Goto, TypeOK
  <2>3. CASE u = t
    <3>1. pc[t] = "normMax" /\ pc'[t] \in {"normInsert", "cancelled"}
      BY <1>10 DEF NormMax, Step, Goto, Cut, TypeOK
    <3>2. \A a \in pending.arts : a.number < artNumber'[t]
      BY <1>0, <1>10, ViewIsPending DEF NormMax, NextNumber, TypeOK, Databases
    <3> QED BY <2>1, <2>3, <3>1, <3>2 DEF Recorded
  <2> QED BY <2>2, <2>3
<1>11. ASSUME NEW t \in Tasks, NormInsert(t) PROVE Recorded(u)'
  <2> DEFINE art == [run |-> t, number |-> artNumber[t]]
  <2>1. /\ Step(t, "normInsert", "normCommit")
        /\ pending'.runs = pending.runs
        /\ pending'.arts = pending.arts \cup {art}
        /\ art.run = t
    BY <1>0, <1>11, StoreKeeps
  <2>2. UNCHANGED <<number, artNumber>>
    BY <1>11 DEF NormInsert
  <2>3. pc[t] = "normInsert" /\ pc'[t] \in {"normCommit", "cancelled"}
    BY <2>1 DEF Step, Goto, Cut, TypeOK
  <2>4. CASE u # t
    <3>1. pc'[u] = pc[u]
      BY <2>1, <2>4 DEF Step, Goto, TypeOK
    <3>2. pc[u] # "normInsert"
      BY <2>3, <2>4, OneNumbering DEF Locked
    <3> QED BY <2>1, <2>2, <2>4, <3>1, <3>2 DEF Recorded
  <2>5. CASE u = t
    BY <2>1, <2>2, <2>3, <2>5 DEF Recorded
  <2> QED BY <2>4, <2>5
<1>12. ASSUME NEW c \in Conns, OtherWrite(c) \/ OtherCommit(c) PROVE Recorded(u)'
  <2>1. pending' = pending
    BY <1>12, NobodyElse, ConnOfType
    DEF OtherWrite, OtherCommit, Commit, Write, OneView, Home
  <2> QED BY <1>12, <2>1, RecordedKept DEF OtherWrite, OtherCommit
<1>13. ASSUME NEW c \in Conns, Close(c) PROVE Recorded(u)'
  <2>1. CASE c \in Home
    <3>1. pc'[u] = pc[u] /\ pc[u] \in Over
      BY <1>13, <2>1, ConnOfType DEF Close, Together, Home
    <3> QED BY <3>1 DEF Recorded
  <2>2. CASE c \notin Home
    BY <1>13, <2>2, RecordedKept DEF Close, OneView
  <2> QED BY <2>1, <2>2
<1>14. CASE UNCHANGED vars
  BY <1>14, RecordedKept DEF vars
<1> QED
  BY <1>3, <1>4, <1>5, <1>6, <1>7, <1>8, <1>9, <1>10, <1>11, <1>12, <1>13, <1>14
     DEF Next, TaskStep

\* The invariant holds before the first run.
LEMMA InvInit == Init => Inv
<1> SUFFICES ASSUME Init PROVE Inv
  OBVIOUS
<1>1. TypeOK
  BY TypeInit
<1>2. LockHeld
  BY NobodyElse DEF Init, LockHeld, Locked
<1>3. OneView /\ SoundDb(committed) /\ SoundDb(pending) /\ Grows(committed, pending)
  BY DEF Init, OneView, SoundDb, Grows
<1>4. \A t \in Tasks : Recorded(t)
  BY DEF Init, Recorded, Unrecorded, Over
<1> QED BY <1>1, <1>2, <1>3, <1>4 DEF Inv

\* Every step of a run keeps the invariant, as long as the processes share one counter.
LEMMA InvStep == ASSUME Together PROVE Inv /\ [Next]_vars => Inv'
<1> SUFFICES ASSUME Inv, [Next]_vars PROVE Inv'
  OBVIOUS
<1>1. TypeOK' /\ LockHeld'
  BY TypeStep, LockStep DEF Inv
<1>2. Databases'
  BY DatabaseStep
<1>3. (\A u \in Tasks : Recorded(u))'
  BY RecordedStep
<1> QED BY <1>1, <1>2, <1>3 DEF Inv, Databases

(***************************************************************************)
(* What is promised of the records.                                        *)
(***************************************************************************)
\* All along, the numbers in the database and in the open transaction are
\* distinct and every running tool has its row: the inductive invariant.
THEOREM InvHolds == ASSUME Together PROVE Spec => []Inv
<1>1. Inv /\ [Next]_vars => Inv'
  BY InvStep
<1> QED BY <1>1, InvInit, PTL DEF Spec

\* Tool runs of one process that are executing at the same time have different
\* RUN numbers, hence different output directories.
THEOREM NumbersAreUnique == ASSUME Together PROVE Spec => []NumbersUnique
<1>1. Inv => NumbersUnique
  BY DEF Inv, Recorded, SoundDb, NumbersUnique, Unrecorded, Over
<1> QED BY <1>1, InvHolds, PTL

\* Every stored artifact traces back to the row of a tool run that completed.
THEOREM ArtifactsTrace == ASSUME Together PROVE Spec => []ArtifactsTraceable
<1>1. Inv => ArtifactsTraceable
  BY DEF Inv, SoundDb, ArtifactsTraceable
<1> QED BY <1>1, InvHolds, PTL

\* No tool run's row is ever replaced by the row of another run.
THEOREM RowsAreKept == ASSUME Together PROVE Spec => RunRowsKept
<1>1. Inv /\ [Next]_vars =>
        [\A r \in committed.runs :
           \E q \in committed'.runs : q.id = r.id /\ q.number = r.number]_vars
  BY DatabaseStep DEF Grows
<1> QED BY <1>1, InvHolds, PTL DEF Spec, RunRowsKept

\* No stored artifact is ever replaced.
THEOREM ArtifactsAreKept == ASSUME Together PROVE Spec => ArtifactsKept
<1>1. Inv /\ [Next]_vars => [committed.arts \subseteq committed'.arts]_vars
  BY DatabaseStep DEF Grows
<1> QED BY <1>1, InvHolds, PTL DEF Spec, ArtifactsKept
===============================================================================
