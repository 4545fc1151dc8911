-------------------------- MODULE CaseRecordsProofs --------------------------
(***************************************************************************)
(* Theorems about CaseRecords, for any number of tasks and processes, any  *)
(* assignment of operations and any detections and lines.                  *)
(***************************************************************************)
EXTENDS CaseRecords, FiniteSetTheorems, SequenceTheorems, TLAPS

\* The tables whose rows are numbered under db_lock in a UNIQUE column.
Contended == {"run", "finding"}

(***************************************************************************)
(* Numbers.                                                                *)
(***************************************************************************)
\* The i-th row of a table has the number i and was inserted by a task.
Consecutive(table) ==
  /\ \E S : rows[table] \in Seq(S)
  /\ \A i \in 1..Len(rows[table]) : rows[table][i].n = i /\ rows[table][i].by \in Tasks

\* A task that is about to insert holds the lock of its process; its number is
\* the next one, or was taken by another process meanwhile.
Numbered(t) ==
  task[t].pc = "insert" /\ task[t].table \in Contended =>
    LET T == rows[task[t].table]
    IN  /\ lock[Process[t]] = t
        /\ task[t].n \in 1..(Len(T) + 1)
        /\ task[t].n <= Len(T) => Process[T[task[t].n].by] # Process[t]

\* A task that failed to number a row lost the number to another process.
Lost(t) ==
  task[t].pc = "failed" /\ task[t].table \in {"run", "finding", "host"} =>
    LET T == rows[task[t].table]
    IN  /\ task[t].table # "host"
        /\ task[t].n \in 1..Len(T)
        /\ Process[T[task[t].n].by] # Process[t]

\* What a task keeps is a record of these seven fields.
Record(r) == r = [pc |-> r.pc, op |-> r.op, input |-> r.input, todo |-> r.todo,
                  table |-> r.table, what |-> r.what, n |-> r.n]

NumberInv ==
  /\ DOMAIN rows = Tables /\ DOMAIN task = Tasks
  /\ \A t \in Tasks : Record(task[t])
  /\ lock \in [{Process[t] : t \in Tasks} -> Tasks \cup {None}]
  /\ \A table \in Contended : Consecutive(table)
  /\ \A t \in Tasks : Numbered(t) /\ Lost(t)

\* Appending keeps the rows there are and adds one.
LEMMA Appended ==
  ASSUME NEW s, NEW S, s \in Seq(S), NEW e
  PROVE  /\ Append(s, e) \in Seq(S \cup {e})
         /\ Len(s) \in Nat /\ Len(Append(s, e)) = Len(s) + 1
         /\ \A i \in 1..Len(s) : Append(s, e)[i] = s[i]
         /\ Append(s, e)[Len(s) + 1] = e
<1>1. s \in Seq(S \cup {e}) /\ Len(s) \in Nat
  OBVIOUS
<1> QED BY <1>1, AppendProperties

\* The numbers taken in a table numbered without a gap, and the next one.
LEMMA TakenFacts ==
  ASSUME NEW table \in Contended, Consecutive(table)
  PROVE  /\ Len(rows[table]) \in Nat
         /\ Taken(table) = 1..Len(rows[table])
         /\ NextNumber(table) = Len(rows[table]) + 1
         /\ RowsOf(table) = {rows[table][i] : i \in 1..Len(rows[table])}
<1>1. PICK S : rows[table] \in Seq(S)
  BY DEF Consecutive
<1>2. Len(rows[table]) \in Nat /\ DOMAIN rows[table] = 1..Len(rows[table])
  BY <1>1
<1>3. RowsOf(table) = {rows[table][i] : i \in 1..Len(rows[table])}
  BY <1>2 DEF RowsOf
<1>4. Taken(table) = 1..Len(rows[table])
  BY <1>3 DEF Taken, Consecutive
<1>5. NextNumber(table) = Len(rows[table]) + 1
  <2>1. CASE Len(rows[table]) = 0
    BY <2>1, <1>2, <1>4 DEF NextNumber
  <2>2. CASE Len(rows[table]) # 0
    <3> DEFINE k == Len(rows[table])
    <3>1. k \in 1..k /\ \A m \in 1..k : k >= m
      BY <2>2, <1>2
    <3>2. Largest(1..k) \in 1..k /\ \A m \in 1..k : Largest(1..k) >= m
      BY <3>1, Zenon DEF Largest
    <3>3. Largest(1..k) = k
      BY <3>1, <3>2, <1>2
    <3>4. 1..k # {}
      BY <3>1
    <3> QED BY <3>3, <3>4, <1>4 DEF NextNumber
  <2> QED BY <2>1, <2>2
<1> QED BY <1>2, <1>3, <1>4, <1>5

\* Nothing is numbered in the first state.
LEMMA NumberInit == Init => NumberInv
<1> SUFFICES ASSUME Init PROVE NumberInv
  OBVIOUS
<1>1. DOMAIN rows = Tables /\ \A table \in Contended : rows[table] = <<>>
  BY DEF Init, Contended, Tables
<1>2. \A table \in Contended : Consecutive(table)
  <2> SUFFICES ASSUME NEW table \in Contended PROVE Consecutive(table)
    OBVIOUS
  <2>1. rows[table] = <<>> /\ 1..Len(<<>>) = {}
    BY <1>1
  <2>2. rows[table] \in Seq({})
    BY <2>1
  <2>3. \E S : rows[table] \in Seq(S)
    BY <2>2, Zenon
  <2> QED BY <2>1, <2>3 DEF Consecutive
<1>3. task = [t \in Tasks |-> Idle] /\ Idle.pc = "idle" /\ Record(Idle)
  BY DEF Init, Idle, Record
<1>4. lock \in [{Process[t] : t \in Tasks} -> Tasks \cup {None}]
  BY DEF Init
<1> QED BY <1>1, <1>2, <1>3, <1>4 DEF NumberInv, Numbered, Lost

\* A task that begins or ends, or that does not number a row, disturbs nothing.
LEMMA NumberKept ==
  ASSUME NumberInv, NEW t \in Tasks, NEW r, task' = [task EXCEPT ![t] = r],
         Record(r), rows' = rows, r.pc # "insert", r.pc = "failed" => Lost(t)',
         lock' = lock \/ lock' = [lock EXCEPT ![Process[t]] = IF lock[Process[t]] = t THEN None ELSE lock[Process[t]]]
  PROVE  NumberInv'
<1>1. DOMAIN task' = Tasks /\ task'[t] = r /\ \A u \in Tasks \ {t} : task'[u] = task[u]
  BY DEF NumberInv
<1>2. lock' \in [{Process[u] : u \in Tasks} -> Tasks \cup {None}]
  BY DEF NumberInv
<1>3. \A u \in Tasks \ {t} : lock[Process[u]] = u => lock'[Process[u]] = u
  BY DEF NumberInv
<1>4. \A table \in Contended : Consecutive(table)'
  BY DEF NumberInv, Consecutive
<1>5. \A u \in Tasks \ {t} : Numbered(u)' /\ Lost(u)'
  BY <1>1, <1>3 DEF NumberInv, Numbered, Lost
<1>6. Numbered(t)' /\ Lost(t)'
  BY <1>1 DEF Numbered, Lost
<1> QED BY <1>1, <1>2, <1>4, <1>5, <1>6 DEF NumberInv

\* A number is read, under the lock where the table is numbered under it.
LEMMA ReadStep ==
  ASSUME NumberInv, NoneApart, NEW t \in Tasks, ReadNumber(t) PROVE NumberInv'
<1>1. PICK i, n, f :
        /\ i \in task[t].todo
        /\ task' = [task EXCEPT ![t] = [task[t] EXCEPT !.pc = "insert", !.table = i.table,
                        !.what = f[1], !.todo = f[2], !.n = n]]
        /\ i.table \in Contended => n = NextNumber(i.table) /\ lock[Process[t]] = None
        /\ lock' = IF Locked(i.table) THEN [lock EXCEPT ![Process[t]] = t] ELSE lock
        /\ Locked(i.table) => lock[Process[t]] = None
        /\ rows' = rows
  <2>1. PICK i \in task[t].todo :
          LET mine == {r \in RowsOf(i.table) : i.table = "host" /\ r.what = i.what}
          IN  /\ Locked(i.table) => lock[Process[t]] = None
              /\ lock' = IF Locked(i.table) THEN [lock EXCEPT ![Process[t]] = t] ELSE lock
              /\ task' = [task EXCEPT ![t] = [task[t] EXCEPT !.pc = "insert", !.table = i.table,
                             !.what = i.what, !.todo = task[t].todo \ {i},
                             !.n = IF mine # {} THEN (CHOOSE r \in mine : TRUE).n
                                   ELSE NumberOf(i.table)]]
    BY DEF ReadNumber, Set
  <2>2. ASSUME i.table \in Contended
        PROVE  Locked(i.table) /\ i.table # "host" /\ NumberOf(i.table) = NextNumber(i.table)
    BY <2>2 DEF Contended, Locked, NumberOf
  <2>3. rows' = rows
    BY DEF ReadNumber
  <2> DEFINE mine == {r \in RowsOf(i.table) : i.table = "host" /\ r.what = i.what}
             n == IF mine # {} THEN (CHOOSE r \in mine : TRUE).n ELSE NumberOf(i.table)
             f == <<i.what, task[t].todo \ {i}>>
  <2>4. i.table \in Contended => n = NextNumber(i.table)
    BY <2>2
  <2>5. f[1] = i.what /\ f[2] = task[t].todo \ {i}
    OBVIOUS
  <2> QED BY <2>1, <2>2, <2>3, <2>4, <2>5
<1>2. PICK r : r = [task[t] EXCEPT !.pc = "insert", !.table = i.table,
                       !.what = f[1], !.todo = f[2], !.n = n]
  OBVIOUS
<1>3. Record(task[t])
  BY DEF NumberInv
<1>4. r.pc = "insert" /\ r.table = i.table /\ r.n = n /\ Record(r)
  BY <1>2, <1>3 DEF Record
<1>5. task' = [task EXCEPT ![t] = r] /\ rows' = rows
  BY <1>1, <1>2
<1>6. DOMAIN task' = Tasks /\ task'[t] = r /\ \A u \in Tasks \ {t} : task'[u] = task[u]
  BY <1>5 DEF NumberInv
<1>7. lock' \in [{Process[u] : u \in Tasks} -> Tasks \cup {None}]
  BY <1>1 DEF NumberInv
<1>8. \A u \in Tasks \ {t} : lock[Process[u]] = u => lock'[Process[u]] = u
  BY <1>1 DEF NumberInv, NoneApart
<1>9. \A table \in Contended : Consecutive(table)'
  BY <1>5 DEF NumberInv, Consecutive
<1>10. \A u \in Tasks \ {t} : Numbered(u)' /\ Lost(u)'
  BY <1>5, <1>6, <1>8 DEF NumberInv, Numbered, Lost
<1>11. Numbered(t)'
  <2> SUFFICES ASSUME i.table \in Contended
               PROVE  /\ lock'[Process[t]] = t
                      /\ n \in 1..(Len(rows[i.table]) + 1) /\ ~(n <= Len(rows[i.table]))
    BY <1>4, <1>5, <1>6 DEF Numbered
  <2>1. n = Len(rows[i.table]) + 1 /\ Len(rows[i.table]) \in Nat
    BY <1>1, TakenFacts DEF NumberInv
  <2>2. Locked(i.table)
    BY DEF Contended, Locked
  <2>3. lock'[Process[t]] = t
    BY <1>1, <2>2 DEF NumberInv
  <2> QED BY <2>1, <2>3
<1>12. Lost(t)'
  BY <1>4, <1>6 DEF Lost
<1>13. \A u \in Tasks : Record(task'[u])
  BY <1>4, <1>6 DEF NumberInv
<1> QED BY <1>5, <1>6, <1>7, <1>9, <1>10, <1>11, <1>12, <1>13 DEF NumberInv

\* A row is inserted: it is the next of its table.
LEMMA InsertStep ==
  ASSUME NumberInv, NoneApart, NEW t \in Tasks, InsertRow(t) PROVE NumberInv'
<1>1. PICK r, s :
        /\ task' = [task EXCEPT ![t] = r]
        /\ r = [Idle EXCEPT !.pc = IF Refused(task[t]) THEN "failed" ELSE "next",
                    !.op = task[t].op, !.input = task[t].input, !.todo = s]
  BY DEF InsertRow, Set
<1>2. Record(r) /\ r.pc \in {"failed", "next"} /\ r.table = None
  BY <1>1 DEF Idle, Record
<1>3. DOMAIN task' = Tasks /\ task'[t] = r /\ \A u \in Tasks \ {t} : task'[u] = task[u]
  BY <1>1 DEF NumberInv
<1>4. lock' = [lock EXCEPT ![Process[t]] = IF lock[Process[t]] = t THEN None ELSE lock[Process[t]]]
  BY DEF InsertRow, Unlock
<1>5. lock' \in [{Process[u] : u \in Tasks} -> Tasks \cup {None}]
  BY <1>4 DEF NumberInv
<1>6. \A u \in Tasks \ {t} : lock[Process[u]] = u => lock'[Process[u]] = u
  BY <1>4 DEF NumberInv
<1>7. PICK e : /\ e.n = task[t].n /\ e.by = t /\ task[t].pc = "insert"
               /\ rows' = [rows EXCEPT ![task[t].table] = Append(Stays(task[t]), e)]
               /\ (task[t].table = "host" \/ task[t].n \notin Taken(task[t].table))
  <2>1. /\ task[t].pc = "insert"
        /\ rows' = [rows EXCEPT ![task[t].table] = Append(Stays(task[t]), Row(task[t].n, t, task[t].what))]
        /\ (task[t].table = "host" \/ task[t].n \notin Taken(task[t].table))
    BY DEF InsertRow
  <2>2. Row(task[t].n, t, task[t].what).n = task[t].n /\ Row(task[t].n, t, task[t].what).by = t
    BY DEF Row
  <2> QED BY <2>1, <2>2
<1>8. DOMAIN rows' = Tables
  BY <1>7 DEF NumberInv
<1>9. ASSUME NEW table \in Contended, task[t].table # table PROVE rows'[table] = rows[table]
  BY <1>7, <1>9
<1>10. ASSUME NEW table \in Contended, task[t].table = table
       PROVE  /\ Consecutive(table)'
              /\ Len(rows[table]) \in Nat /\ Len(rows'[table]) = Len(rows[table]) + 1
              /\ \A i \in 1..Len(rows[table]) : rows'[table][i] = rows[table][i]
              /\ rows'[table][Len(rows'[table])] = e /\ task[t].n = Len(rows[table]) + 1
  <2>1. Consecutive(table) /\ table \in Tables /\ table # "host"
    BY <1>10 DEF NumberInv, Contended, Tables
  <2>2. rows'[table] = Append(rows[table], e)
    BY <1>7, <1>10, <2>1 DEF NumberInv, Stays
  <2>3. task[t].n \in 1..(Len(rows[table]) + 1) /\ task[t].n \notin 1..Len(rows[table])
        /\ Len(rows[table]) \in Nat
    BY <1>7, <1>10, <2>1, TakenFacts DEF NumberInv, Numbered
  <2>4. task[t].n = Len(rows[table]) + 1
    BY <2>3
  <2>5. PICK S : rows[table] \in Seq(S)
    BY <2>1 DEF Consecutive
  <2>6. /\ rows'[table] \in Seq(S \cup {e}) /\ Len(rows'[table]) = Len(rows[table]) + 1
        /\ \A i \in 1..Len(rows[table]) : rows'[table][i] = rows[table][i]
        /\ rows'[table][Len(rows[table]) + 1] = e
    BY <2>2, <2>5, Appended
  <2>7. \A i \in 1..Len(rows'[table]) : rows'[table][i].n = i /\ rows'[table][i].by \in Tasks
    BY <2>1, <2>3, <2>4, <2>6, <1>7 DEF Consecutive
  <2>8. \E T : rows'[table] \in Seq(T)
    BY <2>6
  <2> QED BY <2>3, <2>4, <2>6, <2>7, <2>8 DEF Consecutive
<1>11. \A table \in Contended : Consecutive(table)'
  <2> SUFFICES ASSUME NEW table \in Contended, task[t].table # table PROVE Consecutive(table)'
    BY <1>10
  <2>1. Consecutive(table) /\ rows'[table] = rows[table]
    BY <1>9 DEF NumberInv
  <2> QED BY <2>1 DEF Consecutive
<1>12. ASSUME NEW u \in Tasks \ {t} PROVE Numbered(u)'
  <2> SUFFICES ASSUME task[u].pc = "insert", task[u].table \in Contended PROVE Numbered(u)'
    BY <1>3 DEF Numbered
  <2> DEFINE tb == task[u].table
  <2>1. /\ lock[Process[u]] = u /\ task[u].n \in 1..(Len(rows[tb]) + 1)
        /\ task[u].n <= Len(rows[tb]) => Process[rows[tb][task[u].n].by] # Process[u]
    BY DEF NumberInv, Numbered
  <2>2. lock'[Process[u]] = u
    BY <2>1, <1>6
  <2>3. CASE task[t].table # tb
    <3>1. rows'[tb] = rows[tb]
      BY <2>3, <1>9
    <3> QED BY <1>3, <2>1, <2>2, <3>1 DEF Numbered
  <2>4. CASE task[t].table = tb
    <3>1. /\ Len(rows[tb]) \in Nat /\ Len(rows'[tb]) = Len(rows[tb]) + 1
          /\ \A i \in 1..Len(rows[tb]) : rows'[tb][i] = rows[tb][i]
          /\ rows'[tb][Len(rows'[tb])] = e
      BY <2>4, <1>10
    <3>2. lock[Process[t]] = t
      BY <1>7, <2>4 DEF NumberInv, Numbered
    <3>3. Process[t] # Process[u]
      BY <3>2, <2>1
    <3>4. task[u].n \in 1..(Len(rows'[tb]) + 1)
      BY <2>1, <3>1
    <3>5. task[u].n <= Len(rows'[tb]) => Process[rows'[tb][task[u].n].by] # Process[u]
      <4>1. CASE task[u].n <= Len(rows[tb])
        BY SMTT(30), <4>1, <2>1, <3>1
      <4>2. CASE task[u].n = Len(rows'[tb])
        BY <4>2, <3>1, <3>3, <1>7
      <4> QED BY SMTT(30), <4>1, <4>2, <2>1, <3>1
    <3> QED BY <1>3, <2>2, <3>4, <3>5 DEF Numbered
  <2> QED BY <2>3, <2>4
<1>13. ASSUME NEW u \in Tasks \ {t} PROVE Lost(u)'
  <2> SUFFICES ASSUME task[u].pc = "failed", task[u].table \in {"run", "finding", "host"}
               PROVE  Lost(u)'
    BY <1>3 DEF Lost
  <2> DEFINE tb == task[u].table
  <2>1. /\ tb \in Contended /\ tb # "host" /\ task[u].n \in 1..Len(rows[tb])
        /\ Process[rows[tb][task[u].n].by] # Process[u]
    BY DEF NumberInv, Lost, Contended
  <2>2. CASE task[t].table # tb
    <3>1. rows'[tb] = rows[tb]
      BY <2>1, <2>2, <1>9
    <3> QED BY <1>3, <2>1, <3>1 DEF Lost
  <2>3. CASE task[t].table = tb
    <3>1. /\ Len(rows[tb]) \in Nat /\ Len(rows'[tb]) = Len(rows[tb]) + 1
          /\ \A i \in 1..Len(rows[tb]) : rows'[tb][i] = rows[tb][i]
      BY <2>1, <2>3, <1>10
    <3>2. task[u].n \in 1..Len(rows'[tb]) /\ rows'[tb][task[u].n] = rows[tb][task[u].n]
      BY SMTT(30), <2>1, <3>1
    <3> QED BY <1>3, <2>1, <3>2 DEF Lost
  <2> QED BY <2>2, <2>3
<1>14. Numbered(t)' /\ Lost(t)'
  BY <1>2, <1>3 DEF Numbered, Lost, NoneApart, Tables
<1>15. \A u \in Tasks : Record(task'[u])
  BY <1>2, <1>3 DEF NumberInv
<1> QED BY <1>3, <1>5, <1>8, <1>11, <1>12, <1>13, <1>14, <1>15 DEF NumberInv

\* Every step keeps the numbers of the contended tables consecutive.
LEMMA NumberStep == ASSUME NumberInv, [Next]_vars PROVE NumberInv'
<1>1. ASSUME NEW t \in Tasks, Begin(t) PROVE NumberInv'
  <2>1. PICK op, input, todo : task' = [task EXCEPT ![t] =
            [Idle EXCEPT !.pc = "next", !.op = op, !.input = input, !.todo = todo]]
    BY <1>1 DEF Begin, CreateCase, AddEvidence, StartRun, Hunt, Scan, Watch, HostProfile, Doing, Set
  <2>2. PICK r : r = [Idle EXCEPT !.pc = "next", !.op = op, !.input = input, !.todo = todo]
    OBVIOUS
  <2>3. Record(r) /\ r.pc = "next"
    BY <2>2 DEF Record, Idle
  <2>4. rows' = rows /\ lock' = lock
    BY <1>1 DEF Begin
  <2> QED BY <2>1, <2>2, <2>3, <2>4, NumberKept
<1>2. ASSUME NEW t \in Tasks, InsertFails(t) PROVE NumberInv'
  <2>1. PICK r : r = [task[t] EXCEPT !.pc = "failed"] /\ task' = [task EXCEPT ![t] = r]
    BY <1>2 DEF InsertFails, Set
  <2>2. Record(task[t])
    BY DEF NumberInv
  <2>3. Record(r) /\ r.pc = "failed" /\ r.table = task[t].table /\ r.n = task[t].n
    BY <2>1, <2>2 DEF Record
  <2>4. /\ rows' = rows
        /\ lock' = [lock EXCEPT ![Process[t]] = IF lock[Process[t]] = t THEN None ELSE lock[Process[t]]]
    BY <1>2 DEF InsertFails, Unlock
  <2>5. Lost(t)'
    <3>1. task'[t] = r
      BY <2>1 DEF NumberInv
    <3> SUFFICES ASSUME task[t].table \in {"run", "finding", "host"} PROVE Lost(t)'
      BY <2>3, <3>1 DEF Lost
    <3> DEFINE tb == task[t].table
    <3>2. task[t].pc = "insert" /\ tb \in Contended /\ tb # "host" /\ task[t].n \in Taken(tb)
      BY <1>2 DEF InsertFails, Contended
    <3>3. task[t].n \in 1..Len(rows[tb]) /\ Len(rows[tb]) \in Nat
      BY <3>2, TakenFacts DEF NumberInv
    <3>4. Process[rows[tb][task[t].n].by] # Process[t]
      BY <3>2, <3>3 DEF NumberInv, Numbered
    <3> QED BY <2>3, <2>4, <3>1, <3>2, <3>3, <3>4 DEF Lost
  <2> QED BY <2>1, <2>3, <2>4, <2>5, NumberKept
<1>3. ASSUME NEW t \in Tasks, End(t) PROVE NumberInv'
  <2>1. PICK r : r = [task[t] EXCEPT !.pc = "ok"] /\ task' = [task EXCEPT ![t] = r]
    BY <1>3 DEF End, Set
  <2>2. Record(task[t])
    BY DEF NumberInv
  <2>3. Record(r) /\ r.pc = "ok"
    BY <2>1, <2>2 DEF Record
  <2>4. rows' = rows /\ lock' = lock
    BY <1>3 DEF End
  <2> QED BY <2>1, <2>3, <2>4, NumberKept
<1>4. ASSUME NEW p \in DOMAIN lock, Die(p) PROVE NumberInv'
  <2>1. /\ rows' = rows /\ lock' = [lock EXCEPT ![p] = None]
        /\ task' = [t \in Tasks |-> IF Process[t] = p /\ task[t].pc \in {"next", "insert"}
                                    THEN [Idle EXCEPT !.pc = "dead"] ELSE task[t]]
    BY <1>4 DEF Die
  <2>2. PICK d : d = [Idle EXCEPT !.pc = "dead"]
    OBVIOUS
  <2>3. Record(d) /\ d.pc = "dead"
    BY <2>2 DEF Record, Idle
  <2>4. DOMAIN task' = Tasks /\ \A t \in Tasks :
           \/ task'[t] = d
           \/ task'[t] = task[t] /\ (Process[t] = p => task[t].pc \notin {"next", "insert"})
    BY <2>1, <2>2
  <2>5. lock' \in [{Process[u] : u \in Tasks} -> Tasks \cup {None}]
    BY <2>1 DEF NumberInv
  <2>6. \A t \in Tasks : Process[t] # p => lock'[Process[t]] = lock[Process[t]]
    BY <2>1 DEF NumberInv
  <2>7. \A t \in Tasks : Record(task'[t])
    BY <2>3, <2>4 DEF NumberInv
  <2>8. \A table \in Contended : Consecutive(table)'
    BY <2>1 DEF NumberInv, Consecutive
  <2>9. ASSUME NEW t \in Tasks PROVE Numbered(t)' /\ Lost(t)'
    <3>1. CASE task'[t] = d
      BY <3>1, <2>3 DEF Numbered, Lost
    <3>2. CASE task'[t] = task[t] /\ (Process[t] = p => task[t].pc \notin {"next", "insert"})
      BY <3>2, <2>1, <2>6 DEF NumberInv, Numbered, Lost
    <3> QED BY <3>1, <3>2, <2>4
  <2> QED BY <2>1, <2>4, <2>5, <2>7, <2>8, <2>9 DEF NumberInv
<1>5. CASE UNCHANGED vars
  <2>1. rows' = rows /\ lock' = lock /\ task' = task
    BY <1>5 DEF vars
  <2>2. \A table \in Contended : Consecutive(table)'
    BY <2>1 DEF NumberInv, Consecutive
  <2> QED BY <2>1, <2>2 DEF NumberInv, Numbered, Lost
<1> QED BY <1>1, <1>2, <1>3, <1>4, <1>5, ReadStep, InsertStep, NoneApart DEF Next

\* Findings and profile runs are numbered 1, 2, 3 and so on, and a task about
\* to insert one holds the lock of its process.
THEOREM NumbersHold == Spec => []NumberInv
<1> QED BY NumberInit, NumberStep, PTL DEF Spec

\* An operation that numbers its rows under db_lock fails only when another
\* process took its number (FailsOnlyAcross).
THEOREM OnlyOthersTakeNumbers == Spec => []FailsOnlyAcross
<1>1. ASSUME NumberInv, NEW t \in Tasks, task[t].pc = "failed",
             task[t].table \in {"run", "finding", "host"}
      PROVE  \E r \in RowsOf(task[t].table) : r.n = task[t].n /\ Process[r.by] # Process[t]
  <2> DEFINE tb == task[t].table
             r == rows[tb][task[t].n]
  <2>1. /\ tb \in Contended /\ task[t].n \in 1..Len(rows[tb]) /\ Consecutive(tb)
        /\ Process[r.by] # Process[t]
    BY <1>1 DEF NumberInv, Lost, Contended
  <2>2. r \in RowsOf(tb) /\ r.n = task[t].n
    BY <2>1, TakenFacts DEF Consecutive
  <2> QED BY <2>1, <2>2
<1>2. NumberInv => FailsOnlyAcross
  BY <1>1 DEF FailsOnlyAcross
<1> QED BY <1>2, NumbersHold, PTL

(***************************************************************************)
(* Findings.                                                               *)
(***************************************************************************)
Finders == {"hunt", "scan", "watch"}

\* The findings that an operation is going to make of what it has read.
FindingsOf(r) ==
  IF r.op = "hunt" THEN HuntFindings(r.input)
  ELSE IF r.op = "scan" THEN ScanFindings(r.input) ELSE WatchFindings(r.input.linked)

\* What a search has read: the links are those of the lines it was given.
SearchOk(search) ==
  /\ search.lines \in [Slots -> SUBSET Terms]
  /\ \E given \in GivenLines(search.lines, search.engine) :
       search.linked \in Links(search.lines, given)

InputOk(r) ==
  IF r.op = "watch" THEN SearchOk(r.input)
  ELSE r.input \in [Slots -> [rule : Rules, sev : Severity]]

What(i) == rows["finding"][i].what

\* Each finding of an operation is at one place: still to be made, about to be
\* inserted, or one row of the task; and the task has made no other.
Balanced(t) ==
  LET now == task[t] F == FindingsOf(now)
  IN  /\ InputOk(now)
      /\ now.todo \subseteq {Insert("finding", f) : f \in F}
      /\ now.pc = "insert" => /\ now.table = "finding" /\ now.what \in F
                              /\ Insert("finding", now.what) \notin now.todo
      /\ now.pc = "ok" => now.todo = {}
      /\ \A i \in MadeBy(t) : /\ What(i) \in F /\ Insert("finding", What(i)) \notin now.todo
                              /\ now.pc = "insert" => What(i) # now.what
      /\ \A i, j \in MadeBy(t) : What(i) = What(j) => i = j
      /\ \A f \in F : \/ Insert("finding", f) \in now.todo
                      \/ now.pc = "insert" /\ now.what = f
                      \/ \E i \in MadeBy(t) : What(i) = f

FindInv ==
  \A t \in Tasks :
    /\ task[t].pc = "idle" => MadeBy(t) = {}
    /\ task[t].op \in Finders /\ task[t].pc \in {"next", "insert", "ok"} => Balanced(t)

\* A task's place in the table is not disturbed by a task that changes only
\* itself and inserts no finding.
LEMMA FindKept ==
  ASSUME FindInv, NumberInv, NEW t \in Tasks, NEW r, task' = [task EXCEPT ![t] = r],
         rows'["finding"] = rows["finding"],
         r.pc # "idle",
         r.op \in Finders /\ r.pc \in {"next", "insert", "ok"} => Balanced(t)'
  PROVE  FindInv'
<1>1. task'[t] = r /\ \A u \in Tasks \ {t} : task'[u] = task[u]
  BY DEF NumberInv
<1>2. \A u : MadeBy(u)' = MadeBy(u)
  BY DEF MadeBy
<1>3. \A i : What(i)' = What(i)
  BY DEF What
<1>4. ASSUME NEW u \in Tasks \ {t}, Balanced(u) PROVE Balanced(u)'
  BY <1>1, <1>2, <1>3, <1>4 DEF Balanced, FindingsOf, InputOk
<1> QED BY <1>1, <1>2, <1>4 DEF FindInv

\* Nothing is made in the first state.
LEMMA FindInit == Init => FindInv
<1> SUFFICES ASSUME Init PROVE FindInv
  OBVIOUS
<1>1. rows["finding"] = <<>> /\ \A t \in Tasks : task[t].pc = "idle"
  BY DEF Init, Tables, Idle
<1>2. \A t : MadeBy(t) = {}
  <2>1. DOMAIN rows["finding"] = {}
    BY <1>1
  <2> QED BY <2>1 DEF MadeBy
<1> QED BY <1>1, <1>2 DEF FindInv

\* What an operation begins with.
Begins(t, op, input, todo) ==
  task' = [task EXCEPT ![t] =
             [Idle EXCEPT !.pc = "next", !.op = op, !.input = input, !.todo = todo]]

\* The list of an operation that makes findings is that of its findings.
Lists(t, op, input, todo) ==
  \/ op \notin Finders
  \/ op = "hunt" /\ input \in Runs[t] /\ todo = {Insert("finding", f) : f \in HuntFindings(input)}
  \/ op = "scan" /\ input \in Runs[t] /\ todo = {Insert("finding", f) : f \in ScanFindings(input)}
  \/ op = "watch" /\ SearchOk(input)
     /\ todo = {Insert("finding", f) : f \in WatchFindings(input.linked)}

\* Each operation begins with its list.
LEMMA BeginFacts ==
  ASSUME NEW t \in Tasks, Begin(t)
  PROVE  \E op, input, todo : Begins(t, op, input, todo) /\ Lists(t, op, input, todo)
<1>1. ASSUME NEW op, NEW input, NEW todo, Doing(t, op, input, todo) PROVE Begins(t, op, input, todo)
  BY <1>1 DEF Doing, Set, Begins
<1>2. ASSUME NEW op \in {"case", "evidence", "start", "host"}, NEW input, NEW todo,
             Doing(t, op, input, todo)
      PROVE  Begins(t, op, input, todo) /\ Lists(t, op, input, todo)
  BY <1>1, <1>2 DEF Lists, Finders
<1>3. CASE CreateCase(t)
  BY <1>2, <1>3 DEF CreateCase
<1>4. CASE AddEvidence(t)
  BY <1>2, <1>4 DEF AddEvidence
<1>5. CASE StartRun(t)
  BY <1>2, <1>5 DEF StartRun
<1>6. CASE HostProfile(t)
  BY <1>2, <1>6 DEF HostProfile
<1>7. CASE Hunt(t)
  BY <1>1, <1>7 DEF Hunt, Lists
<1>8. CASE Scan(t)
  BY <1>1, <1>8 DEF Scan, Lists
<1>9. CASE Watch(t)
  <2>1. PICK lines \in Lines, engine \in {"ripgrep", "python"} :
          \E given \in GivenLines(lines, engine) : \E linked \in Links(lines, given) :
            Doing(t, "watch", [lines |-> lines, engine |-> engine, linked |-> linked],
                  {Insert("finding", f) : f \in WatchFindings(linked)})
    BY <1>9 DEF Watch
  <2>g. PICK given \in GivenLines(lines, engine) : \E linked \in Links(lines, given) :
          Doing(t, "watch", [lines |-> lines, engine |-> engine, linked |-> linked],
                {Insert("finding", f) : f \in WatchFindings(linked)})
    BY <2>1
  <2>2. PICK linked \in Links(lines, given) :
          Doing(t, "watch", [lines |-> lines, engine |-> engine, linked |-> linked],
                {Insert("finding", f) : f \in WatchFindings(linked)})
    BY <2>g
  <2> DEFINE search == [lines |-> lines, engine |-> engine, linked |-> linked]
  <2>3. search.lines = lines /\ search.engine = engine /\ search.linked = linked
    OBVIOUS
  <2> HIDE DEF search
  <2>4. Begins(t, "watch", search, {Insert("finding", f) : f \in WatchFindings(linked)})
    BY <1>1, <2>2 DEF search
  <2>5. lines \in [Slots -> SUBSET Terms]
    BY RecordsAssumption
  <2>6. SearchOk(search)
    BY <2>2, <2>3, <2>5 DEF SearchOk
  <2> QED BY <2>3, <2>4, <2>6 DEF Lists
<1> QED BY <1>3, <1>4, <1>5, <1>6, <1>7, <1>8, <1>9 DEF Begin

\* An operation begins with all its findings to be made.
LEMMA FindBegins == ASSUME FindInv, NumberInv, NEW t \in Tasks, Begin(t) PROVE FindInv'
<1>1. PICK op, input, todo : Begins(t, op, input, todo) /\ Lists(t, op, input, todo)
  BY BeginFacts
<1>2. PICK r : r = [Idle EXCEPT !.pc = "next", !.op = op, !.input = input, !.todo = todo]
  OBVIOUS
<1>3. r.pc = "next" /\ r.op = op /\ r.input = input /\ r.todo = todo
  BY <1>2 DEF Idle
<1>4. task' = [task EXCEPT ![t] = r] /\ rows' = rows
  BY <1>1, <1>2 DEF Begin, Begins
<1>5. task'[t] = r /\ MadeBy(t)' = {}
  BY <1>4 DEF NumberInv, FindInv, MadeBy, Begin
<1>6. ASSUME op \in Finders PROVE Balanced(t)'
  <2>1. InputOk(r)
    BY <1>1, <1>3, <1>6, RecordsAssumption DEF InputOk, Finders, Lists
  <2>2. r.todo = {Insert("finding", f) : f \in FindingsOf(r)}
    BY <1>1, <1>3, <1>6 DEF FindingsOf, Finders, Lists
  <2>3. r.todo \subseteq {Insert("finding", f) : f \in FindingsOf(r)}
        /\ \A f \in FindingsOf(r) : Insert("finding", f) \in r.todo
    BY <2>2
  <2> QED BY <1>3, <1>5, <2>1, <2>3 DEF Balanced, FindingsOf, InputOk
<1> QED BY <1>3, <1>4, <1>6, FindKept

\* A finding is taken from the list to be inserted.
LEMMA FindReads == ASSUME FindInv, NumberInv, NEW t \in Tasks, ReadNumber(t) PROVE FindInv'
<1>1. PICK i, n :
        /\ i \in task[t].todo
        /\ task' = [task EXCEPT ![t] = [task[t] EXCEPT !.pc = "insert", !.table = i.table,
                   !.what = i.what, !.todo = task[t].todo \ {i}, !.n = n]]
  BY DEF ReadNumber, Set
<1>2. PICK r : r = [task[t] EXCEPT !.pc = "insert", !.table = i.table,
                      !.what = i.what, !.todo = task[t].todo \ {i}, !.n = n]
  OBVIOUS
<1>3. Record(task[t])
  BY DEF NumberInv
<1>4. /\ r.pc = "insert" /\ r.op = task[t].op /\ r.input = task[t].input
      /\ r.todo = task[t].todo \ {i} /\ r.table = i.table /\ r.what = i.what
  BY <1>2, <1>3 DEF Record
<1>5. task' = [task EXCEPT ![t] = r] /\ rows' = rows /\ task[t].pc = "next"
  BY <1>1, <1>2 DEF ReadNumber
<1>6. task'[t] = r /\ MadeBy(t)' = MadeBy(t) /\ \A k : What(k)' = What(k)
  BY <1>5 DEF NumberInv, MadeBy, What
<1>7. ASSUME r.op \in Finders PROVE Balanced(t)'
  <2>1. Balanced(t)
    BY <1>4, <1>5, <1>7 DEF FindInv
  <2>2. FindingsOf(r) = FindingsOf(task[t]) /\ InputOk(r)
    BY <1>4, <2>1 DEF FindingsOf, InputOk, Balanced
  <2>3. PICK f \in FindingsOf(r) : i = Insert("finding", f)
    BY <1>1, <2>1, <2>2 DEF Balanced
  <2>4. i.table = "finding" /\ i.what = f
    BY <2>3 DEF Insert
  <2>5. \A k \in MadeBy(t) : What(k) # f
    BY <1>1, <2>1, <2>3 DEF Balanced
  <2>6. \A g : Insert("finding", g) = i => g = f
    BY <2>3 DEF Insert
  <2>7. /\ r.todo \subseteq {Insert("finding", g) : g \in FindingsOf(r)}
        /\ \A k \in MadeBy(t) : What(k) \in FindingsOf(r) /\ Insert("finding", What(k)) \notin r.todo
        /\ \A k, j \in MadeBy(t) : What(k) = What(j) => k = j
        /\ \A g \in FindingsOf(r) : \/ Insert("finding", g) \in task[t].todo
                                    \/ \E k \in MadeBy(t) : What(k) = g
    BY <1>4, <1>5, <2>1, <2>2 DEF Balanced
  <2>8. \A g \in FindingsOf(r) : \/ Insert("finding", g) \in r.todo
                                 \/ r.what = g
                                 \/ \E k \in MadeBy(t) : What(k) = g
    BY <1>4, <2>4, <2>6, <2>7
  <2>9. Insert("finding", r.what) \notin r.todo
    BY <1>4, <2>3, <2>4
  <2> QED BY <1>4, <1>6, <2>2, <2>4, <2>5, <2>7, <2>8, <2>9 DEF Balanced, FindingsOf, InputOk
<1> QED BY <1>4, <1>5, <1>7, FindKept

\* A finding is inserted: one row of the task more.
LEMMA FindInserts == ASSUME FindInv, NumberInv, NEW t \in Tasks, InsertRow(t) PROVE FindInv'
<1>1. PICK r, s :
        /\ task' = [task EXCEPT ![t] = r]
        /\ r = [Idle EXCEPT !.pc = IF Refused(task[t]) THEN "failed" ELSE "next",
                    !.op = task[t].op, !.input = task[t].input, !.todo = s]
        /\ s = IF task[t].op = "start" /\ task[t].table = "evidence" /\ ~Refused(task[t])
               THEN {Insert("run", task[t].n)} ELSE task[t].todo
  BY DEF InsertRow, Set
<1>2. r.pc \in {"failed", "next"} /\ r.op = task[t].op /\ r.input = task[t].input /\ r.todo = s
  BY <1>1 DEF Idle
<1>3. task'[t] = r /\ \A u \in Tasks \ {t} : task'[u] = task[u]
  BY <1>1 DEF NumberInv
<1>4. PICK e : /\ e.by = t /\ e.what = task[t].what /\ task[t].pc = "insert"
               /\ rows' = [rows EXCEPT ![task[t].table] = Append(Stays(task[t]), e)]
  <2>1. /\ task[t].pc = "insert"
        /\ rows' = [rows EXCEPT ![task[t].table] = Append(Stays(task[t]), Row(task[t].n, t, task[t].what))]
    BY DEF InsertRow
  <2>2. Row(task[t].n, t, task[t].what).what = task[t].what /\ Row(task[t].n, t, task[t].what).by = t
    BY DEF Row
  <2> QED BY <2>1, <2>2
<1>5. CASE task[t].table # "finding"
  <2>1. rows'["finding"] = rows["finding"]
    BY <1>4, <1>5
  <2>2. task[t].op \notin Finders
    BY <1>4, <1>5 DEF FindInv, Balanced
  <2> QED BY <1>1, <1>2, <2>1, <2>2, FindKept
<1>6. CASE task[t].table = "finding"
  <2>0. PICK L : L = Len(rows["finding"])
    OBVIOUS
  <2>1. Consecutive("finding")
    BY DEF NumberInv, Contended
  <2>2. PICK S : rows["finding"] \in Seq(S)
    BY <2>1 DEF Consecutive
  <2>3. rows'["finding"] = Append(rows["finding"], e)
    BY <1>4, <1>6 DEF NumberInv, Stays, Tables
  <2>4. /\ L \in Nat /\ DOMAIN rows["finding"] = 1..L /\ DOMAIN rows'["finding"] = 1..(L + 1)
        /\ \A i \in 1..L : rows'["finding"][i] = rows["finding"][i]
        /\ rows'["finding"][L + 1] = e
    <3>1. /\ Append(rows["finding"], e) \in Seq(S \cup {e})
          /\ L \in Nat /\ Len(Append(rows["finding"], e)) = L + 1
          /\ \A i \in 1..L : Append(rows["finding"], e)[i] = rows["finding"][i]
          /\ Append(rows["finding"], e)[L + 1] = e
      BY <2>0, <2>2, Appended
    <3> QED BY <2>0, <2>2, <2>3, <3>1
  <2>5. \A u \in Tasks \ {t} : MadeBy(u)' = MadeBy(u)
    <3>1. \A u \in Tasks \ {t}, i \in 1..(L + 1) : rows'["finding"][i].by = u <=>
             i \in 1..L /\ rows["finding"][i].by = u
      BY <2>4, <1>4
    <3> QED BY <2>4, <3>1 DEF MadeBy
  <2>6. MadeBy(t)' = MadeBy(t) \cup {L + 1} /\ L + 1 \notin MadeBy(t)
    <3>1. \A i \in 1..(L + 1) : rows'["finding"][i].by = t <=>
             i = L + 1 \/ (i \in 1..L /\ rows["finding"][i].by = t)
      BY <2>4, <1>4
    <3> QED BY <2>4, <3>1 DEF MadeBy
  <2>7. /\ \A u : MadeBy(u) \subseteq 1..L
        /\ \A i \in 1..L : What(i)' = What(i)
        /\ What(L + 1)' = task[t].what
    <3>1. \A u : MadeBy(u) \subseteq 1..L
      BY <2>4 DEF MadeBy
    <3>2. \A i \in 1..L : What(i)' = What(i)
      BY <2>4 DEF What
    <3>3. What(L + 1)' = task[t].what
      BY <2>4, <1>4 DEF What
    <3> QED BY <3>1, <3>2, <3>3
  <2>8. ASSUME NEW u \in Tasks \ {t}, Balanced(u) PROVE Balanced(u)'
    <3>1. \A i \in MadeBy(u) : What(i)' = What(i)
      BY <2>7
    <3> QED BY <1>3, <2>5, <2>8, <3>1 DEF Balanced, FindingsOf, InputOk
  <2>9. ASSUME r.op \in Finders, r.pc = "next" PROVE Balanced(t)'
    <3>1. Balanced(t)
      BY <1>2, <1>4, <2>9 DEF FindInv
    <3>2. s = task[t].todo
      BY <1>1, <1>6
    <3>3. FindingsOf(r) = FindingsOf(task[t]) /\ InputOk(r)
      BY <1>2, <3>1 DEF FindingsOf, InputOk, Balanced
    <3> DEFINE F == FindingsOf(r)
    <3>4. /\ r.todo \subseteq {Insert("finding", g) : g \in F}
          /\ task[t].what \in F /\ Insert("finding", task[t].what) \notin r.todo
      BY <1>2, <1>4, <3>1, <3>2, <3>3 DEF Balanced
    <3>5. ASSUME NEW i \in MadeBy(t)' PROVE What(i)' \in F /\ Insert("finding", What(i)') \notin r.todo
      <4>1. CASE i = L + 1
        BY <4>1, <2>7, <3>4 DEF What
      <4>2. CASE i \in MadeBy(t)
        BY <4>2, <2>7, <1>2, <3>1, <3>2, <3>3 DEF Balanced
      <4> QED BY <2>6, <4>1, <4>2
    <3>6. ASSUME NEW i \in MadeBy(t)', NEW j \in MadeBy(t)', What(i)' = What(j)' PROVE i = j
      <4>1. CASE i \in MadeBy(t) /\ j \in MadeBy(t)
        BY <4>1, <3>6, <2>7, <3>1 DEF Balanced
      <4>2. \A k \in MadeBy(t) : What(k)' # What(L + 1)'
        BY <1>4, <2>7, <3>1 DEF Balanced
      <4> QED BY <2>6, <3>6, <4>1, <4>2 DEF What
    <3>7. ASSUME NEW f \in F
          PROVE  Insert("finding", f) \in r.todo \/ \E i \in MadeBy(t)' : What(i)' = f
      <4>1. \/ Insert("finding", f) \in r.todo
            \/ task[t].what = f
            \/ \E i \in MadeBy(t) : What(i) = f
        BY <1>2, <3>1, <3>2, <3>3 DEF Balanced
      <4>2. CASE task[t].what = f
        BY <4>2, <2>6, <2>7 DEF What
      <4>3. CASE \E i \in MadeBy(t) : What(i) = f
        BY <4>3, <2>6, <2>7
      <4> QED BY <4>1, <4>2, <4>3
    <3>8. FindingsOf(task'[t]) = F /\ InputOk(task'[t]) /\ task'[t].todo = r.todo /\ task'[t].pc = "next"
      BY <1>3, <2>9, <3>3
    <3>9. \A i : What(i)' = rows'["finding"][i].what
      BY DEF What
    <3> QED BY <3>4, <3>5, <3>6, <3>7, <3>8 DEF Balanced, FindingsOf, InputOk
  <2> QED BY <1>2, <1>3, <2>5, <2>8, <2>9 DEF FindInv
<1> QED BY <1>5, <1>6

\* Every step keeps the findings of each task in balance.
LEMMA FindStep == ASSUME FindInv, NumberInv, [Next]_vars PROVE FindInv'
<1>1. ASSUME NEW t \in Tasks, InsertFails(t) PROVE FindInv'
  <2>1. PICK r : r = [task[t] EXCEPT !.pc = "failed"] /\ task' = [task EXCEPT ![t] = r]
    BY <1>1 DEF InsertFails, Set
  <2>2. Record(task[t])
    BY DEF NumberInv
  <2>3. r.pc = "failed" /\ rows' = rows
    BY <1>1, <2>1, <2>2 DEF Record, InsertFails
  <2> QED BY <2>1, <2>3, FindKept
<1>2. ASSUME NEW t \in Tasks, End(t) PROVE FindInv'
  <2>1. PICK r : r = [task[t] EXCEPT !.pc = "ok"] /\ task' = [task EXCEPT ![t] = r]
    BY <1>2 DEF End, Set
  <2>2. Record(task[t])
    BY DEF NumberInv
  <2>3. /\ r.pc = "ok" /\ r.op = task[t].op /\ r.input = task[t].input /\ r.todo = task[t].todo
        /\ rows' = rows /\ task[t].pc = "next" /\ task[t].todo = {}
    BY <1>2, <2>1, <2>2 DEF Record, End
  <2>4. task'[t] = r /\ MadeBy(t)' = MadeBy(t) /\ \A k : What(k)' = What(k)
    BY <2>1, <2>3 DEF NumberInv, MadeBy, What
  <2>5. ASSUME r.op \in Finders PROVE Balanced(t)'
    <3>1. Balanced(t)
      BY <2>3, <2>5 DEF FindInv
    <3>2. FindingsOf(r) = FindingsOf(task[t]) /\ InputOk(r)
      BY <2>3, <3>1 DEF FindingsOf, InputOk, Balanced
    <3>3. FindingsOf(task'[t]) = FindingsOf(task[t]) /\ InputOk(task'[t])
      BY <3>2, <2>4
    <3> QED BY <2>3, <2>4, <3>1, <3>3 DEF Balanced, FindingsOf, InputOk
  <2> QED BY <2>1, <2>3, <2>5, FindKept
<1>3. ASSUME NEW p \in DOMAIN lock, Die(p) PROVE FindInv'
  <2>1. /\ rows' = rows
        /\ \A t \in Tasks : task'[t] = task[t] \/ task'[t] = [Idle EXCEPT !.pc = "dead"]
    BY <1>3 DEF Die
  <2>2. [Idle EXCEPT !.pc = "dead"].pc = "dead"
    BY DEF Idle
  <2>3. (\A u : MadeBy(u)' = MadeBy(u)) /\ \A k : What(k)' = What(k)
    BY <2>1 DEF MadeBy, What
  <2>4. ASSUME NEW u \in Tasks, Balanced(u), task'[u] = task[u] PROVE Balanced(u)'
    BY <2>3, <2>4 DEF Balanced, FindingsOf, InputOk
  <2> QED BY <2>1, <2>2, <2>3, <2>4 DEF FindInv
<1>4. CASE UNCHANGED vars
  <2>1. rows' = rows /\ task' = task
    BY <1>4 DEF vars
  <2>2. (\A u : MadeBy(u)' = MadeBy(u)) /\ \A k : What(k)' = What(k)
    BY <2>1 DEF MadeBy, What
  <2> QED BY <2>1, <2>2 DEF FindInv, Balanced, FindingsOf, InputOk
<1> QED BY <1>1, <1>2, <1>3, <1>4, FindBegins, FindReads, FindInserts DEF Next

\* What a task has made, is making and has still to make are the findings of
\* what it has read.
THEOREM FindingsHold == Spec => [](NumberInv /\ FindInv)
<1>1. Init => FindInv
  BY FindInit
<1>2. NumberInv /\ FindInv /\ [Next]_vars => FindInv'
  BY FindStep
<1> QED BY <1>1, <1>2, NumbersHold, PTL DEF Spec

\* The severities DEFAIR knows have a largest.
LEMMA LargestSeverity ==
  ASSUME NEW K \in SUBSET (0..Critical), K # {}
  PROVE  Largest(K) \in K /\ \A k \in K : Largest(K) >= k
<1>1. \E n \in K : \A k \in K : n >= k
  <2>1. K \subseteq 0..4
    BY DEF Critical
  <2>2. CASE 4 \in K BY <2>1, <2>2
  <2>3. CASE 4 \notin K /\ 3 \in K BY <2>1, <2>3
  <2>4. CASE 4 \notin K /\ 3 \notin K /\ 2 \in K BY <2>1, <2>4
  <2>5. CASE 4 \notin K /\ 3 \notin K /\ 2 \notin K /\ 1 \in K BY <2>1, <2>5
  <2>6. CASE 4 \notin K /\ 3 \notin K /\ 2 \notin K /\ 1 \notin K
    <3>1. K \subseteq {0}
      BY <2>1, <2>6
    <3>2. PICK n \in K : TRUE
      OBVIOUS
    <3>3. n = 0 /\ \A k \in K : k = 0
      BY <3>1, <3>2
    <3> QED BY <3>2, <3>3
  <2> QED BY <2>2, <2>3, <2>4, <2>5, <2>6
<1> QED BY <1>1, Zenon DEF Largest

\* What every finding of a hunt or a scan is, and which detections have one.
FindingFacts(F, run, from) ==
  /\ \A f \in F :
       /\ f.arts \subseteq Slots
       /\ \A s \in f.arts : run[s].rule = f.rule /\ (run[s].sev # None => f.sev >= run[s].sev)
       /\ f.sev = Medium \/ \E s \in f.arts : run[s].sev = f.sev
  /\ \A s \in Slots : run[s].sev # None /\ run[s].sev >= from =>
       \E f \in F : s \in f.arts /\ f.rule = run[s].rule
  /\ \A f, g \in F : f.rule = g.rule => f = g

\* A hunt groups the high and critical detections by rule.
LEMMA HuntFacts ==
  ASSUME NEW run \in [Slots -> [rule : Rules, sev : Severity]]
  PROVE  FindingFacts(HuntFindings(run), run, High)
<1> DEFINE S == {s \in Slots : run[s].sev \in {High, Critical}}
           Worst(rule) == IF \E s \in Hits(run, rule, S) : run[s].sev = Critical THEN Critical ELSE High
           F == {Finding(rule, Worst(rule), Hits(run, rule, S)) : rule \in {run[s].rule : s \in S}}
<1>1. HuntFindings(run) = F
  BY DEF HuntFindings
<1>2. \A s \in Slots : run[s].sev # None /\ run[s].sev >= High => s \in S
  BY DEF Severity, High, Critical
<1>3. \A rule : Hits(run, rule, S) = {s \in S : run[s].rule = rule}
  BY DEF Hits
<1>4. ASSUME NEW f \in F
      PROVE  /\ f.arts \subseteq Slots
             /\ \A s \in f.arts : run[s].rule = f.rule /\ (run[s].sev # None => f.sev >= run[s].sev)
             /\ f.sev = Medium \/ \E s \in f.arts : run[s].sev = f.sev
  <2>1. PICK x \in S : f = Finding(run[x].rule, Worst(run[x].rule), Hits(run, run[x].rule, S))
    OBVIOUS
  <2>2. /\ f.rule = run[x].rule /\ f.sev = Worst(run[x].rule)
        /\ f.arts = {s \in S : run[s].rule = run[x].rule}
    BY <1>3, <2>1 DEF Finding
  <2>3. \A s \in f.arts : run[s].sev \in {High, Critical} /\ run[s].rule = f.rule /\ s \in Slots
    BY <2>2
  <2>4. f.sev = IF \E s \in f.arts : run[s].sev = Critical THEN Critical ELSE High
    BY <1>3, <2>2
  <2>5. x \in f.arts
    BY <2>2
  <2>6. \A s \in f.arts : f.sev >= run[s].sev
    BY <2>3, <2>4 DEF High, Critical
  <2>7. \E s \in f.arts : run[s].sev = f.sev
    BY <2>3, <2>4, <2>5
  <2> QED BY <2>3, <2>6, <2>7
<1>5. ASSUME NEW s \in S PROVE \E f \in F : s \in f.arts /\ f.rule = run[s].rule
  <2> DEFINE f == Finding(run[s].rule, Worst(run[s].rule), Hits(run, run[s].rule, S))
  <2>1. f \in F
    OBVIOUS
  <2>2. s \in f.arts /\ f.rule = run[s].rule
    BY <1>3 DEF Finding
  <2> QED BY <2>1, <2>2
<1>6. ASSUME NEW f \in F, NEW g \in F, f.rule = g.rule PROVE f = g
  <2>1. PICK p \in {run[s].rule : s \in S} : f = Finding(p, Worst(p), Hits(run, p, S))
    OBVIOUS
  <2>2. PICK q \in {run[s].rule : s \in S} : g = Finding(q, Worst(q), Hits(run, q, S))
    OBVIOUS
  <2>3. f.rule = p /\ g.rule = q
    BY <2>1, <2>2 DEF Finding
  <2> QED BY <1>6, <2>1, <2>2, <2>3
<1> HIDE DEF F, S
<1> QED BY <1>1, <1>2, <1>4, <1>5, <1>6 DEF FindingFacts

\* A scan groups all detections by rule, and keeps a group from the threshold.
LEMMA ScanFacts ==
  ASSUME NEW run \in [Slots -> [rule : Rules, sev : Severity]]
  PROVE  FindingFacts(ScanFindings(run), run, Threshold)
<1> DEFINE Known(rule) == {run[s].sev : s \in Hits(run, rule, Slots)} \ {None}
           Best(rule) == IF Known(rule) = {} THEN Medium ELSE Largest(Known(rule))
           R == {r \in {run[s].rule : s \in Slots} : Best(r) >= Threshold}
           F == {Finding(rule, Best(rule), Hits(run, rule, Slots)) : rule \in R}
<1>1. ScanFindings(run) = F
  BY DEF ScanFindings
<1>2. \A rule : Hits(run, rule, Slots) = {s \in Slots : run[s].rule = rule}
  BY DEF Hits
<1>3. ASSUME NEW rule
      PROVE  /\ Known(rule) \subseteq 0..Critical
             /\ \A s \in Slots : run[s].rule = rule /\ run[s].sev # None => Best(rule) >= run[s].sev
             /\ Best(rule) = Medium \/ \E s \in Slots : run[s].rule = rule /\ run[s].sev = Best(rule)
  <2>1. \A s \in Slots : run[s].sev \in (0..Critical) \cup {None}
    BY DEF Severity
  <2>2. Known(rule) \subseteq 0..Critical
    BY <1>2, <2>1
  <2>3. \A s \in Slots : run[s].rule = rule /\ run[s].sev # None => run[s].sev \in Known(rule)
    BY <1>2
  <2>4. \A k \in Known(rule) : \E s \in Slots : run[s].rule = rule /\ run[s].sev = k
    BY <1>2
  <2> HIDE DEF Known
  <2>5. CASE Known(rule) = {}
    BY <2>2, <2>3, <2>5
  <2>6. CASE Known(rule) # {}
    <3>1. Largest(Known(rule)) \in Known(rule) /\ \A k \in Known(rule) : Largest(Known(rule)) >= k
      BY <2>2, <2>6, LargestSeverity
    <3> QED BY <2>2, <2>3, <2>4, <2>6, <3>1
  <2> QED BY <2>5, <2>6
<1>4. ASSUME NEW f \in F
      PROVE  /\ f.arts \subseteq Slots
             /\ \A s \in f.arts : run[s].rule = f.rule /\ (run[s].sev # None => f.sev >= run[s].sev)
             /\ f.sev = Medium \/ \E s \in f.arts : run[s].sev = f.sev
  <2>1. PICK p \in R : f = Finding(p, Best(p), Hits(run, p, Slots))
    OBVIOUS
  <2>2. f.rule = p /\ f.sev = Best(p) /\ f.arts = {s \in Slots : run[s].rule = p}
    BY <1>2, <2>1 DEF Finding
  <2> HIDE DEF Best, Known
  <2> QED BY <1>3, <2>2
<1>5. ASSUME NEW s \in Slots, run[s].sev # None, run[s].sev >= Threshold
      PROVE  \E f \in F : s \in f.arts /\ f.rule = run[s].rule
  <2> DEFINE p == run[s].rule
  <2>1. Best(p) >= run[s].sev /\ Best(p) \in Int
    <3>1. Known(p) \subseteq 0..Critical /\ Best(p) >= run[s].sev
      BY <1>3, <1>5
    <3>2. Known(p) # {} => Largest(Known(p)) \in 0..4
      BY <3>1, LargestSeverity DEF Critical
    <3>3. Best(p) = IF Known(p) = {} THEN Medium ELSE Largest(Known(p))
      OBVIOUS
    <3> HIDE DEF Known, Best
    <3>4. Best(p) \in Int
      BY <3>2, <3>3 DEF Medium
    <3> QED BY <3>1, <3>4
  <2>2. run[s].sev \in Int /\ Threshold \in Int
    BY <1>5, RecordsAssumption DEF Severity, Critical
  <2>3. p \in R
    <3> HIDE DEF Known, Best
    <3>1. Best(p) >= Threshold
      BY <1>5, <2>1, <2>2
    <3>2. p \in {run[x].rule : x \in Slots}
      OBVIOUS
    <3> QED BY <3>1, <3>2
  <2>4. Finding(p, Best(p), Hits(run, p, Slots)) \in F
    BY <2>3
  <2>5. /\ s \in Finding(p, Best(p), Hits(run, p, Slots)).arts
        /\ Finding(p, Best(p), Hits(run, p, Slots)).rule = p
    BY <1>2 DEF Finding
  <2> QED BY <2>4, <2>5
<1>6. ASSUME NEW f \in F, NEW g \in F, f.rule = g.rule PROVE f = g
  <2>1. PICK p \in R : f = Finding(p, Best(p), Hits(run, p, Slots))
    OBVIOUS
  <2>2. PICK q \in R : g = Finding(q, Best(q), Hits(run, q, Slots))
    OBVIOUS
  <2>3. f.rule = p /\ g.rule = q
    BY <2>1, <2>2 DEF Finding
  <2> QED BY <1>6, <2>1, <2>2, <2>3
<1> HIDE DEF F
<1> QED BY <1>1, <1>4, <1>5, <1>6 DEF FindingFacts

\* The findings of a search are one for each term with a link.
LEMMA WatchFacts ==
  ASSUME NEW linked
  PROVE  /\ \A f \in WatchFindings(linked) :
              f.rule \in Terms /\ f.arts = linked[f.rule] /\ f.arts # {}
         /\ \A u \in Terms : linked[u] # {} => \E f \in WatchFindings(linked) : f.rule = u
         /\ \A f, g \in WatchFindings(linked) : f.rule = g.rule => f = g
<1> DEFINE U == {u \in Terms : linked[u] # {}}
<1>1. WatchFindings(linked) = {Finding(u, Medium, linked[u]) : u \in U}
  BY DEF WatchFindings
<1>2. \A u : Finding(u, Medium, linked[u]).rule = u /\ Finding(u, Medium, linked[u]).arts = linked[u]
  BY DEF Finding
<1>3. ASSUME NEW f \in WatchFindings(linked)
      PROVE  f.rule \in U /\ f = Finding(f.rule, Medium, linked[f.rule])
  <2>1. PICK u \in U : f = Finding(u, Medium, linked[u])
    BY <1>1
  <2>2. f.rule = u
    BY <1>2, <2>1
  <2> QED BY <2>1, <2>2
<1>4. ASSUME NEW u \in Terms, linked[u] # {} PROVE \E f \in WatchFindings(linked) : f.rule = u
  <2>1. Finding(u, Medium, linked[u]) \in WatchFindings(linked)
    BY <1>1, <1>4
  <2> QED BY <1>2, <2>1
<1> QED BY <1>2, <1>3, <1>4

\* What may be linked to a term is cut from the lines with it.
LEMMA CutFacts ==
  ASSUME NEW S, NEW n \in Nat \ {0}, NEW T \in AtMost(S, n)
  PROVE  T \subseteq S /\ (Cardinality(S) <= n => T = S) /\ (S # {} => T # {})
<1>1. CASE Cardinality(S) <= n
  BY <1>1 DEF AtMost
<1>2. CASE ~(Cardinality(S) <= n)
  <2>1. T \in SUBSET S /\ Cardinality(T) = n
    BY <1>2 DEF AtMost
  <2>2. Cardinality({}) = 0
    BY FS_EmptySet
  <2> QED BY <1>2, <2>1, <2>2
<1> QED BY <1>1, <1>2

\* Every line with a term is given, unless a run of ripgrep cut them.
LEMMA LinkFacts ==
  ASSUME NEW search, SearchOk(search), NEW u \in Terms
  PROVE  LET Matching == {s \in Slots : u \in search.lines[s]}
         IN  /\ search.linked[u] \subseteq Matching
             /\ Uncut(search, u) => search.linked[u] \in AtMost(Matching, MaxLinked)
<1> DEFINE lines == search.lines
           Matching == {s \in Slots : u \in lines[s]}
           Kind == IF u \in Literals THEN Literals ELSE Regexes
<1>1. PICK given \in GivenLines(lines, search.engine) : search.linked \in Links(lines, given)
  BY DEF SearchOk
<1>2. search.linked[u] \in AtMost({s \in given : u \in lines[s]}, MaxLinked)
  BY <1>1 DEF Links
<1>3. given \subseteq Slots
  <2>1. \A T : With(lines, T) \subseteq Slots
    BY DEF With
  <2>2. CASE search.engine = "python"
    BY <1>1, <2>1, <2>2 DEF GivenLines
  <2>3. CASE search.engine # "python"
    <3>1. PICK A \in AtMost(With(lines, Literals), MaxCount),
               B \in AtMost(With(lines, Regexes), MaxCount) : given = A \cup B
      BY <1>1, <2>3 DEF GivenLines
    <3>2. A \subseteq With(lines, Literals) /\ B \subseteq With(lines, Regexes)
      BY <3>1, CutFacts, RecordsAssumption
    <3> QED BY <2>1, <3>1, <3>2
  <2> QED BY <2>2, <2>3
<1>4. search.linked[u] \subseteq Matching
  BY <1>2, <1>3, CutFacts, RecordsAssumption
<1>5. ASSUME Uncut(search, u) PROVE search.linked[u] \in AtMost(Matching, MaxLinked)
  <2>1. Matching \subseteq With(lines, Kind) /\ Matching \subseteq With(lines, Terms)
    BY DEF With, Terms
  <2>2. Matching \subseteq given
    <3>1. CASE search.engine = "python"
      BY <1>1, <2>1, <3>1 DEF GivenLines
    <3>2. CASE search.engine # "python"
      <4>1. PICK A \in AtMost(With(lines, Literals), MaxCount),
                 B \in AtMost(With(lines, Regexes), MaxCount) : given = A \cup B
        BY <1>1, <3>2 DEF GivenLines
      <4>2. Cardinality(With(lines, Kind)) <= MaxCount
        BY <1>5, <3>2 DEF Uncut
      <4>3. With(lines, Kind) \subseteq given
        <5>1. CASE u \in Literals
          BY <4>1, <4>2, <5>1, CutFacts, RecordsAssumption
        <5>2. CASE u \notin Literals
          BY <4>1, <4>2, <5>2, CutFacts, RecordsAssumption
        <5> QED BY <5>1, <5>2
      <4> QED BY <2>1, <4>3
    <3> QED BY <3>1, <3>2
  <2>3. {s \in given : u \in lines[s]} = Matching
    BY <1>3, <2>2
  <2> QED BY <1>2, <2>3
<1> QED BY <1>4, <1>5

\* A sequence of rows has finitely many rows of a task.
LEMMA MadeFinite ==
  ASSUME NumberInv, NEW t PROVE IsFiniteSet(MadeBy(t))
<1>1. PICK S : rows["finding"] \in Seq(S)
  BY DEF NumberInv, Consecutive, Contended
<1>2. DOMAIN rows["finding"] = 1..Len(rows["finding"]) /\ Len(rows["finding"]) \in Int
  BY <1>1
<1>3. IsFiniteSet(DOMAIN rows["finding"])
  BY <1>2, FS_Interval
<1>4. MadeBy(t) \subseteq DOMAIN rows["finding"]
  BY DEF MadeBy
<1> QED BY <1>3, <1>4, FS_Subset

\* A hunt or a scan that ended well has one finding for each detection.
LEMMA DetectionsHold ==
  ASSUME NumberInv, FindInv, NEW t \in Tasks, task[t].pc = "ok", task[t].op \in {"hunt", "scan"},
         NEW from, from = IF task[t].op = "hunt" THEN High ELSE Threshold
  PROVE  /\ \A s \in Slots : task[t].input[s].sev # None /\ task[t].input[s].sev >= from
               => Cardinality(Made(t, s)) = 1
         /\ \A i \in MadeBy(t) :
              /\ \A s \in What(i).arts :
                    /\ task[t].input[s].rule = What(i).rule
                    /\ task[t].input[s].sev # None => What(i).sev >= task[t].input[s].sev
              /\ What(i).sev = Medium \/ \E s \in What(i).arts : task[t].input[s].sev = What(i).sev
<1> DEFINE F == FindingsOf(task[t])
           run == task[t].input
<1>1. Balanced(t)
  BY DEF FindInv, Finders
<1>2. run \in [Slots -> [rule : Rules, sev : Severity]]
  BY <1>1 DEF Balanced, InputOk
<1>3. FindingFacts(F, run, from)
  <2>1. CASE task[t].op = "hunt"
    BY <2>1, <1>2, HuntFacts DEF FindingsOf
  <2>2. CASE task[t].op = "scan"
    BY <2>2, <1>2, ScanFacts DEF FindingsOf
  <2> QED BY <2>1, <2>2
<1>4. /\ \A i \in MadeBy(t) : What(i) \in F
      /\ \A i, j \in MadeBy(t) : What(i) = What(j) => i = j
      /\ \A f \in F : \E i \in MadeBy(t) : What(i) = f
  BY <1>1 DEF Balanced
<1> HIDE DEF F
<1>5. ASSUME NEW s \in Slots, run[s].sev # None, run[s].sev >= from
      PROVE  Cardinality(Made(t, s)) = 1
  <2>1. PICK f \in F : s \in f.arts /\ f.rule = run[s].rule
    BY <1>3, <1>5 DEF FindingFacts
  <2>2. PICK i \in MadeBy(t) : What(i) = f
    BY <1>4
  <2>3. \A j \in MadeBy(t) : s \in What(j).arts => j = i
    <3> SUFFICES ASSUME NEW j \in MadeBy(t), s \in What(j).arts PROVE j = i
      OBVIOUS
    <3>1. What(j) \in F /\ What(j).rule = run[s].rule
      BY <1>3, <1>4 DEF FindingFacts
    <3>2. What(j) = f
      BY <3>1, <2>1, <1>3 DEF FindingFacts
    <3> QED BY <3>2, <2>2, <1>4
  <2>4. Made(t, s) = {j \in MadeBy(t) : s \in What(j).arts}
    BY DEF Made, What
  <2>5. Made(t, s) = {i}
    BY <2>1, <2>2, <2>3, <2>4
  <2> QED BY <2>5, FS_Singleton
<1>6. ASSUME NEW i \in MadeBy(t)
      PROVE  /\ \A s \in What(i).arts :
                    /\ run[s].rule = What(i).rule
                    /\ run[s].sev # None => What(i).sev >= run[s].sev
             /\ What(i).sev = Medium \/ \E s \in What(i).arts : run[s].sev = What(i).sev
  BY <1>3, <1>4 DEF FindingFacts
<1> QED BY <1>5, <1>6

\* A search that ended well has made the findings of its links.
LEMMA TermsHold ==
  ASSUME NumberInv, FindInv, NEW t \in Tasks, task[t].pc = "ok", task[t].op = "watch",
         NEW u \in Terms
  PROVE  LET Matching == {s \in Slots : u \in task[t].input.lines[s]}
             Mine == {i \in MadeBy(t) : What(i).rule = u}
         IN  /\ \A i, j \in Mine : i = j
             /\ \A i \in Mine : What(i).arts # {} /\ What(i).arts \subseteq Matching
             /\ Uncut(task[t].input, u) /\ Matching # {} =>
                    \E i \in Mine : What(i).arts \in AtMost(Matching, MaxLinked)
<1> DEFINE search == task[t].input
           F == WatchFindings(search.linked)
           Matching == {s \in Slots : u \in search.lines[s]}
           Mine == {i \in MadeBy(t) : What(i).rule = u}
<1>1. Balanced(t) /\ FindingsOf(task[t]) = F
  BY DEF FindInv, Finders, FindingsOf
<1>2. SearchOk(search)
  BY <1>1 DEF Balanced, InputOk
<1>3. /\ \A i \in MadeBy(t) : What(i) \in F
      /\ \A i, j \in MadeBy(t) : What(i) = What(j) => i = j
      /\ \A f \in F : \E i \in MadeBy(t) : What(i) = f
  BY <1>1 DEF Balanced
<1>4. /\ \A f \in F : f.rule \in Terms /\ f.arts = search.linked[f.rule] /\ f.arts # {}
      /\ search.linked[u] # {} => \E f \in F : f.rule = u
      /\ \A f, g \in F : f.rule = g.rule => f = g
  BY WatchFacts
<1>5. /\ search.linked[u] \subseteq Matching
      /\ Uncut(search, u) => search.linked[u] \in AtMost(Matching, MaxLinked)
  BY <1>2, LinkFacts
<1> HIDE DEF F, Matching, search
<1>6. \A i, j \in Mine : i = j
  BY <1>3, <1>4
<1>7. \A i \in Mine : What(i).arts = search.linked[u] /\ What(i).arts # {}
  BY <1>3, <1>4
<1>8. ASSUME Uncut(search, u), Matching # {}
      PROVE  \E i \in Mine : What(i).arts \in AtMost(Matching, MaxLinked)
  <2>1. search.linked[u] # {}
    BY <1>5, <1>8, CutFacts, RecordsAssumption
  <2>2. PICK f \in F : f.rule = u
    BY <1>4, <2>1
  <2>3. PICK i \in MadeBy(t) : What(i) = f
    BY <1>3
  <2> QED BY <1>5, <1>7, <1>8, <2>2, <2>3
<1> QED BY <1>5, <1>6, <1>7, <1>8 DEF Matching, search

\* A hunt or a scan that ended well has made exactly one finding for each
\* detection, a search one for each term within the limits of ripgrep and of a
\* finding (EveryDetectionFound), whatever other tasks do; for every limit.
THEOREM DetectionsAreFound == Spec => []EveryDetectionFound
<1>1. NumberInv /\ FindInv => TermsFound
  <2> SUFFICES ASSUME NumberInv, FindInv, NEW t \in Tasks, task[t].pc = "ok",
                      task[t].op = "watch", NEW u \in Terms
               PROVE  LET Matching == {s \in Slots : u \in task[t].input.lines[s]}
                          Of(i) == rows["finding"][i].what
                          Mine == {i \in MadeBy(t) : Of(i).rule = u}
                      IN  /\ \A i, j \in Mine : i = j
                          /\ \A i \in Mine : Of(i).arts # {} /\ Of(i).arts \subseteq Matching
                          /\ Uncut(task[t].input, u) /\ Matching # {} =>
                                 \E i \in Mine : Of(i).arts \in AtMost(Matching, MaxLinked)
    BY DEF TermsFound
  <2> QED BY TermsHold DEF What
<1>2. NumberInv /\ FindInv => DetectionsFound
  <2> SUFFICES ASSUME NumberInv, FindInv, NEW t \in Tasks,
                      task[t].pc = "ok", task[t].op \in {"hunt", "scan"}
               PROVE  LET run == task[t].input
                          from == IF task[t].op = "hunt" THEN High ELSE Threshold
                      IN  /\ \A s \in Slots : run[s].sev # None /\ run[s].sev >= from =>
                                 Cardinality(Made(t, s)) = 1
                          /\ \A i \in MadeBy(t) :
                               LET f == rows["finding"][i].what
                               IN  /\ \A s \in f.arts : run[s].rule = f.rule
                                                        /\ (run[s].sev # None => f.sev >= run[s].sev)
                                   /\ f.sev = Medium \/ \E s \in f.arts : run[s].sev = f.sev
    BY DEF DetectionsFound
  <2> QED BY DetectionsHold DEF What
<1> QED BY <1>1, <1>2, FindingsHold, PTL DEF EveryDetectionFound
===============================================================================
