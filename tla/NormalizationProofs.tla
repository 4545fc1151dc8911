------------------------- MODULE NormalizationProofs -------------------------
(***************************************************************************)
(* Theorems about Normalization, for any number of tasks, runs, records,   *)
(* types and versions of the normalizers.                                  *)
(***************************************************************************)
EXTENDS Normalization, FiniteSetTheorems, TLAPS

(***************************************************************************)
(* Types                                                                   *)
(***************************************************************************)
Pc == {"idle", "delete", "number", "file", "insert"} \cup Storing

Ids == Runs \X Keys \X Nat
Art == [id : Ids, type : Types, version : Nat]

\* A list of artifacts, by the place of their row.
Listed(l, S) == DOMAIN l \in SUBSET Nat /\ \A i \in DOMAIN l : l[i] \in S

NoClash(S) == \A a, b \in S : Clash(a, b) => a = b

FileOK(f) ==
  /\ f = [run |-> f.run, type |-> f.type, hash |-> f.hash]
  /\ f.run \in Runs /\ f.type \in Types /\ Listed(f.hash, ArtRow)

DbOK(db) ==
  /\ db = [arts |-> db.arts, files |-> db.files]
  /\ db.arts \in SUBSET ArtRow /\ NoClash(db.arts)
  /\ \A f \in db.files : FileOK(f)

Cells == {"pc", "cmd", "run", "keep", "rows", "todo", "got"}

Record(c) == c = [i \in Cells |-> c[i]]

TaskOK(c) ==
  /\ Record(c) /\ c.pc \in Pc
  /\ c.pc \in {"delete", "number", "insert"} \cup Storing => c.run \in Runs
  /\ c.pc \in {"delete", "number"} => c.keep \in SUBSET [id : Ids, number : Nat]
  /\ c.pc = "number" => Listed(c.rows, Art) /\ IsFiniteSet(DOMAIN c.rows)
  /\ c.pc \in Storing => Listed(c.rows, ArtRow)
  /\ c.pc \in {"store", "open", "write"} => c.todo \in SUBSET Types
  /\ c.pc = "batch" => c.todo \in SUBSET DOMAIN c.rows
  /\ c.pc = "write" => c.got[1] \in Types
  /\ c.pc \in {"file", "insert"} => \A f \in c.todo : FileOK(f)
  /\ c.pc = "insert" => Listed(c.got, ArtRow)

OneStores ==
  \A t \in Tasks : task[t].pc \in Storing => \A u \in Siblings(t) : task[u].pc \notin Storing

TypeInv ==
  /\ DbOK(committed) /\ DbOK(pending)
  /\ writer \in {Process[t] : t \in Tasks} \cup {None}
  /\ task = [t \in Tasks |-> task[t]] /\ \A t \in Tasks : TaskOK(task[t])
  /\ OneStores
  /\ version \in Versions
  /\ lost \in SUBSET Runs /\ torn \in SUBSET Runs

(***************************************************************************)
(* What the operators return                                               *)
(***************************************************************************)
\* enrich: the artifacts of a run have different ids, which tell the run.
LEMMA Enriched ==
  ASSUME NEW v \in Versions, NEW r \in Runs
  PROVE  /\ Listed(Enrich(v, r), Art) /\ IsFiniteSet(DOMAIN Enrich(v, r))
         /\ \A i \in DOMAIN Enrich(v, r) : Enrich(v, r)[i].id[1] = r
         /\ \A i, j \in DOMAIN Enrich(v, r) : Enrich(v, r)[i].id = Enrich(v, r)[j].id => i = j
<1> DEFINE rows == Rows[v][r]
           kept == {i \in DOMAIN rows : rows[i].type # Skipped}
           Same(i) == {j \in kept : j <= i /\ rows[j].key = rows[i].key}
<1>1. rows \in Seq(Row)
  BY RowsShape DEF Versions
<1>2. /\ kept \in SUBSET (1..Len(rows)) /\ Len(rows) \in Nat
      /\ \A i \in kept : rows[i].key \in Keys /\ rows[i].type \in Types
  <2> HIDE DEF rows
  <2>1. Len(rows) \in Nat /\ DOMAIN rows = 1..Len(rows)
    BY <1>1
  <2>2. \A i \in 1..Len(rows) : rows[i] \in Row
    BY <1>1
  <2> QED BY <2>1, <2>2 DEF Row
<1>3. IsFiniteSet(kept) /\ \A i \in kept : IsFiniteSet(Same(i))
  <2>1. IsFiniteSet(1..Len(rows))
    BY <1>2, 1 \in Int, Len(rows) \in Int, FS_Interval
  <2>2. IsFiniteSet(kept)
    BY <1>2, <2>1, FS_Subset
  <2>3. \A i \in kept : Same(i) \subseteq kept
    OBVIOUS
  <2> QED BY <2>2, <2>3, FS_Subset
<1>4. \A i \in kept : Cardinality(Same(i)) \in Nat
  BY <1>3, FS_CardinalityType
<1>5. /\ DOMAIN Enrich(v, r) = kept
      /\ \A i \in kept : Enrich(v, r)[i] = [id |-> <<r, rows[i].key, Cardinality(Same(i))>>,
                                            type |-> rows[i].type, version |-> v]
  BY DEF Enrich
<1>6. v \in Nat
  BY RowsShape DEF Versions
<1>7. \A i \in kept : Enrich(v, r)[i] \in Art /\ Enrich(v, r)[i].id[1] = r
  <2> SUFFICES ASSUME NEW i \in kept
               PROVE  Enrich(v, r)[i] \in Art /\ Enrich(v, r)[i].id[1] = r
    OBVIOUS
  <2>1. <<r, rows[i].key, Cardinality(Same(i))>> \in Ids
    BY <1>2, <1>4 DEF Ids
  <2>2. rows[i].type \in Types
    BY <1>2
  <2> HIDE DEF kept, Same, rows
  <2> QED BY <1>5, <1>6, <2>1, <2>2 DEF Art
<1>8. ASSUME NEW i \in kept, NEW j \in kept, i < j, rows[i].key = rows[j].key
      PROVE  Cardinality(Same(i)) # Cardinality(Same(j))
  <2>1. i \in Nat /\ j \in Nat /\ \A k \in kept : k \in Nat
    BY <1>2
  <2>2. Same(i) \subseteq Same(j) /\ j \in Same(j) /\ j \notin Same(i)
    BY <1>8, <2>1
  <2>3. IsFiniteSet(Same(j))
    BY <1>3
  <2> QED BY <2>2, <2>3, FS_Subset, Zenon
<1>9. ASSUME NEW i \in kept, NEW j \in kept, Enrich(v, r)[i].id = Enrich(v, r)[j].id
      PROVE  i = j
  <2>1. rows[i].key = rows[j].key /\ Cardinality(Same(i)) = Cardinality(Same(j))
    <3> HIDE DEF kept, Same, rows
    <3> QED BY <1>5, <1>9
  <2>2. i \in Nat /\ j \in Nat
    BY <1>2
  <2>3. i < j \/ j < i \/ i = j
    BY <2>2
  <2> HIDE DEF kept, Same, rows
  <2> QED BY <1>8, <2>1, <2>3
<1>10. DOMAIN Enrich(v, r) \in SUBSET Nat
  BY <1>2, <1>5
<1> HIDE DEF kept
<1> QED BY <1>3, <1>5, <1>7, <1>9, <1>10 DEF Listed

\* _store_run: a number is one of those kept, or comes from the sequence.
LEMMA NumbersGiven ==
  ASSUME NEW arts, Listed(arts, Art), IsFiniteSet(DOMAIN arts),
         NEW keep \in SUBSET [id : Ids, number : Nat], NEW next \in Nat
  PROVE  LET rows == Numbered(arts, keep, next)
         IN  /\ DOMAIN rows = DOMAIN arts /\ Listed(rows, ArtRow)
             /\ \A i \in DOMAIN arts :
                  /\ rows[i].id = arts[i].id /\ rows[i].type = arts[i].type
                  /\ rows[i].version = arts[i].version
                  /\ \/ \E k \in keep : k.id = arts[i].id /\ rows[i].number = k.number
                     \/ /\ \A k \in keep : k.id # arts[i].id
                        /\ rows[i].number >= next
             /\ \A i, j \in DOMAIN arts :
                  /\ \A k \in keep : k.id # arts[i].id /\ k.id # arts[j].id
                  /\ rows[i].number = rows[j].number
                  => i = j
<1> DEFINE rows == Numbered(arts, keep, next)
           Kept(i) == \E k \in keep : k.id = arts[i].id
           Before(i) == {j \in DOMAIN arts : j < i /\ ~Kept(j)}
           Number(i) == IF Kept(i) THEN (CHOOSE k \in keep : k.id = arts[i].id).number
                                   ELSE next + Cardinality(Before(i))
<1>1. /\ DOMAIN rows = DOMAIN arts
      /\ \A i \in DOMAIN arts : rows[i] = [id |-> arts[i].id, type |-> arts[i].type,
                                           version |-> arts[i].version, number |-> Number(i)]
  BY DEF Numbered
<1>2. \A i \in DOMAIN arts : IsFiniteSet(Before(i)) /\ Cardinality(Before(i)) \in Nat
  <2>1. \A i \in DOMAIN arts : Before(i) \subseteq DOMAIN arts
    OBVIOUS
  <2> QED BY <2>1, FS_Subset, FS_CardinalityType
<1>3. \A i \in DOMAIN arts :
        Kept(i) => \E k \in keep : k.id = arts[i].id /\ Number(i) = k.number
  OBVIOUS
<1>4. \A i \in DOMAIN arts : ~Kept(i) => Number(i) \in Nat /\ Number(i) >= next
  <2> HIDE DEF Before, Kept
  <2> QED BY <1>2
<1>5. ASSUME NEW i \in DOMAIN arts, NEW j \in DOMAIN arts, i < j, ~Kept(i), ~Kept(j)
      PROVE  Number(i) # Number(j)
  <2>1. \A k \in DOMAIN arts : k \in Nat
    BY DEF Listed
  <2>2. Before(i) \subseteq Before(j) /\ i \in Before(j) /\ i \notin Before(i)
    BY <1>5, <2>1
  <2>3. Cardinality(Before(i)) # Cardinality(Before(j))
    BY <1>2, <2>2, FS_Subset, Zenon
  <2> HIDE DEF Before
  <2> QED BY <1>2, <1>5, <2>3
<1>6. \A i \in DOMAIN arts : Number(i) \in Nat
  BY <1>3, <1>4
<1> HIDE DEF Number, Before
<1>7. \A i \in DOMAIN arts : rows[i] \in ArtRow
  <2> SUFFICES ASSUME NEW i \in DOMAIN arts PROVE rows[i] \in ArtRow
    OBVIOUS
  <2>1. arts[i] \in Art
    BY DEF Listed
  <2> QED BY <1>1, <1>6, <2>1 DEF Art, ArtRow, Ids
<1>8. ASSUME NEW i \in DOMAIN arts, NEW j \in DOMAIN arts, ~Kept(i), ~Kept(j),
             rows[i].number = rows[j].number
      PROVE  i = j
  <2>1. i \in Nat /\ j \in Nat
    BY DEF Listed
  <2>2. Number(i) = Number(j)
    BY <1>1, <1>8
  <2> QED BY <1>5, <1>8, <2>1, <2>2
<1>9. Listed(rows, ArtRow)
  BY <1>1, <1>7 DEF Listed
<1>10. \A i \in DOMAIN arts : rows[i].number = Number(i)
  BY <1>1
<1> HIDE DEF rows
<1>11. ASSUME NEW i \in DOMAIN arts
       PROVE  \/ \E k \in keep : k.id = arts[i].id /\ rows[i].number = k.number
              \/ /\ \A k \in keep : k.id # arts[i].id
                 /\ rows[i].number >= next
  BY <1>3, <1>4, <1>10
<1>12. \A i \in DOMAIN arts : /\ rows[i].id = arts[i].id /\ rows[i].type = arts[i].type
                              /\ rows[i].version = arts[i].version
  BY <1>1
<1>13. \A i, j \in DOMAIN arts :
         /\ \A k \in keep : k.id # arts[i].id /\ k.id # arts[j].id
         /\ rows[i].number = rows[j].number
         => i = j
  BY <1>8
<1>14. DOMAIN rows = DOMAIN arts
  BY <1>1
<1>15. QED BY <1>9, <1>11, <1>12, <1>13, <1>14 DEF rows

\* INSERT OR REPLACE never leaves two rows of one id or of one number.
LEMMA BulkType ==
  ASSUME NEW arts \in SUBSET ArtRow, NoClash(arts), NEW rows, Listed(rows, ArtRow)
  PROVE  BulkInsert(arts, rows) \in SUBSET ArtRow /\ NoClash(BulkInsert(arts, rows))
<1>1. \A i, j \in DOMAIN rows : i = j \/ i > j \/ j > i
  BY DEF Listed
<1>2. \A i \in DOMAIN rows : rows[i] \in ArtRow
  BY DEF Listed
<1>3. BulkInsert(arts, rows) \in SUBSET ArtRow
  BY <1>2 DEF BulkInsert
<1>4. ASSUME NEW a \in BulkInsert(arts, rows), NEW b \in BulkInsert(arts, rows), Clash(a, b)
      PROVE  a = b
  <2>1. \/ a \in arts /\ \A i \in DOMAIN rows : ~Clash(a, rows[i])
        \/ \E j \in DOMAIN rows : a = rows[j] /\ \A k \in DOMAIN rows : k > j => ~Clash(rows[j], rows[k])
    BY DEF BulkInsert
  <2>2. \/ b \in arts /\ \A i \in DOMAIN rows : ~Clash(b, rows[i])
        \/ \E j \in DOMAIN rows : b = rows[j] /\ \A k \in DOMAIN rows : k > j => ~Clash(rows[j], rows[k])
    BY DEF BulkInsert
  <2>3. Clash(b, a)
    BY <1>4 DEF Clash
  <2> QED BY <1>1, <1>4, <2>1, <2>2, <2>3 DEF NoClash
<1> QED BY <1>3, <1>4 DEF NoClash

\* Rows that clash with no other row replace nothing.
LEMMA BulkAdds ==
  ASSUME NEW arts, NEW rows, DOMAIN rows \in SUBSET Nat,
         \A a \in arts, i \in DOMAIN rows : Clash(a, rows[i]) => a = rows[i],
         \A i, j \in DOMAIN rows : Clash(rows[i], rows[j]) => i = j
  PROVE  BulkInsert(arts, rows) = arts \cup RangeOf(rows)
<1>1. {i \in DOMAIN rows : \A k \in DOMAIN rows : k > i => ~Clash(rows[i], rows[k])} = DOMAIN rows
  <2>1. \A i, k \in DOMAIN rows : k > i => i # k
    OBVIOUS
  <2> QED BY <2>1
<1>2. BulkInsert(arts, rows) = {a \in arts : \A i \in DOMAIN rows : ~Clash(a, rows[i])} \cup RangeOf(rows)
  BY <1>1 DEF BulkInsert, RangeOf
<1>3. \A a \in arts : (\A i \in DOMAIN rows : ~Clash(a, rows[i])) \/ a \in RangeOf(rows)
  BY DEF RangeOf
<1> QED BY <1>2, <1>3

(***************************************************************************)
(* Type correctness, whatever the users do and whatever fails.             *)
(***************************************************************************)
\* An action of one task: what it makes of the others' exclusion.
LEMMA TaskStep ==
  ASSUME TypeInv, NEW t \in Tasks, NEW c, TaskOK(c), task' = [task EXCEPT ![t] = c],
         c.pc \in Storing =>
           task[t].pc \in Storing \/ \A u \in Siblings(t) : task[u].pc \notin Storing
  PROVE  task' = [u \in Tasks |-> task'[u]] /\ (\A u \in Tasks : TaskOK(task[u])') /\ OneStores'
<1>1. /\ DOMAIN task = Tasks /\ DOMAIN task' = Tasks /\ task'[t] = c
      /\ \A u \in Tasks \ {t} : task'[u] = task[u]
  BY DEF TypeInv
<1>2. task' = [u \in Tasks |-> task'[u]]
  BY DEF TypeInv
<1>3. \A u \in Tasks : TaskOK(task[u])'
  <2> SUFFICES ASSUME NEW u \in Tasks PROVE TaskOK(task'[u])
    BY DEF TaskOK, Record, FileOK
  <2> QED BY <1>1 DEF TypeInv
<1>4. OneStores'
  <2> SUFFICES ASSUME NEW u \in Tasks, task'[u].pc \in Storing, NEW w \in Tasks, w # u,
                      Process[w] = Process[u]
               PROVE  task'[w].pc \notin Storing
    BY DEF OneStores, Siblings
  <2>1. CASE u = t
    BY <1>1, <2>1 DEF TypeInv, OneStores, Siblings
  <2>2. CASE w = t
    BY <1>1, <2>2 DEF TypeInv, OneStores, Siblings
  <2>3. CASE u # t /\ w # t
    BY <1>1, <2>3 DEF TypeInv, OneStores, Siblings
  <2> QED BY <2>1, <2>2, <2>3
<1> QED BY <1>2, <1>3, <1>4

\* A write of a typed database.
LEMMA WriteType ==
  ASSUME TypeInv, NEW t \in Tasks, NEW db, DbOK(db), Write(t, db)
  PROVE  DbOK(committed)' /\ DbOK(pending)' /\ writer' \in {Process[u] : u \in Tasks}
<1> USE DEF Write, TypeInv
<1>1. DbOK(committed')
  OBVIOUS
<1>2. DbOK(pending')
  OBVIOUS
<1> QED BY <1>1, <1>2 DEF DbOK, FileOK, NoClash, Clash

LEMMA ViewType == ASSUME TypeInv, NEW t \in Tasks PROVE DbOK(View(t))
BY DEF TypeInv, View

LEMMA TypeInit == Init => TypeInv
<1> SUFFICES ASSUME Init PROVE TypeInv
  OBVIOUS
<1> USE DEF Init
<1>1. DbOK(committed) /\ DbOK(pending)
  BY DEF DbOK, NoClash
<1>2. TaskOK(Idle)
  BY DEF TaskOK, Idle, Record, Cells, Pc, Storing
<1>3. OneStores
  BY DEF OneStores, Idle, Storing, Siblings
<1> QED BY <1>1, <1>2, <1>3, RowsShape DEF TypeInv, Versions

LEMMA TypeStep == ASSUME TypeInv, [Next]_vars PROVE TypeInv'
<1> USE DEF Storing
<1>t. \A t \in Tasks : TaskOK(task[t])
  BY DEF TypeInv
<1>f. ASSUME DbOK(committed)', DbOK(pending)',
             writer' \in {Process[t] : t \in Tasks} \cup {None},
             task' = [t \in Tasks |-> task'[t]], \A t \in Tasks : TaskOK(task[t])',
             OneStores', version' \in Versions, lost' \in SUBSET Runs, torn' \in SUBSET Runs
      PROVE  TypeInv'
  BY <1>f DEF TypeInv
<1>d. ASSUME NoDb
      PROVE  DbOK(committed)' /\ DbOK(pending)' /\ writer' = writer
  <2>1. committed' = committed /\ pending' = pending
    BY <1>d DEF NoDb
  <2> QED BY <1>d, <2>1 DEF NoDb, TypeInv, DbOK, FileOK, NoClash, Clash
<1>e. /\ TaskOK(Idle) /\ Record(Idle) /\ Idle.pc = "idle" /\ Idle.cmd = None /\ Idle.run = None
      /\ Idle.keep = {} /\ Idle.rows = <<>> /\ Idle.todo = {} /\ Idle.got = <<>>
  BY DEF TaskOK, Idle, Record, Cells, Pc
<1>r. \A t \in Tasks : Record(task[t])
  BY DEF TypeInv, TaskOK
<1>1. ASSUME NEW t \in Tasks, NEW r \in Runs, Normalize(t, r)
      PROVE  TypeInv'
  <2> DEFINE c == [Idle EXCEPT !.pc = "number", !.cmd = "run", !.run = r,
                               !.rows = Enrich(version, r)]
  <2>1. TaskOK(c) /\ c.pc = "number"
    <3>1. /\ Record(c) /\ c.pc = "number" /\ c.cmd = "run" /\ c.run = r
          /\ c.keep = {} /\ c.rows = Enrich(version, r)
          /\ c.todo = {} /\ c.got = <<>>
      BY <1>e DEF Record, Cells
    <3> HIDE DEF c
    <3> QED BY <3>1, Enriched, <1>t DEF TaskOK, Pc, TypeInv
  <2>2. task' = [task EXCEPT ![t] = c] /\ NoDb /\ version' = version /\ lost' = lost /\ torn' = torn
    BY <1>1 DEF Normalize
  <2> HIDE DEF c
  <2> QED BY <1>d, <1>f, <2>1, <2>2, TaskStep DEF TypeInv
<1>2. ASSUME NEW t \in Tasks, NEW r \in Runs, RerunRead(t, r)
      PROVE  TypeInv'
  <2> DEFINE keep == {[id |-> a.id, number |-> a.number] : a \in ArtsOf(committed, r)}
             c == [Idle EXCEPT !.pc = "delete", !.cmd = "rerun", !.run = r, !.keep = keep]
  <2>1. keep \in SUBSET [id : Ids, number : Nat]
    BY DEF TypeInv, DbOK, ArtsOf, ArtRow, Ids
  <2>2. TaskOK(c) /\ c.pc = "delete"
    <3>1. /\ Record(c) /\ c.pc = "delete" /\ c.cmd = "rerun" /\ c.run = r
          /\ c.keep = keep /\ c.rows = <<>>
          /\ c.todo = {} /\ c.got = <<>>
      BY <1>e DEF Record, Cells
    <3> HIDE DEF c
    <3> QED BY <3>1, <2>1, <1>t DEF TaskOK, Pc
  <2>3. task' = [task EXCEPT ![t] = c] /\ NoDb /\ version' = version /\ lost' = lost /\ torn' = torn
    BY <1>2 DEF RerunRead
  <2> HIDE DEF c
  <2> QED BY <1>d, <1>f, <2>2, <2>3, TaskStep DEF TypeInv
<1>3. ASSUME NEW t \in Tasks, RerunDelete(t)
      PROVE  TypeInv'
  <2> DEFINE c == [task[t] EXCEPT !.pc = "number", !.rows = Enrich(version, task[t].run)]
             db == [View(t) EXCEPT !.arts = @ \ ArtsOf(View(t), task[t].run)]
  <2>1. task[t].pc = "delete" /\ Write(t, db) /\ version' = version /\ lost' = lost /\ torn' = torn
    BY <1>3 DEF RerunDelete
  <2>2. task' = [task EXCEPT ![t] = c]
    BY <1>3 DEF RerunDelete
  <2>3. TaskOK(c) /\ c.pc = "number"
    <3>1. /\ Record(c) /\ c.pc = "number" /\ c.cmd = task[t].cmd /\ c.run = task[t].run
          /\ c.keep = task[t].keep /\ c.rows = Enrich(version, task[t].run)
          /\ c.todo = task[t].todo /\ c.got = task[t].got
      BY <1>r DEF Record, Cells
    <3> HIDE DEF c
    <3> QED BY <3>1, <1>t, <2>1, Enriched DEF TaskOK, Pc, TypeInv
  <2>4. DbOK(db)
    <3>1. /\ db.arts = View(t).arts \ ArtsOf(View(t), task[t].run) /\ db.files = View(t).files
          /\ db = [arts |-> db.arts, files |-> db.files]
      <4>1. View(t) = [arts |-> View(t).arts, files |-> View(t).files]
        BY ViewType DEF DbOK
      <4> QED BY <4>1
    <3> HIDE DEF db
    <3> QED BY <3>1, ViewType DEF DbOK, NoClash
  <2> HIDE DEF c, db
  <2> QED BY <1>f, <2>1, <2>2, <2>3, <2>4, TaskStep, WriteType DEF TypeInv
<1>4. ASSUME NEW t \in Tasks, NEW n \in {1} \cup {a.number + 1 : a \in View(t).arts},
             ReadNumbers(t, n)
      PROVE  TypeInv'
  <2> DEFINE rows == Numbered(task[t].rows, task[t].keep, n)
             todo == {rows[i].type : i \in DOMAIN rows}
             c == [task[t] EXCEPT !.pc = "store", !.rows = rows, !.todo = todo]
  <2>1. /\ task[t].pc = "number" /\ NoDb /\ version' = version /\ lost' = lost /\ torn' = torn
        /\ \A u \in Siblings(t) : task[u].pc \notin Storing
    BY <1>4 DEF ReadNumbers
  <2>2. task' = [task EXCEPT ![t] = c]
    BY <1>4 DEF ReadNumbers
  <2>3. n \in Nat
    BY ViewType DEF DbOK, ArtRow
  <2>4. Listed(rows, ArtRow)
    BY <1>t, <2>1, <2>3, NumbersGiven DEF TaskOK
  <2>5. todo \in SUBSET Types
    BY <2>4 DEF Listed, ArtRow
  <2> HIDE DEF rows, todo
  <2>6. TaskOK(c) /\ c.pc = "store"
    <3>1. /\ Record(c) /\ c.pc = "store" /\ c.cmd = task[t].cmd /\ c.run = task[t].run
          /\ c.keep = task[t].keep /\ c.rows = rows
          /\ c.todo = todo /\ c.got = task[t].got
      BY <1>r DEF Record, Cells
    <3> HIDE DEF c
    <3> QED BY <3>1, <1>t, <2>1, <2>4, <2>5 DEF TaskOK, Pc
  <2> HIDE DEF c
  <2> QED BY <1>d, <1>f, <2>1, <2>2, <2>6, TaskStep DEF TypeInv
<1>5. ASSUME NEW t \in Tasks, DropRecords(t)
      PROVE  TypeInv'
  <2> DEFINE c == [task[t] EXCEPT !.pc = "open"]
             db == [View(t) EXCEPT !.files = {f \in @ : f.run # task[t].run}]
  <2>1. task[t].pc = "store" /\ Write(t, db) /\ version' = version /\ lost' = lost /\ torn' = torn
    BY <1>5 DEF DropRecords
  <2>2. task' = [task EXCEPT ![t] = c]
    BY <1>5 DEF DropRecords, Goto
  <2>3. TaskOK(c)
    <3>1. /\ Record(c) /\ c.pc = "open" /\ c.cmd = task[t].cmd /\ c.run = task[t].run
          /\ c.keep = task[t].keep /\ c.rows = task[t].rows
          /\ c.todo = task[t].todo /\ c.got = task[t].got
      BY <1>r DEF Record, Cells
    <3> HIDE DEF c
    <3> QED BY <3>1, <2>1, <1>t DEF TaskOK, Pc
  <2>4. DbOK(db)
    <3>1. /\ db.arts = View(t).arts /\ db.files = {f \in View(t).files : f.run # task[t].run}
          /\ db = [arts |-> db.arts, files |-> db.files]
      <4>1. View(t) = [arts |-> View(t).arts, files |-> View(t).files]
        BY ViewType DEF DbOK
      <4> QED BY <4>1
    <3> HIDE DEF db
    <3> QED BY <3>1, ViewType DEF DbOK
  <2> HIDE DEF c, db
  <2> QED BY <1>f, <2>1, <2>2, <2>3, <2>4, TaskStep, WriteType DEF TypeInv
<1>6. ASSUME NEW t \in Tasks, NEW y \in Types, OpenFile(t, y)
      PROVE  TypeInv'
  <2> DEFINE c == [task[t] EXCEPT !.pc = "write", !.todo = @ \ {y}, !.got = <<y>>]
  <2>1. task[t].pc = "open" /\ NoDb /\ version' = version /\ lost' = lost /\ torn' = torn
    BY <1>6 DEF OpenFile
  <2>2. task' = [task EXCEPT ![t] = c]
    BY <1>6 DEF OpenFile
  <2>3. TaskOK(c)
    <3>1. /\ Record(c) /\ c.pc = "write" /\ c.cmd = task[t].cmd /\ c.run = task[t].run
          /\ c.keep = task[t].keep /\ c.rows = task[t].rows
          /\ c.todo = task[t].todo \ {y} /\ c.got = <<y>>
      BY <1>r DEF Record, Cells
    <3> HIDE DEF c
    <3>2. task[t].run \in Runs /\ Listed(task[t].rows, ArtRow) /\ task[t].todo \in SUBSET Types
      BY <1>6, <1>t DEF TaskOK, OpenFile
    <3>3. c.run \in Runs /\ Listed(c.rows, ArtRow) /\ c.todo \in SUBSET Types
      BY <3>1, <3>2
    <3>4. c.got[1] \in Types
      BY <3>1
    <3> QED BY <3>1, <3>3, <3>4 DEF TaskOK, Pc
  <2> HIDE DEF c
  <2> QED BY <1>d, <1>f, <2>1, <2>2, <2>3, TaskStep DEF TypeInv
<1>7. ASSUME NEW t \in Tasks, WriteFile(t)
      PROVE  TypeInv'
  <2> DEFINE c == [task[t] EXCEPT !.pc = "open"]
             y == task[t].got[1]
             hash == OfType(task[t].rows, y)
             file == [run |-> task[t].run, type |-> y, hash |-> hash]
             db == [View(t) EXCEPT !.files = @ \cup {file}]
  <2>1. task[t].pc = "write" /\ Write(t, db) /\ version' = version /\ lost' = lost /\ torn' = torn
    BY <1>7 DEF WriteFile
  <2>2. task' = [task EXCEPT ![t] = c]
    BY <1>7 DEF WriteFile, Goto
  <2>3. TaskOK(c)
    <3>1. /\ Record(c) /\ c.pc = "open" /\ c.cmd = task[t].cmd /\ c.run = task[t].run
          /\ c.keep = task[t].keep /\ c.rows = task[t].rows
          /\ c.todo = task[t].todo /\ c.got = task[t].got
      BY <1>r DEF Record, Cells
    <3> HIDE DEF c
    <3> QED BY <3>1, <2>1, <1>t DEF TaskOK, Pc
  <2>4. Listed(hash, ArtRow)
    BY <1>t, <2>1 DEF TaskOK, Listed, OfType
  <2>5. FileOK(file)
    BY <1>t, <2>1, <2>4 DEF TaskOK, FileOK
  <2> HIDE DEF file
  <2>6. DbOK(db)
    BY <2>5, ViewType DEF DbOK
  <2> HIDE DEF c, db
  <2> QED BY <1>f, <2>1, <2>2, <2>3, <2>6, TaskStep, WriteType DEF TypeInv
<1>8. ASSUME NEW t \in Tasks, NEW n \in {0} \cup DOMAIN task[t].rows, InsertArtifacts(t, n)
      PROVE  TypeInv'
  <2> DEFINE left == Left(task[t])
             batch == {i \in left : i <= n}
             some == [i \in batch |-> task[t].rows[i]]
             rest == left \ batch
             pc == IF batch = left THEN "commit" ELSE "batch"
             c == [task[t] EXCEPT !.pc = pc, !.todo = rest]
             db == [View(t) EXCEPT !.arts = BulkInsert(@, some)]
  <2>1. /\ task[t].pc \in {"open", "batch"} /\ Write(t, db)
        /\ version' = version /\ lost' = lost /\ torn' = torn
    BY <1>8 DEF InsertArtifacts
  <2>2. task' = [task EXCEPT ![t] = c]
    BY <1>8 DEF InsertArtifacts
  <2>3. left \in SUBSET DOMAIN task[t].rows /\ Listed(task[t].rows, ArtRow)
    BY <1>t, <2>1 DEF Left, TaskOK
  <2>4. TaskOK(c)
    <3>1. pc \in {"batch", "commit"} /\ rest \in SUBSET DOMAIN task[t].rows
      BY <2>3
    <3> HIDE DEF pc, rest
    <3>2. /\ Record(c) /\ c.pc = pc /\ c.cmd = task[t].cmd /\ c.run = task[t].run
          /\ c.keep = task[t].keep /\ c.rows = task[t].rows
          /\ c.todo = rest /\ c.got = task[t].got
      BY <1>r DEF Record, Cells
    <3> HIDE DEF c
    <3> QED BY <3>1, <3>2, <2>1, <1>t DEF TaskOK, Pc
  <2>5. Listed(some, ArtRow)
    BY <2>3 DEF Listed
  <2> HIDE DEF some
  <2>6. DbOK(db)
    BY <2>5, ViewType, BulkType DEF DbOK
  <2> HIDE DEF c, db
  <2> QED BY <1>f, <2>1, <2>2, <2>4, <2>6, TaskStep, WriteType DEF TypeInv
<1>c. ASSUME NEW y, Commit(y)
      PROVE  DbOK(committed)' /\ DbOK(pending)' /\ writer' \in {writer, None}
  <2>1. committed' \in {committed, pending} /\ pending' = pending /\ writer' \in {writer, None}
    BY <1>c DEF Commit
  <2>2. DbOK(committed') /\ DbOK(pending')
    BY <2>1 DEF TypeInv
  <2> QED BY <2>1, <2>2 DEF DbOK, FileOK, NoClash, Clash
<1>9. ASSUME NEW t \in Tasks, StoreCommit(t)
      PROVE  TypeInv'
  <2>1. Commit(Process[t])
    BY <1>9 DEF StoreCommit
  <2>2. DbOK(committed)' /\ DbOK(pending)' /\ writer' \in {writer, None}
    BY <1>c, <2>1
  <2>3. /\ task' = [task EXCEPT ![t] = Idle] /\ version' = version
        /\ lost' \in SUBSET Runs /\ torn' \in SUBSET Runs
    BY <1>9 DEF StoreCommit, TypeInv
  <2> QED BY <1>e, <1>f, <2>2, <2>3, TaskStep DEF TypeInv
<1>k. ASSUME UNCHANGED task
      PROVE  (\A t \in Tasks : TaskOK(task[t])') /\ OneStores'
  BY <1>k, <1>t DEF TypeInv, OneStores, Siblings, TaskOK, Record, FileOK
<1>19. ASSUME NEW y \in {Process[t] : t \in Tasks}, SiblingCommit(y)
       PROVE  TypeInv'
  <2>1. Commit(y) /\ UNCHANGED <<version, task, lost>>
    BY <1>19 DEF SiblingCommit
  <2>2. DbOK(committed)' /\ DbOK(pending)' /\ writer' \in {writer, None}
    BY <1>c, <2>1
  <2>3. torn' \in SUBSET Runs
    <3>1. \A t \in Tasks : task[t].pc \in Storing => task[t].run \in Runs
      BY <1>t DEF TaskOK
    <3> QED BY <1>19, <3>1 DEF SiblingCommit, TypeInv
  <2> QED BY <1>f, <1>k, <2>1, <2>2, <2>3 DEF TypeInv
<1>10. ASSUME NEW t \in Tasks, ReplayList(t)
       PROVE  TypeInv'
  <2> DEFINE c == [Idle EXCEPT !.pc = "file", !.cmd = "replay", !.todo = committed.files]
  <2>1. TaskOK(c) /\ c.pc = "file"
    <3>1. /\ Record(c) /\ c.pc = "file" /\ c.cmd = "replay" /\ c.run = None
          /\ c.keep = {} /\ c.rows = <<>>
          /\ c.todo = committed.files /\ c.got = <<>>
      BY <1>e DEF Record, Cells
    <3> HIDE DEF c
    <3> QED BY <3>1, <1>t DEF TaskOK, Pc, TypeInv, DbOK
  <2>2. task' = [task EXCEPT ![t] = c] /\ NoDb /\ version' = version /\ lost' = lost /\ torn' = torn
    BY <1>10 DEF ReplayList
  <2> HIDE DEF c
  <2> QED BY <1>d, <1>f, <2>1, <2>2, TaskStep DEF TypeInv
<1>11. ASSUME NEW t \in Tasks, NEW f \in task[t].todo, task[t].pc = "file", ReplayFile(t, f)
       PROVE  TypeInv'
  <2> DEFINE skip == [task[t] EXCEPT !.todo = @ \ {f}]
             read == [task[t] EXCEPT !.todo = @ \ {f}, !.pc = "insert", !.run = f.run,
                                     !.got = disk[f.type, f.run]]
  <2>1. FileOK(f) /\ TaskOK(task[t])
    BY <1>t, <1>11 DEF TaskOK
  <2>2. TaskOK(skip) /\ skip.pc = "file"
    <3>1. /\ Record(skip) /\ skip.pc = task[t].pc /\ skip.cmd = task[t].cmd /\ skip.run = task[t].run
          /\ skip.keep = task[t].keep /\ skip.rows = task[t].rows
          /\ skip.todo = task[t].todo \ {f} /\ skip.got = task[t].got
      BY <1>r DEF Record, Cells
    <3> HIDE DEF skip
    <3> QED BY <3>1, <1>11, <2>1, <1>t DEF TaskOK, Pc
  <2>3. disk[f.type, f.run] = f.hash => TaskOK(read) /\ read.pc = "insert"
    <3>1. /\ Record(read) /\ read.pc = "insert" /\ read.cmd = task[t].cmd /\ read.run = f.run
          /\ read.keep = task[t].keep /\ read.rows = task[t].rows
          /\ read.todo = task[t].todo \ {f} /\ read.got = disk[f.type, f.run]
      BY <1>r DEF Record, Cells
    <3> HIDE DEF read
    <3> QED BY <3>1, <1>11, <2>1 DEF TaskOK, Pc, FileOK
  <2>4. NoDb /\ version' = version /\ lost' = lost /\ torn' = torn
    BY <1>11 DEF ReplayFile
  <2>5. \/ task' = [task EXCEPT ![t] = skip]
        \/ disk[f.type, f.run] = f.hash /\ task' = [task EXCEPT ![t] = read]
    BY <1>11 DEF ReplayFile
  <2> HIDE DEF skip, read
  <2> QED BY <1>d, <1>f, <2>2, <2>3, <2>4, <2>5, TaskStep DEF TypeInv
<1>12. ASSUME NEW t \in Tasks, ReplayInsert(t)
       PROVE  TypeInv'
  <2> DEFINE arts == BulkInsert(committed.arts, task[t].got)
             c == [task[t] EXCEPT !.pc = "file", !.got = <<>>]
             db == [committed EXCEPT !.arts = arts]
  <2>1. /\ task[t].pc = "insert" /\ committed' = db /\ pending' = pending /\ writer' = writer
        /\ version' = version /\ lost' \in SUBSET Runs /\ torn' = torn
    BY <1>12 DEF ReplayInsert, TypeInv
  <2>2. task' = [task EXCEPT ![t] = c]
    BY <1>12 DEF ReplayInsert
  <2>3. TaskOK(c) /\ c.pc = "file"
    <3>1. /\ Record(c) /\ c.pc = "file" /\ c.cmd = task[t].cmd /\ c.run = task[t].run
          /\ c.keep = task[t].keep /\ c.rows = task[t].rows
          /\ c.todo = task[t].todo /\ c.got = <<>>
      BY <1>r DEF Record, Cells
    <3> HIDE DEF c
    <3> QED BY <3>1, <1>t, <2>1 DEF TaskOK, Pc
  <2>4. Listed(task[t].got, ArtRow)
    BY <1>t, <2>1 DEF TaskOK
  <2>5. DbOK(db)
    BY <2>4, BulkType DEF TypeInv, DbOK
  <2> HIDE DEF c, db
  <2>6. DbOK(committed)' /\ DbOK(pending)'
    BY <2>1, <2>5 DEF TypeInv, DbOK, FileOK, NoClash, Clash
  <2> QED BY <1>f, <2>1, <2>2, <2>3, <2>6, TaskStep DEF TypeInv
<1>13. ASSUME NEW t \in Tasks, ReplayEnd(t)
       PROVE  TypeInv'
  <2>1. task' = [task EXCEPT ![t] = Idle] /\ NoDb /\ version' = version /\ lost' = lost /\ torn' = torn
    BY <1>13 DEF ReplayEnd
  <2> QED BY <1>d, <1>e, <1>f, <2>1, TaskStep DEF TypeInv
<1>14. ASSUME NEW t \in Tasks, Die(t)
       PROVE  TypeInv'
  <2>1. PICK alone \in BOOLEAN, dead \in SUBSET Tasks :
          /\ task' = [u \in Tasks |-> IF u \in dead THEN Idle ELSE task[u]]
          /\ writer' = None \/ writer' = writer
    <3>1. PICK alone \in BOOLEAN :
            LET dead == IF alone THEN {t} ELSE {t} \cup Siblings(t)
            IN  /\ task' = [u \in Tasks |-> IF u \in dead THEN Idle ELSE task[u]]
                /\ writer' = IF ~alone /\ writer = Process[t] THEN None ELSE writer
      BY <1>14 DEF Die
    <3> QED BY <3>1 DEF Siblings
  <2>2. DbOK(committed)' /\ DbOK(pending)' /\ version' = version /\ lost' = lost /\ torn' = torn
    BY <1>14 DEF Die, TypeInv, DbOK, FileOK, NoClash, Clash
  <2>3. /\ task' = [u \in Tasks |-> task'[u]]
        /\ \A u \in Tasks : task'[u] = Idle \/ task'[u] = task[u]
    BY <2>1
  <2>4. \A u \in Tasks : TaskOK(task[u])'
    <3> SUFFICES ASSUME NEW u \in Tasks PROVE TaskOK(task'[u])
      BY DEF TaskOK, Record, FileOK
    <3> QED BY <1>e, <1>t, <2>3
  <2>5. OneStores'
    BY <1>e, <2>3 DEF TypeInv, OneStores, Siblings
  <2> QED BY <1>f, <2>1, <2>2, <2>3, <2>4, <2>5 DEF TypeInv
<1>15. ASSUME Upgrade
       PROVE  TypeInv'
  BY <1>15, <1>k, <1>f DEF Upgrade, TypeInv, DbOK, FileOK, NoClash, Clash
<1>16. ASSUME NEW r \in Runs, Lose(r)
       PROVE  TypeInv'
  <2> DEFINE db == [committed EXCEPT !.arts = @ \ ArtsOf(committed, r)]
  <2>1. /\ committed' = db /\ lost' \in SUBSET Runs
        /\ UNCHANGED <<pending, writer, version, task, torn>>
    BY <1>16 DEF Lose, TypeInv
  <2>2. DbOK(db)
    BY DEF TypeInv, DbOK, NoClash
  <2> HIDE DEF db
  <2>3. DbOK(committed)' /\ DbOK(pending)'
    BY <2>1, <2>2 DEF TypeInv, DbOK, FileOK, NoClash, Clash
  <2> QED BY <1>k, <1>f, <2>1, <2>3 DEF TypeInv
<1>17. ASSUME NEW f \in Types \X Runs, Tamper(f)
       PROVE  TypeInv'
  BY <1>17, <1>k, <1>f DEF Tamper, TypeInv, DbOK, FileOK, NoClash, Clash
<1>18. ASSUME UNCHANGED vars
       PROVE  TypeInv'
  BY <1>18, <1>k, <1>f DEF vars, TypeInv, DbOK, FileOK, NoClash, Clash
<1> QED
  BY <1>1, <1>2, <1>3, <1>4, <1>5, <1>6, <1>7, <1>8, <1>9, <1>10, <1>11, <1>12, <1>13, <1>14,
     <1>15, <1>16, <1>17, <1>18, <1>19 DEF Next

LEMMA Typed == Spec => []TypeInv
BY TypeInit, TypeStep, PTL DEF Spec

\* The rows of the database keep their types and never clash, and at most one
\* task of a process is in _store_run: db_lock, whoever dies or fails.
THEOREM TypeCorrect == Spec => []TypeOK
<1>1. TypeInv => TypeOK
  BY DEF TypeInv, TypeOK, DbOK, NoClash, FileOK, Listed, OneStores
<1> QED BY <1>1, Typed, PTL

(***************************************************************************)
(* The records of the database                                             *)
(***************************************************************************)
\* A later version of a normalizer may skip a record or change its type; it
\* finds none the earlier ones did not see (MCNormalization_grown.cfg).
IdsOf(l) == {l[i].id : i \in DOMAIN l}
Steady ==
  \A r \in Runs, v, w \in Versions : v <= w => IdsOf(Enrich(w, r)) \subseteq IdsOf(Enrich(v, r))

\* The hypothesis of the theorems about the records: one process at a time
\* (MCNormalization_parallel.cfg), no task fails while its process goes on
\* (MCNormalization_half.cfg), and the care that MayNormalize describes.  Tasks of
\* a profile run commit at any time (SiblingCommit).
Kept ==
  /\ Careful /\ ~Halves
  /\ \A t, u \in Tasks : Process[t] = Process[u]
  /\ Steady

Recorded(db, r) == UNION {RangeOf(f.hash) : f \in {g \in db.files : g.run = r}}

Unnumbered(S) == {[id |-> a.id, type |-> a.type, version |-> a.version] : a \in S}

OneVersion(S, r, v) ==
  S = {} \/ \E w \in Versions : w <= v /\ Unnumbered(S) = RangeOf(Enrich(w, r))

\* The files say which run a row is of and no two rows of theirs clash: what
\* has been lost can be read back.  The artifacts of a run are those recorded,
\* all of them unless some are lost, and of one version, not later than v.
\* Nothing is said of the runs of which there is only a part.
Consistent(db, gone, part, v) ==
  /\ \A f \in db.files : f.run \notin part => \A i \in DOMAIN f.hash : f.hash[i].id[1] = f.run
  /\ \A f, g \in db.files : f.run \notin part /\ g.run \notin part =>
       \A i \in DOMAIN f.hash, j \in DOMAIN g.hash : Clash(f.hash[i], g.hash[j]) => f = g /\ i = j
  /\ \A r \in Runs \ part : ArtsOf(db, r) \subseteq Recorded(db, r)
  /\ \A r \in Runs \ (gone \cup part) : Recorded(db, r) \subseteq ArtsOf(db, r)
  /\ \A r \in Runs \ part : OneVersion(Recorded(db, r), r, v)

(***************************************************************************)
(* What each task is doing                                                 *)
(*                                                                         *)
(* The operators are about a task c, the database db, the open transaction *)
(* open of the process wr, the lost runs, those of which a part is         *)
(* committed, and the installed version v.                                 *)
(***************************************************************************)
Remaining(db, r) == db.arts \ ArtsOf(db, r)

TypesIn(rows) == {rows[i].type : i \in DOMAIN rows}

\* The files recorded when those of types `todo' are still to be written.
Written(db, r, rows, todo) ==
  {f \in db.files : f.run # r}
    \cup {[run |-> r, type |-> y, hash |-> OfType(rows, y)] : y \in TypesIn(rows) \ todo}

\* The rows are those of the installed normalizer, their numbers those of the
\* old rows they replace, or free.
RowsFit(db, v, r, rows) ==
  /\ DOMAIN rows = DOMAIN Enrich(v, r)
  /\ \A i \in DOMAIN rows :
       /\ [id |-> rows[i].id, type |-> rows[i].type, version |-> rows[i].version] = Enrich(v, r)[i]
       /\ \A a \in Remaining(db, r) : a.number # rows[i].number
       /\ \A a \in ArtsOf(db, r) : a.id = rows[i].id => a.number = rows[i].number
  /\ \A i, j \in DOMAIN rows : Clash(rows[i], rows[j]) => i = j

\* A run that is normalized may only have lost all of its artifacts, and
\* nothing else is lost.
Ready(db, gone, r) == gone \subseteq {r} /\ (r \in gone => ArtsOf(db, r) = {})

Numbers(db, r) == {[id |-> a.id, number |-> a.number] : a \in ArtsOf(db, r)}

Normalizing == {"delete", "number"} \cup Storing

\* Task c has changed the database; a sibling may have committed the changes.
Writing(c) ==
  \/ c.pc \in {"open", "write", "batch", "commit"}
  \/ c.pc \in {"number", "store"} /\ c.cmd = "rerun"

\* What a task of process wr sees, or of any when there is no transaction.
Seen(db, open, wr) == IF wr = None THEN db ELSE open

\* The rows of which the places are not left.
Inserted(rows, left) == {rows[i] : i \in DOMAIN rows \ left}

NormalizingInv(c, db, open, wr, gone, part, v) ==
  /\ Ready(db, gone, c.run)
  /\ c.cmd = "run" => c.run \notin gone
  /\ c.cmd = "run" /\ c.run \notin part => ArtsOf(db, c.run) = {}
  /\ c.run \in part => /\ c.cmd = "run" /\ c.pc \in {"open", "write", "batch", "commit"}
                       /\ ArtsOf(db, c.run) \subseteq RangeOf(c.rows)
  /\ c.pc \in {"delete", "number"} => c.keep = Numbers(db, c.run)
  /\ c.pc = "number" => c.rows = Enrich(v, c.run)
  /\ c.pc \in Storing => RowsFit(db, v, c.run, c.rows)
  /\ c.pc = "delete" \/ (c.pc = "store" /\ c.cmd = "run") => wr = None
  /\ c.pc \in {"number", "store"} /\ c.cmd = "rerun" =>
       open = [arts |-> Remaining(db, c.run), files |-> db.files]
  /\ c.pc = "store" => c.todo = TypesIn(c.rows)
  /\ c.pc \in {"open", "write"} => Seen(db, open, wr).arts = Remaining(db, c.run)
  /\ c.pc = "open" => /\ c.todo \subseteq TypesIn(c.rows)
                      /\ Seen(db, open, wr).files = Written(db, c.run, c.rows, c.todo)
  /\ c.pc = "write" => /\ c.todo \subseteq TypesIn(c.rows)
                       /\ c.got[1] \in TypesIn(c.rows) \ c.todo
                       /\ Seen(db, open, wr).files
                            = Written(db, c.run, c.rows, c.todo \cup {c.got[1]})
  /\ c.pc = "batch" => Seen(db, open, wr).arts = Remaining(db, c.run) \cup Inserted(c.rows, c.todo)
  /\ c.pc = "commit" => Seen(db, open, wr).arts = Remaining(db, c.run) \cup RangeOf(c.rows)
  /\ c.pc \in {"batch", "commit"} => Seen(db, open, wr).files = Written(db, c.run, c.rows, {})

ReplayInv(c, db, wr, part) ==
  /\ wr = None /\ part = {}
  /\ c.todo \subseteq db.files
  /\ c.pc = "insert" => \E f \in db.files : f.run = c.run /\ c.got = f.hash

TaskInv(c, db, open, wr, gone, part, v) ==
  /\ c.pc = "idle" => c = Idle
  /\ c.pc = "delete" => c.cmd = "rerun"
  /\ c.pc \in {"number"} \cup Storing => c.cmd \in {"run", "rerun"}
  /\ c.pc \in {"file", "insert"} => c.cmd = "replay"
  /\ c.pc \in Normalizing => NormalizingInv(c, db, open, wr, gone, part, v)
  /\ c.pc \in {"file", "insert"} => ReplayInv(c, db, wr, part)
  /\ Writing(c) /\ c.cmd = "rerun" => wr # None

\* Only first normalizations, of different runs, run side by side.
Together(c, d) ==
  c.pc = "idle" \/ d.pc = "idle" \/ (c.cmd = "run" /\ d.cmd = "run" /\ c.run # d.run)

Inv ==
  /\ Consistent(committed, lost, torn, version)
  /\ \A t \in Tasks : TaskInv(task[t], committed, pending, writer, lost, torn, version)
  /\ \A t, u \in Tasks : t # u => Together(task[t], task[u])
  /\ writer # None => \E t \in Tasks : Writing(task[t])

(***************************************************************************)
(* Numbers and files                                                       *)
(***************************************************************************)
\* The numbers that _store_run gives replace those of the same artifacts or
\* are free.
LEMMA NumbersFit ==
  ASSUME Steady, NEW db, DbOK(db), NEW gone, NEW part, NEW v \in Versions, Consistent(db, gone, part, v),
         NEW r \in Runs \ part, Ready(db, gone, r),
         NEW n \in Nat, \A a \in Remaining(db, r) : a.number < n
  PROVE  RowsFit(db, v, r, Numbered(Enrich(v, r), Numbers(db, r), n))
<1> DEFINE arts == Enrich(v, r)
           keep == Numbers(db, r)
           rows == Numbered(arts, keep, n)
           Old == ArtsOf(db, r)
<1>1. Old \subseteq db.arts /\ db.arts \in SUBSET ArtRow
  BY DEF ArtsOf, DbOK
<1>2. keep \in SUBSET [id : Ids, number : Nat]
  BY <1>1 DEF Numbers, ArtRow, Ids
<1>3. /\ Listed(arts, Art) /\ IsFiniteSet(DOMAIN arts)
      /\ \A i \in DOMAIN arts : arts[i].id[1] = r
      /\ \A i, j \in DOMAIN arts : arts[i].id = arts[j].id => i = j
  BY Enriched
<1>r. r \in Runs \ part
  OBVIOUS
<1> HIDE DEF arts
<1>4. /\ DOMAIN rows = DOMAIN arts /\ Listed(rows, ArtRow)
      /\ \A i \in DOMAIN arts :
           /\ rows[i].id = arts[i].id /\ rows[i].type = arts[i].type
           /\ rows[i].version = arts[i].version
           /\ \/ \E k \in keep : k.id = arts[i].id /\ rows[i].number = k.number
              \/ /\ \A k \in keep : k.id # arts[i].id
                 /\ rows[i].number >= n
      /\ \A i, j \in DOMAIN arts :
           /\ \A k \in keep : k.id # arts[i].id /\ k.id # arts[j].id
           /\ rows[i].number = rows[j].number
           => i = j
  BY <1>2, <1>3, NumbersGiven
<1> HIDE DEF rows
<1>5. \A i \in DOMAIN rows :
        [id |-> rows[i].id, type |-> rows[i].type, version |-> rows[i].version] = arts[i]
  BY <1>3, <1>4 DEF Listed, Art
<1>6. ASSUME Old = {}
      PROVE  \A i \in DOMAIN rows :
               /\ rows[i].number \in Nat /\ rows[i].number >= n
               /\ \A k \in keep : k.id # arts[i].id
  BY <1>4, <1>6 DEF Numbers, Listed, ArtRow
<1>7. ASSUME Old # {}
      PROVE  \A i \in DOMAIN rows : \E a \in Old : a.id = rows[i].id /\ a.number = rows[i].number
  <2>1. r \notin gone
    BY <1>7 DEF Ready
  <2>2. Old = Recorded(db, r)
    BY <1>r, <2>1 DEF Consistent
  <2>3. PICK w \in Versions : w <= v /\ Unnumbered(Old) = RangeOf(Enrich(w, r))
    BY <1>7, <2>2 DEF Consistent, OneVersion
  <2>4. IdsOf(arts) \subseteq IdsOf(Enrich(w, r))
    BY <2>3 DEF Steady, arts
  <2> SUFFICES ASSUME NEW i \in DOMAIN rows
               PROVE  \E a \in Old : a.id = rows[i].id /\ a.number = rows[i].number
    OBVIOUS
  <2>5. PICK j \in DOMAIN Enrich(w, r) : Enrich(w, r)[j].id = rows[i].id
    BY <1>4, <2>4 DEF IdsOf
  <2>6. Enrich(w, r)[j] \in Unnumbered(Old)
    BY <2>3 DEF RangeOf
  <2>7. PICK b \in Old : b.id = rows[i].id
    BY <2>5, <2>6 DEF Unnumbered
  <2>8. \E k \in keep : k.id = arts[i].id
    <3>1. [id |-> b.id, number |-> b.number] \in keep
      BY <2>7 DEF Numbers
    <3>2. arts[i].id = b.id
      BY <1>4, <2>7
    <3> QED BY <3>1, <3>2
  <2>9. PICK k \in keep : k.id = rows[i].id /\ rows[i].number = k.number
    BY <1>4, <2>8
  <2> QED BY <2>9 DEF Numbers
<1>8. \A i \in DOMAIN rows : \A a \in Remaining(db, r) : a.number # rows[i].number
  <2> SUFFICES ASSUME NEW i \in DOMAIN rows, NEW a \in Remaining(db, r)
               PROVE  a.number # rows[i].number
    OBVIOUS
  <2>1. CASE Old = {}
    <3>1. a.number \in Nat /\ a.number < n
      BY <1>1 DEF Remaining, ArtRow
    <3> QED BY <1>6, <2>1, <3>1
  <2>2. CASE Old # {}
    <3>1. PICK b \in Old : b.number = rows[i].number
      BY <1>7, <2>2
    <3>2. a \in db.arts /\ a # b
      BY DEF Remaining
    <3> QED BY <1>1, <3>1, <3>2 DEF DbOK, NoClash, Clash
  <2> QED BY <2>1, <2>2
<1>9. \A i \in DOMAIN rows : \A a \in Old : a.id = rows[i].id => a.number = rows[i].number
  <2> SUFFICES ASSUME NEW i \in DOMAIN rows, NEW a \in Old, a.id = rows[i].id
               PROVE  a.number = rows[i].number
    OBVIOUS
  <2>1. PICK b \in Old : b.id = rows[i].id /\ b.number = rows[i].number
    BY <1>7
  <2> QED BY <1>1, <2>1 DEF DbOK, NoClash, Clash
<1>10. ASSUME NEW i \in DOMAIN rows, NEW j \in DOMAIN rows, Clash(rows[i], rows[j])
       PROVE  i = j
  <2>1. CASE rows[i].id = rows[j].id
    BY <1>3, <1>4, <2>1
  <2>2. CASE rows[i].number = rows[j].number /\ Old = {}
    BY <1>4, <1>6, <2>2
  <2>3. CASE rows[i].number = rows[j].number /\ Old # {}
    <3>1. PICK a \in Old : a.id = rows[i].id /\ a.number = rows[i].number
      BY <1>7, <2>3
    <3>2. PICK b \in Old : b.id = rows[j].id /\ b.number = rows[j].number
      BY <1>7, <2>3
    <3>3. a = b
      BY <1>1, <2>3, <3>1, <3>2 DEF DbOK, NoClash, Clash
    <3> QED BY <2>1, <3>1, <3>2, <3>3
  <2> QED BY <1>10, <2>1, <2>2, <2>3 DEF Clash
<1>11. DOMAIN rows = DOMAIN arts
  BY <1>4
<1> QED BY <1>5, <1>8, <1>9, <1>10, <1>11 DEF RowsFit, rows, arts

\* The rows to store are of the run they are stored for.
LEMMA RowsOfRun ==
  ASSUME NEW db, NEW v \in Versions, NEW r \in Runs, NEW rows, RowsFit(db, v, r, rows)
  PROVE  \A i \in DOMAIN rows : rows[i].id[1] = r
<1>1. /\ DOMAIN rows = DOMAIN Enrich(v, r)
      /\ \A i \in DOMAIN rows :
           [id |-> rows[i].id, type |-> rows[i].type, version |-> rows[i].version] = Enrich(v, r)[i]
  BY DEF RowsFit
<1> SUFFICES ASSUME NEW i \in DOMAIN rows PROVE rows[i].id[1] = r
  OBVIOUS
<1>2. Enrich(v, r)[i].id[1] = r
  BY <1>1, Enriched
<1> QED BY <1>1, <1>2

\* What StoreCommit commits: the rows of run r and the files that record them,
\* instead of what there was of that run.
LEMMA Stored ==
  ASSUME NEW db, DbOK(db), NEW gone, NEW part, NEW v \in Versions, Consistent(db, gone, part, v),
         NEW r \in Runs, Ready(db, gone, r), NEW rows, Listed(rows, ArtRow), RowsFit(db, v, r, rows),
         NEW new, new.arts = Remaining(db, r) \cup RangeOf(rows),
         new.files = Written(db, r, rows, {})
  PROVE  /\ Consistent(new, gone \ {r}, part \ {r}, v)
         /\ ArtsOf(new, r) = RangeOf(rows)
         /\ \A q \in Runs \ {r} : ArtsOf(new, q) = ArtsOf(db, q)
<1>1. /\ DOMAIN rows = DOMAIN Enrich(v, r)
      /\ \A i \in DOMAIN rows :
           [id |-> rows[i].id, type |-> rows[i].type, version |-> rows[i].version] = Enrich(v, r)[i]
  BY DEF RowsFit
<1>2. ASSUME NEW i \in DOMAIN rows PROVE rows[i].id[1] = r
  <2>1. Enrich(v, r)[i].id[1] = r
    BY <1>1, Enriched
  <2> QED BY <1>1, <2>1
<1>3. ArtsOf(new, r) = RangeOf(rows)
  BY <1>2 DEF ArtsOf, Remaining, RangeOf
<1>4. \A q \in Runs \ {r} : ArtsOf(new, q) = ArtsOf(db, q)
  BY <1>2 DEF ArtsOf, Remaining, RangeOf
<1>5. ASSUME NEW f \in new.files
      PROVE  \/ f \in db.files /\ f.run # r
             \/ /\ f.run = r /\ f.type \in TypesIn(rows) /\ f.hash = OfType(rows, f.type)
                /\ f = [run |-> r, type |-> f.type, hash |-> OfType(rows, f.type)]
  BY <1>5 DEF Written
<1>6. ASSUME NEW y
      PROVE  /\ DOMAIN OfType(rows, y) = {i \in DOMAIN rows : rows[i].type = y}
             /\ \A i \in DOMAIN OfType(rows, y) : OfType(rows, y)[i] = rows[i]
  BY DEF OfType
<1>h. ASSUME NEW f \in new.files, f.run = r, NEW i \in DOMAIN f.hash
      PROVE  i \in DOMAIN rows /\ f.hash[i] = rows[i] /\ rows[i].type = f.type
  <2>1. f.hash = OfType(rows, f.type)
    BY <1>5, <1>h
  <2>2. i \in DOMAIN OfType(rows, f.type)
    BY <2>1
  <2>3. i \in DOMAIN rows /\ rows[i].type = f.type /\ OfType(rows, f.type)[i] = rows[i]
    BY <2>2 DEF OfType
  <2> QED BY <2>1, <2>3
<1>o. \A f \in new.files : f.run # r => f \in db.files
  BY <1>5
<1>7. \A f \in new.files : f.run \notin part \ {r} => \A i \in DOMAIN f.hash : f.hash[i].id[1] = f.run
  <2> SUFFICES ASSUME NEW f \in new.files, f.run \notin part \ {r}, NEW i \in DOMAIN f.hash
               PROVE  f.hash[i].id[1] = f.run
    OBVIOUS
  <2>1. CASE f.run = r
    BY <1>2, <1>h, <2>1
  <2>2. CASE f.run # r
    BY <1>o, <2>2 DEF Consistent
  <2> QED BY <2>1, <2>2
<1>8. ASSUME NEW f \in db.files, f.run # r, f.run \notin part, NEW i \in DOMAIN f.hash, NEW j \in DOMAIN rows
      PROVE  ~Clash(f.hash[i], rows[j])
  <2>1. f.run \in Runs /\ f.run \notin gone
    BY <1>8 DEF DbOK, FileOK, Ready
  <2>2. f.hash[i] \in Recorded(db, f.run)
    BY DEF Recorded, RangeOf
  <2>3. f.hash[i] \in ArtsOf(db, f.run)
    BY <1>8, <2>1, <2>2 DEF Consistent
  <2>4. f.hash[i] \in Remaining(db, r) /\ f.hash[i].id # rows[j].id
    BY <1>2, <1>8, <2>3 DEF ArtsOf, Remaining
  <2> QED BY <2>4 DEF RowsFit, Clash
<1>9. ASSUME NEW f \in new.files, NEW g \in new.files, f.run \notin part \ {r},
             g.run \notin part \ {r}, NEW i \in DOMAIN f.hash, NEW j \in DOMAIN g.hash,
             Clash(f.hash[i], g.hash[j])
      PROVE  f = g /\ i = j
  <2>1. CASE f.run # r /\ g.run # r
    BY <1>5, <1>9, <2>1 DEF Consistent
  <2>2. CASE f.run # r /\ g.run = r
    <3>1. f \in db.files /\ f.run \notin part /\ j \in DOMAIN rows /\ g.hash[j] = rows[j]
      BY <1>h, <1>o, <1>9, <2>2
    <3> QED BY <1>8, <1>9, <2>2, <3>1
  <2>3. CASE f.run = r /\ g.run # r
    <3>1. Clash(g.hash[j], f.hash[i])
      BY <1>9 DEF Clash
    <3>2. g \in db.files /\ g.run \notin part /\ i \in DOMAIN rows /\ f.hash[i] = rows[i]
      BY <1>h, <1>o, <1>9, <2>3
    <3> QED BY <1>8, <2>3, <3>1, <3>2
  <2>4. CASE f.run = r /\ g.run = r
    <3>1. /\ i \in DOMAIN rows /\ f.hash[i] = rows[i] /\ rows[i].type = f.type
          /\ j \in DOMAIN rows /\ g.hash[j] = rows[j] /\ rows[j].type = g.type
      BY <1>h, <2>4
    <3>2. i = j
      BY <1>9, <3>1 DEF RowsFit
    <3> QED BY <1>5, <2>4, <3>1, <3>2
  <2> QED BY <2>1, <2>2, <2>3, <2>4
<1>10. Recorded(new, r) = RangeOf(rows)
  <2>1. ASSUME NEW i \in DOMAIN rows
        PROVE  rows[i] \in Recorded(new, r)
    <3> DEFINE f == [run |-> r, type |-> rows[i].type, hash |-> OfType(rows, rows[i].type)]
    <3>1. f \in new.files /\ f.run = r /\ f.hash = OfType(rows, rows[i].type)
      BY DEF Written, TypesIn
    <3>2. i \in DOMAIN f.hash /\ f.hash[i] = rows[i]
      <4>1. i \in DOMAIN OfType(rows, rows[i].type)
        BY <1>6
      <4> QED BY <1>6, <3>1, <4>1
    <3> HIDE DEF f
    <3> QED BY <3>1, <3>2 DEF Recorded, RangeOf
  <2>2. ASSUME NEW a \in Recorded(new, r)
        PROVE  a \in RangeOf(rows)
    <3>1. PICK f \in new.files : f.run = r /\ \E i \in DOMAIN f.hash : a = f.hash[i]
      BY <2>2 DEF Recorded, RangeOf
    <3> QED BY <1>h, <3>1 DEF RangeOf
  <2> QED BY <2>1, <2>2 DEF RangeOf
<1>11. ASSUME NEW q \in Runs \ {r}
       PROVE  Recorded(new, q) = Recorded(db, q)
  <2>1. {f \in new.files : f.run = q} = {f \in db.files : f.run = q}
    BY DEF Written
  <2> QED BY <2>1 DEF Recorded
<1>12. Unnumbered(RangeOf(rows)) = RangeOf(Enrich(v, r))
  BY <1>1 DEF Unnumbered, RangeOf
<1>13. OneVersion(RangeOf(rows), r, v)
  BY <1>12, RowsShape DEF OneVersion, Versions
<1>14. \A q \in Runs \ (part \ {r}) : ArtsOf(new, q) \subseteq Recorded(new, q)
  BY <1>3, <1>4, <1>10, <1>11 DEF Consistent
<1>15. \A q \in Runs \ ((gone \ {r}) \cup (part \ {r})) : Recorded(new, q) \subseteq ArtsOf(new, q)
  BY <1>3, <1>4, <1>10, <1>11 DEF Consistent
<1>16. \A q \in Runs \ (part \ {r}) : OneVersion(Recorded(new, q), q, v)
  BY <1>10, <1>11, <1>13 DEF Consistent
<1> QED BY <1>3, <1>4, <1>7, <1>9, <1>14, <1>15, <1>16 DEF Consistent

\* What SiblingCommit commits: any part of the rows of run r, instead of what
\* there was of it.  The other runs keep theirs.
LEMMA HalfStored ==
  ASSUME Consistent(committed, lost, torn, version),
         NEW r \in Runs, NEW rows, \A i \in DOMAIN rows : rows[i].id[1] = r,
         NEW some \in SUBSET RangeOf(rows), NEW todo \in SUBSET TypesIn(rows),
         pending.arts = Remaining(committed, r) \cup some, pending.files = Written(committed, r, rows, todo)
  PROVE  /\ Consistent(pending, lost, torn \cup {r}, version)
         /\ ArtsOf(pending, r) \subseteq RangeOf(rows)
         /\ \A q \in Runs \ {r} : ArtsOf(pending, q) = ArtsOf(committed, q)
         /\ Remaining(pending, r) = Remaining(committed, r)
         /\ {f \in pending.files : f.run # r} = {f \in committed.files : f.run # r}
<1>1. \A a \in some : a.id[1] = r
  BY DEF RangeOf
<1>2. ArtsOf(pending, r) = some /\ Remaining(pending, r) = Remaining(committed, r)
  BY <1>1 DEF ArtsOf, Remaining
<1>3. \A q \in Runs \ {r} : ArtsOf(pending, q) = ArtsOf(committed, q)
  BY <1>1 DEF ArtsOf, Remaining
<1>4. \A f \in pending.files : f.run # r => f \in committed.files
  BY DEF Written
<1>5. {f \in pending.files : f.run # r} = {f \in committed.files : f.run # r}
  BY DEF Written
<1>6. ASSUME NEW q \in Runs \ {r}
      PROVE  Recorded(pending, q) = Recorded(committed, q)
  <2>1. {f \in pending.files : f.run = q} = {f \in committed.files : f.run = q}
    BY <1>5
  <2> QED BY <2>1 DEF Recorded
<1>7. Consistent(pending, lost, torn \cup {r}, version)
  <2>1. \A f \in pending.files : f.run \notin torn \cup {r} =>
          \A i \in DOMAIN f.hash : f.hash[i].id[1] = f.run
    BY <1>4 DEF Consistent
  <2>2. \A f, g \in pending.files : f.run \notin torn \cup {r} /\ g.run \notin torn \cup {r} =>
          \A i \in DOMAIN f.hash, j \in DOMAIN g.hash : Clash(f.hash[i], g.hash[j]) => f = g /\ i = j
    BY <1>4 DEF Consistent
  <2>3. \A q \in Runs \ (torn \cup {r}) :
          ArtsOf(pending, q) \subseteq Recorded(pending, q) /\ OneVersion(Recorded(pending, q), q, version)
    BY <1>3, <1>6 DEF Consistent
  <2>4. \A q \in Runs \ (lost \cup (torn \cup {r})) : Recorded(pending, q) \subseteq ArtsOf(pending, q)
    BY <1>3, <1>6 DEF Consistent
  <2> QED BY <2>1, <2>2, <2>3, <2>4 DEF Consistent
<1> QED BY <1>2, <1>3, <1>5, <1>7

\* What a replay of a file f commits: its rows, in addition to what there is.
LEMMA Restored ==
  ASSUME NEW db, DbOK(db), NEW gone, NEW v, Consistent(db, gone, {}, v), NEW f \in db.files,
         NEW new, new.arts = BulkInsert(db.arts, f.hash), new.files = db.files,
         NEW back, back = gone \/ (/\ back = gone \ {f.run}
                                   /\ \A g \in db.files : g.run = f.run => RangeOf(g.hash) \subseteq new.arts)
  PROVE  new.arts = db.arts \cup RangeOf(f.hash) /\ Consistent(new, back, {}, v)
<1>1. f.run \in Runs /\ Listed(f.hash, ArtRow)
  BY DEF DbOK, FileOK
<1>2. ASSUME NEW a \in db.arts
      PROVE  \E g \in db.files : \E i \in DOMAIN g.hash : a = g.hash[i]
  <2>1. a.id[1] \in Runs /\ a \in ArtsOf(db, a.id[1])
    BY DEF DbOK, ArtRow, ArtsOf
  <2>2. a \in Recorded(db, a.id[1])
    BY <2>1 DEF Consistent
  <2> QED BY <2>2 DEF Recorded, RangeOf
<1>3. \A a \in db.arts : \A i \in DOMAIN f.hash : Clash(a, f.hash[i]) => a = f.hash[i]
  BY <1>2 DEF Consistent
<1>4. \A i, j \in DOMAIN f.hash : Clash(f.hash[i], f.hash[j]) => i = j
  BY DEF Consistent
<1>5. new.arts = db.arts \cup RangeOf(f.hash)
  BY <1>1, <1>3, <1>4, BulkAdds DEF Listed
<1>6. \A a \in RangeOf(f.hash) : a.id[1] = f.run
  BY DEF Consistent, RangeOf
<1>7. RangeOf(f.hash) \subseteq Recorded(db, f.run)
  BY DEF Recorded
<1>8. \A r \in Runs : Recorded(new, r) = Recorded(db, r)
  BY DEF Recorded
<1>9. \A r \in Runs \ {f.run} : ArtsOf(new, r) = ArtsOf(db, r)
  BY <1>5, <1>6 DEF ArtsOf
<1>10. ArtsOf(new, f.run) = ArtsOf(db, f.run) \cup RangeOf(f.hash)
  BY <1>5, <1>6 DEF ArtsOf
<1>11. \A r \in Runs : ArtsOf(new, r) \subseteq Recorded(new, r)
  BY <1>7, <1>8, <1>9, <1>10 DEF Consistent
<1>12. ASSUME NEW r \in Runs \ back
       PROVE  Recorded(new, r) \subseteq ArtsOf(new, r)
  <2>1. CASE r \notin gone
    BY <1>8, <1>9, <1>10, <2>1 DEF Consistent
  <2>2. CASE r \in gone
    <3>1. r = f.run /\ \A g \in db.files : g.run = r => RangeOf(g.hash) \subseteq new.arts
      BY <1>12, <2>2
    <3>2. Recorded(new, r) \subseteq new.arts
      BY <1>8, <3>1 DEF Recorded
    <3>3. \A a \in Recorded(new, r) : a.id[1] = r
      BY <1>8 DEF Recorded, RangeOf, Consistent
    <3> QED BY <3>2, <3>3 DEF ArtsOf
  <2> QED BY <2>1, <2>2
<1>13. /\ \A g \in new.files : \A i \in DOMAIN g.hash : g.hash[i].id[1] = g.run
       /\ \A g, h \in new.files : \A i \in DOMAIN g.hash, j \in DOMAIN h.hash :
            Clash(g.hash[i], h.hash[j]) => g = h /\ i = j
  BY DEF Consistent
<1>14. \A r \in Runs : OneVersion(Recorded(new, r), r, v)
  BY <1>8 DEF Consistent
<1>15. Consistent(new, back, {}, v)
  BY <1>11, <1>12, <1>13, <1>14 DEF Consistent
<1> QED BY <1>5, <1>15

(***************************************************************************)
(* The steps                                                               *)
(***************************************************************************)
\* Who waits for db_lock, or does nothing, is not concerned by what another
\* task changes, unless it loses or adds artifacts of its run.
LEMMA Bystander ==
  ASSUME NEW c, NEW db, NEW open, NEW wr, NEW gone, NEW part, NEW v,
         TaskInv(c, db, open, wr, gone, part, v),
         c.pc = "idle" \/ (c.pc = "number" /\ c.cmd = "run"),
         NEW db2, NEW open2, NEW wr2, NEW gone2, NEW part2,
         \/ c.pc = "idle"
         \/ db2 = db /\ gone2 = gone /\ part2 = part
         \/ ArtsOf(db2, c.run) = {} /\ gone2 = {} /\ c.run \notin part2
  PROVE  TaskInv(c, db2, open2, wr2, gone2, part2, v)
<1>1. ~Writing(c) \/ c.cmd = "run"
  BY DEF Writing
<1>2. CASE c.pc = "idle"
  <2>1. ~Writing(c)
    BY <1>2 DEF Writing
  <2> QED BY <1>2, <2>1 DEF TaskInv, Storing, Normalizing
<1>3. CASE c.pc = "number" /\ c.cmd = "run"
  <2>1. NormalizingInv(c, db, open, wr, gone, part, v)
    BY <1>3 DEF TaskInv, Normalizing
  <2>2. /\ c.run \notin part /\ ArtsOf(db, c.run) = {} /\ c.keep = Numbers(db, c.run)
        /\ c.rows = Enrich(v, c.run)
    BY <1>3, <2>1 DEF NormalizingInv
  <2>3. ArtsOf(db2, c.run) = {} /\ Ready(db2, gone2, c.run) /\ c.run \notin gone2 /\ c.run \notin part2
    BY <1>3, <2>1, <2>2 DEF NormalizingInv, Ready
  <2>4. c.keep = Numbers(db2, c.run)
    BY <2>2, <2>3 DEF Numbers
  <2>5. NormalizingInv(c, db2, open2, wr2, gone2, part2, v)
    BY <1>3, <2>2, <2>3, <2>4 DEF NormalizingInv, Storing
  <2> QED BY <1>3, <2>5 DEF TaskInv, Storing, Normalizing, Writing
<1> QED BY <1>2, <1>3

\* While a task stores, reruns or replays, the others wait or do nothing.
LEMMA Others ==
  ASSUME Kept, TypeInv, Inv, NEW t \in Tasks, NEW u \in Tasks, u # t, task[t].pc # "idle",
         \/ task[t].pc \in Storing
         \/ task[t].cmd # "run"
         \/ \A w \in Siblings(t) : task[w].pc \notin Storing
  PROVE  /\ task[u].pc = "idle" \/ (task[u].pc = "number" /\ task[u].cmd = "run")
         /\ \/ task[u].pc = "idle"
            \/ task[t].cmd = "run" /\ task[u].run # task[t].run
<1>1. Together(task[t], task[u])
  BY DEF Inv
<1>2. TaskInv(task[u], committed, pending, writer, lost, torn, version) /\ task[u].pc \in Pc
  BY DEF Inv, TypeInv, TaskOK
<1>3. CASE task[u].pc # "idle"
  <2>1. task[t].cmd = "run" /\ task[u].cmd = "run" /\ task[u].run # task[t].run
    BY <1>1, <1>3 DEF Together
  <2>2. task[u].pc \notin Storing
    BY <2>1 DEF Kept, TypeInv, OneStores, Siblings
  <2>3. task[u].pc = "number"
    BY <1>2, <1>3, <2>1, <2>2 DEF TaskInv, Pc
  <2> QED BY <2>1, <2>3
<1> QED BY <1>3

\* Nobody is in a transaction when no task is.
LEMMA NobodyWrites ==
  ASSUME Inv, \A t \in Tasks : ~Writing(task[t])
  PROVE  writer = None
BY DEF Inv

\* An open transaction is that of any task, since there is one process.
LEMMA OneView ==
  ASSUME Kept, TypeInv, NEW t \in Tasks
  PROVE  /\ writer = None => View(t) = committed
         /\ writer # None => writer = Process[t] /\ View(t) = pending
         /\ Process[t] # None
<1>1. Process[t] # None
  BY NoneApart
<1> QED BY <1>1 DEF Kept, TypeInv, View

\* What an action of task t has to be shown to do.
LEMMA Act ==
  ASSUME Kept, TypeInv, Inv, NEW t \in Tasks, NEW c, task' = [task EXCEPT ![t] = c],
         Consistent(committed', lost', torn', version'),
         TaskInv(c, committed', pending', writer', lost', torn', version'),
         \A u \in Tasks \ {t} :
           TaskInv(task[u], committed', pending', writer', lost', torn', version') /\ Together(c, task[u]),
         writer' # None => Writing(c) \/ \E u \in Tasks \ {t} : Writing(task[u])
  PROVE  Inv'
<1>1. task'[t] = c /\ \A u \in Tasks \ {t} : task'[u] = task[u]
  BY DEF TypeInv
<1>2. \A u \in Tasks : TaskInv(task'[u], committed', pending', writer', lost', torn', version')
  BY <1>1
<1>3. \A u, w \in Tasks : u # w => Together(task'[u], task'[w])
  <2>1. \A u \in Tasks \ {t} : Together(task[u], c)
    BY DEF Together
  <2>2. \A u, w \in Tasks : u # w => Together(task[u], task[w])
    BY DEF Inv
  <2> QED BY <1>1, <2>1, <2>2
<1>4. writer' # None => \E u \in Tasks : Writing(task'[u])
  BY <1>1
<1> QED BY <1>2, <1>3, <1>4 DEF Inv

LEMMA InvInit == Init => Inv
<1> SUFFICES ASSUME Init PROVE Inv
  OBVIOUS
<1>1. Consistent(committed, lost, torn, version)
  BY DEF Init, Consistent, Recorded, ArtsOf, OneVersion
<1>2. \A t \in Tasks : task[t] = Idle
  BY DEF Init
<1>3. Idle.pc = "idle"
  BY DEF Idle
<1>4. TaskInv(Idle, committed, pending, writer, lost, torn, version)
  BY <1>3 DEF TaskInv, Writing, Storing, Normalizing
<1>5. Together(Idle, Idle)
  BY <1>3 DEF Together
<1> QED BY <1>1, <1>2, <1>4, <1>5 DEF Inv, Init

\* A first normalization and a rerun, up to the numbers.
LEMMA NormalizeStep ==
  ASSUME Kept, TypeInv, Inv, NEW t \in Tasks, NEW r \in Runs, Normalize(t, r)
  PROVE  Inv'
<1> DEFINE c == [Idle EXCEPT !.pc = "number", !.cmd = "run", !.run = r,
                             !.rows = Enrich(version, r)]
<1>1. /\ task[t].pc = "idle" /\ MayNormalize(r) /\ task' = [task EXCEPT ![t] = c]
      /\ \A u \in Siblings(t) : task[u].cmd \in {None, "run"} /\ task[u].run # r
      /\ ArtsOf(committed, r) = {} /\ r \notin lost /\ r \notin torn
      /\ UNCHANGED <<committed, pending, writer, version, lost, torn>>
  BY DEF Normalize, NoDb
<1>2. /\ c.pc = "number" /\ c.cmd = "run" /\ c.run = r /\ c.keep = {}
      /\ c.rows = Enrich(version, r)
  BY DEF Idle
<1> HIDE DEF c
<1>3. lost = {}
  BY <1>1 DEF Kept, MayNormalize
<1>4. NormalizingInv(c, committed, pending, writer, lost, torn, version)
  BY <1>1, <1>2, <1>3 DEF NormalizingInv, Ready, Numbers, Storing
<1>5. TaskInv(c, committed, pending, writer, lost, torn, version)
  BY <1>2, <1>4 DEF TaskInv, Writing, Storing
<1>6. ASSUME NEW u \in Tasks \ {t}
      PROVE  Together(c, task[u])
  <2>1. task[u].cmd \in {None, "run"} /\ task[u].run # r
    BY <1>1 DEF Siblings, Kept
  <2>2. TaskInv(task[u], committed, pending, writer, lost, torn, version) /\ task[u].pc \in Pc
    BY DEF Inv, TypeInv, TaskOK
  <2>3. task[u].pc # "idle" => task[u].cmd \in {"run", "rerun", "replay"}
    BY <2>2 DEF TaskInv, Pc
  <2> QED BY <1>2, <2>1, <2>3, NoneApart DEF Together
<1>7. writer # None => \E u \in Tasks \ {t} : Writing(task[u])
  BY <1>1 DEF Inv, Writing
<1> QED BY <1>1, <1>5, <1>6, <1>7, Act DEF Inv

\* A task alone with its connection finds it in no transaction.
LEMMA AloneReads ==
  ASSUME Kept, Inv, NEW t \in Tasks, task[t].pc = "idle", Alone(t)
  PROVE  writer = None /\ \A u \in Tasks : task[u].pc = "idle"
<1>1. \A u \in Tasks : task[u].pc = "idle"
  BY DEF Alone, Siblings, Kept
<1> QED BY <1>1, NobodyWrites DEF Writing

LEMMA RerunReadStep ==
  ASSUME Kept, TypeInv, Inv, NEW t \in Tasks, NEW r \in Runs, RerunRead(t, r)
  PROVE  Inv'
<1> DEFINE c == [Idle EXCEPT !.pc = "delete", !.cmd = "rerun", !.run = r,
                   !.keep = {[id |-> a.id, number |-> a.number] : a \in ArtsOf(committed, r)}]
<1>1. /\ task[t].pc = "idle" /\ Alone(t) /\ MayNormalize(r) /\ task' = [task EXCEPT ![t] = c]
      /\ UNCHANGED <<committed, pending, writer, version, lost, torn>>
  BY DEF RerunRead, NoDb
<1>2. c.pc = "delete" /\ c.cmd = "rerun" /\ c.run = r /\ c.keep = Numbers(committed, r)
  BY DEF Idle, Numbers
<1> HIDE DEF c
<1>3. writer = None /\ \A u \in Tasks : task[u].pc = "idle"
  BY <1>1, AloneReads
<1>4. Ready(committed, lost, r) /\ r \notin torn
  BY <1>1 DEF Kept, MayNormalize, Ready
<1>5. NormalizingInv(c, committed, pending, writer, lost, torn, version)
  BY <1>2, <1>3, <1>4 DEF NormalizingInv, Storing
<1>6. TaskInv(c, committed, pending, writer, lost, torn, version)
  BY <1>2, <1>5 DEF TaskInv, Writing, Storing
<1>7. \A u \in Tasks \ {t} : Together(c, task[u])
  BY <1>3 DEF Together
<1> QED BY <1>1, <1>3, <1>6, <1>7, Act DEF Inv

\* An action of a task that the others wait for, which commits nothing.
LEMMA ActAlone ==
  ASSUME Kept, TypeInv, Inv, NEW t \in Tasks, task[t].pc # "idle",
         \/ task[t].pc \in Storing
         \/ task[t].cmd # "run"
         \/ \A u \in Siblings(t) : task[u].pc \notin Storing,
         NEW c, task' = [task EXCEPT ![t] = c], c.cmd = task[t].cmd,
         c.cmd = "run" => c.run = task[t].run,
         UNCHANGED <<committed, version, lost, torn>>,
         TaskInv(c, committed, pending', writer', lost, torn, version),
         writer' # None => Writing(c)
  PROVE  Inv'
<1>1. committed' = committed /\ version' = version /\ lost' = lost /\ torn' = torn
  OBVIOUS
<1>2. ASSUME NEW u \in Tasks \ {t}
      PROVE  /\ TaskInv(task[u], committed', pending', writer', lost', torn', version')
             /\ Together(c, task[u])
  <2>1. /\ task[u].pc = "idle" \/ (task[u].pc = "number" /\ task[u].cmd = "run")
        /\ \/ task[u].pc = "idle"
           \/ task[t].cmd = "run" /\ task[u].run # task[t].run
    BY Others
  <2>2. TaskInv(task[u], committed, pending, writer, lost, torn, version)
    BY DEF Inv
  <2> QED BY <1>1, <2>1, <2>2, Bystander DEF Together
<1>3. Consistent(committed', lost', torn', version')
  BY <1>1 DEF Inv
<1>4. TaskInv(c, committed', pending', writer', lost', torn', version')
  BY <1>1
<1> QED BY <1>2, <1>3, <1>4, Act

LEMMA RerunDeleteStep ==
  ASSUME Kept, TypeInv, Inv, NEW t \in Tasks, RerunDelete(t)
  PROVE  Inv'
<1> DEFINE r == task[t].run
           c == [task[t] EXCEPT !.pc = "number", !.rows = Enrich(version, r)]
           db == [View(t) EXCEPT !.arts = @ \ ArtsOf(View(t), r)]
<1>1. /\ task[t].pc = "delete" /\ Write(t, db) /\ UNCHANGED <<version, lost, torn>>
      /\ task' = [task EXCEPT ![t] = c]
  BY DEF RerunDelete
<1>2. Record(task[t]) /\ TaskInv(task[t], committed, pending, writer, lost, torn, version)
  BY DEF TypeInv, TaskOK, Inv
<1>3. /\ c.pc = "number" /\ c.cmd = task[t].cmd /\ c.run = r /\ c.keep = task[t].keep
      /\ c.rows = Enrich(version, r)
  BY <1>2 DEF Record, Cells
<1>4. task[t].cmd = "rerun" /\ NormalizingInv(task[t], committed, pending, writer, lost, torn, version)
  BY <1>1, <1>2 DEF TaskInv, Normalizing
<1>5. writer = None /\ Ready(committed, lost, r) /\ task[t].keep = Numbers(committed, r)
  BY <1>1, <1>4 DEF NormalizingInv
<1>6. View(t) = committed /\ Process[t] # None
  BY <1>5, OneView
<1>7. db = [arts |-> Remaining(committed, r), files |-> committed.files]
  <2>1. committed = [arts |-> committed.arts, files |-> committed.files]
    BY DEF TypeInv, DbOK
  <2> QED BY <1>6, <2>1 DEF Remaining
<1> HIDE DEF c, db
<1>8. committed' = committed /\ pending' = db /\ writer' = Process[t]
  BY <1>1 DEF Write
<1>t. r \notin torn
  BY <1>1, <1>4 DEF NormalizingInv
<1>9. NormalizingInv(c, committed, pending', writer', lost, torn, version)
  BY <1>3, <1>4, <1>5, <1>7, <1>8, <1>t DEF NormalizingInv, Storing
<1>10. TaskInv(c, committed, pending', writer', lost, torn, version) /\ Writing(c)
  BY <1>3, <1>4, <1>6, <1>8, <1>9 DEF TaskInv, Writing, Storing
<1> QED BY <1>1, <1>3, <1>4, <1>8, <1>10, ActAlone

\* _store_run under db_lock, up to the commit.
LEMMA ReadNumbersStep ==
  ASSUME Kept, TypeInv, Inv, NEW t \in Tasks,
         NEW n \in {1} \cup {a.number + 1 : a \in View(t).arts}, ReadNumbers(t, n)
  PROVE  Inv'
<1> DEFINE r == task[t].run
           rows == Numbered(task[t].rows, task[t].keep, n)
           c == [task[t] EXCEPT !.pc = "store", !.rows = rows,
                                !.todo = {rows[i].type : i \in DOMAIN rows}]
<1>1. /\ task[t].pc = "number" /\ \A u \in Siblings(t) : task[u].pc \notin Storing
      /\ NextSequence(n, View(t)) /\ task' = [task EXCEPT ![t] = c]
      /\ UNCHANGED <<committed, pending, writer, version, lost, torn>>
  BY DEF ReadNumbers, NoDb
<1>2. Record(task[t]) /\ TaskInv(task[t], committed, pending, writer, lost, torn, version) /\ r \in Runs
  BY <1>1 DEF TypeInv, TaskOK, Inv
<1>3. /\ c.pc = "store" /\ c.cmd = task[t].cmd /\ c.run = r
      /\ c.rows = rows /\ c.todo = TypesIn(rows)
  BY <1>2 DEF Record, Cells, TypesIn
<1>4. /\ task[t].cmd \in {"run", "rerun"}
      /\ NormalizingInv(task[t], committed, pending, writer, lost, torn, version)
  BY <1>1, <1>2 DEF TaskInv, Normalizing
<1>5. task[t].rows = Enrich(version, r) /\ task[t].keep = Numbers(committed, r)
      /\ Ready(committed, lost, r) /\ r \notin torn
  BY <1>1, <1>4 DEF NormalizingInv
<1>6. View(t).arts = Remaining(committed, r) /\ (task[t].cmd = "run" => writer = None)
  <2>1. CASE task[t].cmd = "run"
    <3>1. \A u \in Tasks \ {t} : task[u].pc = "idle" \/ (task[u].pc = "number" /\ task[u].cmd = "run")
      BY <1>1, Others
    <3>2. writer = None
      BY <1>1, <2>1, <3>1, NobodyWrites DEF Writing
    <3>3. ArtsOf(committed, r) = {}
      BY <1>4, <1>5, <2>1 DEF NormalizingInv
    <3> QED BY <3>2, <3>3, OneView DEF Remaining
  <2>2. CASE task[t].cmd = "rerun"
    <3>1. writer # None
      BY <1>1, <1>2, <2>2 DEF TaskInv, Writing
    <3>2. pending = [arts |-> Remaining(committed, r), files |-> committed.files]
      BY <1>1, <1>4, <2>2 DEF NormalizingInv
    <3> QED BY <2>2, <3>1, <3>2, OneView
  <2> QED BY <1>4, <2>1, <2>2
<1>7. RowsFit(committed, version, r, rows)
  <2>1. n \in Nat
    BY ViewType DEF DbOK, ArtRow
  <2>2. \A a \in Remaining(committed, r) : a.number < n
    BY <1>1, <1>6 DEF NextSequence
  <2>3. Consistent(committed, lost, torn, version) /\ DbOK(committed) /\ version \in Versions /\ Steady
    BY DEF Inv, TypeInv, Kept
  <2> HIDE DEF r
  <2> QED BY <1>2, <1>5, <2>1, <2>2, <2>3, NumbersFit
<1> HIDE DEF c, rows
<1>8. NormalizingInv(c, committed, pending, writer, lost, torn, version)
  BY <1>1, <1>3, <1>4, <1>5, <1>6, <1>7 DEF NormalizingInv, Storing
<1>9. TaskInv(c, committed, pending, writer, lost, torn, version)
  BY <1>1, <1>2, <1>3, <1>4, <1>8 DEF TaskInv, Writing, Storing
<1>10. writer # None => Writing(c)
  BY <1>3, <1>4, <1>6 DEF Writing
<1> QED BY <1>1, <1>3, <1>9, <1>10, ActAlone

\* What a storing task knows of the open transaction and of its run.
LEMMA Storer ==
  ASSUME Kept, TypeInv, Inv, NEW t \in Tasks, task[t].pc \in Storing
  PROVE  /\ Record(task[t]) /\ task[t].run \in Runs /\ Listed(task[t].rows, ArtRow)
         /\ TaskInv(task[t], committed, pending, writer, lost, torn, version)
         /\ task[t].cmd \in {"run", "rerun"}
         /\ NormalizingInv(task[t], committed, pending, writer, lost, torn, version)
         /\ View(t) = [arts |-> View(t).arts, files |-> View(t).files]
         /\ Process[t] # None
         /\ View(t) = Seen(committed, pending, writer)
         /\ Writing(task[t]) /\ task[t].cmd = "rerun" => View(t) = pending
<1>1. TaskOK(task[t]) /\ TaskInv(task[t], committed, pending, writer, lost, torn, version)
  BY DEF TypeInv, Inv
<1>2. View(t) = [arts |-> View(t).arts, files |-> View(t).files]
  BY ViewType DEF DbOK
<1>3. Writing(task[t]) /\ task[t].cmd = "rerun" => View(t) = pending
  BY <1>1, OneView DEF TaskInv
<1>4. View(t) = Seen(committed, pending, writer)
  BY OneView DEF Seen
<1> QED BY <1>1, <1>2, <1>3, <1>4, OneView DEF TaskOK, TaskInv, Normalizing, Storing

LEMMA DropRecordsStep ==
  ASSUME Kept, TypeInv, Inv, NEW t \in Tasks, DropRecords(t)
  PROVE  Inv'
<1> DEFINE r == task[t].run
           c == [task[t] EXCEPT !.pc = "open"]
           db == [View(t) EXCEPT !.files = {f \in @ : f.run # r}]
<1>1. /\ task[t].pc = "store" /\ Write(t, db) /\ UNCHANGED <<version, lost, torn>>
      /\ task' = [task EXCEPT ![t] = c]
  BY DEF DropRecords, Goto
<1>s. task[t].pc \in Storing
  BY <1>1 DEF Storing
<1>2. Record(task[t]) /\ NormalizingInv(task[t], committed, pending, writer, lost, torn, version)
  BY <1>s, Storer
<1>3. /\ c.pc = "open" /\ c.cmd = task[t].cmd /\ c.run = r
      /\ c.rows = task[t].rows /\ c.todo = task[t].todo
  BY <1>2 DEF Record, Cells
<1>4. View(t).arts = Remaining(committed, r) /\ View(t).files = committed.files
  <2>1. CASE task[t].cmd = "run"
    <3>1. ArtsOf(committed, r) = {} /\ writer = None
      BY <1>1, <1>2, <2>1 DEF NormalizingInv
    <3> QED BY <3>1, OneView DEF Remaining
  <2>2. CASE task[t].cmd = "rerun"
    <3>1. Writing(task[t])
      BY <1>1, <2>2 DEF Writing
    <3>2. View(t) = pending
      BY <1>s, <2>2, <3>1, Storer
    <3>3. pending = [arts |-> Remaining(committed, r), files |-> committed.files]
      BY <1>1, <1>2, <2>2 DEF NormalizingInv
    <3> QED BY <3>2, <3>3
  <2> QED BY <1>s, <2>1, <2>2, Storer
<1>5. db.arts = Remaining(committed, r) /\ db.files = {f \in committed.files : f.run # r}
  <2>1. View(t) = [arts |-> View(t).arts, files |-> View(t).files]
    BY <1>s, Storer
  <2> QED BY <1>4, <2>1
<1> HIDE DEF c, db
<1>6. committed' = committed /\ pending' = db /\ writer' = Process[t]
  BY <1>1 DEF Write
<1>7. task[t].todo = TypesIn(task[t].rows)
  BY <1>1, <1>2 DEF NormalizingInv
<1>8. db.files = Written(committed, r, c.rows, c.todo)
  BY <1>3, <1>5, <1>7 DEF Written
<1>t. r \notin torn /\ Seen(committed, pending', writer') = db
  <2>1. Process[t] # None
    BY <1>s, Storer
  <2> QED BY <1>1, <1>2, <1>6, <2>1 DEF NormalizingInv, Seen
<1>9. NormalizingInv(c, committed, pending', writer', lost, torn, version)
  BY <1>2, <1>3, <1>5, <1>6, <1>7, <1>8, <1>s, <1>t DEF NormalizingInv, Storing
<1>10. TaskInv(c, committed, pending', writer', lost, torn, version) /\ Writing(c)
  BY <1>3, <1>6, <1>9, <1>s, Storer DEF TaskInv, Writing, Storing
<1> QED BY <1>1, <1>3, <1>6, <1>10, <1>s, ActAlone

LEMMA OpenFileStep ==
  ASSUME Kept, TypeInv, Inv, NEW t \in Tasks, NEW y \in Types, OpenFile(t, y)
  PROVE  Inv'
<1> DEFINE r == task[t].run
           c == [task[t] EXCEPT !.pc = "write", !.todo = @ \ {y}, !.got = <<y>>]
<1>1. /\ task[t].pc = "open" /\ y \in task[t].todo
      /\ UNCHANGED <<committed, pending, writer, version, lost, torn>>
      /\ task' = [task EXCEPT ![t] = c]
  BY DEF OpenFile, NoDb
<1>s. task[t].pc \in Storing /\ Writing(task[t])
  BY <1>1 DEF Storing, Writing
<1>2. /\ Record(task[t]) /\ NormalizingInv(task[t], committed, pending, writer, lost, torn, version)
      /\ TaskInv(task[t], committed, pending, writer, lost, torn, version)
  BY <1>s, Storer
<1>3. /\ c.pc = "write" /\ c.cmd = task[t].cmd /\ c.run = r
      /\ c.rows = task[t].rows /\ c.todo = task[t].todo \ {y} /\ c.got = <<y>>
  BY <1>2 DEF Record, Cells
<1> HIDE DEF c
<1>4. /\ task[t].todo \subseteq TypesIn(task[t].rows)
      /\ Seen(committed, pending, writer).files = Written(committed, r, task[t].rows, task[t].todo)
  BY <1>1, <1>2 DEF NormalizingInv
<1>5. c.todo \cup {c.got[1]} = task[t].todo /\ c.got[1] \in TypesIn(c.rows) \ c.todo
  BY <1>1, <1>3, <1>4
<1>6. NormalizingInv(c, committed, pending, writer, lost, torn, version)
  BY <1>1, <1>2, <1>3, <1>4, <1>5 DEF NormalizingInv, Storing
<1>7. TaskInv(c, committed, pending, writer, lost, torn, version) /\ Writing(c)
  BY <1>1, <1>2, <1>3, <1>6, <1>s, Storer DEF TaskInv, Writing, Storing
<1> QED BY <1>1, <1>3, <1>7, <1>s, ActAlone

LEMMA WriteFileStep ==
  ASSUME Kept, TypeInv, Inv, NEW t \in Tasks, WriteFile(t)
  PROVE  Inv'
<1> DEFINE r == task[t].run
           y == task[t].got[1]
           file == [run |-> r, type |-> y, hash |-> OfType(task[t].rows, y)]
           c == [task[t] EXCEPT !.pc = "open"]
           db == [View(t) EXCEPT !.files = @ \cup {file}]
<1>1. /\ task[t].pc = "write" /\ Write(t, db) /\ UNCHANGED <<version, lost, torn>>
      /\ task' = [task EXCEPT ![t] = c]
  BY DEF WriteFile, Goto
<1>s. task[t].pc \in Storing /\ Writing(task[t])
  BY <1>1 DEF Storing, Writing
<1>2. Record(task[t]) /\ NormalizingInv(task[t], committed, pending, writer, lost, torn, version)
  BY <1>s, Storer
<1>3. /\ c.pc = "open" /\ c.cmd = task[t].cmd /\ c.run = r
      /\ c.rows = task[t].rows /\ c.todo = task[t].todo
  BY <1>2 DEF Record, Cells
<1>4. /\ c.todo \subseteq TypesIn(c.rows) /\ y \in TypesIn(c.rows) \ c.todo
      /\ View(t).arts = Remaining(committed, r)
      /\ View(t).files = Written(committed, r, c.rows, c.todo \cup {y})
  BY <1>1, <1>2, <1>3, <1>s, Storer DEF NormalizingInv
<1>5. db.arts = View(t).arts /\ db.files = View(t).files \cup {file}
  <2>1. View(t) = [arts |-> View(t).arts, files |-> View(t).files]
    BY <1>s, Storer
  <2> QED BY <2>1
<1>6. db.files = Written(committed, r, c.rows, c.todo)
  BY <1>3, <1>4, <1>5 DEF Written
<1> HIDE DEF c, db, file
<1>7. committed' = committed /\ pending' = db /\ writer' = Process[t]
  BY <1>1 DEF Write
<1>t. Seen(committed, pending', writer') = db
  <2>1. Process[t] # None
    BY <1>s, Storer
  <2> QED BY <1>7, <2>1 DEF Seen
<1>8. NormalizingInv(c, committed, pending', writer', lost, torn, version)
  BY <1>1, <1>2, <1>3, <1>4, <1>5, <1>6, <1>7, <1>t DEF NormalizingInv, Storing
<1>9. TaskInv(c, committed, pending', writer', lost, torn, version) /\ Writing(c)
  BY <1>3, <1>7, <1>8, <1>s, Storer DEF TaskInv, Writing, Storing
<1> QED BY <1>1, <1>3, <1>7, <1>9, <1>s, ActAlone

LEMMA InsertArtifactsStep ==
  ASSUME Kept, TypeInv, Inv, NEW t \in Tasks, NEW n \in {0} \cup DOMAIN task[t].rows,
         InsertArtifacts(t, n)
  PROVE  Inv'
<1> DEFINE r == task[t].run
           rows == task[t].rows
           left == Left(task[t])
           batch == {i \in left : i <= n}
           some == [i \in batch |-> rows[i]]
           pc == IF batch = left THEN "commit" ELSE "batch"
           rest == left \ batch
           c == [task[t] EXCEPT !.pc = pc, !.todo = rest]
           db == [View(t) EXCEPT !.arts = BulkInsert(@, some)]
<1>1. /\ task[t].pc = "batch" \/ (task[t].pc = "open" /\ task[t].todo = {})
      /\ Write(t, db) /\ UNCHANGED <<version, lost, torn>>
      /\ task' = [task EXCEPT ![t] = c]
  BY DEF InsertArtifacts
<1>s. task[t].pc \in Storing /\ Writing(task[t])
  BY <1>1 DEF Storing, Writing
<1>2. /\ Record(task[t]) /\ NormalizingInv(task[t], committed, pending, writer, lost, torn, version)
      /\ r \in Runs /\ Listed(rows, ArtRow) /\ Process[t] # None
      /\ View(t) = [arts |-> View(t).arts, files |-> View(t).files]
      /\ View(t) = Seen(committed, pending, writer)
  BY <1>s, Storer
<1>p. pc \in {"batch", "commit"}
  OBVIOUS
<1>l. left \in SUBSET DOMAIN rows
  <2>1. TaskOK(task[t])
    BY DEF TypeInv
  <2> QED BY <1>1, <2>1 DEF TaskOK, Left
<1>3. c.pc = pc /\ c.cmd = task[t].cmd /\ c.run = r /\ c.rows = rows /\ c.todo = rest
  <2> HIDE DEF pc, rest
  <2> QED BY <1>2 DEF Record, Cells
<1>4. /\ View(t).arts = Remaining(committed, r) \cup Inserted(rows, left)
      /\ View(t).files = Written(committed, r, rows, {})
      /\ RowsFit(committed, version, r, rows)
  <2>1. CASE task[t].pc = "batch"
    BY <1>2, <1>s, <2>1 DEF NormalizingInv, Left
  <2>2. CASE task[t].pc = "open" /\ task[t].todo = {}
    <3>1. left = DOMAIN rows
      BY <2>2 DEF Left
    <3>2. Inserted(rows, left) = {}
      BY <3>1 DEF Inserted
    <3> QED BY <1>2, <1>s, <2>2, <3>2 DEF NormalizingInv
  <2> QED BY <1>1, <2>1, <2>2
<1>5. db.arts = BulkInsert(View(t).arts, some) /\ db.files = View(t).files
  <2> HIDE DEF some
  <2> QED BY <1>2
<1>6. \A i \in DOMAIN rows : rows[i].id[1] = r
  <2>1. version \in Versions
    BY DEF TypeInv
  <2> HIDE DEF r, rows
  <2> QED BY <1>2, <1>4, <2>1, RowsOfRun, Z3
<1>b. DOMAIN some = batch /\ \A i \in batch : some[i] = rows[i] /\ i \in left /\ i \in DOMAIN rows
  BY <1>l
<1> HIDE DEF c, db, some, batch, left, pc, rest
<1>7. ASSUME NEW a \in View(t).arts, NEW i \in DOMAIN some, Clash(a, some[i])
      PROVE  a = some[i]
  <2>1. some[i] = rows[i] /\ i \in DOMAIN rows
    BY <1>b
  <2>2. CASE a \in Remaining(committed, r)
    <3>1. a.id # rows[i].id
      BY <1>6, <2>1, <2>2 DEF Remaining, ArtsOf
    <3>2. a.number # rows[i].number
      BY <1>4, <2>1, <2>2 DEF RowsFit
    <3> QED BY <1>7, <2>1, <3>1, <3>2 DEF Clash
  <2>3. CASE a \in Inserted(rows, left)
    <3>1. PICK k \in DOMAIN rows : a = rows[k]
      BY <2>3 DEF Inserted
    <3>2. k = i
      BY <1>4, <1>7, <2>1, <3>1 DEF RowsFit
    <3> QED BY <2>1, <3>1, <3>2
  <2> QED BY <1>4, <2>2, <2>3
<1>8. db.arts = Remaining(committed, r) \cup Inserted(rows, rest)
  <2>1. DOMAIN some \in SUBSET Nat
    BY <1>2, <1>b DEF Listed
  <2>2. \A i, j \in DOMAIN some : Clash(some[i], some[j]) => i = j
    BY <1>4, <1>b DEF RowsFit
  <2>3. db.arts = View(t).arts \cup RangeOf(some)
    BY <1>5, <1>7, <2>1, <2>2, BulkAdds
  <2>4. Inserted(rows, left) \cup RangeOf(some) = Inserted(rows, rest)
    <3>1. RangeOf(some) = {rows[i] : i \in batch}
      BY <1>b DEF RangeOf
    <3>2. batch \in SUBSET DOMAIN rows /\ rest = left \ batch
      BY <1>b DEF rest
    <3> HIDE DEF rows
    <3>3. DOMAIN rows \ rest = (DOMAIN rows \ left) \cup batch
      BY <3>2
    <3> QED BY <3>1, <3>3 DEF Inserted
  <2> QED BY <1>4, <2>3, <2>4
<1>9. committed' = committed /\ pending' = db /\ writer' = Process[t] /\ Seen(committed, pending', writer') = db
  BY <1>1, <1>2 DEF Write, Seen
<1>10. pc = "commit" => Inserted(rows, rest) = RangeOf(rows)
  <2>1. pc = "commit" => rest = {}
    BY DEF pc, rest
  <2> QED BY <2>1 DEF Inserted, RangeOf
<1>t. r \in torn => task[t].cmd = "run" /\ ArtsOf(committed, r) \subseteq RangeOf(rows)
  BY <1>2 DEF NormalizingInv
<1>11. NormalizingInv(c, committed, pending', writer', lost, torn, version)
  BY <1>2, <1>3, <1>4, <1>5, <1>8, <1>9, <1>10, <1>p, <1>s, <1>t DEF NormalizingInv, Storing
<1>12. TaskInv(c, committed, pending', writer', lost, torn, version) /\ Writing(c)
  BY <1>3, <1>9, <1>11, <1>p, <1>s, Storer DEF TaskInv, Writing, Storing
<1> QED BY <1>1, <1>3, <1>9, <1>12, <1>s, ActAlone

\* The commit of _store_run: the new rows and files of a run instead of the old.
LEMMA CommitMakes ==
  ASSUME Kept, TypeInv, Inv, NEW t \in Tasks, StoreCommit(t)
  PROVE  /\ task[t].pc \in Storing /\ task[t].run \in Runs
         /\ writer' = None /\ lost' = {} /\ torn' = torn \ {task[t].run} /\ version' = version
         /\ task' = [task EXCEPT ![t] = Idle]
         /\ RowsFit(committed, version, task[t].run, task[t].rows)
         /\ Consistent(committed', lost', torn', version)
         /\ ArtsOf(committed', task[t].run) = RangeOf(task[t].rows)
         /\ \A q \in Runs \ {task[t].run} : ArtsOf(committed', q) = ArtsOf(committed, q)
<1> DEFINE r == task[t].run
<1>1. /\ task[t].pc = "commit" /\ Commit(Process[t]) /\ torn' = torn \ {r}
      /\ lost' = lost \ {r} /\ version' = version /\ task' = [task EXCEPT ![t] = Idle]
  BY DEF StoreCommit
<1>2. task[t].pc \in Storing
  BY <1>1 DEF Storing
<1>3. /\ r \in Runs /\ Listed(task[t].rows, ArtRow)
      /\ NormalizingInv(task[t], committed, pending, writer, lost, torn, version)
  BY <1>2, Storer
<1>c. committed' = Seen(committed, pending, writer) /\ writer' = None
  BY <1>1, OneView DEF Commit, Seen
<1>4. /\ committed'.arts = Remaining(committed, r) \cup RangeOf(task[t].rows)
      /\ committed'.files = Written(committed, r, task[t].rows, {})
      /\ RowsFit(committed, version, r, task[t].rows) /\ Ready(committed, lost, r)
  BY <1>1, <1>2, <1>3, <1>c DEF NormalizingInv
<1>5. lost' = {}
  BY <1>1, <1>4 DEF Ready
<1>6. DbOK(committed) /\ version \in Versions /\ Consistent(committed, lost, torn, version)
  BY DEF TypeInv, Inv
<1> HIDE DEF r
<1>7. /\ Consistent(committed', lost \ {r}, torn \ {r}, version)
      /\ ArtsOf(committed', r) = RangeOf(task[t].rows)
      /\ \A q \in Runs \ {r} : ArtsOf(committed', q) = ArtsOf(committed, q)
  BY <1>3, <1>4, <1>6, Stored
<1> QED BY <1>1, <1>2, <1>3, <1>4, <1>5, <1>7, <1>c DEF r

\* The others when a task has changed its run in the database.
LEMMA OthersWait ==
  ASSUME Kept, TypeInv, Inv, NEW t \in Tasks, NEW u \in Tasks \ {t}, task[t].pc \in Storing,
         lost' = {}, version' = version, torn' \in SUBSET (torn \cup {task[t].run}),
         \A q \in Runs \ {task[t].run} : ArtsOf(committed', q) = ArtsOf(committed, q)
  PROVE  TaskInv(task[u], committed', pending', writer', lost', torn', version')
<1>1. task[t].pc # "idle"
  BY DEF Storing
<1>2. /\ task[u].pc = "idle" \/ (task[u].pc = "number" /\ task[u].cmd = "run")
      /\ \/ task[u].pc = "idle"
         \/ task[t].cmd = "run" /\ task[u].run # task[t].run
  BY <1>1, Others
<1>3. TaskInv(task[u], committed, pending, writer, lost, torn, version) /\ TaskOK(task[u])
  BY DEF Inv, TypeInv
<1>4. CASE task[u].pc = "idle"
  BY <1>3, <1>4, Bystander
<1>5. CASE task[u].pc = "number" /\ task[u].cmd = "run" /\ task[u].run # task[t].run
  <2>1. NormalizingInv(task[u], committed, pending, writer, lost, torn, version)
    BY <1>3, <1>5 DEF TaskInv, Normalizing
  <2>2. task[u].run \in Runs /\ task[u].run \notin torn /\ ArtsOf(committed, task[u].run) = {}
    BY <1>3, <1>5, <2>1 DEF TaskOK, NormalizingInv
  <2>3. ArtsOf(committed', task[u].run) = {} /\ task[u].run \notin torn'
    BY <1>5, <2>2
  <2> QED BY <1>3, <1>5, <2>3, Bystander
<1> QED BY <1>2, <1>4, <1>5

LEMMA StoreCommitStep ==
  ASSUME Kept, TypeInv, Inv, NEW t \in Tasks, StoreCommit(t)
  PROVE  Inv'
<1>1. /\ task[t].pc \in Storing /\ task[t].run \in Runs
      /\ writer' = None /\ lost' = {} /\ torn' = torn \ {task[t].run} /\ version' = version
      /\ task' = [task EXCEPT ![t] = Idle]
      /\ Consistent(committed', lost', torn', version)
      /\ \A q \in Runs \ {task[t].run} : ArtsOf(committed', q) = ArtsOf(committed, q)
  BY CommitMakes
<1>2. Idle.pc = "idle"
  BY DEF Idle
<1>3. \A u \in Tasks \ {t} :
        TaskInv(task[u], committed', pending', writer', lost', torn', version') /\ Together(Idle, task[u])
  BY <1>1, <1>2, OthersWait DEF Together
<1>4. TaskInv(Idle, committed', pending', writer', lost', torn', version')
  BY <1>2 DEF TaskInv, Writing, Storing, Normalizing
<1> QED BY <1>1, <1>3, <1>4, Act

\* The commit of a sibling: a part of the rows and files of the run that a task
\* is storing for the first time.
LEMMA SiblingMakes ==
  ASSUME Kept, TypeInv, Inv, NEW y \in {Process[t] : t \in Tasks}, SiblingCommit(y)
  PROVE  \E t \in Tasks :
           /\ task[t].pc \in Storing /\ Writing(task[t]) /\ task[t].cmd = "run"
           /\ task[t].run \in Runs /\ Listed(task[t].rows, ArtRow)
           /\ NormalizingInv(task[t], committed, pending, writer, lost, torn, version)
           /\ committed' = pending /\ pending' = pending /\ writer # None /\ writer' = None
           /\ lost = {} /\ torn' = torn \cup {task[t].run}
           /\ UNCHANGED <<version, task, lost>>
           /\ Consistent(committed', lost', torn', version)
           /\ ArtsOf(committed', task[t].run) \subseteq RangeOf(task[t].rows)
           /\ \A q \in Runs \ {task[t].run} : ArtsOf(committed', q) = ArtsOf(committed, q)
           /\ Remaining(committed', task[t].run) = Remaining(committed, task[t].run)
           /\ {f \in committed'.files : f.run # task[t].run} = {f \in committed.files : f.run # task[t].run}
<1>1. /\ writer = y /\ y # None /\ \A t \in Tasks : Process[t] = y
      /\ \A t \in Tasks : task[t].cmd \in {None, "run"}
      /\ torn' = torn \cup {task[t].run : t \in {u \in Tasks : task[u].pc \in Storing}}
      /\ Commit(y) /\ UNCHANGED <<version, task, lost>>
  <2>1. y # None /\ \A t \in Tasks : Process[t] = y
    BY NoneApart DEF Kept
  <2> QED BY <2>1 DEF SiblingCommit
<1>2. committed' = pending /\ pending' = pending /\ writer' = None
  BY <1>1 DEF Commit
<1>3. PICK t \in Tasks : Writing(task[t])
  BY <1>1 DEF Inv
<1> DEFINE r == task[t].run
           rows == task[t].rows
<1>4. task[t].pc \in {"open", "write", "batch", "commit"} /\ task[t].cmd = "run" /\ task[t].pc \in Storing
  <2>1. TaskInv(task[t], committed, pending, writer, lost, torn, version)
    BY DEF Inv
  <2>2. task[t].cmd \in {"run", "rerun"}
    BY <1>3, <2>1 DEF Writing, TaskInv, Storing
  <2>3. task[t].cmd = "run"
    BY <1>1, <2>2, NoneApart
  <2> QED BY <1>3, <2>3 DEF Writing, Storing
<1>5. /\ r \in Runs /\ Listed(rows, ArtRow)
      /\ NormalizingInv(task[t], committed, pending, writer, lost, torn, version)
  BY <1>4, Storer
<1>6. {u \in Tasks : task[u].pc \in Storing} = {t}
  BY <1>1, <1>4 DEF TypeInv, OneStores, Siblings
<1>7. torn' = torn \cup {r}
  BY <1>1, <1>6
<1>8. lost = {}
  BY <1>4, <1>5 DEF NormalizingInv, Ready
<1>9. RowsFit(committed, version, r, rows)
  BY <1>4, <1>5 DEF NormalizingInv
<1>10. \E some \in SUBSET RangeOf(rows), todo \in SUBSET TypesIn(rows) :
         /\ pending.arts = Remaining(committed, r) \cup some
         /\ pending.files = Written(committed, r, rows, todo)
  <2>1. Seen(committed, pending, writer) = pending
    BY <1>1 DEF Seen
  <2>2. CASE task[t].pc = "open"
    <3>1. /\ pending.arts = Remaining(committed, r) \cup {}
          /\ task[t].todo \in SUBSET TypesIn(rows)
          /\ pending.files = Written(committed, r, rows, task[t].todo)
      BY <1>5, <2>1, <2>2 DEF NormalizingInv
    <3> QED BY <3>1
  <2>3. CASE task[t].pc = "write"
    <3>1. /\ pending.arts = Remaining(committed, r) \cup {}
          /\ task[t].todo \cup {task[t].got[1]} \in SUBSET TypesIn(rows)
          /\ pending.files = Written(committed, r, rows, task[t].todo \cup {task[t].got[1]})
      BY <1>5, <2>1, <2>3 DEF NormalizingInv
    <3> QED BY <3>1
  <2>4. CASE task[t].pc = "batch"
    <3>1. /\ pending.arts = Remaining(committed, r) \cup Inserted(rows, task[t].todo)
          /\ pending.files = Written(committed, r, rows, {})
      BY <1>5, <2>1, <2>4 DEF NormalizingInv
    <3>2. Inserted(rows, task[t].todo) \in SUBSET RangeOf(rows)
      BY DEF Inserted, RangeOf
    <3> QED BY <3>1, <3>2
  <2>5. CASE task[t].pc = "commit"
    <3>1. /\ pending.arts = Remaining(committed, r) \cup RangeOf(rows)
          /\ pending.files = Written(committed, r, rows, {})
      BY <1>5, <2>1, <2>5 DEF NormalizingInv
    <3> QED BY <3>1
  <2> QED BY <1>4, <2>2, <2>3, <2>4, <2>5
<1>11. \A i \in DOMAIN rows : rows[i].id[1] = r
  <2>1. version \in Versions
    BY DEF TypeInv
  <2> HIDE DEF r, rows
  <2> QED BY <1>5, <1>9, <2>1, RowsOfRun, Z3
<1>12. Consistent(committed, lost, torn, version)
  BY DEF Inv
<1> HIDE DEF r, rows
<1>13. /\ Consistent(pending, lost, torn \cup {r}, version)
       /\ ArtsOf(pending, r) \subseteq RangeOf(rows)
       /\ \A q \in Runs \ {r} : ArtsOf(pending, q) = ArtsOf(committed, q)
       /\ Remaining(pending, r) = Remaining(committed, r)
       /\ {f \in pending.files : f.run # r} = {f \in committed.files : f.run # r}
  <2>1. PICK some \in SUBSET RangeOf(rows), todo \in SUBSET TypesIn(rows) :
          /\ pending.arts = Remaining(committed, r) \cup some
          /\ pending.files = Written(committed, r, rows, todo)
    BY <1>10
  <2>2. r \in Runs
    BY <1>5
  <2> QED BY ONLY <1>11, <1>12, <2>1, <2>2, HalfStored
<1> QED BY <1>1, <1>2, <1>3, <1>4, <1>5, <1>7, <1>8, <1>13 DEF r, rows

LEMMA SiblingCommitStep ==
  ASSUME Kept, TypeInv, Inv, NEW y \in {Process[t] : t \in Tasks}, SiblingCommit(y)
  PROVE  Inv'
<1>1. PICK t \in Tasks :
        /\ task[t].pc \in Storing /\ Writing(task[t]) /\ task[t].cmd = "run"
        /\ task[t].run \in Runs /\ Listed(task[t].rows, ArtRow)
        /\ NormalizingInv(task[t], committed, pending, writer, lost, torn, version)
        /\ committed' = pending /\ pending' = pending /\ writer # None /\ writer' = None
        /\ lost = {} /\ torn' = torn \cup {task[t].run}
        /\ UNCHANGED <<version, task, lost>>
        /\ Consistent(committed', lost', torn', version)
        /\ ArtsOf(committed', task[t].run) \subseteq RangeOf(task[t].rows)
        /\ \A q \in Runs \ {task[t].run} : ArtsOf(committed', q) = ArtsOf(committed, q)
        /\ Remaining(committed', task[t].run) = Remaining(committed, task[t].run)
        /\ {f \in committed'.files : f.run # task[t].run} = {f \in committed.files : f.run # task[t].run}
  BY SiblingMakes
<1> DEFINE c == task[t]
           r == task[t].run
           rows == task[t].rows
<1>2. RowsFit(committed', version, r, rows)
  <2>1. RowsFit(committed, version, r, rows)
    BY <1>1 DEF NormalizingInv
  <2>2. ASSUME NEW i \in DOMAIN rows, NEW a \in ArtsOf(committed', r), a.id = rows[i].id
        PROVE  a.number = rows[i].number
    <3>1. PICK k \in DOMAIN rows : a = rows[k]
      BY <1>1 DEF RangeOf
    <3>2. k = i
      BY <2>1, <2>2, <3>1 DEF RowsFit, Clash
    <3> QED BY <3>1, <3>2
  <2> QED BY <1>1, <2>1, <2>2 DEF RowsFit
<1>3. /\ Seen(committed', pending', writer') = Seen(committed, pending, writer)
      /\ \A todo : Written(committed', r, rows, todo) = Written(committed, r, rows, todo)
  BY <1>1 DEF Seen, Written
<1>4. c.pc \in {"open", "write", "batch", "commit"}
  BY <1>1 DEF Writing
<1>5. Ready(committed', lost', r)
  BY <1>1 DEF Ready
<1>6. Remaining(committed', r) = Remaining(committed, r) /\ r \in torn' /\ r \notin lost'
  BY <1>1
<1>n. NormalizingInv(c, committed, pending, writer, lost, torn, version) /\ version' = version
  BY <1>1
<1>7. NormalizingInv(c, committed', pending', writer', lost', torn', version')
  <2>1. ArtsOf(committed', r) \subseteq RangeOf(rows) /\ c.cmd = "run"
    BY <1>1
  <2> QED BY <1>2, <1>3, <1>4, <1>5, <1>6, <1>n, <2>1 DEF NormalizingInv
<1>8. TaskInv(c, committed', pending', writer', lost', torn', version')
  BY <1>1, <1>4, <1>7, NoneApart DEF TaskInv, Storing
<1>9. \A u \in Tasks \ {t} : TaskInv(task[u], committed', pending', writer', lost', torn', version')
  BY <1>1, OthersWait
<1>10. \A u \in Tasks : TaskInv(task'[u], committed', pending', writer', lost', torn', version')
  BY <1>1, <1>8, <1>9
<1>11. \A u, w \in Tasks : u # w => Together(task'[u], task'[w])
  BY <1>1 DEF Inv
<1>12. Consistent(committed', lost', torn', version')
  BY <1>1
<1> QED BY <1>1, <1>10, <1>11, <1>12 DEF Inv

\* A replay is alone, outside of any transaction.
LEMMA ReplayAct ==
  ASSUME Kept, TypeInv, Inv, NEW t \in Tasks, \A u \in Tasks \ {t} : task[u].pc = "idle",
         NEW c, task' = [task EXCEPT ![t] = c], writer = None,
         UNCHANGED <<pending, writer, version, torn>>, torn = {},
         Consistent(committed', lost', torn', version),
         c.pc = "idle" => c = Idle,
         c.pc # "idle" => c.pc \in {"file", "insert"} /\ c.cmd = "replay" /\ ReplayInv(c, committed', None, {})
  PROVE  Inv'
<1>1. writer' = None /\ version' = version
  OBVIOUS
<1>2. TaskInv(c, committed', pending', writer', lost', torn', version')
  <2>1. CASE c.pc = "idle"
    BY <2>1 DEF TaskInv, Writing, Storing, Normalizing
  <2>2. CASE c.pc # "idle"
    BY <1>1, <2>2 DEF TaskInv, Writing, Storing, Normalizing
  <2> QED BY <2>1, <2>2
<1>3. ASSUME NEW u \in Tasks \ {t}
      PROVE  /\ TaskInv(task[u], committed', pending', writer', lost', torn', version')
             /\ Together(c, task[u])
  <2>1. TaskInv(task[u], committed, pending, writer, lost, torn, version)
    BY DEF Inv
  <2> QED BY <1>1, <2>1, Bystander DEF Together
<1> QED BY <1>1, <1>2, <1>3, Act

\* While a task replays, the others do nothing.
LEMMA Replaying ==
  ASSUME Kept, TypeInv, Inv, NEW t \in Tasks, task[t].pc \in {"file", "insert"}
  PROVE  /\ \A u \in Tasks \ {t} : task[u].pc = "idle"
         /\ Record(task[t]) /\ task[t].cmd = "replay" /\ writer = None /\ torn = {}
         /\ ReplayInv(task[t], committed, None, {})
<1>1. TaskInv(task[t], committed, pending, writer, lost, torn, version) /\ Record(task[t])
  BY DEF Inv, TypeInv, TaskOK
<1>2. task[t].cmd = "replay" /\ ReplayInv(task[t], committed, writer, torn) /\ writer = None /\ torn = {}
  BY <1>1 DEF TaskInv, ReplayInv
<1>3. \A u \in Tasks \ {t} : task[u].pc = "idle"
  BY <1>2, Others
<1> QED BY <1>1, <1>2, <1>3

LEMMA ReplayListStep ==
  ASSUME Kept, TypeInv, Inv, NEW t \in Tasks, ReplayList(t)
  PROVE  Inv'
<1> DEFINE c == [Idle EXCEPT !.pc = "file", !.cmd = "replay", !.todo = committed.files]
<1>1. /\ task[t].pc = "idle" /\ Alone(t) /\ task' = [task EXCEPT ![t] = c] /\ torn = {}
      /\ UNCHANGED <<committed, pending, writer, version, lost, torn>>
  BY DEF ReplayList, NoDb, MayReplay, Kept
<1>2. c.pc = "file" /\ c.cmd = "replay" /\ c.todo = committed.files
  BY DEF Idle
<1> HIDE DEF c
<1>3. writer = None /\ \A u \in Tasks : task[u].pc = "idle"
  BY <1>1, AloneReads
<1>4. ReplayInv(c, committed', None, {})
  BY <1>1, <1>2 DEF ReplayInv
<1>5. Consistent(committed', lost', torn', version)
  BY <1>1 DEF Inv
<1> QED BY <1>1, <1>2, <1>3, <1>4, <1>5, ReplayAct

LEMMA ReplayFileStep ==
  ASSUME Kept, TypeInv, Inv, NEW t \in Tasks, task[t].pc = "file", NEW f \in task[t].todo,
         ReplayFile(t, f)
  PROVE  Inv'
<1> DEFINE skip == [task[t] EXCEPT !.todo = @ \ {f}]
           read == [task[t] EXCEPT !.todo = @ \ {f}, !.pc = "insert", !.run = f.run,
                                   !.got = disk[f.type, f.run]]
<1>1. /\ \/ task' = [task EXCEPT ![t] = skip]
         \/ disk[f.type, f.run] = f.hash /\ task' = [task EXCEPT ![t] = read]
      /\ UNCHANGED <<committed, pending, writer, version, lost, torn>>
  BY DEF ReplayFile, NoDb
<1>2. /\ \A u \in Tasks \ {t} : task[u].pc = "idle"
      /\ Record(task[t]) /\ task[t].cmd = "replay" /\ writer = None /\ torn = {}
      /\ ReplayInv(task[t], committed, None, {})
  BY Replaying
<1>3. f \in committed.files /\ task[t].todo \subseteq committed.files
  BY <1>2 DEF ReplayInv
<1>4. /\ skip.pc = "file" /\ skip.cmd = "replay" /\ skip.todo = task[t].todo \ {f}
      /\ read.pc = "insert" /\ read.cmd = "replay" /\ read.todo = task[t].todo \ {f}
      /\ read.run = f.run /\ read.got = disk[f.type, f.run]
  BY <1>2 DEF Record, Cells
<1> HIDE DEF skip, read
<1>5. Consistent(committed', lost', torn', version) /\ committed' = committed
  BY <1>1 DEF Inv
<1>6. CASE task' = [task EXCEPT ![t] = skip]
  <2>1. ReplayInv(skip, committed', None, {})
    BY <1>3, <1>4, <1>5 DEF ReplayInv
  <2> QED BY <1>1, <1>2, <1>4, <1>5, <1>6, <2>1, ReplayAct
<1>7. CASE disk[f.type, f.run] = f.hash /\ task' = [task EXCEPT ![t] = read]
  <2>1. ReplayInv(read, committed', None, {})
    BY <1>3, <1>4, <1>5, <1>7 DEF ReplayInv
  <2> QED BY <1>1, <1>2, <1>4, <1>5, <1>7, <2>1, ReplayAct
<1> QED BY <1>1, <1>6, <1>7

\* The commit of a replay: the rows of one file are added to those there.
LEMMA ReplayMakes ==
  ASSUME Kept, TypeInv, Inv, NEW t \in Tasks, ReplayInsert(t)
  PROVE  /\ Consistent(committed', lost', torn', version)
         /\ committed'.files = committed.files
         /\ \E f \in committed.files : committed'.arts = committed.arts \cup RangeOf(f.hash)
<1> DEFINE arts == BulkInsert(committed.arts, task[t].got)
           db == [committed EXCEPT !.arts = arts]
<1>1. /\ task[t].pc = "insert" /\ committed' = db
      /\ lost' = IF \A f \in committed.files : f.run = task[t].run => RangeOf(f.hash) \subseteq arts
                   THEN lost \ {task[t].run} ELSE lost
  BY DEF ReplayInsert
<1>2. ReplayInv(task[t], committed, None, {})
  BY <1>1, Replaying
<1>3. PICK f \in committed.files : f.run = task[t].run /\ task[t].got = f.hash
  BY <1>1, <1>2 DEF ReplayInv
<1>4. db.arts = BulkInsert(committed.arts, f.hash) /\ db.files = committed.files
  <2>1. committed = [arts |-> committed.arts, files |-> committed.files]
    BY DEF TypeInv, DbOK
  <2> QED BY <1>3, <2>1
<1>5. \/ lost' = lost
      \/ /\ lost' = lost \ {f.run}
         /\ \A g \in committed.files : g.run = f.run => RangeOf(g.hash) \subseteq db.arts
  BY <1>1, <1>3, <1>4
<1>6. DbOK(committed) /\ Consistent(committed, lost, {}, version) /\ torn' = {}
  <2>1. torn = {}
    BY <1>1, Replaying
  <2> QED BY <2>1 DEF TypeInv, Inv, ReplayInsert
<1> HIDE DEF db, arts
<1>7. db.arts = committed.arts \cup RangeOf(f.hash) /\ Consistent(db, lost', {}, version)
  BY <1>4, <1>5, <1>6, Restored
<1> QED BY <1>1, <1>4, <1>6, <1>7

LEMMA ReplayInsertStep ==
  ASSUME Kept, TypeInv, Inv, NEW t \in Tasks, ReplayInsert(t)
  PROVE  Inv'
<1> DEFINE c == [task[t] EXCEPT !.pc = "file", !.got = <<>>]
<1>1. /\ task[t].pc = "insert" /\ task' = [task EXCEPT ![t] = c]
      /\ UNCHANGED <<pending, writer, version, torn>>
  BY DEF ReplayInsert
<1>2. /\ \A u \in Tasks \ {t} : task[u].pc = "idle"
      /\ Record(task[t]) /\ task[t].cmd = "replay" /\ writer = None /\ torn = {}
      /\ ReplayInv(task[t], committed, None, {})
  BY <1>1, Replaying
<1>3. c.pc = "file" /\ c.cmd = "replay" /\ c.todo = task[t].todo
  BY <1>2 DEF Record, Cells
<1> HIDE DEF c
<1>4. Consistent(committed', lost', torn', version) /\ committed'.files = committed.files
  BY ReplayMakes
<1>5. ReplayInv(c, committed', None, {})
  BY <1>2, <1>3, <1>4 DEF ReplayInv
<1> QED BY <1>1, <1>2, <1>3, <1>4, <1>5, ReplayAct

LEMMA ReplayEndStep ==
  ASSUME Kept, TypeInv, Inv, NEW t \in Tasks, ReplayEnd(t)
  PROVE  Inv'
<1>1. /\ task[t].pc = "file" /\ task' = [task EXCEPT ![t] = Idle]
      /\ UNCHANGED <<committed, pending, writer, version, lost, torn>>
  BY DEF ReplayEnd, NoDb
<1>2. writer = None /\ torn = {} /\ \A u \in Tasks \ {t} : task[u].pc = "idle"
  BY <1>1, Replaying
<1>3. Consistent(committed', lost', torn', version) /\ Idle.pc = "idle"
  BY <1>1 DEF Inv, Idle
<1> QED BY <1>1, <1>2, <1>3, ReplayAct

\* When no task does anything, what matters is the records.
LEMMA AllIdle ==
  ASSUME task' = [t \in Tasks |-> Idle], writer' = None, Consistent(committed', lost', torn', version')
  PROVE  Inv'
<1>1. \A t \in Tasks : task'[t] = Idle /\ Idle.pc = "idle"
  BY DEF Idle
<1>2. TaskInv(Idle, committed', pending', writer', lost', torn', version') /\ Together(Idle, Idle)
  BY <1>1 DEF TaskInv, Writing, Storing, Normalizing, Together, Idle
<1> QED BY <1>1, <1>2 DEF Inv

LEMMA DieStep ==
  ASSUME Kept, TypeInv, Inv, NEW t \in Tasks, Die(t)
  PROVE  Inv'
<1>1. PICK alone \in {FALSE} :
        LET dead == IF alone THEN {t} ELSE {t} \cup Siblings(t)
        IN  /\ task' = [u \in Tasks |-> IF u \in dead THEN Idle ELSE task[u]]
            /\ writer' = IF ~alone /\ writer = Process[t] THEN None ELSE writer
  BY DEF Die, Kept
<1>2. {t} \cup Siblings(t) = Tasks
  BY DEF Siblings, Kept
<1>3. task' = [u \in Tasks |-> Idle] /\ writer' = None
  BY <1>1, <1>2 DEF TypeInv, Kept
<1>4. Consistent(committed', lost', torn', version')
  BY DEF Die, Inv
<1> QED BY <1>3, <1>4, AllIdle

\* The steps of the rest of the world, when every task is idle.
LEMMA Resting ==
  ASSUME Kept, TypeInv, Inv, \A t \in Tasks : task[t].pc = "idle"
  PROVE  task = [t \in Tasks |-> Idle] /\ writer = None
<1>1. \A t \in Tasks : task[t] = Idle
  BY DEF Inv, TaskInv
<1>2. writer = None
  BY NobodyWrites DEF Writing
<1>3. task = [t \in Tasks |-> task[t]]
  BY DEF TypeInv
<1> QED BY <1>1, <1>2, <1>3

LEMMA UpgradeStep ==
  ASSUME Kept, TypeInv, Inv, Upgrade
  PROVE  Inv'
<1>1. task' = [t \in Tasks |-> Idle] /\ writer' = None
  BY Resting DEF Upgrade
<1>2. committed' = committed /\ lost' = lost /\ torn' = torn /\ version' = version + 1
  BY DEF Upgrade
<1>3. Versions \in SUBSET Int /\ version \in Versions
  BY RowsShape DEF Versions, TypeInv
<1>4. ASSUME NEW S, NEW r \in Runs, OneVersion(S, r, version)
      PROVE  OneVersion(S, r, version')
  BY <1>2, <1>3, <1>4 DEF OneVersion
<1>5. Consistent(committed', lost', torn', version')
  BY <1>2, <1>4 DEF Inv, Consistent
<1> QED BY <1>1, <1>5, AllIdle

LEMMA LoseStep ==
  ASSUME Kept, TypeInv, Inv, NEW r \in Runs, Lose(r)
  PROVE  Inv'
<1> DEFINE db == [committed EXCEPT !.arts = @ \ ArtsOf(committed, r)]
<1>1. task' = [t \in Tasks |-> Idle] /\ writer' = None
  BY Resting DEF Lose, Kept
<1>2. committed' = db /\ lost' = lost \cup {r} /\ torn' = torn /\ version' = version
  BY DEF Lose
<1>3. db.arts = committed.arts \ ArtsOf(committed, r) /\ db.files = committed.files
  BY DEF TypeInv, DbOK
<1> HIDE DEF db
<1>4. \A q \in Runs : /\ Recorded(db, q) = Recorded(committed, q)
                      /\ ArtsOf(db, q) \subseteq ArtsOf(committed, q)
                      /\ q # r => ArtsOf(db, q) = ArtsOf(committed, q)
  BY <1>3 DEF Recorded, ArtsOf
<1>5. Consistent(db, lost', torn', version)
  BY <1>2, <1>3, <1>4 DEF Inv, Consistent
<1> QED BY <1>1, <1>2, <1>5, AllIdle

LEMMA InvStep == ASSUME Kept, TypeInv, Inv, [Next]_vars PROVE Inv'
<1>1. ASSUME UNCHANGED <<committed, pending, writer, version, task, lost, torn>>
      PROVE  Inv'
  BY <1>1 DEF Inv
<1>2. ASSUME UNCHANGED vars PROVE Inv'
  BY <1>1, <1>2 DEF vars
<1>3. ASSUME NEW f \in Types \X Runs, Tamper(f) PROVE Inv'
  BY <1>1, <1>3 DEF Tamper
<1> QED
  BY <1>2, <1>3, NormalizeStep, RerunReadStep, RerunDeleteStep, ReadNumbersStep, DropRecordsStep,
     OpenFileStep, WriteFileStep, InsertArtifactsStep, StoreCommitStep, SiblingCommitStep, ReplayListStep,
     ReplayFileStep, ReplayInsertStep, ReplayEndStep, DieStep, UpgradeStep, LoseStep DEF Next

LEMMA RecordsKept == ASSUME Kept PROVE Spec => [](TypeInv /\ Inv)
<1>1. Init => TypeInv /\ Inv
  BY TypeInit, InvInit
<1>2. TypeInv /\ Inv /\ [Next]_vars => (TypeInv /\ Inv)'
  BY TypeStep, InvStep
<1> QED BY <1>1, <1>2, PTL DEF Spec

(***************************************************************************)
(* Theorems                                                                *)
(***************************************************************************)
\* The recorded files give back the artifacts of the database, no other, with
\* their ids and numbers, wherever the process died: for one process at a time,
\* and for the runs that no commit of a sibling tore.
THEOREM RecordsMatch == ASSUME Kept PROVE Spec => []RecordMatchesTable
<1>1. TypeInv /\ Inv => RecordMatchesTable
  BY DEF Inv, Consistent, Recorded, RecordMatchesTable
<1> QED BY <1>1, RecordsKept, PTL

\* The artifacts of a run that lost none, and that no commit of a sibling tore,
\* are those of one version of its normalizer, all of them.
THEOREM RunsAreWhole == ASSUME Kept PROVE Spec => []RunsWhole
<1>1. TypeInv /\ Inv => RunsWhole
  <2> SUFFICES ASSUME TypeInv, Inv, NEW r \in Runs \ (lost \cup torn)
               PROVE  \/ ArtsOf(committed, r) = {}
                      \/ \E v \in Versions :
                           Unnumbered(ArtsOf(committed, r)) = RangeOf(Enrich(v, r))
    BY DEF RunsWhole, Whole, Unnumbered
  <2>1. ArtsOf(committed, r) = Recorded(committed, r)
    BY DEF Inv, Consistent
  <2> QED BY <2>1 DEF Inv, Consistent, OneVersion
<1> QED BY <1>1, RecordsKept, PTL

\* A rerun, a replay, an upgrade never change the number of an artifact.
THEOREM NumbersAreKept == ASSUME Kept PROVE Spec => NumbersKept
<1> DEFINE Same == \A a \in committed.arts, b \in committed'.arts : a.id = b.id => a.number = b.number
<1>1. ASSUME DbOK(committed), committed'.arts \subseteq committed.arts PROVE Same
  BY <1>1 DEF DbOK, NoClash, Clash
<1>s. ASSUME NEW r, NEW rows, DbOK(committed), RowsFit(committed, version, r, rows),
             ArtsOf(committed', r) \subseteq RangeOf(rows),
             \A q \in Runs \ {r} : ArtsOf(committed', q) = ArtsOf(committed, q)
      PROVE  Same
  <2> SUFFICES ASSUME NEW a \in committed.arts, NEW b \in committed'.arts, a.id = b.id
               PROVE  a.number = b.number
    OBVIOUS
  <2>3. a.id[1] \in Runs /\ a \in ArtsOf(committed, a.id[1]) /\ b \in ArtsOf(committed', a.id[1])
    BY <1>s DEF DbOK, ArtRow, ArtsOf
  <2>4. CASE a.id[1] = r
    <3>1. PICK i \in DOMAIN rows : b = rows[i]
      BY <1>s, <2>3, <2>4 DEF RangeOf
    <3> QED BY <1>s, <2>3, <2>4, <3>1 DEF RowsFit
  <2>5. CASE a.id[1] # r
    <3>1. b \in committed.arts
      BY <1>s, <2>3, <2>5 DEF ArtsOf
    <3> QED BY <1>s, <3>1 DEF DbOK, NoClash, Clash
  <2> QED BY <2>4, <2>5
<1>2. ASSUME TypeInv, Inv, NEW t \in Tasks, StoreCommit(t) PROVE Same
  <2> DEFINE r == task[t].run
             rows == task[t].rows
  <2>1. /\ RowsFit(committed, version, r, rows)
        /\ ArtsOf(committed', r) = RangeOf(rows)
        /\ \A q \in Runs \ {r} : ArtsOf(committed', q) = ArtsOf(committed, q)
    BY <1>2, CommitMakes
  <2>2. DbOK(committed)
    BY <1>2 DEF TypeInv
  <2> QED BY <1>s, <2>1, <2>2
<1>6. ASSUME TypeInv, Inv, NEW y \in {Process[t] : t \in Tasks}, SiblingCommit(y) PROVE Same
  <2>1. PICK t \in Tasks :
          /\ task[t].pc \in Storing
          /\ NormalizingInv(task[t], committed, pending, writer, lost, torn, version)
          /\ ArtsOf(committed', task[t].run) \subseteq RangeOf(task[t].rows)
          /\ \A q \in Runs \ {task[t].run} : ArtsOf(committed', q) = ArtsOf(committed, q)
    BY <1>6, SiblingMakes
  <2>2. RowsFit(committed, version, task[t].run, task[t].rows)
    BY <2>1 DEF NormalizingInv
  <2>3. DbOK(committed)
    BY <1>6 DEF TypeInv
  <2> QED BY <1>s, <2>1, <2>2, <2>3
<1>3. ASSUME TypeInv, Inv, TypeInv', NEW t \in Tasks, ReplayInsert(t) PROVE Same
  <2>1. committed.arts \subseteq committed'.arts
    BY <1>3, ReplayMakes
  <2>2. NoClash(committed'.arts)
    BY <1>3 DEF TypeInv, DbOK, NoClash, Clash
  <2> QED BY <2>1, <2>2 DEF NoClash, Clash
<1>4. ASSUME TypeInv, Inv, [Next]_vars PROVE Same
  <2>1. DbOK(committed)
    BY <1>4 DEF TypeInv
  <2>2. CASE committed' = committed
    BY <1>1, <2>1, <2>2
  <2>3. CASE \E r \in Runs : Lose(r)
    <3>1. committed'.arts \subseteq committed.arts
      BY <2>1, <2>3 DEF Lose, DbOK
    <3> QED BY <1>1, <2>1, <3>1
  <2>4. CASE \/ \E t \in Tasks : StoreCommit(t) \/ ReplayInsert(t)
             \/ \E y \in {Process[t] : t \in Tasks} : SiblingCommit(y)
    BY <1>2, <1>3, <1>4, <1>6, <2>4, TypeStep
  <2>5. \/ committed' = committed
        \/ \E r \in Runs : Lose(r)
        \/ \E t \in Tasks : StoreCommit(t) \/ ReplayInsert(t)
        \/ \E y \in {Process[t] : t \in Tasks} : SiblingCommit(y)
    <3>1. ASSUME NEW t \in Tasks,
                 \/ \E r \in Runs : Normalize(t, r) \/ RerunRead(t, r)
                 \/ RerunDelete(t) \/ DropRecords(t) \/ WriteFile(t)
                 \/ \E n \in {1} \cup {a.number + 1 : a \in View(t).arts} : ReadNumbers(t, n)
                 \/ \E y \in Types : OpenFile(t, y)
                 \/ \E n \in {0} \cup DOMAIN task[t].rows : InsertArtifacts(t, n)
                 \/ ReplayList(t) \/ ReplayEnd(t) \/ Die(t)
                 \/ \E f \in task[t].todo : task[t].pc = "file" /\ ReplayFile(t, f)
          PROVE  committed' = committed
      BY <3>1 DEF Normalize, RerunRead, RerunDelete, ReadNumbers, DropRecords, OpenFile, WriteFile,
                  InsertArtifacts, ReplayList, ReplayFile, ReplayEnd, Die, Write, NoDb
    <3>2. ASSUME Upgrade \/ (\E f \in Types \X Runs : Tamper(f)) \/ UNCHANGED vars
          PROVE  committed' = committed
      BY <3>2 DEF Upgrade, Tamper, vars
    <3> QED BY <1>4, <3>1, <3>2 DEF Next
  <2> QED BY <2>2, <2>3, <2>4, <2>5
<1>5. TypeInv /\ Inv /\ [Next]_vars => [Same]_vars
  BY <1>4
<1> QED BY <1>5, RecordsKept, PTL DEF Spec, NumbersKept
=============================================================================
