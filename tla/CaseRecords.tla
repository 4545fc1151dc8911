----------------------------- MODULE CaseRecords -----------------------------
(***************************************************************************)
(* The numbered rows of a case database other than tool runs and their     *)
(* artifacts: cases, evidence, profile runs, findings and host profiles    *)
(* (case_service, evidence_service, orchestrator/runs.create_run,          *)
(* finding_service, host_profile_service), and the operations that make    *)
(* findings: hunts, scans, watchlist searches.                             *)
(*                                                                         *)
(* A row gets the number after the last one read; the column is UNIQUE, so *)
(* a number taken meanwhile makes the insert, and the operation, fail (an  *)
(* artifact, such as a host profile, replaces the other one instead).      *)
(* The tasks of one process share a connection and its db_lock.  Every row *)
(* is committed at once.                                                   *)
(***************************************************************************)
EXTENDS Naturals, Sequences, FiniteSets
LOCAL INSTANCE FiniteSetsExt

CONSTANTS
    Tasks,       \* tasks; each does one operation
    Process,     \* Process[t]: the process of task t
    Ops,         \* Ops[t]: the operations task t may be asked for
    Cap,         \* the last number written with as many digits as the first
    Old,         \* how many evidences the case may have at first
    Paths,       \* paths of evidence to register
    Slots,       \* the artifacts of a run
    Rules,       \* detection rules
    Runs,        \* Runs[t]: what task t may read, each [Slots -> [rule, sev]]
    Threshold,   \* the lowest severity of which a scan makes a finding
    Literals, Regexes,   \* the terms of a watchlist
    Lines,       \* the lines of a file a search reads: which terms each matches
    MaxCount,    \* matching lines ripgrep gives of one file (10000)
    MaxLinked,   \* artifacts linked to the finding of a term (500)
    None

(* Severities are numbered; a text DEFAIR does not know is None.           *)
Medium == 2
High == 3
Critical == 4
Severity == (0..Critical) \cup {None}
Terms == Literals \cup Regexes

ASSUME RecordsAssumption ==
    /\ DOMAIN Process = Tasks /\ DOMAIN Ops = Tasks
    /\ Cap \in Nat \ {0} /\ Old \subseteq 0..Cap
    /\ \A t \in Tasks : Runs[t] \subseteq [Slots -> [rule : Rules, sev : Severity]]
    /\ Threshold \in 0..Critical
    /\ Literals \cap Regexes = {}
    /\ Lines \subseteq [Slots -> SUBSET Terms]
    /\ MaxCount \in Nat \ {0} /\ MaxLinked \in Nat \ {0}

Tables == {"case", "evidence", "run", "finding", "host"}

ASSUME NoneApart == None \notin Tasks \cup Tables

VARIABLES
    rows,    \* table -> its rows, by date
    lock,    \* process -> the task that holds the db_lock of its connection
    task     \* what each task does

vars == <<rows, lock, task>>

Row(n, by, what) == [n |-> n, by |-> by, what |-> what]
Idle == [pc |-> "idle", op |-> None, input |-> None, todo |-> {}, table |-> None,
         what |-> None, n |-> None]

Init ==
    /\ \E k \in Old : rows = [t \in Tables |->
           IF t = "evidence" THEN [i \in 1..k |-> Row(i, None, None)] ELSE <<>>]
    /\ lock = [p \in {Process[t] : t \in Tasks} |-> None]
    /\ task = [t \in Tasks |-> Idle]

RowsOf(table) == {rows[table][i] : i \in DOMAIN rows[table]}
Taken(table) == {r.n : r \in RowsOf(table)}
Largest(S) == CHOOSE n \in S : \A m \in S : n >= m

(***************************************************************************)
(* Numbers                                                                 *)
(***************************************************************************)
(* MAX(CAST(SUBSTR(number) AS INTEGER)) + 1: runs, findings, artifacts.    *)
NextNumber(table) == IF Taken(table) = {} THEN 1 ELSE Largest(Taken(table)) + 1

(* ORDER BY number DESC, a comparison of texts: EVD-999 is above EVD-1000. *)
Last(table) == IF Cap \in Taken(table) THEN Cap ELSE Largest(Taken(table))

(* create_case.                                                            *)
NextCase == IF Taken("case") = {} THEN 1 ELSE Last("case") + 1
(* add_evidence.                                                           *)
NextEvidence == IF Taken("evidence") = {} THEN 1 ELSE Last("evidence") + 1

NumberOf(table) ==
    CASE table = "case" -> NextCase
      [] table = "evidence" -> NextEvidence
      [] OTHER -> NextNumber(table)

(* Mutant: the number of a finding is read before db_lock is taken.        *)
LockedMutant(table) == table \in {"run", "host"}

(* Which rows are numbered and inserted under db_lock.                     *)
Locked(table) == table \in {"run", "finding", "host"}

(***************************************************************************)
(* The findings of an operation                                            *)
(***************************************************************************)
Finding(rule, sev, arts) == [rule |-> rule, sev |-> sev, arts |-> arts]
Hits(run, rule, S) == {s \in S : run[s].rule = rule}

(* Mutant: the severity of a group stays that of its first detection.      *)
HuntFindingsMutant(run) ==
    LET S == {s \in Slots : run[s].sev \in {High, Critical}}
        First(rule) == CHOOSE s \in Hits(run, rule, S) : TRUE
    IN  {Finding(rule, run[First(rule)].sev, Hits(run, rule, S)) : rule \in {run[s].rule : s \in S}}

(* auto_create_findings_from_hayabusa: high and critical detections, one   *)
(* finding per rule title, critical when one of them is.                   *)
HuntFindings(run) ==
    LET S == {s \in Slots : run[s].sev \in {High, Critical}}
        Worst(rule) == IF \E s \in Hits(run, rule, S) : run[s].sev = Critical THEN Critical ELSE High
    IN  {Finding(rule, Worst(rule), Hits(run, rule, S)) : rule \in {run[s].rule : s \in S}}

(* auto_create_findings of a scan or of a Chainsaw hunt: all detections,   *)
(* the highest known severity, from the threshold up.                      *)
ScanFindings(run) ==
    LET Known(rule) == {run[s].sev : s \in Hits(run, rule, Slots)} \ {None}
        Best(rule) == IF Known(rule) = {} THEN Medium ELSE Largest(Known(rule))
    IN  {Finding(rule, Best(rule), Hits(run, rule, Slots)) :
            rule \in {r \in {run[s].rule : s \in Slots} : Best(r) >= Threshold}}

(* find: ripgrep is run once for the literals and once for the regexes and *)
(* gives a line each time; the Python scan gives it once.                  *)
Given(line, engine) ==
    IF engine = "ripgrep"
    THEN Cardinality({T \in {Literals, Regexes} : line \cap T # {}})
    ELSE IF line = {} THEN 0 ELSE 1

(* search_watchlist counts every term of a line each time it is given; the *)
(* hits in raw evidence, not the others, are told apart by their offset.   *)
(* (Before the limit of lines per file.)                                   *)
Count(lines, term, engine) ==
    MapThenSumSet(LAMBDA s : Given(lines[s], engine), {s \in Slots : term \in lines[s]})

(* At most n of S; which ones depends on an order that is not modelled.    *)
AtMost(S, n) == IF Cardinality(S) <= n THEN {S} ELSE {T \in SUBSET S : Cardinality(T) = n}

With(lines, T) == {s \in Slots : lines[s] \cap T # {}}

(* Each run of ripgrep stops in a file after MaxCount matching lines.      *)
GivenLines(lines, engine) ==
    IF engine = "python" THEN {With(lines, Terms)}
    ELSE {A \cup B : A \in AtMost(With(lines, Literals), MaxCount),
                     B \in AtMost(With(lines, Regexes), MaxCount)}

(* What may be linked to a term: every line given that matches it, in      *)
(* whichever of the two runs, cut to the first MaxLinked ids.              *)
Links(lines, given) ==
    {f \in [Terms -> SUBSET given] :
        \A u \in Terms : f[u] \in AtMost({s \in given : u \in lines[s]}, MaxLinked)}

(* _create_findings: one per term with a hit, however often it counted.    *)
WatchFindings(linked) ==
    {Finding(u, Medium, linked[u]) : u \in {v \in Terms : linked[v] # {}}}

(***************************************************************************)
(* Operations                                                              *)
(***************************************************************************)
Set(t, r) == task' = [task EXCEPT ![t] = r]
Doing(t, op, input, todo) ==
    Set(t, [Idle EXCEPT !.pc = "next", !.op = op, !.input = input, !.todo = todo])
Insert(table, what) == [table |-> table, what |-> what]

CreateCase(t) ==
    Doing(t, "case", None, {Insert("case", None)})

AddEvidence(t) ==
    \E path \in Paths : Doing(t, "evidence", path, {Insert("evidence", path)})

(* run start with a path: the path is registered, whatever evidence it     *)
(* already is, then the run is created, unless the profile is unknown.     *)
StartRun(t) ==
    \E path \in Paths, known \in BOOLEAN :
        Doing(t, "start", known, {Insert("evidence", path)})

(* hunt_evtx, scan and hunt_chainsaw, on the detections of the run.        *)
Hunt(t) ==
    \E run \in Runs[t] : Doing(t, "hunt", run, {Insert("finding", f) : f \in HuntFindings(run)})
Scan(t) ==
    \E run \in Runs[t] : Doing(t, "scan", run, {Insert("finding", f) : f \in ScanFindings(run)})
Watch(t) ==
    \E lines \in Lines, engine \in {"ripgrep", "python"} :
        \E given \in GivenLines(lines, engine) : \E linked \in Links(lines, given) :
            Doing(t, "watch", [lines |-> lines, engine |-> engine, linked |-> linked],
                  {Insert("finding", f) : f \in WatchFindings(linked)})

(* build_host_profile without an evidence: list_evidence gives the last    *)
(* registered first.                                                       *)
HostProfile(t) ==
    /\ rows["evidence"] # <<>>
    /\ LET e == rows["evidence"][Len(rows["evidence"])].n
       IN  Doing(t, "host", rows["evidence"][1].n, {Insert("host", e)})

Begin(t) ==
    /\ task[t].pc = "idle"
    /\ \/ "case" \in Ops[t] /\ CreateCase(t)
       \/ "evidence" \in Ops[t] /\ AddEvidence(t)
       \/ "start" \in Ops[t] /\ StartRun(t)
       \/ "hunt" \in Ops[t] /\ Hunt(t)
       \/ "scan" \in Ops[t] /\ Scan(t)
       \/ "watch" \in Ops[t] /\ Watch(t)
       \/ "host" \in Ops[t] /\ HostProfile(t)
    /\ UNCHANGED <<rows, lock>>

(* The number is read; _store keeps the one the host profile has.          *)
ReadNumber(t) ==
    /\ task[t].pc = "next"
    /\ \E i \in task[t].todo :
           LET mine == {r \in RowsOf(i.table) : i.table = "host" /\ r.what = i.what}
           IN  /\ Locked(i.table) => lock[Process[t]] = None
               /\ lock' = IF Locked(i.table) THEN [lock EXCEPT ![Process[t]] = t] ELSE lock
               /\ Set(t, [task[t] EXCEPT !.pc = "insert", !.table = i.table, !.what = i.what,
                              !.todo = @ \ {i},
                              !.n = IF mine # {} THEN (CHOOSE r \in mine : TRUE).n
                                    ELSE NumberOf(i.table)])
    /\ UNCHANGED rows

Unlock(t) == lock' = [lock EXCEPT ![Process[t]] = IF @ = t THEN None ELSE @]

(* create_run refuses an unknown profile: the path is registered already.  *)
Refused(c) == c.op = "start" /\ c.table = "evidence" /\ ~c.input

(* A host profile is an artifact, which takes the place of the one with its *)
(* id or its number (INSERT OR REPLACE); other rows stay.                  *)
Stays(now) ==
    IF now.table = "host"
    THEN SelectSeq(rows["host"], LAMBDA r : r.what # now.what /\ r.n # now.n)
    ELSE rows[now.table]

(* The row is inserted and committed; run start goes on to create_run.     *)
InsertRow(t) ==
    LET now == task[t]
    IN  /\ now.pc = "insert"
        /\ now.table = "host" \/ now.n \notin Taken(now.table)
        /\ rows' = [rows EXCEPT ![now.table] = Append(Stays(now), Row(now.n, t, now.what))]
        /\ Unlock(t)
        /\ Set(t, [Idle EXCEPT
               !.pc = IF Refused(now) THEN "failed" ELSE "next", !.op = now.op, !.input = now.input,
               !.todo = IF now.op = "start" /\ now.table = "evidence" /\ ~Refused(now)
                        THEN {Insert("run", now.n)} ELSE now.todo])

(* The number was taken in between: IntegrityError ends the operation and  *)
(* leaves the rows it has inserted.                                        *)
InsertFails(t) ==
    /\ task[t].pc = "insert" /\ task[t].table # "host"
    /\ task[t].n \in Taken(task[t].table)
    /\ Unlock(t)
    /\ Set(t, [task[t] EXCEPT !.pc = "failed"])
    /\ UNCHANGED rows

End(t) ==
    /\ task[t].pc = "next" /\ task[t].todo = {}
    /\ Set(t, [task[t] EXCEPT !.pc = "ok"])
    /\ UNCHANGED <<rows, lock>>

(* The process is killed, with all its tasks.                              *)
Die(p) ==
    /\ \E t \in Tasks : Process[t] = p /\ task[t].pc \in {"next", "insert"}
    /\ task' = [t \in Tasks |-> IF Process[t] = p /\ task[t].pc \in {"next", "insert"}
                                THEN [Idle EXCEPT !.pc = "dead"] ELSE task[t]]
    /\ lock' = [lock EXCEPT ![p] = None]
    /\ UNCHANGED rows

Next ==
    \/ \E t \in Tasks : Begin(t) \/ ReadNumber(t) \/ InsertRow(t) \/ InsertFails(t) \/ End(t)
    \/ \E p \in DOMAIN lock : Die(p)

Spec == Init /\ [][Next]_vars

(***************************************************************************)
(* Properties                                                              *)
(***************************************************************************)
MadeBy(t) == {i \in DOMAIN rows["finding"] : rows["finding"][i].by = t}
Made(t, s) == {i \in MadeBy(t) : s \in rows["finding"][i].what.arts}

DetectionsFound ==
    \A t \in Tasks : task[t].pc = "ok" /\ task[t].op \in {"hunt", "scan"} =>
        LET run == task[t].input
            from == IF task[t].op = "hunt" THEN High ELSE Threshold
        IN  /\ \A s \in Slots : run[s].sev # None /\ run[s].sev >= from => Cardinality(Made(t, s)) = 1
            /\ \A i \in MadeBy(t) :
                   LET f == rows["finding"][i].what
                   IN  /\ \A s \in f.arts : run[s].rule = f.rule /\ (run[s].sev # None => f.sev >= run[s].sev)
                       /\ f.sev = Medium \/ \E s \in f.arts : run[s].sev = f.sev

(* No run of ripgrep cut the lines with terms of u's kind.                 *)
Uncut(search, u) ==
    \/ search.engine = "python"
    \/ Cardinality(With(search.lines, IF u \in Literals THEN Literals ELSE Regexes)) <= MaxCount

TermsFound ==
    \A t \in Tasks : task[t].pc = "ok" /\ task[t].op = "watch" =>
        \A u \in Terms :
            LET Matching == {s \in Slots : u \in task[t].input.lines[s]}
                Of(i) == rows["finding"][i].what
                Mine == {i \in MadeBy(t) : Of(i).rule = u}
            IN  /\ \A i, j \in Mine : i = j
                /\ \A i \in Mine : Of(i).arts # {} /\ Of(i).arts \subseteq Matching
                /\ Uncut(task[t].input, u) /\ Matching # {} =>
                       \E i \in Mine : Of(i).arts \in AtMost(Matching, MaxLinked)

(* A hunt or a scan that ended well has linked every detection from its    *)
(* threshold up to exactly one finding, of its rule and as severe as the   *)
(* worst detection linked (auto_create_findings and its Hayabusa sibling). *)
(* A search that ended well has made at most one finding of a term, linked *)
(* to lines with the term only; when ripgrep was not stopped by its limit  *)
(* of lines per file, one of each term some line has, linked to all those  *)
(* lines or to as many of them as a finding may have.  What an operation   *)
(* that was killed leaves unfound is not spoken of.                        *)
EveryDetectionFound ==
    /\ TermsFound
    /\ DetectionsFound

(* An operation that numbers its rows under db_lock fails only when        *)
(* another process took its number (db_lock: "when profile steps run in    *)
(* parallel on the same connection, that sequence must not interleave").   *)
FailsOnlyAcross ==
    \A t \in Tasks : task[t].pc = "failed" /\ task[t].table \in {"run", "finding", "host"} =>
        \E r \in RowsOf(task[t].table) : r.n = task[t].n /\ Process[r.by] # Process[t]

(* A number that is read is free when it is read: an operation that runs   *)
(* alone is not refused.  It does not hold from EVD-1000 on.               *)
NumberIsFree ==
    [][\A t \in Tasks :
        task[t].pc = "next" /\ task'[t].pc = "insert" /\ task'[t].table # "host" =>
            task'[t].n \notin Taken(task'[t].table)]_vars

(* "a path to register first" (--evidence of run start): a path is one     *)
(* evidence.  It does not hold: a start that failed is tried again.        *)
PathRegisteredOnce ==
    \A i, j \in DOMAIN rows["evidence"] :
        LET path == rows["evidence"][i].what
        IN  path = rows["evidence"][j].what /\ path \in Paths => i = j

(* "the case's first evidence when omitted" (build_host_profile).  It does *)
(* not hold: it is the last one.                                           *)
HostOfFirst ==
    \A t \in Tasks : task[t].op = "host" /\ task[t].pc = "insert" => task[t].what = task[t].input

(* "a pure-Python scan gives the same results, slower" (watchlist_service).*)
(* It does not hold of the counts.                                         *)
EnginesAgree ==
    \A t \in Tasks : task[t].op = "watch" =>
        \A u \in Terms : Count(task[t].input.lines, u, "ripgrep") = Count(task[t].input.lines, u, "python")
=============================================================================
