------------------------------ MODULE RuleStore ------------------------------
(***************************************************************************)
(* The supply chain of the detection rules: rules/lock.py (refresh_lock),  *)
(* rules/sync.py, rules/verify.py, rules/assemble.py, the index of         *)
(* rules/conflicts.py, and the scans that use them (tools/raijin.py,       *)
(* tools/chainsaw.py, resolve_rule of normalizers/raijin.py).              *)
(*                                                                         *)
(* The bytes of a file of version v of its source are v.  Version v keeps  *)
(* a rule in the file RuleFile[v].  A lock pins a version per source; the  *)
(* manifests lie beside it, one file per source.                           *)
(***************************************************************************)
EXTENDS Naturals, Sequences, FiniteSets

CONSTANTS
  Syncers,     \* processes that run `rules sync'
  Scanners,    \* processes that scan or hunt
  SourceList,  \* the sources, in lock order (the order of precedence)
  Releases,    \* sources pinned as a release archive; the others are commits
  Files,       \* paths of the rule files of a source
  RuleFile,    \* RuleFile[v]: the file that declares the rule in version v
  MaxVersion,  \* bound: versions published upstream
  None

Sources  == {SourceList[i] : i \in DOMAIN SourceList}
Versions == 1..MaxVersion
Missing  == 0                           \* a file that is not there
Other    == MaxVersion + 1              \* bytes that no lock has pinned
Bytes    == {Missing, Other} \cup Versions

ASSUME SourcesListed == SourceList \in Seq(Sources) /\ Releases \subseteq Sources
ASSUME MaxVersionPos == MaxVersion \in Nat \ {0}
ASSUME RuleFileType == RuleFile \in [Versions -> Files]
ASSUME NoneIsNoList == None # <<>>

VARIABLES
  upstream,   \* newest version published
  locked,     \* rules.lock: version per source
  manifest,   \* lock/manifests/<source>.json: version per source
  refresh,    \* sources the running `rules lock --refresh' has still to do, or None
  dir,        \* <store>/<engine>/<source>: bytes of each file
  staging,    \* <store>/<engine>/.<source>.staging
  index,      \* INDEX.json: file of the rule, per source
  sync,       \* the syncing processes
  scan        \* the scanning processes

vars == <<upstream, locked, manifest, refresh, dir, staging, index, sync, scan>>

Absent    == [f \in Files |-> Missing]
Whole(v)  == [f \in Files |-> v]
Dir       == [Files -> Bytes]

\* build_index: the first file, in path order, that declares the rule.
RuleIn(d) ==
  IF \E f \in Files : d[f] \in Versions /\ RuleFile[d[f]] = f
    THEN CHOOSE f \in Files : d[f] \in Versions /\ RuleFile[d[f]] = f ELSE None

IdleSync == [pc |-> "idle", lock |-> <<>>, at |-> 0, want |-> 0, data |-> Absent]
IdleScan == [pc |-> "idle", lock |-> <<>>, todo |-> {}, used |-> {}, loaded |-> <<>>]

Init ==
  /\ upstream = 1
  /\ locked = [s \in Sources |-> 1]
  /\ manifest = locked
  /\ refresh = None
  /\ dir = [s \in Sources |-> Absent]
  /\ staging = [s \in Sources |-> Absent]
  /\ index = [s \in Sources |-> None]
  /\ sync = [p \in Syncers |-> IdleSync]
  /\ scan = [p \in Scanners |-> IdleScan]
-----------------------------------------------------------------------------
(* refresh_lock: a maintainer re-pins every source.                        *)

Publish ==
  /\ upstream < MaxVersion
  /\ upstream' = upstream + 1
  /\ UNCHANGED <<locked, manifest, refresh, dir, staging, index, sync, scan>>

\* The lock ships in the package: it is not changed under a running scan.
RefreshBegin ==
  /\ refresh = None
  /\ \A p \in Scanners : scan[p].pc = "idle"
  /\ refresh' = SourceList
  /\ UNCHANGED <<upstream, locked, manifest, dir, staging, index, sync, scan>>

\* The manifest of a source is written at once...
RefreshSource ==
  /\ refresh \notin {None, <<>>}
  /\ manifest' = [manifest EXCEPT ![Head(refresh)] = upstream]
  /\ refresh' = Tail(refresh)
  /\ UNCHANGED <<upstream, locked, dir, staging, index, sync, scan>>

\* ... the lock after the last one.
RefreshLock ==
  /\ refresh = <<>>
  /\ locked' = manifest
  /\ refresh' = None
  /\ UNCHANGED <<upstream, manifest, dir, staging, index, sync, scan>>

\* A digest differs, no rule matches, the network fails, the process dies.
RefreshFails ==
  /\ refresh # None
  /\ refresh' = None
  /\ UNCHANGED <<upstream, locked, manifest, dir, staging, index, sync, scan>>
-----------------------------------------------------------------------------
(* sync_rules.                                                             *)

Source(p) == SourceList[sync[p].at]

NoSync == UNCHANGED <<upstream, locked, manifest, refresh, scan>>

SyncBegin(p) ==
  /\ sync[p].pc \in {"idle", "done"}
  /\ sync' = [sync EXCEPT ![p] = [IdleSync EXCEPT !.pc = "fetch", !.lock = locked, !.at = 1]]
  /\ NoSync
  /\ UNCHANGED <<dir, staging, index>>

\* What the archive of a pin may hold: its bytes, or one file missing or other.
Archives(v) ==
  {Whole(v)} \cup {[Whole(v) EXCEPT ![f] = b] : f \in Files, b \in {Missing, Other}}

\* The manifest is read, the archive fetched, the old staging area removed.  An
\* archive that is not the pinned one is refused for a release; a commit is
\* judged by its files.
SyncFetch(p) ==
  LET s == Source(p)
  IN /\ sync[p].pc = "fetch" /\ sync[p].at <= Len(SourceList)
     /\ \E data \in Archives(sync[p].lock[s]) :
          /\ data = Whole(sync[p].lock[s]) \/ s \notin Releases
          /\ sync' = [sync EXCEPT ![p].pc = "extract", ![p].want = manifest[s], ![p].data = data]
     /\ staging' = [staging EXCEPT ![s] = Absent]
     /\ NoSync
     /\ UNCHANGED <<dir, index>>

\* Mutant of SyncExtract: a file is extracted without looking at its hash.
SyncExtractMutant(p, f) ==
  LET s == Source(p)
  IN /\ sync[p].pc = "extract"
     /\ sync[p].data[f] # Missing
     /\ staging[s][f] = Missing
     /\ staging' = [staging EXCEPT ![s][f] = sync[p].data[f]]
     /\ NoSync
     /\ UNCHANGED <<dir, index, sync>>

\* _extract_verified: the files of the archive are those of the manifest, and
\* each is written when its bytes are the pinned ones.
SyncExtract(p, f) ==
  LET s == Source(p)
  IN /\ sync[p].pc = "extract"
     /\ \A g \in Files : sync[p].data[g] # Missing
     /\ sync[p].data[f] = sync[p].want
     /\ staging[s][f] = Missing
     /\ staging' = [staging EXCEPT ![s][f] = sync[p].data[f]]
     /\ NoSync
     /\ UNCHANGED <<dir, index, sync>>

\* The exception of a file that does not match: the staging area is removed.
SyncRefuse(p) ==
  /\ sync[p].pc = "extract"
  /\ \E f \in Files : sync[p].data[f] # sync[p].want
  /\ staging' = [staging EXCEPT ![Source(p)] = Absent]
  /\ sync' = [sync EXCEPT ![p] = IdleSync]
  /\ NoSync
  /\ UNCHANGED <<dir, index>>

\* rmtree of the installed source, once everything is extracted...
SyncRemove(p) ==
  LET s == Source(p)
  IN /\ \/ sync[p].pc = "extract" /\ \A f \in Files : staging[s][f] # Missing
        \/ sync[p].pc = "remove"
     /\ \E f \in Files :
          /\ dir' = [dir EXCEPT ![s][f] = Missing]
          /\ sync' = [sync EXCEPT ![p].pc = IF dir'[s] = Absent THEN "rename" ELSE "remove"]
     /\ NoSync
     /\ UNCHANGED <<staging, index>>

\* ... and the new one takes its place.
SyncRename(p) ==
  LET s == Source(p)
  IN /\ sync[p].pc = "rename"
     /\ dir' = [dir EXCEPT ![s] = staging[s]]
     /\ staging' = [staging EXCEPT ![s] = Absent]
     /\ sync' = [sync EXCEPT ![p].pc = "fetch", ![p].at = @ + 1]
     /\ NoSync
     /\ UNCHANGED index

\* Mutant of SyncIndex: the index is not rebuilt.
SyncIndexMutant(p) ==
  /\ sync[p].pc = "fetch" /\ sync[p].at > Len(SourceList)
  /\ sync' = [sync EXCEPT ![p].pc = "done"]
  /\ NoSync
  /\ UNCHANGED <<dir, staging, index>>

\* STORE.json, INDEX.json and CONFLICTS.json, from what is in the store.
SyncIndex(p) ==
  /\ sync[p].pc = "fetch" /\ sync[p].at > Len(SourceList)
  /\ index' = [s \in Sources |-> RuleIn(dir[s])]
  /\ sync' = [sync EXCEPT ![p].pc = "done"]
  /\ NoSync
  /\ UNCHANGED <<dir, staging>>

\* The process dies, or an archive cannot be fetched or is refused.
SyncDies(p) ==
  /\ sync[p].pc \notin {"idle", "done"}
  /\ sync' = [sync EXCEPT ![p] = IdleSync]
  /\ NoSync
  /\ UNCHANGED <<dir, staging, index>>
-----------------------------------------------------------------------------
(* A scan: RaijinTool.run, ChainsawTool.run, then the normalizer.          *)

NoScan == UNCHANGED <<upstream, locked, manifest, refresh, dir, staging, index, sync>>

\* The sources of the profile and the mode.
ScanBegin(p, used) ==
  /\ scan[p].pc = "idle" /\ refresh = None
  /\ scan' = [scan EXCEPT ![p] = [pc |-> "verify", lock |-> locked, todo |-> used, used |-> used,
                                  loaded |-> [s \in Sources |-> Absent]]]
  /\ NoScan

\* verify_store: a source must be what its manifest says, nothing missing,
\* modified or added.
ScanVerify(p, s) ==
  /\ scan[p].pc = "verify" /\ s \in scan[p].todo
  /\ dir[s] = Whole(manifest[s])
  /\ scan' = [scan EXCEPT ![p].todo = @ \ {s}]
  /\ NoScan

\* assert_store_intact refuses the scan.
ScanRefuse(p) ==
  /\ scan[p].pc = "verify"
  /\ \E s \in scan[p].todo : dir[s] # Whole(manifest[s])
  /\ scan' = [scan EXCEPT ![p] = IdleScan]
  /\ NoScan

\* assemble_signatures: links to the sources that are there.
ScanLink(p) ==
  /\ scan[p].pc = "verify" /\ scan[p].todo = {}
  /\ scan' = [scan EXCEPT ![p].pc = "load",
                          ![p].todo = {s \in scan[p].used : dir[s] # Absent}]
  /\ NoScan

\* The scanner reads the files of a source through its link.
ScanLoad(p, s) ==
  /\ scan[p].pc = "load" /\ s \in scan[p].todo
  /\ scan' = [scan EXCEPT ![p].todo = @ \ {s}, ![p].loaded[s] = dir[s]]
  /\ NoScan

\* The matches are normalized with the index and the manifests of the moment.
ScanEnd(p) ==
  /\ scan[p].pc = "load" /\ scan[p].todo = {}
  /\ scan' = [scan EXCEPT ![p] = IdleScan]
  /\ NoScan

Next ==
  \/ Publish \/ RefreshBegin \/ RefreshSource \/ RefreshLock \/ RefreshFails
  \/ \E p \in Syncers :
       \/ SyncBegin(p) \/ SyncFetch(p) \/ SyncRefuse(p) \/ SyncRemove(p)
       \/ SyncRename(p) \/ SyncIndex(p) \/ SyncDies(p)
       \/ \E f \in Files : SyncExtract(p, f)
  \/ \E p \in Scanners :
       \/ \E used \in SUBSET Sources : ScanBegin(p, used)
       \/ \E s \in scan[p].todo : ScanVerify(p, s) \/ ScanLoad(p, s)
       \/ ScanRefuse(p) \/ ScanLink(p) \/ ScanEnd(p)

Spec == Init /\ [][Next]_vars
-----------------------------------------------------------------------------
(* Properties.                                                             *)

TypeOK ==
  /\ upstream \in Versions
  /\ locked \in [Sources -> Versions] /\ manifest \in [Sources -> Versions]
  /\ dir \in [Sources -> Dir] /\ staging \in [Sources -> Dir]
  /\ index \in [Sources -> Files \cup {None}]
  /\ \A p \in Syncers : sync[p].pc \in {"idle", "fetch", "extract", "remove", "rename", "done"}
  /\ \A p \in Syncers : sync[p].pc \in {"remove", "rename"} => staging[Source(p)] = Whole(sync[p].want)
  /\ \A p \in Scanners : scan[p].pc \in {"idle", "verify", "load"}

\* verify.py:60 "Refuse to scan with rules that differ from the lock", whatever
\* sync runs beside: a scan never reads bytes other than those of the version
\* that its record names, though a sync under way may hide some from it.
ScanLoadsPinned ==
  \A p \in Scanners : \A s \in scan[p].used : \A f \in Files :
    scan[p].pc = "load" => scan[p].loaded[s][f] \in {Missing, scan[p].lock[s]}

\* sync.py:11 "Any mismatch aborts the sync": a sync that ends leaves, whatever
\* died or failed before it, each source as pinned by the lock it followed, and
\* an index that finds the rule where it is.
SyncedIsIntact ==
  [][\A p \in Syncers :
       sync[p].pc # "done" /\ sync'[p].pc = "done" =>
         \A s \in Sources :
           /\ dir[s] = Whole(sync[p].lock[s])
           /\ index'[s] = RuleIn(dir[s])]_vars

\* normalizers/raijin.py:5 "a finding can always be traced back to the exact
\* rule bytes that produced it": the index names the file of a rule loaded.  It
\* does not hold: a sync that stops early leaves the index of before.
RuleTraced ==
  \A p \in Scanners : \A s \in scan[p].used :
    scan[p].pc = "load" /\ scan[p].loaded[s] # Absent => index[s] = RuleIn(scan[p].loaded[s])
=============================================================================
