----------------------------- MODULE HostProofs -----------------------------
(***************************************************************************)
(* Theorems about what the processes of one host share: the rule store     *)
(* (RuleStore), for any sources, files and versions and any number of      *)
(* scanners, and the containers (Sessions), for any number of containers   *)
(* and of processes, whatever names are taken, whatever others do with     *)
(* docker and whatever command is sent.  Neither reads what the other      *)
(* keeps.                                                                  *)
(***************************************************************************)
EXTENDS RuleStore, Sessions, TLAPS

(***************************************************************************)
(* The rule store                                                          *)
(***************************************************************************)
\* The hypothesis of the theorems about what is in the store: one process
\* syncs.  (The code has no lock that would keep a second one out.)
OneSyncer == \A p, q \in Syncers : p = q

(***************************************************************************)
(* The invariant.                                                          *)
(***************************************************************************)
SyncType == [pc   : {"idle", "fetch", "extract", "remove", "rename", "done"},
             lock : [Sources -> Versions] \cup {<<>>},
             at   : Nat,
             want : Versions \cup {0},
             data : Dir]

ScanType == [pc     : {"idle", "verify", "load"},
             lock   : [Sources -> Versions] \cup {<<>>},
             todo   : SUBSET Sources,
             used   : SUBSET Sources,
             loaded : [Sources -> Dir] \cup {<<>>}]

Types ==
  /\ upstream \in Versions
  /\ locked \in [Sources -> Versions] /\ manifest \in [Sources -> Versions]
  /\ refresh = None \/ refresh \in Seq(Sources)
  /\ dir \in [Sources -> Dir] /\ staging \in [Sources -> Dir]
  /\ index \in [Sources -> Files \cup {None}]
  /\ sync \in [Syncers -> SyncType]
  /\ scan \in [Scanners -> ScanType]

Busy(p) == sync[p].pc \in {"fetch", "extract", "remove", "rename"}

\* Versions only go up: the manifests are refreshed before the lock, and what
\* is installed was pinned by a lock.
LockFollows ==
  \A s \in Sources :
    /\ locked[s] <= manifest[s] /\ manifest[s] <= upstream
    /\ \A f \in Files : dir[s][f] \in {Missing} \cup Versions /\ dir[s][f] <= locked[s]

\* What a running sync installs is what the lock it has read pins: an archive
\* whose manifest is of another version never gets past the extraction.
SyncFollows(p) ==
  Busy(p) =>
    /\ sync[p].lock \in [Sources -> Versions] /\ sync[p].at \in Nat \ {0}
    /\ \A s \in Sources :
         /\ sync[p].lock[s] <= locked[s]
         /\ \A f \in Files : dir[s][f] <= sync[p].lock[s]
    /\ \A i \in 1..(sync[p].at - 1) :
         /\ i <= Len(SourceList)
         /\ sync[p].pc = "fetch" \/ SourceList[i] # Source(p) =>
              dir[SourceList[i]] = Whole(sync[p].lock[SourceList[i]])
    /\ sync[p].pc # "fetch" =>
         /\ sync[p].at <= Len(SourceList) /\ sync[p].want \in Versions
         /\ \A f \in Files : staging[Source(p)][f] \in {Missing, sync[p].lock[Source(p)]}
    /\ sync[p].pc = "extract" =>
         \A f \in Files : sync[p].data[f] \in {Missing, Other, sync[p].lock[Source(p)]}
    /\ sync[p].pc \in {"remove", "rename"} => staging[Source(p)] = Whole(sync[p].lock[Source(p)])

\* From its verification on, a source can only hold, or miss, the bytes that
\* the lock of the scan pins, whatever sync is running.
Pinned(s, v) ==
  \A f \in Files :
    /\ dir[s][f] \in {Missing, v}
    /\ \A p \in Syncers : Busy(p) => sync[p].lock[s] = v

Verified(q) == IF scan[q].pc = "verify" THEN scan[q].used \ scan[q].todo ELSE scan[q].used

ScanPinned(q) ==
  scan[q].pc # "idle" =>
    /\ refresh = None /\ scan[q].lock = locked /\ scan[q].todo \subseteq scan[q].used
    /\ \A s \in Verified(q) : Pinned(s, locked[s])
    /\ scan[q].loaded \in [Sources -> Dir]
    /\ \A s \in scan[q].used, f \in Files : scan[q].loaded[s][f] \in {Missing, locked[s]}

Inv ==
  /\ Types
  /\ LockFollows
  /\ \A p \in Syncers : SyncFollows(p)
  /\ \A q \in Scanners : ScanPinned(q)
(***************************************************************************)
(* Types.                                                                  *)
(***************************************************************************)
\* The values the code can find in a file.
LEMMA ByteFacts ==
  /\ Versions \subseteq Bytes /\ Missing \in Bytes /\ Other \in Bytes
  /\ Missing \notin Versions /\ Other \notin Versions /\ Missing # Other
  /\ Versions \subseteq Nat /\ 1 \in Versions
BY MaxVersionPos DEF Bytes, Versions, Missing, Other

\* What is known of a rule directory by its type.
LEMMA DirFacts ==
  /\ Absent \in Dir
  /\ \A v \in Bytes : Whole(v) \in Dir
BY ByteFacts DEF Dir, Absent, Whole

\* A source at a position of the list is one of the sources.
LEMMA SourceAt ==
  ASSUME NEW i \in Nat \ {0}, i <= Len(SourceList) PROVE SourceList[i] \in Sources
BY SourcesListed DEF Sources

\* What is known of a process that does nothing.
LEMMA IdleFacts ==
  /\ IdleSync \in SyncType /\ IdleSync.pc = "idle"
  /\ IdleScan \in ScanType /\ IdleScan.pc = "idle"
BY DirFacts DEF IdleSync, SyncType, IdleScan, ScanType

\* What SyncFetch reads: the archive of a pin, and the manifest of the moment.
LEMMA Fetched ==
  ASSUME NEW p \in Syncers, SyncFetch(p)
  PROVE  \E data \in Archives(sync[p].lock[Source(p)]) :
           /\ data = Whole(sync[p].lock[Source(p)]) \/ Source(p) \notin Releases
           /\ sync' = [sync EXCEPT ![p].pc = "extract",
                         ![p].want = manifest[Source(p)], ![p].data = data]
BY Zenon DEF SyncFetch

\* An archive is the pinned one but for one file.
LEMMA ArchiveFacts ==
  ASSUME NEW v \in Versions, NEW data \in Archives(v)
  PROVE  data \in Dir /\ \A f \in Files : data[f] \in {Missing, Other, v}
<1>1. Whole(v) \in Dir
  BY DirFacts, ByteFacts
<1>2. CASE data = Whole(v)
  BY <1>1, <1>2 DEF Whole
<1>3. ASSUME NEW f \in Files, NEW b \in {Missing, Other}, data = [Whole(v) EXCEPT ![f] = b]
      PROVE  data \in Dir /\ \A g \in Files : data[g] \in {Missing, Other, v}
  BY <1>3, <1>1, ByteFacts DEF Whole, Dir
<1> QED BY <1>2, <1>3 DEF Archives

\* What a sync has fetched is a rule directory.
LEMMA FetchedIsDir ==
  ASSUME NEW p \in Syncers, SyncFetch(p), Source(p) \in Sources,
         sync[p].lock \in [Sources -> Versions], manifest \in [Sources -> Versions]
  PROVE  \E data \in Dir, want \in Versions :
           /\ sync' = [sync EXCEPT ![p].pc = "extract", ![p].want = want, ![p].data = data]
           /\ want = manifest[Source(p)]
           /\ \A f \in Files : data[f] \in {Missing, Other, sync[p].lock[Source(p)]}
<1>1. sync[p].lock[Source(p)] \in Versions /\ manifest[Source(p)] \in Versions
  OBVIOUS
<1> QED BY <1>1, Fetched, ArchiveFacts

\* Every step of a sync keeps the types.
LEMMA TypeSync ==
  ASSUME Types, NEW p \in Syncers, SyncFollows(p),
         \/ SyncBegin(p) \/ SyncFetch(p) \/ SyncRefuse(p) \/ SyncRemove(p)
         \/ SyncRename(p) \/ SyncIndex(p) \/ SyncDies(p)
         \/ \E f \in Files : SyncExtract(p, f)
  PROVE  Types'
<1>s. sync \in [Syncers -> SyncType]
  BY DEF Types
<1>m. locked \in [Sources -> Versions] /\ manifest \in [Sources -> Versions]
  BY DEF Types
<1>d. dir \in [Sources -> Dir]
  BY DEF Types
<1>g. staging \in [Sources -> Dir]
  BY DEF Types
<1>0. ASSUME sync' \in [Syncers -> SyncType], dir' \in [Sources -> Dir],
             staging' \in [Sources -> Dir], index' \in [Sources -> Files \cup {None}], NoSync
      PROVE  Types'
  BY <1>0 DEF Types, NoSync
<1>i. index \in [Sources -> Files \cup {None}]
  BY DEF Types
<1>n. ASSUME sync' = [sync EXCEPT ![p] = IdleSync] PROVE sync' \in [Syncers -> SyncType]
  BY <1>s, <1>n, IdleFacts
<1>1. CASE SyncBegin(p)
  <2>1. [IdleSync EXCEPT !.pc = "fetch", !.lock = locked, !.at = 1] \in SyncType
    BY <1>m, DirFacts DEF IdleSync, SyncType
  <2>2. sync' \in [Syncers -> SyncType]
    BY <1>s, <1>1, <2>1 DEF SyncBegin
  <2> QED BY <1>0, <1>1, <1>d, <1>g, <1>i, <2>2 DEF SyncBegin
<1>2. CASE SyncFetch(p)
  <2>1. /\ sync[p].pc = "fetch" /\ sync[p].at <= Len(SourceList)
        /\ staging' = [staging EXCEPT ![Source(p)] = Absent]
        /\ NoSync /\ UNCHANGED <<dir, index>>
    BY <1>2 DEF SyncFetch
  <2>2. sync[p].at \in Nat \ {0} /\ sync[p].lock \in [Sources -> Versions]
    BY <2>1 DEF SyncFollows, Busy
  <2>3. Source(p) \in Sources
    BY <2>1, <2>2, SourceAt DEF Source
  <2>4. PICK data \in Dir, want \in Versions :
          sync' = [sync EXCEPT ![p].pc = "extract", ![p].want = want, ![p].data = data]
    BY ZenonT(60), <1>2, <1>m, <2>2, <2>3, FetchedIsDir
  <2>5. sync' \in [Syncers -> SyncType]
    <3> DEFINE r == [sync[p] EXCEPT !.pc = "extract", !.want = want, !.data = data]
    <3>1. r \in SyncType
      BY <1>s DEF SyncType
    <3>2. sync' = [sync EXCEPT ![p] = r]
      BY <1>s, <2>4
    <3> HIDE DEF r
    <3> QED BY <1>s, <3>1, <3>2
  <2>6. staging' \in [Sources -> Dir]
    BY <2>1, <1>g, DirFacts
  <2> QED BY <1>0, <2>1, <1>d, <1>i, <2>5, <2>6
<1>3. CASE SyncRefuse(p)
  <2>1. staging' \in [Sources -> Dir]
    BY <1>3, <1>g, DirFacts DEF SyncRefuse
  <2> QED BY <1>0, <1>3, <1>n, <1>d, <1>i, <2>1 DEF SyncRefuse
<1>4. CASE SyncRemove(p)
  <2>1. PICK f \in Files : dir' = [dir EXCEPT ![Source(p)][f] = Missing]
    BY <1>4 DEF SyncRemove
  <2>2. dir' \in [Sources -> Dir]
    BY <1>d, <2>1, ByteFacts DEF Dir
  <2>3. PICK pc \in {"rename", "remove"} : sync' = [sync EXCEPT ![p].pc = pc]
    BY <1>4 DEF SyncRemove
  <2>4. sync' \in [Syncers -> SyncType]
    BY SMTT(30), <1>s, <2>3 DEF SyncType
  <2> QED BY <1>0, <1>4, <1>g, <1>i, <2>2, <2>4 DEF SyncRemove
<1>5. CASE SyncRename(p)
  <2>1. Source(p) \in Sources
    BY <1>5, SourceAt DEF SyncRename, SyncFollows, Busy, Source
  <2>2. dir' \in [Sources -> Dir] /\ staging' \in [Sources -> Dir]
    BY <1>5, <1>d, <1>g, <2>1, DirFacts DEF SyncRename
  <2>3. sync' \in [Syncers -> SyncType]
    BY <1>s, <1>5 DEF SyncRename, SyncType
  <2> QED BY <1>0, <1>5, <1>i, <2>2, <2>3 DEF SyncRename
<1>6. CASE SyncIndex(p)
  <2>1. index' \in [Sources -> Files \cup {None}]
    BY <1>6 DEF SyncIndex, RuleIn
  <2>2. sync' \in [Syncers -> SyncType]
    BY <1>s, <1>6 DEF SyncIndex, SyncType
  <2> QED BY <1>0, <1>6, <1>d, <1>g, <2>1, <2>2 DEF SyncIndex
<1>7. CASE SyncDies(p)
  BY <1>0, <1>7, <1>n, <1>d, <1>g, <1>i DEF SyncDies
<1>8. ASSUME NEW f \in Files, SyncExtract(p, f) PROVE Types'
  <2>1. sync[p].data[f] \in Bytes
    BY <1>s DEF SyncType, Dir
  <2>2. staging' \in [Sources -> Dir]
    BY <1>8, <1>g, <2>1 DEF SyncExtract, Dir
  <2> QED BY <1>0, <1>8, <1>s, <1>d, <1>i, <2>2 DEF SyncExtract
<1> QED BY <1>1, <1>2, <1>3, <1>4, <1>5, <1>6, <1>7, <1>8

\* Every step of a scan keeps the types.
LEMMA TypeScan ==
  ASSUME Types, NEW q \in Scanners, ScanPinned(q),
         \/ \E used \in SUBSET Sources : ScanBegin(q, used)
         \/ \E s \in scan[q].todo : ScanVerify(q, s) \/ ScanLoad(q, s)
         \/ ScanRefuse(q) \/ ScanLink(q) \/ ScanEnd(q)
  PROVE  Types'
<1>s. scan \in [Scanners -> ScanType]
  BY DEF Types
<1>d. dir \in [Sources -> Dir] /\ locked \in [Sources -> Versions]
  BY DEF Types
<1>0. ASSUME scan' \in [Scanners -> ScanType], NoScan PROVE Types'
  BY <1>0 DEF Types, NoScan
<1>1. ASSUME NEW used \in SUBSET Sources, ScanBegin(q, used) PROVE Types'
  <2> DEFINE r == [pc |-> "verify", lock |-> locked, todo |-> used, used |-> used,
                   loaded |-> [s \in Sources |-> Absent]]
  <2>1. r \in ScanType
    BY <1>d, DirFacts DEF ScanType
  <2>2. scan' = [scan EXCEPT ![q] = r]
    BY <1>1 DEF ScanBegin
  <2> HIDE DEF r
  <2>3. scan' \in [Scanners -> ScanType]
    BY <1>s, <2>1, <2>2
  <2> QED BY <1>0, <1>1, <2>3 DEF ScanBegin
<1>2. ASSUME NEW s \in scan[q].todo, ScanVerify(q, s) PROVE Types'
  <2>1. PICK todo \in SUBSET Sources : scan' = [scan EXCEPT ![q].todo = todo]
    BY <1>s, <1>2 DEF ScanVerify, ScanType
  <2>2. scan' \in [Scanners -> ScanType]
    BY <1>s, <2>1 DEF ScanType
  <2> QED BY <1>0, <1>2, <2>2 DEF ScanVerify
<1>3. ASSUME NEW s \in scan[q].todo, ScanLoad(q, s) PROVE Types'
  <2>1. s \in Sources /\ scan[q].loaded \in [Sources -> Dir]
    BY <1>s, <1>3 DEF ScanLoad, ScanPinned, ScanType
  <2>2. [scan[q].loaded EXCEPT ![s] = dir[s]] \in [Sources -> Dir]
    BY <1>d, <2>1
  <2>3. PICK todo \in SUBSET Sources, loaded \in [Sources -> Dir] :
          scan' = [scan EXCEPT ![q].todo = todo, ![q].loaded = loaded]
    <3>1. scan[q].todo \ {s} \in SUBSET Sources
      BY <1>s DEF ScanType
    <3>2. scan' = [scan EXCEPT ![q].todo = scan[q].todo \ {s},
                               ![q].loaded = [scan[q].loaded EXCEPT ![s] = dir[s]]]
      BY <1>s, <1>3 DEF ScanLoad, ScanType
    <3> QED BY <2>2, <3>1, <3>2
  <2>4. PICK r : r = [scan[q] EXCEPT !.todo = todo, !.loaded = loaded]
    OBVIOUS
  <2>5. r \in ScanType
    BY <1>s, <2>4 DEF ScanType
  <2>6. scan' = [scan EXCEPT ![q] = r]
    BY <2>3, <2>4
  <2>7. scan' \in [Scanners -> ScanType]
    BY <1>s, <2>5, <2>6
  <2> QED BY <1>0, <1>3, <2>7 DEF ScanLoad
<1>4. CASE ScanRefuse(q) \/ ScanEnd(q)
  <2>1. scan' \in [Scanners -> ScanType]
    BY <1>s, <1>4, IdleFacts DEF ScanRefuse, ScanEnd
  <2> QED BY <1>0, <1>4, <2>1 DEF ScanRefuse, ScanEnd
<1>5. CASE ScanLink(q)
  <2>1. PICK todo \in SUBSET Sources : scan' = [scan EXCEPT ![q].pc = "load", ![q].todo = todo]
    BY <1>s, <1>5 DEF ScanLink, ScanType
  <2>2. scan' \in [Scanners -> ScanType]
    BY ZenonT(60), <1>s, <2>1 DEF ScanType
  <2> QED BY <1>0, <1>5, <2>2 DEF ScanLink
<1> QED BY <1>1, <1>2, <1>3, <1>4, <1>5

\* The steps of a maintainer keep the types.
LEMMA TypeRefresh ==
  ASSUME Types, Publish \/ RefreshBegin \/ RefreshSource \/ RefreshLock \/ RefreshFails
  PROVE  Types'
<1>l. SourceList \in Seq(Sources)
  BY SourcesListed
<1>1. CASE Publish
  <2>1. upstream' \in Versions
    BY <1>1, MaxVersionPos DEF Types, Publish, Versions
  <2> QED BY <1>1, <2>1 DEF Types, Publish
<1>2. CASE RefreshBegin
  BY <1>2, <1>l DEF Types, RefreshBegin
<1>3. CASE RefreshSource
  <2>1. refresh \in Seq(Sources) /\ refresh # <<>>
    BY <1>3 DEF Types, RefreshSource
  <2>2. Head(refresh) \in Sources /\ Tail(refresh) \in Seq(Sources)
    BY <2>1
  <2>3. manifest' \in [Sources -> Versions]
    BY <1>3, <2>2 DEF Types, RefreshSource
  <2> QED BY <1>3, <2>2, <2>3 DEF Types, RefreshSource
<1>4. CASE RefreshLock \/ RefreshFails
  BY <1>4 DEF Types, RefreshLock, RefreshFails
<1> QED BY <1>1, <1>2, <1>3, <1>4

(***************************************************************************)
(* The order of the versions.                                              *)
(***************************************************************************)
\* LockFollows, of one source: the form the steps are proved in.
Follows(s) ==
  /\ locked[s] <= manifest[s] /\ manifest[s] <= upstream
  /\ \A f \in Files : dir[s][f] \in {Missing} \cup Versions /\ dir[s][f] <= locked[s]

\* A maintainer publishes, then refreshes the manifests, then the lock.
LEMMA LockRefresh ==
  ASSUME Types, LockFollows,
         Publish \/ RefreshBegin \/ RefreshSource \/ RefreshLock \/ RefreshFails
  PROVE  LockFollows'
<1>t. /\ locked \in [Sources -> Versions] /\ manifest \in [Sources -> Versions]
      /\ upstream \in Versions
  BY DEF Types
<1> SUFFICES ASSUME NEW s \in Sources PROVE Follows(s)'
  BY DEF LockFollows, Follows
<1>s. Follows(s) /\ locked[s] \in Nat /\ manifest[s] \in Nat /\ upstream \in Nat
  BY <1>t, ByteFacts DEF LockFollows, Follows
<1>n. {Missing} \cup Versions \subseteq Nat
  BY ByteFacts DEF Missing
<1>f. \A f \in Files : dir[s][f] \in Nat
  BY <1>s, <1>n DEF Follows
<1>1. CASE Publish \/ RefreshBegin \/ RefreshFails
  <2>1. upstream' \in Nat /\ upstream <= upstream' /\ UNCHANGED <<locked, manifest, dir>>
    BY <1>1, <1>s DEF Publish, RefreshBegin, RefreshFails
  <2> QED BY <2>1, <1>s DEF Follows
<1>2. CASE RefreshSource
  <2>1. manifest'[s] = manifest[s] \/ manifest'[s] = upstream
    BY <1>2, <1>t DEF RefreshSource
  <2>2. UNCHANGED <<upstream, locked, dir>>
    BY <1>2 DEF RefreshSource
  <2> QED BY <2>1, <2>2, <1>s DEF Follows
<1>3. CASE RefreshLock
  <2>1. locked'[s] = manifest[s] /\ UNCHANGED <<upstream, manifest, dir>>
    BY <1>3 DEF RefreshLock
  <2> QED BY <2>1, <1>s, <1>f DEF Follows
<1> QED BY <1>1, <1>2, <1>3

\* What a sync installs was pinned by a lock, and no lock is newer than today's.
LEMMA LockSync ==
  ASSUME Types, LockFollows, NEW p \in Syncers, SyncFollows(p),
         \/ SyncBegin(p) \/ SyncFetch(p) \/ SyncRefuse(p) \/ SyncRemove(p)
         \/ SyncRename(p) \/ SyncIndex(p) \/ SyncDies(p)
         \/ \E f \in Files : SyncExtract(p, f)
  PROVE  LockFollows'
<1>d. dir \in [Sources -> Dir]
  BY DEF Types
<1>t. locked \in [Sources -> Versions]
  BY DEF Types
<1> SUFFICES ASSUME NEW s \in Sources PROVE Follows(s)'
  BY DEF LockFollows, Follows
<1>s. Follows(s) /\ locked[s] \in Nat
  BY <1>t, ByteFacts DEF LockFollows, Follows
<1>0. ASSUME UNCHANGED <<upstream, locked, manifest>>,
             \A f \in Files : dir'[s][f] \in {Missing} \cup Versions /\ dir'[s][f] <= locked[s]
      PROVE  Follows(s)'
  BY <1>0, <1>s DEF Follows
<1>1. CASE \/ SyncBegin(p) \/ SyncFetch(p) \/ SyncRefuse(p) \/ SyncIndex(p) \/ SyncDies(p)
           \/ \E f \in Files : SyncExtract(p, f)
  <2>1. UNCHANGED <<upstream, locked, manifest, dir>>
    BY <1>1 DEF SyncBegin, SyncFetch, SyncRefuse, SyncIndex, SyncDies, SyncExtract, NoSync
  <2> QED BY <1>0, <1>s, <2>1 DEF Follows
<1>2. CASE SyncRemove(p)
  <2>1. PICK g \in Files : dir' = [dir EXCEPT ![Source(p)][g] = Missing]
    BY <1>2 DEF SyncRemove
  <2>2. \A f \in Files : dir'[s][f] = dir[s][f] \/ dir'[s][f] = Missing
    BY <1>d, <2>1 DEF Dir
  <2>3. UNCHANGED <<upstream, locked, manifest>>
    BY <1>2 DEF SyncRemove, NoSync
  <2> QED BY <1>0, <1>s, <2>2, <2>3 DEF Follows, Missing
<1>3. CASE SyncRename(p)
  <2>1. /\ UNCHANGED <<upstream, locked, manifest>>
        /\ sync[p].pc = "rename" /\ dir' = [dir EXCEPT ![Source(p)] = staging[Source(p)]]
    BY <1>3 DEF SyncRename, NoSync
  <2>2. /\ staging[Source(p)] = Whole(sync[p].lock[Source(p)])
        /\ sync[p].lock \in [Sources -> Versions] /\ sync[p].lock[s] <= locked[s]
    BY <2>1 DEF SyncFollows, Busy
  <2>3. CASE s = Source(p)
    <3>1. \A f \in Files : dir'[s][f] = sync[p].lock[s]
      BY <1>d, <2>1, <2>2, <2>3 DEF Whole
    <3>2. sync[p].lock[s] \in Versions
      BY <2>2
    <3> QED BY <1>0, <2>1, <2>2, <3>1, <3>2
  <2>4. CASE s # Source(p)
    <3>1. dir'[s] = dir[s]
      BY <1>d, <2>1, <2>4
    <3> QED BY <1>0, <1>s, <2>1, <3>1 DEF Follows
  <2> QED BY <2>3, <2>4
<1> QED BY <1>1, <1>2, <1>3


(***************************************************************************)
(* What a sync installs.                                                   *)
(***************************************************************************)
\* Another process moves: the lock may only be newer.
LEMMA SyncElsewhere ==
  ASSUME Types, LockFollows, NEW p \in Syncers, SyncFollows(p),
         UNCHANGED <<dir, staging, sync>>, locked' = locked \/ locked' = manifest
  PROVE  SyncFollows(p)'
<1>t. locked \in [Sources -> Versions] /\ manifest \in [Sources -> Versions]
  BY DEF Types
<1> SUFFICES ASSUME Busy(p) PROVE SyncFollows(p)'
  BY DEF SyncFollows, Busy
<1>1. ASSUME NEW s \in Sources PROVE sync[p].lock[s] <= locked'[s]
  <2>1. sync[p].lock \in [Sources -> Versions]
    BY DEF SyncFollows
  <2>2. sync[p].lock[s] \in Nat /\ locked[s] \in Nat /\ manifest[s] \in Nat
    BY <1>t, <2>1, ByteFacts
  <2>3. sync[p].lock[s] <= locked[s] /\ locked[s] <= manifest[s]
    BY DEF SyncFollows, LockFollows
  <2> QED BY <2>2, <2>3
<1>2. UNCHANGED Source(p) /\ (Busy(p))' = Busy(p)
  BY DEF Source, Busy
<1> QED BY <1>1, <1>2 DEF SyncFollows

\* A sync that is not at work follows nothing.
LEMMA SyncStops ==
  ASSUME Types, NEW p \in Syncers, SyncRefuse(p) \/ SyncIndex(p) \/ SyncDies(p)
  PROVE  ~Busy(p)'
<1>s. sync \in [Syncers -> SyncType]
  BY DEF Types
<1>1. CASE SyncRefuse(p) \/ SyncDies(p)
  <2>1. sync'[p] = IdleSync
    BY <1>s, <1>1 DEF SyncRefuse, SyncDies
  <2> QED BY <2>1, IdleFacts DEF Busy
<1>2. CASE SyncIndex(p)
  <2>1. sync'[p].pc = "done"
    BY <1>s, <1>2 DEF SyncIndex, SyncType
  <2> QED BY <2>1 DEF Busy
<1> QED BY <1>1, <1>2

\* A sync reads the lock, and starts with the first source.
LEMMA SyncStarts ==
  ASSUME Types, LockFollows, NEW p \in Syncers, SyncBegin(p)
  PROVE  SyncFollows(p)'
<1>s. sync \in [Syncers -> SyncType]
  BY DEF Types
<1>t. locked \in [Sources -> Versions]
  BY DEF Types
<1>1. sync'[p].pc = "fetch" /\ sync'[p].lock = locked /\ sync'[p].at = 1
  BY <1>s DEF SyncBegin, IdleSync
<1>2. UNCHANGED <<locked, dir>>
  BY DEF SyncBegin, NoSync
<1>3. \A s \in Sources : /\ locked[s] <= locked[s]
                         /\ \A f \in Files : dir[s][f] <= locked[s]
  <2>1. \A s \in Sources : locked[s] \in Nat
    BY <1>t, ByteFacts
  <2> QED BY <2>1 DEF LockFollows
<1>4. 1..(1 - 1) = {}
  OBVIOUS
<1> QED BY <1>1, <1>2, <1>3, <1>4, <1>t DEF SyncFollows, Busy

\* The archive of a source is read into an empty staging area.
LEMMA SyncFetches ==
  ASSUME Types, NEW p \in Syncers, SyncFollows(p), SyncFetch(p)
  PROVE  SyncFollows(p)'
<1>s. sync \in [Syncers -> SyncType]
  BY DEF Types
<1>m. manifest \in [Sources -> Versions]
  BY DEF Types
<1>g. staging \in [Sources -> Dir]
  BY DEF Types
<1>0. /\ sync[p].pc = "fetch" /\ sync[p].at <= Len(SourceList)
      /\ staging' = [staging EXCEPT ![Source(p)] = Absent]
      /\ UNCHANGED <<locked, dir>>
  BY DEF SyncFetch, NoSync
<1>b. Busy(p) /\ sync[p].lock \in [Sources -> Versions] /\ sync[p].at \in Nat \ {0}
  BY <1>0 DEF Busy, SyncFollows
<1>c. Source(p) \in Sources
  BY <1>0, <1>b, SourceAt DEF Source
<1>1. PICK data \in Dir, want \in Versions :
        /\ sync' = [sync EXCEPT ![p].pc = "extract", ![p].want = want, ![p].data = data]
        /\ want = manifest[Source(p)]
        /\ \A f \in Files : data[f] \in {Missing, Other, sync[p].lock[Source(p)]}
  BY <1>b, <1>c, <1>m, FetchedIsDir
<1>2. /\ sync'[p].pc = "extract" /\ sync'[p].lock = sync[p].lock /\ sync'[p].at = sync[p].at
      /\ sync'[p].want = want /\ sync'[p].data = data
  BY <1>s, <1>1 DEF SyncType
<1>3. Source(p)' = Source(p)
  BY <1>2 DEF Source
<1>4. \A f \in Files : staging'[Source(p)][f] = Missing
  BY <1>0, <1>c, <1>g DEF Absent
<1>5. \A i \in 1..(sync[p].at - 1) :
        i <= Len(SourceList) /\ dir[SourceList[i]] = Whole(sync[p].lock[SourceList[i]])
  BY <1>0, <1>b DEF SyncFollows
<1>6. \A s \in Sources : /\ sync[p].lock[s] <= locked[s]
                         /\ \A f \in Files : dir[s][f] <= sync[p].lock[s]
  BY <1>b DEF SyncFollows
<1> QED BY <1>0, <1>b, <1>1, <1>2, <1>3, <1>4, <1>5, <1>6 DEF SyncFollows

\* A file that is extracted has the bytes of the manifest, which are those of
\* the lock, or the archive would not hold them.
LEMMA SyncExtracts ==
  ASSUME Types, NEW p \in Syncers, NEW f \in Files, SyncFollows(p), SyncExtract(p, f)
  PROVE  SyncFollows(p)'
<1>g. staging \in [Sources -> Dir]
  BY DEF Types
<1>0. /\ sync[p].pc = "extract" /\ sync[p].data[f] = sync[p].want
      /\ staging' = [staging EXCEPT ![Source(p)][f] = sync[p].data[f]]
      /\ UNCHANGED <<locked, dir, sync>>
  BY DEF SyncExtract, NoSync
<1>b. Busy(p) /\ sync[p].lock \in [Sources -> Versions] /\ sync[p].at \in Nat \ {0}
  BY <1>0 DEF Busy, SyncFollows
<1>1. sync[p].data[f] = sync[p].lock[Source(p)]
  <2>1. sync[p].data[f] \in {Missing, Other, sync[p].lock[Source(p)]} /\ sync[p].want \in Versions
    BY <1>0, <1>b DEF SyncFollows
  <2> QED BY <1>0, <2>1, ByteFacts
<1>2. sync[p].at <= Len(SourceList) /\ Source(p) \in Sources
  <2>1. sync[p].at <= Len(SourceList)
    BY <1>0, <1>b DEF SyncFollows
  <2> QED BY <2>1, <1>b, SourceAt DEF Source
<1>3. \A g \in Files : staging'[Source(p)][g] \in {staging[Source(p)][g], sync[p].lock[Source(p)]}
  BY <1>0, <1>1, <1>2, <1>g DEF Dir
<1>4. \A g \in Files : staging'[Source(p)][g] \in {Missing, sync[p].lock[Source(p)]}
  <2>1. \A g \in Files : staging[Source(p)][g] \in {Missing, sync[p].lock[Source(p)]}
    BY <1>0, <1>b DEF SyncFollows
  <2> QED BY <2>1, <1>3
<1>5. UNCHANGED Source(p)
  BY <1>0 DEF Source
<1>6. Busy(p)'
  BY <1>0, <1>b DEF Busy
<1> QED BY <1>0, <1>4, <1>5, <1>6 DEF SyncFollows, Busy

\* The installed source is removed when everything is extracted.
LEMMA SyncRemoves ==
  ASSUME Types, NEW p \in Syncers, SyncFollows(p), SyncRemove(p)
  PROVE  SyncFollows(p)'
<1>s. sync \in [Syncers -> SyncType]
  BY DEF Types
<1>d. dir \in [Sources -> Dir]
  BY DEF Types
<1>g. staging \in [Sources -> Dir]
  BY DEF Types
<1>0. /\ sync[p].pc \in {"extract", "remove"}
      /\ sync[p].pc = "extract" => \A f \in Files : staging[Source(p)][f] # Missing
      /\ UNCHANGED <<locked, staging>>
  BY DEF SyncRemove, NoSync
<1>b. Busy(p) /\ sync[p].lock \in [Sources -> Versions] /\ sync[p].at \in Nat \ {0}
  BY <1>0 DEF Busy, SyncFollows
<1>1. PICK g \in Files, pc \in {"rename", "remove"} :
        /\ dir' = [dir EXCEPT ![Source(p)][g] = Missing]
        /\ sync' = [sync EXCEPT ![p].pc = pc]
  BY DEF SyncRemove
<1>2. /\ sync'[p].pc \in {"rename", "remove"} /\ sync'[p].lock = sync[p].lock
      /\ sync'[p].at = sync[p].at /\ sync'[p].want = sync[p].want
  BY <1>s, <1>1 DEF SyncType
<1>3. Source(p)' = Source(p)
  BY <1>2 DEF Source
<1>4. sync[p].at <= Len(SourceList) /\ sync[p].want \in Versions /\ Source(p) \in Sources
  <2>1. sync[p].at <= Len(SourceList) /\ sync[p].want \in Versions
    BY <1>0, <1>b DEF SyncFollows
  <2> QED BY <2>1, <1>b, SourceAt DEF Source
<1>5. staging[Source(p)] = Whole(sync[p].lock[Source(p)])
  <2>1. CASE sync[p].pc = "extract"
    <3>1. \A f \in Files : staging[Source(p)][f] = sync[p].lock[Source(p)]
      BY <1>0, <1>b, <2>1 DEF SyncFollows
    <3>2. staging[Source(p)] \in [Files -> Bytes]
      BY <1>g, <1>4 DEF Dir
    <3> QED BY <3>1, <3>2 DEF Whole
  <2>2. CASE sync[p].pc = "remove"
    BY <1>b, <2>2 DEF SyncFollows
  <2> QED BY <1>0, <2>1, <2>2
<1>6. \A s \in Sources : /\ sync[p].lock[s] <= locked[s]
                         /\ \A f \in Files : dir'[s][f] <= sync[p].lock[s]
  <2>1. \A s \in Sources : /\ sync[p].lock[s] <= locked[s]
                           /\ \A f \in Files : dir[s][f] <= sync[p].lock[s]
    BY <1>b DEF SyncFollows
  <2>2. \A s \in Sources, f \in Files : dir'[s][f] = dir[s][f] \/ dir'[s][f] = Missing
    BY <1>d, <1>1 DEF Dir
  <2>3. \A s \in Sources : Missing <= sync[p].lock[s]
    <3>1. \A s \in Sources : sync[p].lock[s] \in Versions
      BY <1>b
    <3>2. \A v \in Versions : Missing <= v
      BY MaxVersionPos DEF Versions, Missing
    <3> QED BY <3>1, <3>2
  <2> QED BY <2>1, <2>2, <2>3
<1>7. \A i \in 1..(sync[p].at - 1) :
        /\ i <= Len(SourceList)
        /\ SourceList[i] # Source(p) =>
             dir'[SourceList[i]] = Whole(sync[p].lock[SourceList[i]])
  <2>1. \A i \in 1..(sync[p].at - 1) :
          /\ i <= Len(SourceList)
          /\ SourceList[i] # Source(p) =>
               dir[SourceList[i]] = Whole(sync[p].lock[SourceList[i]])
    BY <1>b DEF SyncFollows
  <2>2. \A s \in Sources : s # Source(p) => dir'[s] = dir[s]
    BY <1>d, <1>1
  <2>3. \A i \in 1..(sync[p].at - 1) : SourceList[i] \in Sources
    BY <2>1, <1>b, SourceAt
  <2> QED BY <2>1, <2>2, <2>3
<1>8. \A f \in Files : staging[Source(p)][f] = sync[p].lock[Source(p)]
  BY <1>5 DEF Whole
<1> QED BY <1>0, <1>b, <1>2, <1>3, <1>4, <1>5, <1>6, <1>7, <1>8 DEF SyncFollows

\* What was extracted becomes the installed source, and the next one is due.
LEMMA SyncRenames ==
  ASSUME Types, NEW p \in Syncers, SyncFollows(p), SyncRename(p)
  PROVE  SyncFollows(p)'
<1>s. sync \in [Syncers -> SyncType]
  BY DEF Types
<1>d. dir \in [Sources -> Dir]
  BY DEF Types
<1>0. /\ sync[p].pc = "rename" /\ dir' = [dir EXCEPT ![Source(p)] = staging[Source(p)]]
      /\ sync' = [sync EXCEPT ![p].pc = "fetch", ![p].at = @ + 1]
      /\ UNCHANGED locked
  BY DEF SyncRename, NoSync
<1>b. Busy(p) /\ sync[p].lock \in [Sources -> Versions] /\ sync[p].at \in Nat \ {0}
  BY <1>0 DEF Busy, SyncFollows
<1>1. sync'[p].pc = "fetch" /\ sync'[p].lock = sync[p].lock /\ sync'[p].at = sync[p].at + 1
  BY <1>s, <1>0 DEF SyncType
<1>2. sync[p].at <= Len(SourceList) /\ staging[Source(p)] = Whole(sync[p].lock[Source(p)])
  BY <1>0, <1>b DEF SyncFollows
<1>3. Source(p) \in Sources
  BY <1>2, <1>b, SourceAt DEF Source
<1>4. /\ dir'[Source(p)] = Whole(sync[p].lock[Source(p)])
      /\ \A s \in Sources : s # Source(p) => dir'[s] = dir[s]
  BY <1>d, <1>0, <1>2, <1>3
<1>5. \A s \in Sources : /\ sync[p].lock[s] <= locked[s]
                         /\ \A f \in Files : dir'[s][f] <= sync[p].lock[s]
  <2>1. \A s \in Sources : /\ sync[p].lock[s] <= locked[s]
                           /\ \A f \in Files : dir[s][f] <= sync[p].lock[s]
    BY <1>b DEF SyncFollows
  <2>2. sync[p].lock[Source(p)] \in Nat
    BY <1>b, <1>3, ByteFacts
  <2>3. \A f \in Files : dir'[Source(p)][f] = sync[p].lock[Source(p)]
    BY <1>4 DEF Whole
  <2> QED BY <1>4, <2>1, <2>2, <2>3
<1>6. ASSUME NEW i \in 1..sync[p].at
      PROVE  i <= Len(SourceList) /\ dir'[SourceList[i]] = Whole(sync[p].lock[SourceList[i]])
  <2>1. CASE i = sync[p].at
    BY <1>2, <1>4, <2>1 DEF Source
  <2>2. CASE i # sync[p].at
    <3>1. i \in 1..(sync[p].at - 1) /\ i \in Nat \ {0}
      BY <2>2, <1>b
    <3>2. /\ i <= Len(SourceList)
          /\ SourceList[i] # Source(p) =>
               dir[SourceList[i]] = Whole(sync[p].lock[SourceList[i]])
      BY <3>1, <1>b DEF SyncFollows
    <3>3. SourceList[i] \in Sources
      BY <3>1, <3>2, SourceAt
    <3>4. CASE SourceList[i] = Source(p)
      BY <3>2, <3>4, <1>4
    <3>5. CASE SourceList[i] # Source(p)
      BY <3>2, <3>3, <3>5, <1>4
    <3> QED BY <3>4, <3>5
  <2> QED BY <2>1, <2>2
<1>7. sync'[p].at \in Nat \ {0} /\ sync'[p].at - 1 = sync[p].at
  BY <1>1, <1>b
<1> QED BY <1>0, <1>b, <1>1, <1>5, <1>6, <1>7 DEF SyncFollows


\* Every step of a sync leaves it what it follows.
LEMMA SyncSteps ==
  ASSUME Types, LockFollows, NEW p \in Syncers, SyncFollows(p),
         \/ SyncBegin(p) \/ SyncFetch(p) \/ SyncRefuse(p) \/ SyncRemove(p)
         \/ SyncRename(p) \/ SyncIndex(p) \/ SyncDies(p)
         \/ \E f \in Files : SyncExtract(p, f)
  PROVE  SyncFollows(p)'
<1>1. CASE SyncRefuse(p) \/ SyncIndex(p) \/ SyncDies(p)
  <2>1. ~Busy(p)'
    BY <1>1, SyncStops
  <2> QED BY <2>1 DEF SyncFollows
<1> QED BY <1>1, SyncStarts, SyncFetches, SyncExtracts, SyncRemoves, SyncRenames

(***************************************************************************)
(* What a scan reads.                                                      *)
(***************************************************************************)
\* A step that leaves the lock and the store alone, and no sync with another
\* lock, leaves the scans what they have pinned.
LEMMA ScanKept ==
  ASSUME NEW q \in Scanners, ScanPinned(q), UNCHANGED <<refresh, locked, scan>>,
         \A s \in Verified(q) :
           scan[q].pc # "idle" /\ Pinned(s, locked[s]) => Pinned(s, locked[s])'
  PROVE  ScanPinned(q)'
BY DEF ScanPinned, Verified

\* No lock is refreshed under a scan.
LEMMA ScanRefreshed ==
  ASSUME Types, NEW q \in Scanners, ScanPinned(q),
         Publish \/ RefreshBegin \/ RefreshSource \/ RefreshLock \/ RefreshFails
  PROVE  ScanPinned(q)'
<1>1. CASE Publish
  <2>1. UNCHANGED <<refresh, locked, dir, sync, scan>>
    BY <1>1 DEF Publish
  <2> QED BY <2>1, ScanKept DEF Pinned, Busy
<1>2. CASE RefreshBegin
  <2>1. scan'[q].pc = "idle"
    BY <1>2 DEF RefreshBegin
  <2> QED BY <2>1 DEF ScanPinned
<1>3. CASE RefreshSource \/ RefreshLock \/ RefreshFails
  <2>1. refresh # None /\ UNCHANGED scan
    BY <1>3, NoneIsNoList DEF RefreshSource, RefreshLock, RefreshFails
  <2> QED BY <2>1 DEF ScanPinned
<1> QED BY <1>1, <1>2, <1>3

\* Whatever a sync does under a scan, it removes what the scan has verified or
\* installs the same bytes again.
LEMMA ScanSynced ==
  ASSUME Types, NEW q \in Scanners, ScanPinned(q), NEW p \in Syncers, SyncFollows(p),
         \/ SyncBegin(p) \/ SyncFetch(p) \/ SyncRefuse(p) \/ SyncRemove(p)
         \/ SyncRename(p) \/ SyncIndex(p) \/ SyncDies(p)
         \/ \E f \in Files : SyncExtract(p, f)
  PROVE  ScanPinned(q)'
<1>s. sync \in [Syncers -> SyncType]
  BY DEF Types
<1>d. dir \in [Sources -> Dir]
  BY DEF Types
<1>u. UNCHANGED <<refresh, locked, scan>>
  BY DEF SyncBegin, SyncFetch, SyncRefuse, SyncIndex, SyncDies, SyncExtract,
         SyncRemove, SyncRename, NoSync
<1>v. ASSUME scan[q].pc # "idle" PROVE Verified(q) \subseteq Sources
  <2>1. scan[q].used \in SUBSET Sources
    BY DEF Types, ScanType
  <2> QED BY <2>1 DEF Verified
<1> SUFFICES ASSUME NEW s \in Verified(q), scan[q].pc # "idle", Pinned(s, locked[s])
             PROVE  Pinned(s, locked[s])'
  BY <1>u, ScanKept
<1>a. s \in Sources
  BY <1>v
<1>o. \A r \in Syncers : r # p => sync'[r] = sync[r]
  <2>1. CASE SyncBegin(p) \/ SyncRefuse(p) \/ SyncDies(p)
    BY <1>s, <2>1 DEF SyncBegin, SyncRefuse, SyncDies
  <2>2. CASE SyncFetch(p)
    <3>1. \E data \in Archives(sync[p].lock[Source(p)]) :
            sync' = [sync EXCEPT ![p].pc = "extract",
                      ![p].want = manifest[Source(p)], ![p].data = data]
      BY <2>2, Fetched
    <3> QED BY <1>s, <3>1
  <2>3. CASE SyncRename(p) \/ SyncIndex(p)
    BY <1>s, <2>3 DEF SyncRename, SyncIndex
  <2>4. CASE SyncRemove(p)
    <3>1. PICK pc \in {"rename", "remove"} : sync' = [sync EXCEPT ![p].pc = pc]
      BY <2>4 DEF SyncRemove
    <3> QED BY <1>s, <3>1
  <2>5. CASE \E f \in Files : SyncExtract(p, f)
    BY <2>5 DEF SyncExtract
  <2> QED BY <2>1, <2>2, <2>3, <2>4, <2>5
<1>p. Busy(p)' => sync'[p].lock[s] = locked[s]
  <2>1. CASE SyncBegin(p)
    <3>1. sync'[p].lock = locked
      BY <1>s, <2>1 DEF SyncBegin, IdleSync
    <3> QED BY <3>1
  <2>2. CASE SyncRefuse(p) \/ SyncIndex(p) \/ SyncDies(p)
    BY <2>2, SyncStops
  <2>3. ASSUME Busy(p), sync'[p].lock = sync[p].lock PROVE sync'[p].lock[s] = locked[s]
    <3>1. \E f \in Files : TRUE
      BY ByteFacts, RuleFileType
    <3> QED BY <2>3, <3>1 DEF Pinned
  <2>4. CASE SyncFetch(p)
    <3>1. \E data \in Archives(sync[p].lock[Source(p)]) :
            sync' = [sync EXCEPT ![p].pc = "extract",
                      ![p].want = manifest[Source(p)], ![p].data = data]
      BY <2>4, Fetched
    <3>2. sync'[p].lock = sync[p].lock
      BY <1>s, <3>1 DEF SyncType
    <3>3. sync[p].pc = "fetch"
      BY <2>4 DEF SyncFetch
    <3> QED BY <2>3, <3>2, <3>3 DEF Busy
  <2>5. CASE SyncRename(p)
    BY <1>s, <2>3, <2>5 DEF SyncRename, SyncType, Busy
  <2>6. CASE SyncRemove(p)
    <3>1. PICK pc \in {"rename", "remove"} : sync' = [sync EXCEPT ![p].pc = pc]
      BY <2>6 DEF SyncRemove
    <3>2. sync'[p].lock = sync[p].lock
      BY <1>s, <3>1 DEF SyncType
    <3>3. sync[p].pc \in {"extract", "remove"}
      BY <2>6 DEF SyncRemove
    <3> QED BY <2>3, <3>2, <3>3 DEF Busy
  <2>7. CASE \E f \in Files : SyncExtract(p, f)
    BY <2>3, <2>7 DEF SyncExtract, Busy
  <2> QED BY <2>1, <2>2, <2>4, <2>5, <2>6, <2>7
<1>l. \A r \in Syncers, f \in Files : (Busy(r))' => sync'[r].lock[s] = locked[s]
  BY <1>o, <1>p DEF Pinned, Busy
<1>f. ASSUME NEW f \in Files PROVE dir'[s][f] \in {Missing, locked[s]}
  <2>0. dir[s][f] \in {Missing, locked[s]}
    BY DEF Pinned
  <2>1. CASE \/ SyncBegin(p) \/ SyncFetch(p) \/ SyncRefuse(p) \/ SyncIndex(p) \/ SyncDies(p)
             \/ \E g \in Files : SyncExtract(p, g)
    <3>1. UNCHANGED dir
      BY <2>1 DEF SyncBegin, SyncFetch, SyncRefuse, SyncIndex, SyncDies, SyncExtract
    <3> QED BY <2>0, <3>1
  <2>2. CASE SyncRemove(p)
    <3>1. PICK g \in Files : dir' = [dir EXCEPT ![Source(p)][g] = Missing]
      BY <2>2 DEF SyncRemove
    <3>2. dir'[s][f] \in {dir[s][f], Missing}
      BY <1>a, <1>d, <3>1 DEF Dir
    <3> QED BY <2>0, <3>2
  <2>3. CASE SyncRename(p)
    <3>1. sync[p].pc = "rename" /\ dir' = [dir EXCEPT ![Source(p)] = staging[Source(p)]]
      BY <2>3 DEF SyncRename
    <3>2. staging[Source(p)] = Whole(sync[p].lock[Source(p)])
      BY <3>1 DEF SyncFollows, Busy
    <3>3. sync[p].lock[s] = locked[s]
      BY <3>1 DEF Pinned, Busy
    <3>4. CASE s = Source(p)
      BY <1>a, <1>d, <3>1, <3>2, <3>3, <3>4 DEF Whole
    <3>5. CASE s # Source(p)
      BY <1>a, <1>d, <2>0, <3>1, <3>5
    <3> QED BY <3>4, <3>5
  <2> QED BY <2>1, <2>2, <2>3
<1> QED BY <1>f, <1>l, <1>u DEF Pinned


\* A source that passes the verification is what the lock pins: its manifest
\* may be newer than the lock, but nothing installed is.
LEMMA VerifiedIsPinned ==
  ASSUME Types, LockFollows, \A p \in Syncers : SyncFollows(p),
         NEW s \in Sources, dir[s] = Whole(manifest[s])
  PROVE  Pinned(s, locked[s])
<1>t. locked \in [Sources -> Versions] /\ manifest \in [Sources -> Versions]
  BY DEF Types
<1>n. locked[s] \in Nat /\ manifest[s] \in Nat
  BY <1>t, ByteFacts
<1>1. \A f \in Files : dir[s][f] = manifest[s]
  BY DEF Whole
<1>2. locked[s] <= manifest[s] /\ \A f \in Files : dir[s][f] <= locked[s]
  BY DEF LockFollows
<1>3. PICK g \in Files : TRUE
  BY ByteFacts, RuleFileType
<1>4. manifest[s] = locked[s]
  <2>1. dir[s][g] = manifest[s] /\ dir[s][g] <= locked[s]
    BY <1>1, <1>2
  <2> QED BY <2>1, <1>2, <1>n
<1>5. ASSUME NEW p \in Syncers, Busy(p) PROVE sync[p].lock[s] = locked[s]
  <2>1. /\ sync[p].lock \in [Sources -> Versions] /\ sync[p].lock[s] <= locked[s]
        /\ dir[s][g] <= sync[p].lock[s]
    BY <1>5 DEF SyncFollows
  <2>2. sync[p].lock[s] \in Nat
    BY <2>1, ByteFacts
  <2>3. locked[s] <= sync[p].lock[s]
    BY <1>1, <1>4, <2>1
  <2> QED BY <2>1, <2>2, <2>3, <1>n
<1> QED BY <1>1, <1>4, <1>5 DEF Pinned

\* A scanner leaves what the others have pinned.
LEMMA ScanElsewhere ==
  ASSUME NEW q \in Scanners, ScanPinned(q), NoScan, scan'[q] = scan[q]
  PROVE  ScanPinned(q)'
BY DEF ScanPinned, Verified, Pinned, Busy, NoScan

\* A scan verifies the sources it uses, then reads them.
LEMMA ScanSteps ==
  ASSUME Types, LockFollows, \A p \in Syncers : SyncFollows(p),
         NEW q \in Scanners, ScanPinned(q),
         \/ \E used \in SUBSET Sources : ScanBegin(q, used)
         \/ \E s \in scan[q].todo : ScanVerify(q, s) \/ ScanLoad(q, s)
         \/ ScanRefuse(q) \/ ScanLink(q) \/ ScanEnd(q)
  PROVE  ScanPinned(q)'
<1>s. scan \in [Scanners -> ScanType]
  BY DEF Types
<1>u. NoScan
  BY DEF ScanBegin, ScanVerify, ScanLoad, ScanRefuse, ScanLink, ScanEnd
<1>k. ASSUME NEW s PROVE Pinned(s, locked[s])' = Pinned(s, locked[s])
  BY <1>u DEF NoScan, Pinned, Busy
<1>0. ASSUME scan'[q].pc # "idle", refresh = None, scan'[q].lock = locked,
             scan'[q].todo \subseteq scan'[q].used,
             \A s \in Verified(q)' : Pinned(s, locked[s]),
             scan'[q].loaded \in [Sources -> Dir],
             \A s \in scan'[q].used, f \in Files : scan'[q].loaded[s][f] \in {Missing, locked[s]}
      PROVE  ScanPinned(q)'
  BY <1>0, <1>k, <1>u DEF ScanPinned, NoScan
<1>b. ASSUME scan[q].pc # "idle"
      PROVE  /\ refresh = None /\ scan[q].lock = locked /\ scan[q].todo \subseteq scan[q].used
             /\ \A s \in Verified(q) : Pinned(s, locked[s])
             /\ scan[q].loaded \in [Sources -> Dir]
             /\ \A s \in scan[q].used, f \in Files :
                  scan[q].loaded[s][f] \in {Missing, locked[s]}
             /\ scan[q].used \subseteq Sources
  <2>1. scan[q].used \in SUBSET Sources
    BY <1>s DEF ScanType
  <2> QED BY <1>b, <2>1 DEF ScanPinned
<1>1. ASSUME NEW used \in SUBSET Sources, ScanBegin(q, used) PROVE ScanPinned(q)'
  <2>1. /\ scan'[q].pc = "verify" /\ scan'[q].lock = locked /\ scan'[q].todo = used
        /\ scan'[q].used = used /\ scan'[q].loaded = [s \in Sources |-> Absent]
    BY <1>s, <1>1 DEF ScanBegin
  <2>2. refresh = None
    BY <1>1 DEF ScanBegin
  <2>3. Verified(q)' = {}
    BY <2>1 DEF Verified
  <2>4. scan'[q].loaded \in [Sources -> Dir]
    BY <2>1, DirFacts
  <2>5. \A s \in used, f \in Files : scan'[q].loaded[s][f] = Missing
    BY <2>1 DEF Absent
  <2> QED BY <1>0, <2>1, <2>2, <2>3, <2>4, <2>5
<1>2. ASSUME NEW s \in scan[q].todo, ScanVerify(q, s) PROVE ScanPinned(q)'
  <2>1. /\ scan[q].pc = "verify" /\ dir[s] = Whole(manifest[s])
        /\ scan' = [scan EXCEPT ![q].todo = @ \ {s}]
    BY <1>2 DEF ScanVerify
  <2>2. /\ scan'[q].pc = "verify" /\ scan'[q].lock = scan[q].lock
        /\ scan'[q].todo = scan[q].todo \ {s}
        /\ scan'[q].used = scan[q].used /\ scan'[q].loaded = scan[q].loaded
    BY <1>s, <2>1 DEF ScanType
  <2>3. s \in Sources
    BY <1>b, <2>1
  <2>4. Pinned(s, locked[s])
    BY <2>1, <2>3, VerifiedIsPinned
  <2>5. Verified(q)' \subseteq Verified(q) \cup {s}
    BY <2>1, <2>2 DEF Verified
  <2> QED BY <1>0, <1>b, <2>1, <2>2, <2>4, <2>5
<1>3. ASSUME NEW s \in scan[q].todo, ScanLoad(q, s) PROVE ScanPinned(q)'
  <2>1. /\ scan[q].pc = "load"
        /\ scan' = [scan EXCEPT ![q].todo = @ \ {s}, ![q].loaded[s] = dir[s]]
    BY <1>3 DEF ScanLoad
  <2>2. /\ scan'[q].pc = "load" /\ scan'[q].lock = scan[q].lock
        /\ scan'[q].todo = scan[q].todo \ {s} /\ scan'[q].used = scan[q].used
        /\ scan'[q].loaded = [scan[q].loaded EXCEPT ![s] = dir[s]]
    BY <1>s, <2>1 DEF ScanType
  <2>3. s \in scan[q].used /\ s \in Sources
    BY <1>b, <2>1
  <2>4. Verified(q)' = scan[q].used /\ Verified(q) = scan[q].used
    BY <2>1, <2>2 DEF Verified
  <2>5. dir[s] \in Dir /\ \A f \in Files : dir[s][f] \in {Missing, locked[s]}
    BY <1>b, <2>1, <2>3, <2>4 DEF Pinned, Types
  <2>6. scan'[q].loaded \in [Sources -> Dir]
    <3>1. scan[q].loaded \in [Sources -> Dir]
      BY <1>b, <2>1
    <3> QED BY <3>1, <2>2, <2>5
  <2>7. \A r \in scan[q].used, f \in Files : scan'[q].loaded[r][f] \in {Missing, locked[r]}
    <3>1. ASSUME NEW r \in scan[q].used, NEW f \in Files
          PROVE  scan'[q].loaded[r][f] \in {Missing, locked[r]}
      <4>1. CASE r = s
        BY <1>b, <2>1, <2>2, <2>3, <2>5, <4>1
      <4>2. CASE r # s
        BY <1>b, <2>1, <2>2, <4>2
      <4> QED BY <4>1, <4>2
    <3> QED BY <3>1
  <2>8. \A r \in Verified(q)' : Pinned(r, locked[r])
    BY <1>b, <2>1, <2>4
  <2>9. refresh = None /\ scan'[q].lock = locked /\ scan'[q].todo \subseteq scan'[q].used
    BY <1>b, <2>1, <2>2
  <2> QED BY <1>0, <2>2, <2>6, <2>7, <2>8, <2>9
<1>4. CASE ScanRefuse(q) \/ ScanEnd(q)
  <2>1. scan'[q].pc = "idle"
    BY <1>s, <1>4, IdleFacts DEF ScanRefuse, ScanEnd
  <2> QED BY <2>1 DEF ScanPinned
<1>5. CASE ScanLink(q)
  <2>1. PICK todo \in SUBSET scan[q].used :
          scan' = [scan EXCEPT ![q].pc = "load", ![q].todo = todo]
    BY <1>5 DEF ScanLink
  <2>2. /\ scan'[q].pc = "load" /\ scan'[q].lock = scan[q].lock /\ scan'[q].todo = todo
        /\ scan'[q].used = scan[q].used /\ scan'[q].loaded = scan[q].loaded
    BY <1>s, <2>1 DEF ScanType
  <2>3. scan[q].pc = "verify" /\ scan[q].todo = {}
    BY <1>5 DEF ScanLink
  <2>4. Verified(q)' = Verified(q)
    BY <2>2, <2>3 DEF Verified
  <2> QED BY <1>0, <1>b, <2>2, <2>3, <2>4
<1> QED BY <1>1, <1>2, <1>3, <1>4, <1>5

(***************************************************************************)
(* The theorems.                                                           *)
(***************************************************************************)
\* The store is empty when the rules have never been synced.
LEMMA InitInv == ASSUME Init PROVE Inv
<1>1. locked \in [Sources -> Versions] /\ manifest = locked /\ \A s \in Sources : locked[s] = 1
  BY ByteFacts DEF Init
<1>2. \A s \in Sources, f \in Files : dir[s][f] = Missing
  BY DEF Init, Absent
<1>3. Types
  BY <1>1, DirFacts, ByteFacts, IdleFacts DEF Init, Types
<1>4. LockFollows
  BY <1>1, <1>2 DEF Init, LockFollows, Missing
<1>5. \A p \in Syncers : SyncFollows(p)
  BY IdleFacts DEF Init, SyncFollows, Busy
<1>6. \A q \in Scanners : ScanPinned(q)
  BY IdleFacts DEF Init, ScanPinned
<1> QED BY <1>3, <1>4, <1>5, <1>6 DEF Inv

\* Every step keeps the invariant.
LEMMA NextInv == ASSUME OneSyncer, Inv, [Next]_vars PROVE Inv'
<1>0. Types /\ LockFollows /\ (\A p \in Syncers : SyncFollows(p)) /\ \A q \in Scanners : ScanPinned(q)
  BY DEF Inv
<1>1. CASE Publish \/ RefreshBegin \/ RefreshSource \/ RefreshLock \/ RefreshFails
  <2>1. Types' /\ LockFollows'
    BY <1>0, <1>1, TypeRefresh, LockRefresh
  <2>2. ASSUME NEW p \in Syncers PROVE SyncFollows(p)'
    <3>1. UNCHANGED <<dir, staging, sync>> /\ (locked' = locked \/ locked' = manifest)
      BY <1>1 DEF Publish, RefreshBegin, RefreshSource, RefreshLock, RefreshFails
    <3> QED BY <1>0, <3>1, SyncElsewhere
  <2>3. \A q \in Scanners : ScanPinned(q)'
    BY <1>0, <1>1, ScanRefreshed
  <2> QED BY <2>1, <2>2, <2>3 DEF Inv
<1>2. ASSUME NEW p \in Syncers,
             \/ SyncBegin(p) \/ SyncFetch(p) \/ SyncRefuse(p) \/ SyncRemove(p)
             \/ SyncRename(p) \/ SyncIndex(p) \/ SyncDies(p)
             \/ \E f \in Files : SyncExtract(p, f)
      PROVE  Inv'
  <2>1. Types' /\ LockFollows'
    BY <1>0, <1>2, TypeSync, LockSync
  <2>2. SyncFollows(p)'
    BY <1>0, <1>2, SyncSteps
  <2>3. \A r \in Syncers : SyncFollows(r)'
    BY <2>2 DEF OneSyncer
  <2>4. \A q \in Scanners : ScanPinned(q)'
    BY <1>0, <1>2, ScanSynced
  <2> QED BY <2>1, <2>3, <2>4 DEF Inv
<1>3. ASSUME NEW r \in Scanners,
             \/ \E used \in SUBSET Sources : ScanBegin(r, used)
             \/ \E s \in scan[r].todo : ScanVerify(r, s) \/ ScanLoad(r, s)
             \/ ScanRefuse(r) \/ ScanLink(r) \/ ScanEnd(r)
      PROVE  Inv'
  <2>0. NoScan
    BY <1>3 DEF ScanBegin, ScanVerify, ScanLoad, ScanRefuse, ScanLink, ScanEnd
  <2>1. Types'
    BY <1>0, <1>3, TypeScan
  <2>2. LockFollows'
    BY <1>0, <2>0 DEF LockFollows, NoScan
  <2>3. \A p \in Syncers : SyncFollows(p)'
    BY <1>0, <2>0, SyncElsewhere DEF NoScan
  <2>4. ASSUME NEW q \in Scanners, q # r PROVE scan'[q] = scan[q]
    <3>1. scan \in [Scanners -> ScanType]
      BY <1>0 DEF Types
    <3> QED BY <1>3, <2>4, <3>1
          DEF ScanBegin, ScanVerify, ScanLoad, ScanRefuse, ScanLink, ScanEnd
  <2>5. ScanPinned(r)'
    BY <1>0, <1>3, ScanSteps
  <2>6. \A q \in Scanners : ScanPinned(q)'
    BY <1>0, <2>0, <2>4, <2>5, ScanElsewhere
  <2> QED BY <2>1, <2>2, <2>3, <2>6 DEF Inv
<1>4. CASE UNCHANGED vars
  <2>1. Types' /\ LockFollows'
    BY <1>0, <1>4 DEF vars, Types, LockFollows
  <2>2. \A p \in Syncers : SyncFollows(p)'
    BY <1>0, <1>4, SyncElsewhere DEF vars
  <2>3. \A q \in Scanners : ScanPinned(q)'
    BY <1>0, <1>4, ScanElsewhere DEF vars, NoScan
  <2> QED BY <2>1, <2>2, <2>3 DEF Inv
<1> QED BY <1>1, <1>2, <1>3, <1>4 DEF Next

\* With one process that syncs, the invariant holds, whatever dies and whenever
\* a maintainer refreshes the lock.
THEOREM InvHolds == ASSUME OneSyncer PROVE Spec => []Inv
BY InitInv, NextInv, PTL DEF Spec

\* verify.py:60 "Refuse to scan with rules that differ from the lock": a scan
\* never reads bytes that the lock of its record does not pin.
THEOREM ScanReadsWhatIsPinned == ASSUME OneSyncer PROVE Spec => []ScanLoadsPinned
<1>1. Inv => ScanLoadsPinned
  BY DEF Inv, ScanPinned, ScanLoadsPinned
<1> QED BY <1>1, InvHolds, PTL

\* A step that ends a sync finds every source as the sync's lock pins it.
LEMMA EndIsIntact ==
  ASSUME Inv, [Next]_vars, OneSyncer, NEW p \in Syncers, sync[p].pc # "done", sync'[p].pc = "done",
         NEW s \in Sources
  PROVE  dir[s] = Whole(sync[p].lock[s]) /\ index'[s] = RuleIn(dir[s])
<1>s. sync \in [Syncers -> SyncType]
  BY DEF Inv, Types
<1>1. SyncIndex(p)
  <2>1. sync' # sync
    OBVIOUS
  <2>2. CASE \E r \in Syncers :
               \/ SyncBegin(r) \/ SyncFetch(r) \/ SyncRefuse(r) \/ SyncRemove(r)
               \/ SyncRename(r) \/ SyncIndex(r) \/ SyncDies(r)
               \/ \E f \in Files : SyncExtract(r, f)
    <3>1. \/ SyncBegin(p) \/ SyncFetch(p) \/ SyncRefuse(p) \/ SyncRemove(p)
          \/ SyncRename(p) \/ SyncIndex(p) \/ SyncDies(p)
          \/ \E f \in Files : SyncExtract(p, f)
      BY <2>2 DEF OneSyncer
    <3>2. CASE SyncBegin(p)
      BY <1>s, <3>2 DEF SyncBegin
    <3>3. CASE SyncFetch(p)
      <4>1. \E data \in Archives(sync[p].lock[Source(p)]) :
              sync' = [sync EXCEPT ![p].pc = "extract",
                        ![p].want = manifest[Source(p)], ![p].data = data]
        BY <3>3, Fetched
      <4>2. sync'[p].pc = "extract"
        BY <1>s, <4>1 DEF SyncType
      <4> QED BY <4>2
    <3>4. CASE SyncRefuse(p) \/ SyncDies(p)
      BY <1>s, <3>4, IdleFacts DEF SyncRefuse, SyncDies
    <3>5. CASE SyncRemove(p)
      <4>1. PICK pc \in {"rename", "remove"} : sync' = [sync EXCEPT ![p].pc = pc]
        BY <3>5 DEF SyncRemove
      <4>2. sync'[p].pc = pc
        BY <1>s, <4>1 DEF SyncType
      <4> QED BY <4>2
    <3>6. CASE SyncRename(p)
      BY <1>s, <3>6 DEF SyncRename, SyncType
    <3>7. CASE \E f \in Files : SyncExtract(p, f)
      BY <2>1, <3>7 DEF SyncExtract
    <3> QED BY <3>1, <3>2, <3>3, <3>4, <3>5, <3>6, <3>7
  <2>3. CASE Publish \/ RefreshBegin \/ RefreshSource \/ RefreshLock \/ RefreshFails \/ UNCHANGED vars
    BY <2>1, <2>3 DEF Publish, RefreshBegin, RefreshSource, RefreshLock, RefreshFails, vars
  <2>4. CASE \E q \in Scanners :
               \/ \E used \in SUBSET Sources : ScanBegin(q, used)
               \/ \E r \in scan[q].todo : ScanVerify(q, r) \/ ScanLoad(q, r)
               \/ ScanRefuse(q) \/ ScanLink(q) \/ ScanEnd(q)
    BY <2>1, <2>4
       DEF ScanBegin, ScanVerify, ScanLoad, ScanRefuse, ScanLink, ScanEnd, NoScan
  <2> QED BY <2>2, <2>3, <2>4 DEF Next
<1>2. /\ sync[p].pc = "fetch" /\ sync[p].at > Len(SourceList)
      /\ index' = [r \in Sources |-> RuleIn(dir[r])]
  BY <1>1 DEF SyncIndex
<1>3. PICK i \in DOMAIN SourceList : s = SourceList[i]
  BY DEF Sources
<1>4. SyncFollows(p) /\ Busy(p)
  BY <1>2 DEF Inv, Busy
<1>5. sync[p].at \in Nat /\ i \in Nat /\ 1 <= i /\ i <= Len(SourceList) /\ Len(SourceList) \in Nat
  BY <1>3, <1>4, SourcesListed DEF SyncFollows
<1>6. i \in 1..(sync[p].at - 1)
  BY <1>2, <1>5
<1>7. dir[s] = Whole(sync[p].lock[s])
  BY <1>2, <1>3, <1>4, <1>6 DEF SyncFollows
<1> QED BY <1>2, <1>7

\* sync.py:11 "Any mismatch aborts the sync": a sync that ends leaves each source
\* as pinned by the lock it followed, and an index that finds the rule there.
THEOREM SyncLeavesWhatIsPinned == ASSUME OneSyncer PROVE Spec => SyncedIsIntact
<1>1. Inv /\ [Next]_vars =>
        [\A p \in Syncers :
           sync[p].pc # "done" /\ sync'[p].pc = "done" =>
             \A s \in Sources :
               /\ dir[s] = Whole(sync[p].lock[s])
               /\ index'[s] = RuleIn(dir[s])]_vars
  BY EndIsIntact
<1> QED BY <1>1, InvHolds, PTL DEF Spec, SyncedIsIntact

(***************************************************************************)
(* The containers                                                          *)
(***************************************************************************)
Processes == Callers \cup Keepers

(***************************************************************************)
(* The invariant                                                           *)
(***************************************************************************)
Shaped(c) == c = [id |-> c.id, status |-> c.status, managed |-> c.managed,
                  asked |-> c.asked, mounts |-> c.mounts]

BoxOK ==
    /\ created \in Nat
    /\ box = [n \in Names |-> box[n]]
    /\ call = [p \in Processes |-> call[p]]

(* The identity tells whether DEFAIR created the container.                *)
Identified(c) == c # Nothing => Shaped(c) /\ (c.managed <=> c.id # Foreign)
IdentityOK == \A n \in Names : Identified(box[n])

(* A process never holds the identity of a container of somebody else,     *)
(* however long ago it asked docker for it.                                *)
HeldOK == \A p \in Processes :
    /\ call[p].pc \in {"resolved", "parsing", "acting"} => call[p].id # Foreign
    /\ call[p].pc = "started" => call[p].name \in Names

(* A call is on its way with its line and the options that were given.     *)
Sent(c) == c = [pc |-> c.pc, name |-> c.name, id |-> c.id, line |-> c.line, given |-> c.given]
LinesOK == \A p \in Processes : InCall(p) => Sent(call[p])

SessionsInv == BoxOK /\ IdentityOK /\ HeldOK /\ LinesOK

(***************************************************************************)
(* What the operators return                                               *)
(***************************************************************************)
(* The name that _resolve_container returns is that of a container with    *)
(* the label, which therefore has an identity of its own.                  *)
LEMMA Resolved ==
    ASSUME IdentityOK, NEW n \in Names, Resolve(n) # Nothing
    PROVE  Resolve(n) \in Names /\ box[Resolve(n)].id # Foreign
<1> DEFINE m == First(n, {k \in Tries(n) : Present(k)})
<1>1. m # Nothing /\ box[m].managed /\ Resolve(n) = m
    BY DEF Resolve
<1>2. m \in Names /\ Present(m)
    BY <1>1, SessionAssumption DEF First, Tries
<1> QED BY <1>1, <1>2 DEF IdentityOK, Identified, Present

(* An exec is given to a container of DEFAIR.                              *)
LEMMA ExecHolds ==
    ASSUME IdentityOK, NEW p \in Processes, NEW line, NEW given, Exec(p, line, given)
    PROVE  \E c : /\ call' = [call EXCEPT ![p] = c]
                  /\ c.pc = "resolved" /\ c.id # Foreign
                  /\ Sent(c)
<1>1. PICK n \in Names, l \in Dashes(line) :
          LET m == Resolve(n)
          IN  /\ m # Nothing /\ Running(m)
              /\ Go(p, [pc |-> "resolved", name |-> m, id |-> box[m].id, line |-> l, given |-> given])
    BY DEF Exec
<1>2. box[Resolve(n)].id # Foreign
    BY <1>1, Resolved
<1> WITNESS [pc |-> "resolved", name |-> Resolve(n), id |-> box[Resolve(n)].id, line |-> l,
             given |-> given]
<1> QED BY <1>1, <1>2 DEF Go, Sent

(* What docker still knows under an identity that a process was given is a *)
(* container of DEFAIR, whatever was removed, renamed or created since.    *)
LEMMA HeldIsManaged ==
    ASSUME SessionsInv, NEW p \in Processes, call[p].pc \in {"resolved", "parsing", "acting"},
           NEW n \in Held(call[p])
    PROVE  n \in Names /\ Present(n) /\ box[n].managed /\ box[n].id # Foreign
BY DEF SessionsInv, IdentityOK, Identified, HeldOK, Held, Present

LEMMA SentOn ==
    ASSUME NEW d, Sent(d), NEW i
    PROVE  [d EXCEPT !.pc = "parsing", !.id = i] =
               [pc |-> "parsing", name |-> d.name, id |-> i, line |-> d.line, given |-> d.given]
<1> DEFINE a == d.pc  b == d.name  e == d.id  f == d.line  g == d.given
<1>1. d = [pc |-> a, name |-> b, id |-> e, line |-> f, given |-> g]
    BY DEF Sent
<1> HIDE DEF a, b, e, f, g
<1> DEFINE r == [d EXCEPT !.pc = "parsing"]
<1>2. r = [pc |-> "parsing", name |-> b, id |-> e, line |-> f, given |-> g]
    BY <1>1
<1>3. [d EXCEPT !.pc = "parsing", !.id = i] = [r EXCEPT !.id = i]
    BY <1>1
<1> HIDE DEF r
<1>4. [r EXCEPT !.id = i] = [pc |-> "parsing", name |-> b, id |-> i, line |-> f, given |-> g]
    BY <1>2
<1> QED BY <1>3, <1>4 DEF b, f, g

LEMMA StrangersFacts ==
    ASSUME NEW c \in Strangers PROVE Shaped(c) /\ c.managed = FALSE /\ c.id = Foreign
<1>1. c \in [id : {Foreign}, status : {"running", "exited"}, managed : {FALSE},
             asked : {{}}, mounts : {{}}]
    BY DEF Strangers
<1> QED BY <1>1 DEF Shaped

(***************************************************************************)
(* Steps                                                                   *)
(***************************************************************************)
(* A process goes on without touching the containers.                      *)
LEMMA GoKeeps ==
    ASSUME SessionsInv, NEW p \in Processes, NEW c, call' = [call EXCEPT ![p] = c],
           c.pc \in {"resolved", "parsing", "acting"} => c.id # Foreign,
           c.pc = "started" => c.name \in Names,
           c.pc \in {"resolved", "parsing"} => Sent(c)
    PROVE  (call = [q \in Processes |-> call[q]])' /\ HeldOK' /\ LinesOK'
<1>1. call'[p] = c /\ \A q \in Processes : q # p => call'[q] = call[q]
    BY DEF SessionsInv, BoxOK
<1>2. (call = [q \in Processes |-> call[q]])'
    BY DEF SessionsInv, BoxOK
<1>3. HeldOK' /\ LinesOK'
    BY <1>1 DEF SessionsInv, HeldOK, LinesOK, InCall
<1> QED BY <1>2, <1>3

LEMMA BoxKeeps ==
    ASSUME SessionsInv, UNCHANGED <<box, created>>
    PROVE  created' \in Nat /\ (box = [n \in Names |-> box[n]])' /\ IdentityOK'
BY DEF SessionsInv, BoxOK, IdentityOK

(* One container is set.                                                   *)
LEMMA SetKeeps ==
    ASSUME SessionsInv, NEW n \in Names, NEW c, box' = [box EXCEPT ![n] = c], Identified(c)
    PROVE  (box = [k \in Names |-> box[k]])' /\ IdentityOK'
<1>1. box'[n] = c /\ \A k \in Names : k # n => box'[k] = box[k]
    BY DEF SessionsInv, BoxOK
<1>2. (box = [k \in Names |-> box[k]])'
    BY DEF SessionsInv, BoxOK
<1> QED BY <1>1, <1>2 DEF SessionsInv, IdentityOK

LEMMA StatusKeeps ==
    ASSUME SessionsInv, NEW n \in Names, Present(n), NEW s, Status(n, s)
    PROVE  (box = [k \in Names |-> box[k]])' /\ IdentityOK'
<1>1. box' = [box EXCEPT ![n] = [box[n] EXCEPT !.status = s]]
    BY DEF Status, SessionsInv, BoxOK
<1>2. Shaped(box[n]) /\ (box[n].managed <=> box[n].id # Foreign)
    BY DEF SessionsInv, IdentityOK, Identified, Present
<1>3. Identified([box[n] EXCEPT !.status = s])
    BY <1>2 DEF Identified, Shaped
<1> QED BY <1>1, <1>3, SetKeeps

LEMMA StepCaller == ASSUME SessionsInv, NEW p \in Callers, CallerNext(p) PROVE SessionsInv'
<1> USE DEF Processes
<1>1. UNCHANGED <<box, created>>
    BY DEF CallerNext, CallTool, TypeCommand, ExecRun, OpenShell, DockerExec, Finish
<1>2. SUFFICES (call = [q \in Processes |-> call[q]])' /\ HeldOK' /\ LinesOK'
    BY <1>1, BoxKeeps DEF SessionsInv, BoxOK
<1>3. ASSUME NEW line, NEW given, Exec(p, line, given)
      PROVE  (call = [q \in Processes |-> call[q]])' /\ HeldOK' /\ LinesOK'
    BY <1>3, ExecHolds, GoKeeps DEF SessionsInv
<1>4. CASE CallTool(p)
    BY <1>3, <1>4 DEF CallTool
<1>5. CASE TypeCommand(p)
    BY <1>3, <1>5 DEF TypeCommand
<1>6. CASE ExecRun(p)
    <2>1. call[p].pc = "resolved" /\ Sent(call[p])
        BY <1>6 DEF ExecRun, SessionsInv, LinesOK, InCall
    <2>2. CASE call' = [call EXCEPT ![p] = Idle]
        BY <2>2, GoKeeps DEF Idle
    <2>3. ASSUME NEW n \in Held(call[p]),
                 call' = [call EXCEPT ![p] = [call[p] EXCEPT !.pc = "parsing", !.id = box[n].id]]
          PROVE  (call = [q \in Processes |-> call[q]])' /\ HeldOK' /\ LinesOK'
        <3> DEFINE c == [call[p] EXCEPT !.pc = "parsing", !.id = box[n].id]
        <3>1. c = [pc |-> "parsing", name |-> call[p].name, id |-> box[n].id, line |-> call[p].line,
                   given |-> call[p].given]
            BY <2>1, SentOn
        <3>2. box[n].id # Foreign
            BY <2>1, HeldIsManaged
        <3>3. call' = [call EXCEPT ![p] = c]
            BY <2>3
        <3> HIDE DEF c
        <3>4. c.pc = "parsing" /\ c.id = box[n].id /\ Sent(c)
            BY <3>1 DEF Sent
        <3> QED BY <3>2, <3>3, <3>4, GoKeeps
    <2> QED BY <1>6, <2>2, <2>3 DEF ExecRun, Go, Answer
<1>7. CASE OpenShell(p) \/ DockerExec(p) \/ Finish(p)
    <2>1. \/ call' = [call EXCEPT ![p] = Idle]
          \/ \E m : call' = [call EXCEPT ![p] = [pc |-> "opening", name |-> m]]
          \/ \E m, i : call' = [call EXCEPT ![p] = [pc |-> "shell", name |-> m, id |-> i]]
        BY <1>7 DEF OpenShell, DockerExec, Finish, Go, Answer
    <2> QED BY <2>1, GoKeeps DEF Idle
<1> QED BY <1>4, <1>5, <1>6, <1>7 DEF CallerNext

(* A container that is created has an identity of its own.                 *)
LEMMA StepCreate == ASSUME SessionsInv, NEW p \in Keepers, Create(p) PROVE SessionsInv'
<1> USE DEF Processes
<1>1. PICK n, evidence, mounts :
          /\ n \in Names
          /\ box' = [box EXCEPT ![n] = [id |-> created + 1, status |-> "created", managed |-> TRUE,
                                        asked |-> evidence, mounts |-> mounts]]
          /\ call' = [call EXCEPT ![p] = [pc |-> "started", name |-> n]]
    BY DEF Create, Go
<1>2. created' \in Nat /\ created + 1 # Foreign
    BY DEF Create, SessionsInv, BoxOK, Foreign
<1>3. Identified([id |-> created + 1, status |-> "created", managed |-> TRUE,
                  asked |-> evidence, mounts |-> mounts])
    BY <1>2 DEF Identified, Shaped
<1>4. (box = [k \in Names |-> box[k]])' /\ IdentityOK'
    BY <1>1, <1>3, SetKeeps
<1>5. (call = [q \in Processes |-> call[q]])' /\ HeldOK' /\ LinesOK'
    BY <1>1, GoKeeps
<1> QED BY <1>2, <1>4, <1>5 DEF SessionsInv, BoxOK

\* Looking a container up, starting it and acting on it keep the invariant.
LEMMA StepKeeper ==
    ASSUME SessionsInv, NEW p \in Keepers,
           StartCreated(p) \/ NoStart(p) \/ Find(p) \/ Act(p) \/ ActFails(p)
    PROVE  SessionsInv'
<1> USE DEF Processes
<1>1. (call = [q \in Processes |-> call[q]])' /\ HeldOK' /\ LinesOK'
    <2>1. CASE call' = [call EXCEPT ![p] = Idle]
        BY <2>1, GoKeeps DEF Idle
    <2>2. ASSUME NEW n, Resolve(n) # Nothing, n \in Names, NEW op,
                 call' = [call EXCEPT ![p] = [pc |-> "acting", op |-> op, name |-> Resolve(n),
                                              id |-> box[Resolve(n)].id]]
          PROVE  (call = [q \in Processes |-> call[q]])' /\ HeldOK' /\ LinesOK'
        BY <2>2, Resolved, GoKeeps DEF SessionsInv
    <2>3. CASE StartCreated(p)
        <3>1. call[p].name \in Names
            BY <2>3 DEF StartCreated, SessionsInv, HeldOK
        <3> QED BY <2>1, <2>2, <2>3, <3>1 DEF StartCreated, Go, Answer
    <2>4. CASE Find(p)
        BY <2>2, <2>4 DEF Find, Go
    <2> QED BY <2>1, <2>3, <2>4 DEF NoStart, Act, ActFails, Go, Answer
<1>2. created' \in Nat
    BY DEF StartCreated, NoStart, Find, Act, ActFails, SessionsInv, BoxOK
<1>3. (box = [k \in Names |-> box[k]])' /\ IdentityOK'
    <2>1. CASE Act(p)
        <3>1. PICK n \in Held(call[p]) :
                  Status(n, "running") \/ Status(n, "exited") \/ box' = [box EXCEPT ![n] = Nothing]
            BY <2>1 DEF Act
        <3>2. n \in Names /\ Present(n)
            BY DEF Held
        <3>3. Identified(Nothing)
            BY DEF Identified
        <3> QED BY <3>1, <3>2, <3>3, SetKeeps, StatusKeeps
    <2>2. CASE UNCHANGED <<box, created>>
        BY <2>2, BoxKeeps
    <2> QED BY <2>1, <2>2 DEF StartCreated, NoStart, Find, ActFails
<1> QED BY <1>1, <1>2, <1>3 DEF SessionsInv, BoxOK

\* So does whatever the others do with docker, and the end of a container.
LEMMA StepOthers ==
    ASSUME SessionsInv, NEW n \in Names, NEW to \in Names,
           Exits(n) \/ StrangerComes(n) \/ OthersRemove(n) \/ OthersRename(n, to)
    PROVE  SessionsInv'
<1>1. UNCHANGED <<created, call>>
    BY DEF Exits, StrangerComes, OthersRemove, OthersRename
<1>2. (box = [k \in Names |-> box[k]])' /\ IdentityOK'
    <2>1. CASE Exits(n)
        BY <2>1, StatusKeeps DEF Exits, Running
    <2>2. CASE StrangerComes(n)
        <3>1. PICK c \in Strangers : box' = [box EXCEPT ![n] = c]
            BY <2>2 DEF StrangerComes
        <3>2. Shaped(c) /\ c.managed = FALSE /\ c.id = Foreign
            BY StrangersFacts
        <3> QED BY <3>1, <3>2, SetKeeps DEF Identified
    <2>3. CASE OthersRemove(n)
        BY <2>3, SetKeeps DEF OthersRemove, Identified
    <2>4. CASE OthersRename(n, to)
        <3>1. (box = [k \in Names |-> box[k]])'
            BY <2>4 DEF OthersRename, SessionsInv, BoxOK
        <3>2. \A k \in Names : box'[k] = Nothing \/ box'[k] = box[k] \/ box'[k] = box[n]
            BY <2>4 DEF OthersRename, SessionsInv, BoxOK
        <3>3. Identified(Nothing)
            BY DEF Identified
        <3>4. ASSUME NEW k \in Names PROVE Identified(box'[k])
            BY <3>2, <3>3 DEF SessionsInv, IdentityOK
        <3> QED BY <3>1, <3>4 DEF IdentityOK
    <2> QED BY <2>1, <2>2, <2>3, <2>4
<1> QED BY <1>1, <1>2 DEF SessionsInv, BoxOK, HeldOK, LinesOK, InCall

\* The invariant holds before the first call.
LEMMA SessionsInvInit == SessionsInit => SessionsInv
<1> SUFFICES ASSUME SessionsInit PROVE SessionsInv
    OBVIOUS
<1>1. \A c \in Strangers : Shaped(c) /\ c.managed = FALSE /\ c.id = Foreign
    BY StrangersFacts
<1>2. IdentityOK /\ box = [n \in Names |-> box[n]]
    <2>1. box \in [Names -> {Nothing} \cup Strangers]
        BY DEF SessionsInit
    <2>2. \A n \in Names : box[n] = Nothing \/ box[n] \in Strangers
        BY <2>1
    <2> QED BY <1>1, <2>1, <2>2 DEF IdentityOK, Identified
<1>3. \A p \in Processes : call[p].pc = "idle"
    BY DEF SessionsInit, Idle, Processes
<1>4. created \in Nat /\ call = [p \in Processes |-> call[p]]
    BY DEF SessionsInit, Processes
<1> QED BY <1>2, <1>3, <1>4 DEF SessionsInv, BoxOK, HeldOK, LinesOK, InCall

\* Every call keeps the invariant.
LEMMA SessionsInvStep == SessionsInv /\ [SessionsNext]_sessionsVars => SessionsInv'
<1> SUFFICES ASSUME SessionsInv, [SessionsNext]_sessionsVars PROVE SessionsInv'
    OBVIOUS
<1>1. CASE UNCHANGED sessionsVars
    BY <1>1 DEF sessionsVars, SessionsInv, BoxOK, IdentityOK, HeldOK, LinesOK, InCall
<1>2. ASSUME NEW p \in Keepers, KeeperNext(p) PROVE SessionsInv'
    BY <1>2, StepCreate, StepKeeper DEF KeeperNext
<1> QED BY <1>1, <1>2, StepCaller, StepOthers DEF SessionsNext

(* The invariant of the calls: identities and command lines.               *)
THEOREM SessionsInvHolds == SessionsSpec => []SessionsInv
BY SessionsInvInit, SessionsInvStep, PTL DEF SessionsSpec

(***************************************************************************)
(* Promises                                                                *)
(***************************************************************************)
(* No step of a process of DEFAIR changes a container that is not          *)
(* DEFAIR's, nor holds one to run a command in.                            *)
LEMMA ForeignStep ==
    ASSUME SessionsInv, SessionsInv', [SessionsNext]_sessionsVars
    PROVE  /\ call' # call => \A n \in Names : Present(n) /\ ~box[n].managed => box'[n] = box[n]
           /\ \A p \in Callers : call'[p].pc \in {"resolved", "parsing"} => call'[p].id # Foreign
<1> USE DEF Processes
<1>1. \A p \in Callers : call'[p].pc \in {"resolved", "parsing"} => call'[p].id # Foreign
    BY DEF SessionsInv, HeldOK
<1>2. ASSUME NEW n \in Names, Present(n), ~box[n].managed, call' # call PROVE box'[n] = box[n]
    <2>1. ASSUME NEW p \in Callers, CallerNext(p) PROVE box'[n] = box[n]
        BY <2>1 DEF CallerNext, CallTool, TypeCommand, ExecRun, OpenShell, DockerExec, Finish
    <2>2. ASSUME NEW k \in Names, k # n, \E c : box' = [box EXCEPT ![k] = c] PROVE box'[n] = box[n]
        BY <2>2 DEF SessionsInv, BoxOK
    <2>3. ASSUME NEW p \in Keepers, Create(p) PROVE box'[n] = box[n]
        <3>1. PICK k \in Names : ~Present(k) /\ \E c : box' = [box EXCEPT ![k] = c]
            BY <2>3 DEF Create
        <3> QED BY <1>2, <2>2, <3>1
    <2>4. ASSUME NEW p \in Keepers, StartCreated(p) \/ NoStart(p) \/ Find(p) \/ ActFails(p)
          PROVE  box'[n] = box[n]
        BY <2>4 DEF StartCreated, NoStart, Find, ActFails
    <2>5. ASSUME NEW p \in Keepers, Act(p) PROVE box'[n] = box[n]
        <3>1. PICK k \in Held(call[p]) : \E c : box' = [box EXCEPT ![k] = c]
            BY <2>5 DEF Act, Status
        <3>2. call[p].pc = "acting"
            BY <2>5 DEF Act
        <3>3. k \in Names /\ box[k].managed
            BY <3>2, HeldIsManaged
        <3> QED BY <1>2, <2>2, <3>1, <3>3
    <2>6. CASE UNCHANGED call
        BY <1>2, <2>6
    <2> QED BY <2>1, <2>3, <2>4, <2>5, <2>6
        DEF SessionsNext, KeeperNext, Exits, StrangerComes, OthersRemove, OthersRename, sessionsVars
<1> QED BY <1>1, <1>2

(* A container without the DEFAIR label is never started, stopped or       *)
(* removed by DEFAIR, and no exec runs in one, whoever renames, removes    *)
(* and creates containers between the question to docker and the action;   *)
(* container shell is the exception (_resolve_container).                  *)
THEOREM ForeignIsUntouched == SessionsSpec => ForeignUntouched
<1> DEFINE A == /\ call' # call => \A n \in Names : Present(n) /\ ~box[n].managed => box'[n] = box[n]
                /\ \A p \in Callers : call'[p].pc \in {"resolved", "parsing"} => call'[p].id # Foreign
<1>1. SessionsInv /\ [SessionsNext]_sessionsVars => [A]_sessionsVars
    BY SessionsInvStep, ForeignStep
<1> QED BY <1>1, SessionsInvHolds, PTL DEF SessionsSpec, ForeignUntouched

(***************************************************************************)
(* The command lines                                                       *)
(***************************************************************************)
(* A command as the tables make it: what its proxy sends along with the    *)
(* leader is among its options.                                            *)
Declared(c) ==
    /\ c = [words |-> c.words, values |-> c.values, need |-> c.need, may |-> c.may, at |-> c.at,
            drop |-> c.drop, leader |-> c.leader, along |-> c.along, ignore |-> c.ignore]
    /\ c.along \subseteq c.may

LEMMA DeclaredCmd ==
    ASSUME NEW words, NEW values, NEW need, NEW may PROVE Declared(Cmd(words, values, need, may))
BY DEF Declared, Cmd

LEMMA DeclaredExcept ==
    ASSUME NEW c, Declared(c), NEW x
    PROVE  /\ Declared([c EXCEPT !.at = x]) /\ Declared([c EXCEPT !.drop = x])
           /\ Declared([c EXCEPT !.ignore = x])
           /\ Declared([c EXCEPT !.leader = x]) /\ [c EXCEPT !.leader = x].may = c.may
           /\ x \subseteq c.may => Declared([c EXCEPT !.along = x])
<1>1. /\ c = [words |-> c.words, values |-> c.values, need |-> c.need, may |-> c.may, at |-> c.at,
              drop |-> c.drop, leader |-> c.leader, along |-> c.along, ignore |-> c.ignore]
      /\ c.along \subseteq c.may
    BY DEF Declared
<1>2. [c EXCEPT !.at = x] =
          [words |-> c.words, values |-> c.values, need |-> c.need, may |-> c.may, at |-> x,
           drop |-> c.drop, leader |-> c.leader, along |-> c.along, ignore |-> c.ignore]
    BY <1>1
<1>3. [c EXCEPT !.drop = x] =
          [words |-> c.words, values |-> c.values, need |-> c.need, may |-> c.may, at |-> c.at,
           drop |-> x, leader |-> c.leader, along |-> c.along, ignore |-> c.ignore]
    BY <1>1
<1>4. [c EXCEPT !.ignore = x] =
          [words |-> c.words, values |-> c.values, need |-> c.need, may |-> c.may, at |-> c.at,
           drop |-> c.drop, leader |-> c.leader, along |-> c.along, ignore |-> x]
    BY <1>1
<1>5. [c EXCEPT !.leader = x] =
          [words |-> c.words, values |-> c.values, need |-> c.need, may |-> c.may, at |-> c.at,
           drop |-> c.drop, leader |-> x, along |-> c.along, ignore |-> c.ignore]
    BY <1>1
<1>6. [c EXCEPT !.along = x] =
          [words |-> c.words, values |-> c.values, need |-> c.need, may |-> c.may, at |-> c.at,
           drop |-> c.drop, leader |-> c.leader, along |-> x, ignore |-> c.ignore]
    BY <1>1
<1> QED BY <1>1, <1>2, <1>3, <1>4, <1>5, <1>6 DEF Declared

LEMMA DeclaredAll ==
    ASSUME NEW cmds, \A c \in cmds : Declared(c)
    PROVE  /\ \A place : \A c \in At(place, cmds) : Declared(c)
           /\ \A opts : \A c \in Dropping(opts, cmds) \cup Ignoring(opts, cmds) : Declared(c)
           /\ \A option, opts : (\A c \in cmds : opts \subseteq c.may)
                                => \A c \in Along(option, opts, cmds) : Declared(c)
<1>1. ASSUME NEW place, NEW c \in At(place, cmds) PROVE Declared(c)
    BY <1>1, DeclaredExcept DEF At
<1>2. ASSUME NEW opts, NEW c \in Dropping(opts, cmds) \cup Ignoring(opts, cmds) PROVE Declared(c)
    BY <1>2, DeclaredExcept DEF Dropping, Ignoring
<1>3. ASSUME NEW option, NEW opts, \A c \in cmds : opts \subseteq c.may, NEW k \in Along(option, opts, cmds)
      PROVE  Declared(k)
    <2>1. PICK c \in cmds : k = [[c EXCEPT !.leader = option] EXCEPT !.along = opts]
        BY DEF Along
    <2> DEFINE led == [c EXCEPT !.leader = option]
    <2>2. Declared(led) /\ opts \subseteq led.may
        BY <1>3, DeclaredExcept
    <2> HIDE DEF led
    <2>3. Declared([led EXCEPT !.along = opts])
        BY <2>2, DeclaredExcept
    <2> QED BY <2>1, <2>3 DEF led
<1> QED BY <1>1, <1>2, <1>3

LEMMA AllDeclared == \A c \in Commands : Declared(c)
<1>1. \A c \in CasesCli \cup EvidenceCli \cup EvidenceUseCli : Declared(c)
    BY DeclaredCmd DEF CasesCli, EvidenceCli, EvidenceUseCli
<1>2. \A c \in FindingsCli \cup FindingCreateCli \cup HostCli : Declared(c)
    BY DeclaredCmd DEF FindingsCli, FindingCreateCli, HostCli
<1>3. \A c \in NormalizeCli \cup RunCli \cup ScanCli \cup SearchCli : Declared(c)
    BY DeclaredCmd DEF NormalizeCli, RunCli, ScanCli, SearchCli
<1>4. \A c \in TimelineSummaryCli \cup TimelineSearchCli \cup TimelineExportCli : Declared(c)
    BY DeclaredCmd DEF TimelineSummaryCli, TimelineSearchCli, TimelineExportCli
<1>5. \A c \in ToolsCli \cup DiscoverCli \cup RunsCli \cup ArtifactsCli \cup WatchlistCli : Declared(c)
    BY DeclaredCmd DEF ToolsCli, DiscoverCli, RunsCli, ArtifactsCli, WatchlistCli
<1>6. /\ \A c \in ContainersCli : Declared(c)
      /\ \A c \in ContainerUseCli : Declared(c)
    <2>1. \A c \in ContainersCli : Declared(c)
        <3> DEFINE cmds == {
                Cmd("container.create", 0, {}, {"case", "name", "image", "evidence", "workspace", "keys", "no-start"}),
                Cmd("container.list", 0, {}, {"running", "case"}),
                Cmd("container.start", 1, {}, {}),
                Cmd("container.stop", 1, {}, {"timeout"}) }
        <3>1. \A c \in cmds : Declared(c)
            BY DeclaredCmd
        <3>2. ContainersCli = At("host", cmds)
            BY DEF ContainersCli
        <3> HIDE DEF cmds
        <3> QED BY <3>1, <3>2, DeclaredAll
    <2>2. \A c \in ContainerUseCli : Declared(c)
        <3> DEFINE cmds == {
                Cmd("container.remove", 1, {}, {"force", "yes"}),
                Cmd("container.exec", 2, {}, {"workdir"}),
                Cmd("container.shell", 1, {}, {"shell"}),
                Cmd("container.logs", 1, {}, {"tail"}),
                Cmd("container.get", 1, {}, {}) }
        <3>1. \A c \in cmds : Declared(c)
            BY DeclaredCmd
        <3>2. ContainerUseCli = At("host", cmds)
            BY DEF ContainerUseCli
        <3> HIDE DEF cmds
        <3> QED BY <3>1, <3>2, DeclaredAll
    <2> QED BY <2>1, <2>2
<1>7. \A c \in ProfileCli \cup EvtxCli : Declared(c)
    BY DeclaredCmd, DeclaredAll DEF ProfileCli, EvtxCli
<1>8. \A c \in RunUseCli \cup SupertimelineCli : Declared(c)
    BY DeclaredCmd, DeclaredAll DEF RunUseCli, SupertimelineCli
<1>9. \A c \in RulesCli : Declared(c)
    <2> DEFINE there == {
            Cmd("rules.status", 0, {}, {"store", "verify", "json"}),
            Cmd("rules.verify", 0, {}, {"store"}),
            Cmd("rules.conflicts", 0, {}, {"store", "profile"}),
            Cmd("rules.show", 2, {}, {"store"}) }
               here == {
            Cmd("rules.lock", 0, {"refresh"}, {}),
            Cmd("rules.sync", 0, {"dest"}, {}) }
    <2>1. /\ \A c \in there : Declared(c)
          /\ \A c \in here : Declared(c)
        BY DeclaredCmd
    <2>2. RulesCli = Dropping({"store"}, there) \cup At("local", here)
        BY DEF RulesCli
    <2> HIDE DEF there, here
    <2>3. \A c \in Dropping({"store"}, there) : Declared(c)
        BY <2>1, DeclaredAll
    <2>4. \A c \in At("local", here) : Declared(c)
        BY <2>1, DeclaredAll
    <2> QED BY <2>2, <2>3, <2>4
<1>10. \A c \in AnalyzeCli : Declared(c)
    <2> DEFINE cmds == {Cmd("analyze", 2, {"case"}, {"evidence", "output", "directory", "normalize",
                                                     "with-logs", "option", "no_logs"})}
    <2>1. \A c \in cmds : Declared(c)
        BY DeclaredCmd
    <2> HIDE DEF cmds
    <2>2. \A c \in Ignoring({"no_logs"}, cmds) : Declared(c)
        BY <2>1, DeclaredAll
    <2>3. AnalyzeCli = Dropping({"normalize"}, Ignoring({"no_logs"}, cmds))
        BY DEF AnalyzeCli, cmds
    <2> QED BY <2>2, <2>3, DeclaredAll
<1>11. \A c \in HuntCli : Declared(c)
    <2> DEFINE cmds == {Cmd("hunt", 1, {"case"}, {"evidence", "profile", "output", "engine",
                                                  "rule-profile", "min-severity"})}
    <2>1. \A c \in cmds : Declared(c) /\ {"rule-profile", "min-severity"} \subseteq c.may
        <3> DEFINE may == {"evidence", "profile", "output", "engine", "rule-profile", "min-severity"}
        <3>1. {"rule-profile", "min-severity"} \subseteq may
            OBVIOUS
        <3> HIDE DEF may
        <3>2. Cmd("hunt", 1, {"case"}, may).may = may
            BY DEF Cmd
        <3>3. Declared(Cmd("hunt", 1, {"case"}, may))
            BY DeclaredCmd
        <3>4. cmds = {Cmd("hunt", 1, {"case"}, may)}
            BY DEF may
        <3> QED BY <3>1, <3>2, <3>3, <3>4
    <2> HIDE DEF cmds
    <2>2. \A c \in Along("engine", {"rule-profile", "min-severity"}, cmds) : Declared(c)
        BY <2>1, DeclaredAll
    <2> QED BY <2>2 DEF HuntCli, cmds
<1> QED BY <1>1, <1>2, <1>3, <1>4, <1>5, <1>6, <1>7, <1>8, <1>9, <1>10, <1>11 DEF Commands

(* The CLI has a command of these words, values and options.               *)
Offers(words, values, need, may) ==
    \E c \in Commands : c.words = words /\ c.values = values /\ c.need = need /\ c.may = may

LEMMA Offered ==
    ASSUME NEW words, NEW values, NEW need, NEW may,
           LET c == Cmd(words, values, need, may)
           IN  \/ c \in Commands
               \/ \E place : [c EXCEPT !.at = place] \in Commands
               \/ \E opts : [c EXCEPT !.drop = opts] \in Commands
               \/ \E option, opts : [[c EXCEPT !.leader = option] EXCEPT !.along = opts] \in Commands
               \/ \E opts, more : [[c EXCEPT !.ignore = opts] EXCEPT !.drop = more] \in Commands
    PROVE  Offers(words, values, need, may)
<1> DEFINE c == Cmd(words, values, need, may)
<1>1. CASE c \in Commands
    BY <1>1 DEF Offers, Cmd
<1>2. ASSUME NEW place, [c EXCEPT !.at = place] \in Commands PROVE Offers(words, values, need, may)
    BY <1>2 DEF Offers, Cmd
<1>3. ASSUME NEW opts, [c EXCEPT !.drop = opts] \in Commands PROVE Offers(words, values, need, may)
    BY <1>3 DEF Offers, Cmd
<1>4. ASSUME NEW option, NEW opts, [[c EXCEPT !.leader = option] EXCEPT !.along = opts] \in Commands
      PROVE  Offers(words, values, need, may)
    BY <1>4 DEF Offers, Cmd
<1>5. ASSUME NEW opts, NEW more, [[c EXCEPT !.ignore = opts] EXCEPT !.drop = more] \in Commands
      PROVE  Offers(words, values, need, may)
    BY <1>5 DEF Offers, Cmd
<1> QED BY <1>1, <1>2, <1>3, <1>4, <1>5

(* A tool sends what a command of its words requires, and with whatever    *)
(* optional options nothing that it does not know.                         *)
Served(t) ==
    /\ DOMAIN t = {"name", "words", "values", "sent", "may", "checked"}
    /\ \E c \in Commands : /\ c.words = t.words /\ c.values = t.values
                          /\ c.need \subseteq t.sent
                          /\ t.sent \cup t.may \subseteq c.need \cup c.may

LEMMA ToolServed ==
    ASSUME NEW words, NEW values, NEW need, NEW opt, Offers(words, values, need, opt),
           NEW name, NEW sent, NEW may, need \subseteq sent, sent \cup may \subseteq need \cup opt
    PROVE  Served(Tool(name, words, values, sent, may))
<1>1. PICK c \in Commands : c.words = words /\ c.values = values /\ c.need = need /\ c.may = opt
    BY DEF Offers
<1> QED BY <1>1 DEF Served, Tool

LEMMA CheckedServed ==
    ASSUME NEW tools, \A t \in tools : Served(t)
    PROVE  \A t \in Checked(tools) : Served(t)
<1>1. ASSUME NEW t \in tools PROVE Served([t EXCEPT !.checked = TRUE])
    BY DEF Served
<1> QED BY <1>1 DEF Checked

LEMMA AllServed == \A t \in Tools : Served(t)
<1>1. /\ Offers("cases.list", 0, {}, {})
      /\ Offers("case.create", 1, {}, {"description"})
      /\ Offers("case.get", 1, {}, {})
    BY Offered DEF Commands, CasesCli
<1>2. /\ Offers("evidence.add", 2, {}, {"type"})
      /\ Offers("evidence.list", 0, {}, {"case"})
      /\ Offers("evidence.get", 1, {}, {})
    BY Offered DEF Commands, EvidenceCli
<1>3. /\ Offers("evidence.verify", 1, {}, {})
      /\ Offers("evidence.prepare", 1, {}, {"password", "private-key", "passphrase", "force",
                "json"})
    BY Offered DEF Commands, EvidenceUseCli
<1>4. Offers("discover", 1, {}, {"no-recursive"})
    BY Offered DEF Commands, DiscoverCli
<1>5. Offers("evtx.view", 1, {"case"}, {"since", "until", "host", "user", "event-id", "desc",
             "limit", "offset", "json"})
    BY Offered DEF Commands, EvtxCli
<1>6. /\ Offers("findings.list", 0, {"case"}, {"severity", "status", "limit"})
      /\ Offers("findings.get", 1, {}, {"case", "all", "json"})
    BY Offered DEF Commands, FindingsCli
<1>7. Offers("host.profile", 0, {"case"}, {"evidence", "refresh", "json"})
    BY Offered DEF Commands, HostCli
<1>8. Offers("hunt", 1, {"case"}, {"evidence", "profile", "output", "engine", "rule-profile",
             "min-severity"})
    <2> DEFINE c == Cmd("hunt", 1, {"case"}, {"evidence", "profile", "output", "engine", "rule-profile",
                                              "min-severity"})
    <2>1. [[c EXCEPT !.leader = "engine"] EXCEPT !.along = {"rule-profile", "min-severity"}] \in Commands
        BY DEF Commands, HuntCli, Along
    <2> QED BY <2>1, Offered
<1>9. /\ Offers("normalize.replay", 0, {"case"}, {"from-dir"})
      /\ Offers("normalize.rerun", 1, {}, {})
      /\ Offers("normalize.stats", 1, {}, {})
    BY Offered DEF Commands, NormalizeCli
<1>10. Offers("run.start", 0, {"case", "evidence"}, {"profile", "engine", "password",
              "private-key", "passphrase", "wait", "json"})
    BY Offered DEF Commands, RunCli
<1>11. /\ Offers("run.status", 1, {}, {"json"})
       /\ Offers("run.list", 0, {}, {"case", "json"})
       /\ Offers("run.cancel", 1, {}, {"json"})
       /\ Offers("run.resume", 1, {}, {"password", "private-key", "passphrase", "wait", "json"})
    BY Offered DEF Commands, RunUseCli
<1>12. /\ Offers("scan.yara", 1, {"case"}, {"evidence", "profile", "min-severity",
                 "yara-rules-dir", "sigma-rules-dir", "executables-only"})
       /\ Offers("scan.sigma", 1, {"case"}, {"evidence", "profile", "min-severity",
                 "yara-rules-dir", "sigma-rules-dir", "executables-only"})
       /\ Offers("scan.evidence", 1, {"case"}, {"evidence", "profile", "min-severity",
                 "yara-rules-dir", "sigma-rules-dir", "executables-only"})
    BY Offered DEF Commands, ScanCli
<1>13. Offers("search", 1, {"case"}, {"limit"})
    BY Offered DEF Commands, SearchCli
<1>14. Offers("timeline.summary", 0, {"case"}, {})
    BY Offered DEF Commands, TimelineSummaryCli
<1>15. Offers("timeline.search", 0, {"case"}, {"query", "from", "to", "hostname", "username",
              "category", "severity", "tool", "type", "sources", "parser", "limit",
              "offset", "json"})
    BY Offered DEF Commands, TimelineSearchCli
<1>16. Offers("timeline.export", 0, {"case"}, {"format", "output", "sources", "from", "to"})
    BY Offered DEF Commands, TimelineExportCli
<1>17. /\ Offers("tools.list", 0, {}, {"available-only"})
       /\ Offers("tools.health", 0, {}, {})
    BY Offered DEF Commands, ToolsCli
<1>18. Offers("runs.list", 0, {}, {"case"})
    BY Offered DEF Commands, RunsCli
<1>19. /\ Offers("artifacts.list", 0, {}, {"case", "type", "category", "tool", "contains", "host",
                 "user", "severity", "since", "until", "run", "asc", "limit", "offset",
                 "json"})
       /\ Offers("artifacts.get", 1, {}, {"case", "context", "no-raw", "json"})
    BY Offered DEF Commands, ArtifactsCli
<1>20. /\ Offers("watchlist.list", 0, {}, {"json"})
       /\ Offers("watchlist.search", 0, {"case"}, {"watchlist", "term", "scope", "findings",
                 "json"})
    BY Offered DEF Commands, WatchlistCli
<1>21. Offers("analyze", 2, {"case"}, {"evidence", "output", "directory", "normalize", "with-logs",
              "option", "no_logs"})
    <2> DEFINE c == Cmd("analyze", 2, {"case"}, {"evidence", "output", "directory", "normalize",
                                                 "with-logs", "option", "no_logs"})
    <2>1. [[c EXCEPT !.ignore = {"no_logs"}] EXCEPT !.drop = {"normalize"}] \in Commands
        BY DEF Commands, AnalyzeCli, Dropping, Ignoring
    <2> QED BY <2>1, Offered
<1>22. /\ Offers("rules.status", 0, {}, {"store", "verify", "json"})
       /\ Offers("rules.conflicts", 0, {}, {"store", "profile"})
       /\ Offers("rules.show", 2, {}, {"store"})
    <2>1. [Cmd("rules.status", 0, {}, {"store", "verify", "json"}) EXCEPT !.drop = {"store"}] \in Commands
        BY DEF Commands, RulesCli, Dropping
    <2>2. [Cmd("rules.conflicts", 0, {}, {"store", "profile"}) EXCEPT !.drop = {"store"}] \in Commands
        BY DEF Commands, RulesCli, Dropping
    <2>3. [Cmd("rules.show", 2, {}, {"store"}) EXCEPT !.drop = {"store"}] \in Commands
        BY DEF Commands, RulesCli, Dropping
    <2> QED BY <2>1, <2>2, <2>3, Offered
<1>23. /\ Offers("profile.list", 0, {}, {"json"})
       /\ Offers("profile.show", 1, {}, {})
    <2>1. [Cmd("profile.list", 0, {}, {"json"}) EXCEPT !.at = "local"] \in Commands
        BY DEF Commands, ProfileCli, At
    <2>2. [Cmd("profile.show", 1, {}, {}) EXCEPT !.at = "local"] \in Commands
        BY DEF Commands, ProfileCli, At
    <2> QED BY <2>1, <2>2, Offered
<1>24. /\ Offers("supertimeline.prepare", 0, {"case", "evidence"}, {"mode", "parsers", "timezone",
                 "overwrite", "filter", "workers"})
       /\ Offers("supertimeline.import", 1, {}, {"force"})
    <2>1. [Cmd("supertimeline.prepare", 0, {"case", "evidence"}, {"mode", "parsers", "timezone", "overwrite", "filter", "workers"}) EXCEPT !.at = "local"] \in Commands
        BY DEF Commands, SupertimelineCli, At
    <2>2. [Cmd("supertimeline.import", 1, {}, {"force"}) EXCEPT !.at = "local"] \in Commands
        BY DEF Commands, SupertimelineCli, At
    <2> QED BY <2>1, <2>2, Offered
<1>25. \A t \in RunTool : Served(t)
    BY <1>21, ToolServed, CheckedServed DEF RunTool
<1>26. \A t \in CaseTools : Served(t)
    BY <1>1, ToolServed DEF CaseTools
<1>27. \A t \in EvidenceTools : Served(t)
    BY <1>2, <1>3, <1>4, ToolServed DEF EvidenceTools
<1>28. \A t \in MftToPrefetchTools : Served(t)
    BY <1>21, ToolServed DEF MftToPrefetchTools, Analyze
<1>29. \A t \in AmcacheToJumplistTools : Served(t)
    BY <1>21, ToolServed DEF AmcacheToJumplistTools, Analyze
<1>30. \A t \in RecyclebinToSqliteTools : Served(t)
    BY <1>21, ToolServed DEF RecyclebinToSqliteTools, Analyze
<1>31. \A t \in SrumToUalTools : Served(t)
    BY <1>21, ToolServed DEF SrumToUalTools, Analyze
<1>32. \A t \in ArtifactTools : Served(t)
    BY <1>17, <1>18, <1>19, ToolServed DEF ArtifactTools
<1>33. \A t \in HuntTools : Served(t)
    BY <1>6, <1>8, <1>22, ToolServed DEF HuntTools
<1>34. \A t \in CaseViewTools : Served(t)
    BY <1>5, <1>7, <1>20, ToolServed DEF CaseViewTools
<1>35. \A t \in TimelineTools : Served(t)
    BY <1>14, <1>15, ToolServed DEF TimelineTools
<1>36. \A t \in FindingTools : Served(t)
    BY <1>6, <1>13, ToolServed DEF FindingTools
<1>37. \A t \in ScanTools : Served(t)
    BY <1>12, ToolServed DEF ScanTools
<1>38. \A t \in RuleTools : Served(t)
    BY <1>22, ToolServed DEF RuleTools
<1>39. \A t \in PrepareTools : Served(t)
    BY <1>3, ToolServed, CheckedServed DEF PrepareTools, KeyOptions, Secrets
<1>40. \A t \in ProfileTools : Served(t)
    BY <1>23, ToolServed DEF ProfileTools
<1>41. \A t \in RunTools : Served(t)
    BY <1>10, ToolServed, CheckedServed DEF RunTools, KeyOptions, Secrets
<1>42. \A t \in RunUseTools : Served(t)
    BY <1>11, ToolServed, CheckedServed DEF RunUseTools, KeyOptions, Secrets
<1>43. \A t \in ExportTools : Served(t)
    BY <1>16, ToolServed DEF ExportTools
<1>44. \A t \in SupertimelineTools : Served(t)
    BY <1>24, ToolServed DEF SupertimelineTools
<1>45. \A t \in NormalizeTools : Served(t)
    BY <1>9, ToolServed DEF NormalizeTools
<1> QED
    BY <1>25, <1>26, <1>27, <1>28, <1>29, <1>30, <1>31, <1>32, <1>33, <1>34, <1>35, <1>36, <1>37,
       <1>38, <1>39, <1>40, <1>41, <1>42, <1>43, <1>44, <1>45 DEF Tools

(* What a call carries: unless one of its values starts with a dash the    *)
(* CLI of the container parses it.                                         *)
Carried(line) == (line.dash => MayDash) /\ (line.dash \/ Understood(line))

LEMMA LineCarried ==
    ASSUME NEW c \in Commands, NEW opts, c.need \subseteq opts, opts \subseteq c.need \cup c.may,
           NEW line \in Dashes(Line(c.words, c.values, opts))
    PROVE  Carried(line)
<1>1. /\ line.words = c.words /\ line.values = c.values
      /\ line.opts = opts \ Secrets /\ line.env = opts \cap Secrets
    BY DEF Dashes, Line
<1>2. line.opts \cup line.env = opts
    BY <1>1
<1>3. line.dash => MayDash
    BY DEF Dashes, Line
<1>4. line.dash \/ Understood(line)
    BY <1>1, <1>2 DEF Understood
<1> QED BY <1>3, <1>4 DEF Carried

CallsOK == \A p \in Processes : InCall(p) => Carried(call[p].line)

(* The call of an exec carries the line that was written for it.           *)
LEMMA ExecCarries ==
    ASSUME BoxOK, CallsOK, NEW p \in Processes, NEW c \in Commands, NEW opts, NEW given,
           c.need \subseteq opts, opts \subseteq c.need \cup c.may,
           Exec(p, Line(c.words, c.values, opts), given)
    PROVE  CallsOK'
<1>1. PICK n \in Names, line \in Dashes(Line(c.words, c.values, opts)) :
          call' = [call EXCEPT ![p] = [pc |-> "resolved", name |-> Resolve(n),
                                       id |-> box[Resolve(n)].id, line |-> line, given |-> given]]
    BY DEF Exec, Go
<1>2. Carried(line)
    BY LineCarried
<1>3. call'[p].line = line /\ \A q \in Processes : q # p => call'[q] = call[q]
    BY <1>1 DEF BoxOK
<1> QED BY <1>2, <1>3 DEF CallsOK, InCall

LEMMA CallsStep ==
    ASSUME SessionsInv, CallsOK, [SessionsNext]_sessionsVars PROVE CallsOK'
<1> USE DEF Processes
<1>1. ASSUME NEW p \in Processes, NEW c, call' = [call EXCEPT ![p] = c],
             c.pc \in {"resolved", "parsing"} => Carried(c.line)
      PROVE  CallsOK'
    <2>1. call'[p] = c /\ \A q \in Processes : q # p => call'[q] = call[q]
        BY <1>1 DEF SessionsInv, BoxOK
    <2> QED BY <1>1, <2>1 DEF CallsOK, InCall
<1>2. ASSUME NEW p \in Callers, CallTool(p) PROVE CallsOK'
    <2>1. PICK t \in Tools : \E given \in Some(t.may) :
              Exec(p, Line(t.words, t.values, t.sent \cup given), t.sent \cup given)
        BY <1>2 DEF CallTool
    <2>2. PICK given \in Some(t.may) : Exec(p, Line(t.words, t.values, t.sent \cup given), t.sent \cup given)
        BY <2>1
    <2>3. PICK c \in Commands : /\ c.words = t.words /\ c.values = t.values
                                /\ c.need \subseteq t.sent
                                /\ t.sent \cup t.may \subseteq c.need \cup c.may
        BY AllServed DEF Served
    <2>4. given \subseteq t.may
        BY DEF Some
    <2>5. Exec(p, Line(c.words, c.values, t.sent \cup given), t.sent \cup given)
        BY <2>2, <2>3
    <2> QED BY <2>3, <2>4, <2>5, ExecCarries DEF SessionsInv
<1>3. ASSUME NEW p \in Callers, TypeCommand(p) PROVE CallsOK'
    <2>1. PICK k \in Commands : \E given \in Some(k.may) : Exec(p, Proxied(k, given), k.need \cup given)
        BY <1>3 DEF TypeCommand
    <2>2. PICK given \in Some(k.may) : Exec(p, Proxied(k, given), k.need \cup given)
        BY <2>1
    <2> DEFINE along == IF k.leader \in given THEN k.along ELSE {}
               opts == k.need \cup (given \ (k.drop \cup k.along)) \cup along
    <2>3. given \subseteq k.may /\ along \subseteq k.may
        BY AllDeclared DEF Some, Declared
    <2>4. k.need \subseteq opts /\ opts \subseteq k.need \cup k.may
        BY <2>3
    <2>5. Exec(p, Line(k.words, k.values, opts), k.need \cup given)
        BY <2>2 DEF Proxied
    <2> HIDE DEF opts
    <2> QED BY <2>4, <2>5, ExecCarries DEF SessionsInv
<1>4. ASSUME NEW p \in Callers, ExecRun(p) PROVE CallsOK'
    <2>1. call[p].pc = "resolved" /\ Sent(call[p]) /\ Carried(call[p].line)
        BY <1>4 DEF ExecRun, SessionsInv, LinesOK, CallsOK, InCall
    <2>2. \/ call' = [call EXCEPT ![p] = Idle]
          \/ \E i : call' = [call EXCEPT ![p] = [call[p] EXCEPT !.pc = "parsing", !.id = i]]
        BY <1>4 DEF ExecRun, Go, Answer
    <2>3. ASSUME NEW i, call' = [call EXCEPT ![p] = [call[p] EXCEPT !.pc = "parsing", !.id = i]]
          PROVE  CallsOK'
        <3> DEFINE c == [call[p] EXCEPT !.pc = "parsing", !.id = i]
        <3>1. c.line = call[p].line /\ call' = [call EXCEPT ![p] = c]
            BY <2>1, <2>3 DEF Sent
        <3> HIDE DEF c
        <3> QED BY <1>1, <2>1, <3>1
    <2>4. CASE call' = [call EXCEPT ![p] = Idle]
        BY <1>1, <2>4 DEF Idle
    <2> QED BY <2>2, <2>3, <2>4
<1>5. ASSUME NEW p \in Callers, OpenShell(p) \/ DockerExec(p) \/ Finish(p) PROVE CallsOK'
    <2>1. \/ call' = [call EXCEPT ![p] = Idle]
          \/ \E m : call' = [call EXCEPT ![p] = [pc |-> "opening", name |-> m]]
          \/ \E m, i : call' = [call EXCEPT ![p] = [pc |-> "shell", name |-> m, id |-> i]]
        BY <1>5 DEF OpenShell, DockerExec, Finish, Go, Answer
    <2> QED BY <1>1, <2>1 DEF Idle
<1>6. ASSUME NEW p \in Keepers, KeeperNext(p) PROVE CallsOK'
    <2>1. ASSUME Create(p) PROVE \E n : call' = [call EXCEPT ![p] = [pc |-> "started", name |-> n]]
        BY <2>1 DEF Create, Go
    <2>2. ASSUME StartCreated(p) \/ Find(p)
          PROVE  \/ call' = [call EXCEPT ![p] = Idle]
                 \/ \E op, n, id : call' = [call EXCEPT ![p] = [pc |-> "acting", op |-> op, name |-> n, id |-> id]]
        BY <2>2 DEF StartCreated, Find, Go, Answer
    <2>3. ASSUME NoStart(p) \/ Act(p) \/ ActFails(p) PROVE call' = [call EXCEPT ![p] = Idle]
        BY <2>3 DEF NoStart, Act, ActFails, Go, Answer
    <2> QED BY <1>1, <1>6, <2>1, <2>2, <2>3 DEF Idle, KeeperNext
<1>7. ASSUME UNCHANGED call PROVE CallsOK'
    BY <1>7 DEF CallsOK, InCall
<1> QED BY <1>2, <1>3, <1>4, <1>5, <1>6, <1>7
    DEF SessionsNext, CallerNext, Exits, StrangerComes, OthersRemove, OthersRename, sessionsVars

LEMMA CallsHold == SessionsSpec => []CallsOK
<1>1. SessionsInit => CallsOK
    BY DEF SessionsInit, CallsOK, Processes, Idle, InCall
<1>2. SessionsInv /\ CallsOK /\ [SessionsNext]_sessionsVars => CallsOK'
    BY CallsStep
<1> QED BY <1>1, <1>2, SessionsInvHolds, PTL DEF SessionsSpec

(* Every command line that an MCP tool writes and every one that the CLI   *)
(* of the host forwards is one the CLI of the container parses, when no    *)
(* value starts with a dash: for every number of callers and containers,   *)
(* and whatever optional options are given (_proxy_defair, proxy_command). *)
THEOREM CallsAreUnderstood == ASSUME ~MayDash PROVE SessionsSpec => []CallsUnderstood
<1>1. CallsOK => CallsUnderstood
    BY DEF CallsOK, CallsUnderstood, Carried, InCall, Processes
<1> QED BY <1>1, CallsHold, PTL
=============================================================================
