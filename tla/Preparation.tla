----------------------------- MODULE Preparation -----------------------------
(***************************************************************************)
(* Evidence preparation: prepare_evidence and prepare_path                 *)
(* (sources/prepare.py), with detect_source (sources/detect.py), the       *)
(* extractors (sources/archives.py, sources/image.py) and the workspace    *)
(* folder sources/EVD-NNN that all of them write to.                       *)
(*                                                                         *)
(* One piece of evidence, Top, is a folder or a file; the items in it are  *)
(* files and trees, some of them containers that hold further items.  A    *)
(* derived preparation opens Top, looks at what came out, opens the        *)
(* containers it finds there, and looks again, MaxNesting times at most.   *)
(* A folder of logs is used in place; the images and encrypted archives in *)
(* it are opened beside it.  Extraction may stop at any file: a wrong key, *)
(* a limit, a full disk, a killed process.                                 *)
(***************************************************************************)
EXTENDS Naturals, FiniteSets

CONSTANTS
    Items,        \* what the evidence holds, at any depth, Top included
    Top,          \* the registered path
    Preps,        \* processes that call prepare_evidence (evidence prepare, run worker)
    MaxNesting,   \* MAX_NESTING of prepare.py (3 there)
    SevenDepth,   \* nested 7z opened by extract_7z itself (3 there)
    None

ASSUME PreparationAssumption ==
    /\ Top \in Items /\ None \notin Items
    /\ MaxNesting \in Nat /\ SevenDepth \in Nat

VARIABLES
    kind,       \* item -> its format, as its first bytes tell
    within,     \* item -> the container it is stored in
    held,       \* items that lie whole under sources/EVD-NNN
    torn,       \* items that lie there truncated
    content,    \* sources/EVD-NNN/content exists
    deep,       \* trees more than MAX_DEPTH directories below what is searched
    crowded,    \* more than MAX_ENTRIES files or directories are searched
    record,     \* evidence.prepared, or None; derived: its base is the workspace
    hosted,     \* the host_info artifact of the evidence is stored
    prep        \* process -> its call of prepare_evidence

evidence == <<kind, within, deep, crowded>>
disk == <<held, torn, content>>
prepvars == <<evidence, disk, record, hosted, prep>>

(* Formats.  "locked" is a ZIP with a password, "sealed" a Generaptor      *)
(* collection, "p7b" an encrypted DFIR-ORC archive, "orc" a plain 7z,      *)
(* "tar" a tar or gzip file, "tree" a Windows file system, "logs" loose    *)
(* artifacts, "uaclog" the uac.log of a UAC collection.                    *)
Archive == {"zip", "locked", "sealed", "orc", "p7b", "tar"}
Container == Archive \cup {"image"}
Leaf == {"tree", "logs", "uaclog"}
Secret == {"password", "private_key"}

OfKind(S, K) == {i \in S : kind[i] \in K}
Inside(S) == {i \in Items : within[i] \in S}

(* extract_7z opens the 7z it finds in a 7z, SevenDepth levels down, and   *)
(* removes them; every other extractor stops at the members.               *)
Unpack7z[d \in 0..SevenDepth] == [c \in Items |->
    LET members == Inside({c})
        nested == IF d = 0 THEN {} ELSE OfKind(members, {"orc"})
    IN  (members \ nested) \cup UNION {Unpack7z[d - 1][n] : n \in nested}]

Members(c) == IF kind[c] \in {"orc", "p7b"} THEN Unpack7z[SevenDepth][c]
                                            ELSE Inside({c})

------------------------------------------------------------------------------
(* What a search of the items V comes across: it gives up after MAX_ENTRIES*)
(* (20000) entries.                                                        *)
Walks(V) == IF crowded THEN SUBSET V ELSE {V}

(* _detect_directory: the SourceInfo of a directory with the items V.      *)
(* uac.log is looked for at its first level only.  find_windows_root goes  *)
(* MAX_DEPTH (6) levels down; a tree that lies deeper counts as the loose  *)
(* artifacts in it, which _walk_files lists at any depth.  A tree ends the *)
(* search before any container is listed.                                  *)
Detect(V) ==
    {LET kd == CASE \E i \in OfKind(V, {"uaclog"}) : within[i] = Top -> "uac"
                 [] OTHER -> IF OfKind(roots, {"tree"}) \ deep # {} THEN "tree"
                             ELSE IF OfKind(files, {"logs", "tree"}) # {} THEN "logs"
                             ELSE "unknown"
     IN  [kind |-> kd,
          containers |-> IF kd \in {"uac", "tree"} THEN {} ELSE OfKind(files, {"image", "p7b"})]
        : roots \in Walks(V), files \in Walks(V)}

Ready(info) == info.kind \in {"tree", "logs"}

(* Mutant: an archive in an archive is not looked at.                      *)
NestedContainersMutant(V, info) == info.containers

(* _nested_containers: archives too, while nothing usable was found; these *)
(* it looks for without a limit.                                           *)
NestedContainers(V, info) ==
    info.containers \cup IF Ready(info) THEN {} ELSE OfKind(V, Archive)

(* Whether _derive has a way to open a container: the secret it needs was  *)
(* given, an image holds Windows, a tar is a UAC collection (its uac.log is*)
(* among the first 2001 names).                                            *)
CanOpen(c, secrets) ==
    CASE kind[c] = "locked" -> "password" \in secrets
      [] kind[c] \in {"sealed", "p7b"} -> "private_key" \in secrets
      [] kind[c] = "image" -> OfKind(Inside({c}), {"tree"}) # {}
      [] kind[c] = "tar" -> OfKind(Inside({c}), {"uaclog"}) # {}
      [] OTHER -> kind[c] \in {"zip", "orc"}

OnDisk == held \cup torn
(* A container is read from the evidence itself or from the workspace.     *)
Readable(c) == c \in held \/ c = Top \/ (kind[Top] = "folder" /\ within[c] = Top)

------------------------------------------------------------------------------
Idle == [pc |-> "idle", secrets |-> {}, beside |-> FALSE,
         todo |-> {}, done |-> {}, round |-> 0]

(* The evidence: any nesting of containers in the order of the items.      *)
Shape ==
    /\ kind \in [Items -> Container \cup Leaf \cup {"folder"}]
    /\ within \in [Items -> Items \cup {None}]
    /\ \A i \in Items :
        /\ i = Top <=> within[i] = None
        /\ kind[i] = "folder" => i = Top
        /\ i = Top => kind[i] \notin {"tree", "uaclog"}
        /\ within[i] # None =>
            /\ kind[within[i]] \in Container \cup {"folder"}
            /\ kind[within[i]] = "image" => kind[i] = "tree"
            /\ kind[i] = "uaclog" => kind[within[i]] \in {"tar", "folder"}

PrepInit ==
    /\ Shape
    /\ deep \in SUBSET OfKind(Items, {"tree"}) /\ crowded \in BOOLEAN
    /\ held = {} /\ torn = {} /\ content = FALSE
    /\ record = None
    /\ hosted = FALSE
    /\ prep = [p \in Preps |-> Idle]

(* prepare_evidence: the record is the answer when there is one and its    *)
(* base is there.  Otherwise evidence that cannot be used in place is      *)
(* derived anew, from an emptied folder.                                   *)
Known == record # None /\ (record.derived => content)

Sources == IF kind[Top] = "folder" THEN Inside({Top}) ELSE {Top}

(* What is ready is used in place, and only the containers in it opened.   *)
Begun(s, info) ==
    [Idle EXCEPT !.secrets = s,
                 !.beside = Ready(info),
                 !.todo = IF Ready(info) THEN info.containers ELSE {Top},
                 !.pc = IF Ready(info) /\ info.containers = {} THEN "record" ELSE "derive"]

(* Mutant: the folder is not emptied first.                                *)
PrepareBeginMutant(p) ==
    /\ prep[p].pc = "idle"
    /\ \E s \in SUBSET Secret, force \in BOOLEAN, info \in Detect(Sources) :
        /\ ~(Known /\ ~force)
        /\ prep' = [prep EXCEPT ![p] = Begun(s, info)]
    /\ UNCHANGED <<evidence, disk, record, hosted>>

PrepareBegin(p) ==
    /\ prep[p].pc = "idle"
    /\ \E s \in SUBSET Secret, force \in BOOLEAN, info \in Detect(Sources) :
        /\ ~(Known /\ ~force)
        /\ prep' = [prep EXCEPT ![p] = Begun(s, info)]
        /\ IF Ready(info) THEN UNCHANGED disk
           ELSE held' = {} /\ torn' = {} /\ content' = FALSE
    /\ UNCHANGED <<evidence, record, hosted>>

(* What an extraction leaves of the members M of c: an archive is written  *)
(* over what is there; extract_image skips a file that exists.  (A file of *)
(* an image that Dissect cannot read is left out with a warning; the tree  *)
(* stands for the others.)                                                 *)
Extracted(c, M) == IF kind[c] = "image" THEN M \ torn ELSE M

Derive(p, c) ==
    /\ prep[p].pc = "derive" /\ c \in prep[p].todo
    /\ CanOpen(c, prep[p].secrets) /\ Readable(c)
    /\ held' = held \cup Extracted(c, Members(c))
    /\ torn' = torn \ Extracted(c, Members(c))
    /\ content' = TRUE
    /\ prep' = [prep EXCEPT ![p].todo = @ \ {c}, ![p].done = @ \cup {c},
                    ![p].pc = IF prep[p].todo # {c} THEN "derive"
                              ELSE IF prep[p].beside THEN "record" ELSE "rescan"]
    /\ UNCHANGED <<evidence, record, hosted>>

(* A container that cannot be opened ends the preparation with a           *)
(* PreparationError or an ExtractionError; what was extracted stays.       *)
DeriveRefused(p, c) ==
    /\ prep[p].pc = "derive" /\ c \in prep[p].todo
    /\ ~(CanOpen(c, prep[p].secrets) /\ Readable(c))
    /\ prep' = [prep EXCEPT ![p] = Idle]
    /\ UNCHANGED <<evidence, disk, record, hosted>>

(* An extraction that stops at some file of c: wrong secret, limit, full   *)
(* disk, or the process is killed.  Its members are there in part.         *)
DeriveStops(p, c) ==
    /\ prep[p].pc = "derive" /\ c \in prep[p].todo
    /\ CanOpen(c, prep[p].secrets) /\ Readable(c)
    /\ torn' = torn \cup (Members(c) \ held)
    /\ content' = TRUE
    /\ prep' = [prep EXCEPT ![p] = Idle]
    /\ UNCHANGED <<evidence, held, record, hosted>>

(* The loop of prepare_path over detect_source(base).                      *)
Pending(p, info) == NestedContainers(OnDisk, info) \ prep[p].done

Rescan(p) ==
    /\ prep[p].pc = "rescan"
    /\ \E info \in Detect(OnDisk) :
        prep' = [prep EXCEPT ![p] =
            IF Pending(p, info) = {} \/ prep[p].round = MaxNesting
            THEN [@ EXCEPT !.pc = "record"]
            ELSE [@ EXCEPT !.pc = "derive", !.todo = Pending(p, info),
                           !.round = prep[p].round + 1]]
    /\ UNCHANGED <<evidence, disk, record, hosted>>

(* The last detect_source, locate_artifacts, manifest.json and the UPDATE  *)
(* of the evidence row.  Opened images give a host profile, stored after   *)
(* the commit.                                                             *)
Record(p) ==
    /\ prep[p].pc = "record"
    /\ LET base == IF prep[p].beside THEN Sources ELSE OnDisk IN
       \E info \in Detect(base) :
        /\ prep[p].beside => Ready(info)    \* as when it began
        /\ record' = [derived |-> ~prep[p].beside,
                      items |-> OnDisk \cup base,
                      found |-> info.kind,
                      opened |-> prep[p].done]
    /\ prep' = [prep EXCEPT ![p] = IF OfKind(prep[p].done, {"image"}) = {} THEN Idle
                                   ELSE [@ EXCEPT !.pc = "host"]]
    /\ UNCHANGED <<evidence, disk, hosted>>

SaveHost(p) ==
    /\ prep[p].pc = "host"
    /\ hosted' = TRUE
    /\ prep' = [prep EXCEPT ![p] = Idle]
    /\ UNCHANGED <<evidence, disk, record>>

(* The process is killed between two files.                                *)
PrepDies(p) ==
    /\ prep[p].pc # "idle"
    /\ prep' = [prep EXCEPT ![p] = Idle]
    /\ UNCHANGED <<evidence, disk, record, hosted>>

(* The analyst deletes sources/EVD-NNN to save space, while nothing runs.  *)
Resting == \A p \in Preps : prep[p].pc = "idle"

Wipe ==
    /\ content /\ Resting
    /\ held' = {} /\ torn' = {} /\ content' = FALSE
    /\ UNCHANGED <<evidence, record, hosted, prep>>

PrepNext ==
    \/ \E p \in Preps :
        \/ PrepareBegin(p) \/ Rescan(p) \/ Record(p) \/ SaveHost(p) \/ PrepDies(p)
        \/ \E c \in Items : Derive(p, c) \/ DeriveRefused(p, c) \/ DeriveStops(p, c)
    \/ Wipe

------------------------------------------------------------------------------
(* Type correctness of the preparation.                                    *)
PrepTypeOK ==
    /\ held \subseteq Items /\ torn \subseteq Items /\ held \cap torn = {}
    /\ content \in BOOLEAN /\ hosted \in BOOLEAN
    /\ record = None \/ record \in [derived : BOOLEAN, items : SUBSET Items,
            found : {"uac", "tree", "logs", "unknown"}, opened : SUBSET Items]
    /\ prep \in [Preps ->
            [pc : {"idle", "derive", "rescan", "record", "host"},
             secrets : SUBSET Secret, beside : BOOLEAN, todo : SUBSET Items,
             done : SUBSET Items, round : 0..MaxNesting]]

(* When the record of evidence that was derived is written, all it tells   *)
(* the profile steps to read lies whole in the workspace, whatever earlier *)
(* preparations that failed or were killed left there: prepare_path empties*)
(* the folder, and the record is written last (prepare.py:151, 234).  It   *)
(* speaks of evidence whose base is the workspace, and of the moment: a    *)
(* folder used in place is EveryRecordIsWhole, later times KnownIsWhole.   *)
RecordIsWhole ==
    [][\A p \in Preps : Record(p) => (record'.derived => record'.items \subseteq held')]_prepvars

(* "manifest.json records every derived file (origin, size, SHA-256)"      *)
(* (prepare.py:9): also of the images beside the logs of a folder that is  *)
(* used in place, no file of a stopped extraction is taken for a whole one.*)
EveryRecordIsWhole ==
    [][\A p \in Preps : Record(p) => record'.items \ Sources \subseteq held']_prepvars

(* The record stays true: what prepare_evidence answers at once from the   *)
(* row "is there" because its base exists (prepare.py:223).                *)
KnownIsWhole ==
    record # None /\ record.derived /\ Known /\ Resting => record.items \subseteq held

(* Everything that opening containers can bring out of Top, n rounds deep, *)
(* when nothing stops the search: the yardstick for the loop.              *)
Reach[n \in 0..MaxNesting] ==
    LET seen == IF n = 0 THEN {} ELSE Reach[n - 1]
    IN  IF n = 0 THEN Members(Top)
        ELSE seen \cup UNION {Members(c) : c \in OfKind(seen, Container)}

(* A Windows tree or artifacts that lie at most MaxNesting containers deep *)
(* are found: a derived record never says "unknown" then (prepare.py:155), *)
(* as long as the search is not cut off after MAX_ENTRIES entries.         *)
FindsWhatIsThere ==
    record # None /\ record.derived /\ ~crowded =>
        (OfKind(Reach[MaxNesting], {"tree", "logs"}) # {} => record.found # "unknown")

(* _nested_containers promises the disk images and encrypted archives left *)
(* inside an extraction, and archives only "when nothing usable was found  *)
(* yet" (prepare.py:122): every image that came out is opened.             *)
ImagesOpened ==
    record # None /\ record.derived /\ ~crowded =>
        OfKind(record.items, {"image", "p7b"}) \subseteq record.opened

(* A preparation that opened an image leaves a host profile artifact       *)
(* (prepare.py:10, README.md:448) once nobody is preparing.                 *)
HostSaved ==
    record # None /\ Resting
        => (OfKind(record.opened, {"image"}) # {} => hosted)

(* README.md:461: UAC collections are prepared, for Raijin to scan.  Only  *)
(* an unreadable or missing secret stops the preparation of one.           *)
UacPrepares ==
    [][\A p \in Preps, c \in Items :
        DeriveRefused(p, c) /\ prep[p].secrets = Secret /\ kind[Top] = "tar"
            => \A info \in Detect(OnDisk) : info.kind # "uac"]_prepvars

(* "Turn any registered evidence into a usable root" (prepare.py:1): a     *)
(* folder of disk images or encrypted archives is not refused, as it is not*)
(* when one log file lies beside them.                                     *)
FolderPrepares ==
    [][\A p \in Preps :
        DeriveRefused(p, Top) /\ kind[Top] = "folder" /\ ~crowded
            => OfKind(Sources, {"image", "p7b"}) = {}]_prepvars
=============================================================================
