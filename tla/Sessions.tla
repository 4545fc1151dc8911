------------------------------- MODULE Sessions -------------------------------
(***************************************************************************)
(* Case containers and the calls made into them from the host:             *)
(* services/container_service.py, cli/proxy.py, and the command lines of   *)
(* McpTools parsed by the CLI of Interface.                                *)
(*                                                                         *)
(* Docker keeps the containers.  A call first asks docker for the          *)
(* container of a name, then acts on the one it was given: in between      *)
(* another process of the host, or whoever else uses docker there, may     *)
(* stop it, rename it, or remove it and create another of the same name.   *)
(* No name here is one of RuleStore, which HostProofs extends as well.     *)
(***************************************************************************)
EXTENDS McpTools, FiniteSets

CONSTANTS
    Names,        \* container names
    Prefixed,     \* Prefixed[n]: n with "defair-" in front, Nothing when it has it
    Callers,      \* processes that run commands in containers: a CLI, the MCP server
    Keepers,      \* processes that create, start, stop and remove containers
    Paths,        \* host paths under the roots of the policy
    Real,         \* Real[p]: what the path resolves to
    Below,        \* Below[p]: the paths below the directory p
    Base,         \* Base[p]: the last part of the path
    Workspaces,   \* the workspaces and key directories a container may be asked
    KeyDirs,      \* to mount, among Paths, or Nothing: a directory of its own, no keys
    MaxCreated,   \* bound: containers created
    MayDash,      \* may a value start with a dash?
    MaxGiven,     \* bound: optional options given at once, when not all
    Nothing

ASSUME SessionAssumption ==
    /\ Prefixed \in [Names -> Names \cup {Nothing}]
    /\ Real \in [Paths -> Paths] /\ Below \in [Paths -> SUBSET Paths]
    /\ Workspaces \cup KeyDirs \subseteq Paths \cup {Nothing}
    /\ Nothing \notin Names \cup Paths
    /\ Callers \cap Keepers = {}

VARIABLES
    box,       \* docker: name -> container
    created,   \* containers created so far, the identity of the last
    call       \* what each process does, and what docker told it

sessionsVars == <<box, created, call>>

Foreign == 0   \* the identity of a container DEFAIR did not create
Idle == [pc |-> "idle"]

Strangers == [id : {Foreign}, status : {"running", "exited"}, managed : {FALSE},
              asked : {{}}, mounts : {{}}]

SessionsInit ==
    /\ box \in [Names -> {Nothing} \cup Strangers]
    /\ created = 0
    /\ call = [p \in Callers \cup Keepers |-> Idle]

Present(n) == box[n] # Nothing
Running(n) == Present(n) /\ box[n].status = "running"

(***************************************************************************)
(* Finding a container                                                     *)
(***************************************************************************)
Tries(n) == {n, Prefixed[n]} \ {Nothing}
First(n, S) == IF n \in S THEN n ELSE IF Prefixed[n] \in S THEN Prefixed[n] ELSE Nothing

(* Mutant: the label is not looked at.                                     *)
ResolveMutant(n) == First(n, {m \in Tries(n) : Present(m)})

(* _resolve_container: the exact name, then the prefixed one; a container  *)
(* of the name that is not DEFAIR's is an error, and is not skipped.       *)
Resolve(n) ==
    LET m == First(n, {k \in Tries(n) : Present(k)})
    IN  IF m # Nothing /\ box[m].managed THEN m ELSE Nothing

(* get_container skips it.                                                 *)
Shown(n) == First(n, {k \in Tries(n) : Present(k) /\ box[k].managed})

Go(p, c) == call' = [call EXCEPT ![p] = c]
Answer(p) == Go(p, Idle)

(***************************************************************************)
(* Commands                                                                *)
(***************************************************************************)
Some(opts) == {g \in SUBSET opts : Cardinality(g) <= MaxGiven} \cup {opts}

(* A command line: secrets are passed in the environment of the exec.  A   *)
(* value may start with "-": no "--" is put before the values.             *)
Line(words, values, opts) ==
    [words |-> words, values |-> values, opts |-> opts \ Secrets, env |-> opts \cap Secrets,
     dash |-> FALSE]
Dashes(line) == IF MayDash /\ line.values > 0 THEN {line, [line EXCEPT !.dash = TRUE]} ELSE {line}

(* What the CLI of the host forwards of the command typed, where an option *)
(* at its default counts as not given.                                     *)
Proxied(c, given) ==
    LET along == IF c.leader \in given THEN c.along ELSE {}
    IN  Line(c.words, c.values, c.need \cup (given \ (c.drop \cup c.along)) \cup along)

(* exec_in_container: docker gives the container of the name, with its     *)
(* status; a name that is unknown, foreign or not running is an error.     *)
Exec(p, sent, given) ==
    \E n \in Names, line \in Dashes(sent) :
        LET m == Resolve(n)
        IN  /\ m # Nothing /\ Running(m)
            /\ Go(p, [pc |-> "resolved", name |-> m, id |-> box[m].id, line |-> line, given |-> given])

(* An MCP tool; the server itself refuses some paths and keys, and then    *)
(* nothing changes.                                                        *)
CallTool(p) ==
    /\ call[p].pc = "idle"
    /\ \E t \in Tools : \E given \in Some(t.may) :
           Exec(p, Line(t.words, t.values, t.sent \cup given), t.sent \cup given)
    /\ UNCHANGED <<box, created>>

(* A command of the CLI typed on the host with -c.                         *)
TypeCommand(p) ==
    /\ call[p].pc = "idle"
    /\ \E c \in {k \in Commands : k.at = "proxy"} : \E given \in Some(c.may) :
           Exec(p, Proxied(c, given), c.need \cup given)
    /\ UNCHANGED <<box, created>>

(* Mutant: docker is given the name of the container found.                *)
HeldMutant(c) == {n \in Names : Present(n) /\ n = c.name}

(* Docker is given the identity of the container found, whatever name that *)
(* has by now.                                                             *)
Held(c) == {n \in Names : Present(n) /\ box[n].id = c.id}

(* exec_run; a container stopped or removed since makes docker raise, and  *)
(* neither proxy_command nor _proxy_defair catches its APIError.           *)
ExecRun(p) ==
    LET c == call[p]
    IN  /\ c.pc = "resolved"
        /\ IF \E n \in Held(c) : Running(n)
           THEN \E n \in Held(c) : Go(p, [c EXCEPT !.pc = "parsing", !.id = box[n].id])
           ELSE Answer(p)
        /\ UNCHANGED <<box, created>>

(* What click accepts: a known command, as many values as it takes, every  *)
(* option it requires and none it does not know; a dash makes an option.   *)
Understood(line) ==
    ~line.dash /\
    \E c \in Commands :
        /\ c.words = line.words /\ c.values = line.values
        /\ c.need \subseteq line.opts \cup line.env
        /\ line.opts \cup line.env \subseteq c.need \cup c.may

(* What is left of the options once the command has read them.             *)
Used(line) ==
    (line.opts \cup line.env) \ UNION {c.ignore : c \in {k \in Commands : k.words = line.words}}

(* The command ends, the container stopped under it or not.                *)
Finish(p) ==
    /\ call[p].pc \in {"parsing", "shell"}
    /\ Answer(p)
    /\ UNCHANGED <<box, created>>

(* container shell: the container that get shows, if it is running, ...    *)
OpenShell(p) ==
    /\ call[p].pc = "idle"
    /\ \E n \in Names :
           LET m == Shown(n)
           IN  /\ m # Nothing /\ Running(m)
               /\ Go(p, [pc |-> "opening", name |-> m])
    /\ UNCHANGED <<box, created>>

(* ... then docker exec of its name, whose container that is by now.       *)
DockerExec(p) ==
    /\ call[p].pc = "opening"
    /\ LET m == call[p].name
       IN  IF Running(m) THEN Go(p, [pc |-> "shell", name |-> m, id |-> box[m].id]) ELSE Answer(p)
    /\ UNCHANGED <<box, created>>

(***************************************************************************)
(* Containers                                                              *)
(***************************************************************************)
Bind(path, evidence) == IF Cardinality(evidence) = 1 THEN "/evidence" ELSE Base[path]
Mount(path, bind, mode) == [path |-> path, bind |-> bind, mode |-> mode]
Over(mounts, more) ==
    {m \in mounts : \A k \in more : k.path # m.path} \cup more

(* The volumes are a dictionary by host path: the workspace as it was      *)
(* given, then the evidence and the keys as they resolve; a path met twice *)
(* keeps its last mount.                                                   *)
Volumes(ws, evidence, keys) ==
    Over(Over({Mount(ws, "/workspace", "rw")},
              {Mount(p, Bind(p, evidence), "ro") : p \in evidence}),
         IF keys = Nothing THEN {} ELSE {Mount(keys, "/keys", "ro")})

(* create_container: docker refuses a name in use and two mounts at one    *)
(* place; a refusal leaves nothing behind.                                 *)
Create(p) ==
    /\ call[p].pc = "idle" /\ created < MaxCreated
    /\ \E n \in Names, evidence \in SUBSET {Real[d] : d \in Paths}, ws \in Workspaces,
          keys \in {IF k = Nothing THEN k ELSE Real[k] : k \in KeyDirs} :
           LET mounts == Volumes(ws, evidence, keys)
           IN  /\ ~Present(n)
               /\ \A m, k \in mounts : m.bind = k.bind => m = k
               /\ box' = [box EXCEPT ![n] = [id |-> created + 1, status |-> "created", managed |-> TRUE,
                                             asked |-> evidence, mounts |-> mounts]]
               /\ Go(p, [pc |-> "started", name |-> n])
    /\ created' = created + 1

(* create, then start the container of that name, unless --no-start.       *)
StartCreated(p) ==
    /\ call[p].pc = "started"
    /\ LET m == Resolve(call[p].name)
       IN  IF m = Nothing THEN Answer(p)
           ELSE Go(p, [pc |-> "acting", op |-> "start", name |-> m, id |-> box[m].id])
    /\ UNCHANGED <<box, created>>

NoStart(p) ==
    /\ call[p].pc = "started"
    /\ Answer(p)
    /\ UNCHANGED <<box, created>>

(* start_container, stop_container, remove_container find it first.        *)
Find(p) ==
    /\ call[p].pc = "idle"
    /\ \E n \in Names, op \in {"start", "stop", "remove", "force"} :
           LET m == Resolve(n)
           IN  /\ m # Nothing
               /\ Go(p, [pc |-> "acting", op |-> op, name |-> m, id |-> box[m].id])
    /\ UNCHANGED <<box, created>>

Status(n, s) == box' = [box EXCEPT ![n].status = s]

(* Docker does it on the container found, or raises: it is gone, or it is  *)
(* running and the removal is not forced, or it cannot start.              *)
Act(p) ==
    LET c == call[p]
    IN  /\ c.pc = "acting"
        /\ \E n \in Held(c) :
               \/ c.op = "start" /\ Status(n, "running")
               \/ c.op = "stop" /\ Running(n) /\ Status(n, "exited")
               \/ c.op = "remove" /\ ~Running(n) /\ box' = [box EXCEPT ![n] = Nothing]
               \/ c.op = "force" /\ box' = [box EXCEPT ![n] = Nothing]
        /\ Answer(p)
        /\ UNCHANGED created

ActFails(p) ==
    /\ call[p].pc = "acting"
    /\ Answer(p)
    /\ UNCHANGED <<box, created>>

(* The container's own process ends.                                       *)
Exits(n) ==
    /\ Running(n) /\ box[n].managed
    /\ Status(n, "exited")
    /\ UNCHANGED <<created, call>>

(* Whoever else uses docker on the host: a container of theirs appears,    *)
(* starts or stops, ...                                                    *)
StrangerComes(n) ==
    /\ box[n] \in {Nothing} \cup Strangers
    /\ \E c \in Strangers : box' = [box EXCEPT ![n] = c]
    /\ UNCHANGED <<created, call>>

(* ... and any container, of theirs or of DEFAIR, is removed or renamed.   *)
OthersRemove(n) ==
    /\ Present(n)
    /\ box' = [box EXCEPT ![n] = Nothing]
    /\ UNCHANGED <<created, call>>
OthersRename(n, to) ==
    /\ Present(n) /\ ~Present(to)
    /\ box' = [box EXCEPT ![n] = Nothing, ![to] = box[n]]
    /\ UNCHANGED <<created, call>>

CallerNext(p) ==
    CallTool(p) \/ TypeCommand(p) \/ ExecRun(p) \/ OpenShell(p) \/ DockerExec(p) \/ Finish(p)
KeeperNext(p) == Create(p) \/ StartCreated(p) \/ NoStart(p) \/ Find(p) \/ Act(p) \/ ActFails(p)

SessionsNext ==
    \/ \E p \in Callers : CallerNext(p)
    \/ \E p \in Keepers : KeeperNext(p)
    \/ \E n \in Names : Exits(n) \/ StrangerComes(n) \/ OthersRemove(n)
    \/ \E n, to \in Names : OthersRename(n, to)

SessionsSpec == SessionsInit /\ [][SessionsNext]_sessionsVars

(***************************************************************************)
(* Properties                                                              *)
(***************************************************************************)
InCall(p) == call[p].pc \in {"resolved", "parsing"}

(* Every command line the MCP tools write by hand, and every one the CLI   *)
(* of the host forwards, is one the CLI of the container parses            *)
(* (_proxy_defair, proxy_command against cli/*.py): unless a value starts  *)
(* with a dash.                                                            *)
CallsUnderstood == \A p \in Callers : InCall(p) => Understood(call[p].line)

(* What the caller gave is what the command uses.  It does not hold: a     *)
(* proxied rules command forgets --store, analyze overwrites no_logs.      *)
(* (What hunt and analyze leave out of their line besides changes nothing: *)
(* the command does not read it, or has it on anyway.)                     *)
OptionsArrive == \A p \in Callers : InCall(p) => call[p].given \subseteq Used(call[p].line)

(* What start, stop, remove, exec and the proxied commands do, they do not *)
(* do to a container without the DEFAIR label, though the container found  *)
(* be renamed or removed, and one of another user take its name, before    *)
(* they act (_resolve_container).                                          *)
ForeignUntouched ==
    [][/\ call' # call => \A n \in Names : Present(n) /\ ~box[n].managed => box'[n] = box[n]
       /\ \A p \in Callers : call'[p].pc \in {"resolved", "parsing"} => call'[p].id # Foreign]_sessionsVars

(* "Open an interactive shell in a running DEFAIR container".  It does not *)
(* hold: container shell looks at the label, then runs docker exec with    *)
(* the name, which may be of another container by then.                    *)
ShellInOwn == \A p \in Callers : call[p].pc = "shell" => call[p].id # Foreign

(* What lies at a path and below it, by whatever spelling it is mounted.   *)
Reaches(p) == IF p = Nothing THEN {} ELSE {Real[p]} \cup Below[Real[p]]

(* "Evidence can only be mounted read-only".  It does not hold: the        *)
(* workspace path is not resolved, and a link to the evidence, or a        *)
(* directory above it, mounts it a second time, to be written to.          *)
EvidenceReadOnly ==
    \A n \in Names : Present(n) =>
        \A m \in box[n].mounts : m.mode = "rw" => box[n].asked \cap Reaches(m.path) = {}

(* "Mount evidence as read-only bind-mounts" at /evidence.  It does not    *)
(* hold: a path that is also the key directory is mounted at /keys only.   *)
EvidenceMounted ==
    \A n \in Names : Present(n) =>
        \A e \in box[n].asked : Mount(e, Bind(e, box[n].asked), "ro") \in box[n].mounts

(* The container that get shows is the one the commands act on.  It does   *)
(* not hold when the bare name belongs to another container.               *)
ShownIsFound == \A n \in Names : Shown(n) # Nothing => Resolve(n) = Shown(n)
=============================================================================
