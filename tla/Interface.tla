------------------------------ MODULE Interface ------------------------------
(***************************************************************************)
(* The two sides of a call into a case container: the commands of the CLI  *)
(* (cli/*.py), as click declares them, and the command lines the MCP tools *)
(* write by hand (mcp_server/server.py).  A value is left out: what is     *)
(* kept of a command line is its words, joined by a dot, its number of     *)
(* values and its options ("no_logs" is --option no_logs=...).             *)
(***************************************************************************)
EXTENDS Naturals

(* A command: how many positional values it takes, the options it requires *)
(* and the ones it accepts, where it runs when typed on the host           *)
(* ("proxy": in the container named with -c, "host": here, with docker,    *)
(* "local": here, whatever -c says), the options its proxy does not send,  *)
(* those it sends along with the leader only, and those the command parses *)
(* and then overwrites.                                                    *)
Cmd(words, values, need, may) ==
    [words |-> words, values |-> values, need |-> need, may |-> may,
     at |-> "proxy", drop |-> {}, leader |-> "", along |-> {}, ignore |-> {}]
At(place, cmds) == {[c EXCEPT !.at = place] : c \in cmds}
Dropping(opts, cmds) == {[c EXCEPT !.drop = opts] : c \in cmds}
Along(option, opts, cmds) == {[[c EXCEPT !.leader = option] EXCEPT !.along = opts] : c \in cmds}
Ignoring(opts, cmds) == {[c EXCEPT !.ignore = opts] : c \in cmds}

(***************************************************************************)
(* The CLI                                                                 *)
(***************************************************************************)
CasesCli == {
    Cmd("cases.list", 0, {}, {}),
    Cmd("case.create", 1, {}, {"description"}),
    Cmd("case.get", 1, {}, {}) }

ContainersCli == At("host", {
    Cmd("container.create", 0, {}, {"case", "name", "image", "evidence", "workspace", "keys", "no-start"}),
    Cmd("container.list", 0, {}, {"running", "case"}),
    Cmd("container.start", 1, {}, {}),
    Cmd("container.stop", 1, {}, {"timeout"}) })

ContainerUseCli == At("host", {
    Cmd("container.remove", 1, {}, {"force", "yes"}),
    Cmd("container.exec", 2, {}, {"workdir"}),
    Cmd("container.shell", 1, {}, {"shell"}),
    Cmd("container.logs", 1, {}, {"tail"}),
    Cmd("container.get", 1, {}, {}) })

EvidenceCli == {
    Cmd("evidence.add", 2, {}, {"type"}),
    Cmd("evidence.list", 0, {}, {"case"}),
    Cmd("evidence.get", 1, {}, {}) }

EvidenceUseCli == {
    Cmd("evidence.verify", 1, {}, {}),
    Cmd("evidence.prepare", 1, {}, {"password", "private-key", "passphrase", "force", "json"}) }

EvtxCli ==
    At("local", {Cmd("evtx.views", 0, {}, {"json"})}) \cup {
    Cmd("evtx.view", 1, {"case"}, {"since", "until", "host", "user", "event-id", "desc",
                                   "limit", "offset", "json"}) }

FindingsCli == {
    Cmd("findings.list", 0, {"case"}, {"severity", "status", "limit"}),
    Cmd("findings.get", 1, {}, {"case", "all", "json"}) }

FindingCreateCli == {
    Cmd("findings.create", 0, {"case", "title"}, {"description", "severity"}) }

HostCli == { Cmd("host.profile", 0, {"case"}, {"evidence", "refresh", "json"}) }

(* --engine, --rule-profile and --min-severity are sent when the engine is *)
(* not hayabusa, which is the default and reads neither of the other two.  *)
HuntCli ==
    Along("engine", {"rule-profile", "min-severity"}, {
        Cmd("hunt", 1, {"case"}, {"evidence", "profile", "output", "engine", "rule-profile", "min-severity"}) })

NormalizeCli == {
    Cmd("normalize.replay", 0, {"case"}, {"from-dir"}),
    Cmd("normalize.rerun", 1, {}, {}),
    Cmd("normalize.stats", 1, {}, {}) }

(* _proxy_if_host sends the words and flags it is given: never --store.    *)
RulesCli ==
    Dropping({"store"}, {
        Cmd("rules.status", 0, {}, {"store", "verify", "json"}),
        Cmd("rules.verify", 0, {}, {"store"}),
        Cmd("rules.conflicts", 0, {}, {"store", "profile"}),
        Cmd("rules.show", 2, {}, {"store"}) }) \cup
    At("local", {
        Cmd("rules.lock", 0, {"refresh"}, {}),
        Cmd("rules.sync", 0, {"dest"}, {}) })

ProfileCli == At("local", {
    Cmd("profile.list", 0, {}, {"json"}),
    Cmd("profile.show", 1, {}, {}) })

RunCli == {
    Cmd("run.start", 0, {"case", "evidence"},
        {"profile", "engine", "password", "private-key", "passphrase", "wait", "json"}) }

RunUseCli ==
    At("local", {Cmd("run.worker", 1, {}, {"secrets-file", "resume"})}) \cup {
    Cmd("run.status", 1, {}, {"json"}),
    Cmd("run.list", 0, {}, {"case", "json"}),
    Cmd("run.cancel", 1, {}, {"json"}),
    Cmd("run.resume", 1, {}, {"password", "private-key", "passphrase", "wait", "json"}) }

ScanCli == {
    Cmd(w, 1, {"case"}, {"evidence", "profile", "min-severity", "yara-rules-dir",
                         "sigma-rules-dir", "executables-only"}) :
        w \in {"scan.yara", "scan.sigma", "scan.evidence"} }

SearchCli == { Cmd("search", 1, {"case"}, {"limit"}) }

(* start, status, cancel and jobs drive docker from the host, and proxy    *)
(* prepare, import and state, which the container runs itself.             *)
SupertimelineCli ==
    At("host", {
        Cmd("supertimeline.start", 0, {"case", "evidence"}, {"mode", "parsers", "timezone", "overwrite", "filter"}),
        Cmd("supertimeline.status", 1, {}, {"no-import"}),
        Cmd("supertimeline.cancel", 1, {}, {}),
        Cmd("supertimeline.jobs", 0, {}, {}) }) \cup
    At("local", {
        Cmd("supertimeline.prepare", 0, {"case", "evidence"},
            {"mode", "parsers", "timezone", "overwrite", "filter", "workers"}),
        Cmd("supertimeline.import", 1, {}, {"force"}),
        Cmd("supertimeline.state", 1, {}, {}) })

TimelineSummaryCli == { Cmd("timeline.summary", 0, {"case"}, {}) }
TimelineSearchCli == {
    Cmd("timeline.search", 0, {"case"}, {"query", "from", "to", "hostname", "username", "category",
        "severity", "tool", "type", "sources", "parser", "limit", "offset", "json"}) }
TimelineExportCli == {
    Cmd("timeline.export", 0, {"case"}, {"format", "output", "sources", "from", "to"}) }

ToolsCli == {
    Cmd("tools.list", 0, {}, {"available-only"}),
    Cmd("tools.info", 1, {}, {}),
    Cmd("tools.health", 0, {}, {}) }
DiscoverCli == { Cmd("discover", 1, {}, {"no-recursive"}) }

(* --normalize has no off switch, and is not sent.  The value of           *)
(* --no-logs/--with-logs is written over a no_logs given with --option.    *)
AnalyzeCli ==
    Dropping({"normalize"}, Ignoring({"no_logs"}, {
        Cmd("analyze", 2, {"case"}, {"evidence", "output", "directory", "normalize", "with-logs",
                                     "option", "no_logs"}) }))

RunsCli == { Cmd("runs.list", 0, {}, {"case"}) }
ArtifactsCli == {
    Cmd("artifacts.list", 0, {}, {"case", "type", "category", "tool", "contains", "host", "user",
        "severity", "since", "until", "run", "asc", "limit", "offset", "json"}),
    Cmd("artifacts.get", 1, {}, {"case", "context", "no-raw", "json"}) }

WatchlistCli == {
    Cmd("watchlist.list", 0, {}, {"json"}),
    Cmd("watchlist.show", 1, {}, {}),
    Cmd("watchlist.search", 0, {"case"}, {"watchlist", "term", "scope", "findings", "json"}) }

Commands ==
    CasesCli \cup ContainersCli \cup ContainerUseCli \cup EvidenceCli \cup EvidenceUseCli \cup
    EvtxCli \cup FindingsCli \cup FindingCreateCli \cup HostCli \cup HuntCli \cup NormalizeCli \cup
    RulesCli \cup ProfileCli \cup RunCli \cup RunUseCli \cup ScanCli \cup SearchCli \cup
    SupertimelineCli \cup TimelineSummaryCli \cup TimelineSearchCli \cup TimelineExportCli \cup
    ToolsCli \cup DiscoverCli \cup AnalyzeCli \cup RunsCli \cup ArtifactsCli \cup WatchlistCli
=============================================================================
