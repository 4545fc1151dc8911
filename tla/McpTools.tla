------------------------------- MODULE McpTools -------------------------------
(***************************************************************************)
(* The command lines that the tools of mcp_server/server.py and the host   *)
(* side of the supertimeline send into a case container: the words, the    *)
(* number of values, the options always sent and those sent when the       *)
(* caller gave them.  list_evtx_views answers on the host.                 *)
(***************************************************************************)
EXTENDS Interface

(* checked: the server itself refuses a bad path or key before it sends.   *)
Tool(name, words, values, sent, may) ==
    [name |-> name, words |-> words, values |-> values, sent |-> sent, may |-> may,
     checked |-> FALSE]
Checked(tools) == {[t EXCEPT !.checked = TRUE] : t \in tools}

(* run_tool validates the tool, the path and the options first.            *)
RunTool == Checked({
    Tool("run_tool", "analyze", 2, {"case"}, {"evidence", "directory", "option", "no_logs"}) })

CaseTools == {
    Tool("create_case", "case.create", 1, {}, {"description"}),
    Tool("list_cases", "cases.list", 0, {}, {}),
    Tool("get_case", "case.get", 1, {}, {}) }

EvidenceTools == {
    Tool("register_evidence", "evidence.add", 2, {"type"}, {}),
    Tool("list_evidence", "evidence.list", 0, {}, {"case"}),
    Tool("get_evidence", "evidence.get", 1, {}, {}),
    Tool("verify_evidence", "evidence.verify", 1, {}, {}),
    Tool("discover_evidence", "discover", 1, {}, {}) }

(* The analyses differ by the tool they name and by the flags they offer.  *)
Analyze(name, may) == Tool(name, "analyze", 2, {"case"}, {"evidence"} \cup may)

MftToPrefetchTools == {
    Analyze("analyze_mft", {}), Analyze("analyze_evtx", {"directory"}),
    Analyze("analyze_registry", {"directory", "with-logs"}), Analyze("analyze_prefetch", {"directory"}) }
AmcacheToJumplistTools == {
    Analyze("analyze_amcache", {}), Analyze("analyze_shimcache", {}),
    Analyze("analyze_lnk", {"directory"}), Analyze("analyze_jumplist", {"directory"}) }
RecyclebinToSqliteTools == {
    Analyze("analyze_recyclebin", {"directory"}), Analyze("analyze_shellbags", {"with-logs"}),
    Analyze("analyze_wintimeline", {}), Analyze("analyze_sqlite", {"directory"}) }
SrumToUalTools == {
    Analyze("analyze_srum", {"option"}), Analyze("analyze_usn", {"option"}), Analyze("analyze_ual", {}) }

(* Mutant: list_artifacts names the host filter as its parameter is named. *)
ArtifactToolsMutant == {
    Tool("list_artifacts", "artifacts.list", 0, {"json", "limit", "offset"},
         {"case", "category", "type", "tool", "contains", "hostname"}) }
ArtifactTools == {
    Tool("list_tools", "tools.list", 0, {}, {}),
    Tool("tools_health", "tools.health", 0, {}, {}),
    Tool("list_tool_runs", "runs.list", 0, {}, {"case"}),
    Tool("list_artifacts", "artifacts.list", 0, {"json", "limit", "offset"},
         {"case", "category", "type", "tool", "contains", "host", "user", "severity", "since",
          "until", "run", "asc"}),
    Tool("get_artifact", "artifacts.get", 1, {"json"}, {"context", "no-raw"}) }

HuntTools == {
    Tool("get_finding", "findings.get", 1, {"json"}, {"case"}),
    Tool("show_rule", "rules.show", 2, {}, {}),
    Tool("hunt_evtx", "hunt", 1, {"case", "profile"}, {"evidence"}),
    Tool("hunt_chainsaw", "hunt", 1, {"case", "profile", "engine", "rule-profile", "min-severity"},
         {"evidence"}) }

CaseViewTools == {
    Tool("get_evtx_view", "evtx.view", 1, {"case", "limit", "offset", "json"},
         {"since", "until", "host", "user", "event-id", "desc"}),
    Tool("get_host_profile", "host.profile", 0, {"case", "json"}, {"evidence", "refresh"}),
    Tool("list_watchlists", "watchlist.list", 0, {"json"}, {}),
    Tool("search_watchlist", "watchlist.search", 0, {"case", "json"},
         {"watchlist", "term", "scope", "findings"}) }

TimelineTools == {
    Tool("build_timeline", "timeline.summary", 0, {"case"}, {}),
    Tool("search_timeline", "timeline.search", 0, {"case", "limit", "json"},
         {"query", "from", "to", "hostname", "username", "category", "severity", "tool", "type",
          "sources", "parser", "offset"}) }

FindingTools == {
    Tool("list_findings", "findings.list", 0, {"case"}, {"severity", "status"}),
    Tool("search_ioc", "search", 1, {"case"}, {}) }

ScanTools ==
    LET Scan(name, words, may) ==
            Tool(name, words, 1, {"case", "profile", "min-severity"}, {"evidence"} \cup may)
    IN  { Scan("scan_yara", "scan.yara", {"yara-rules-dir"}),
          Scan("scan_sigma", "scan.sigma", {"sigma-rules-dir"}),
          Scan("scan_evidence", "scan.evidence", {}) }

RuleTools == {
    Tool("get_ruleset_info", "rules.status", 0, {"json"}, {"verify"}),
    Tool("list_rule_conflicts", "rules.conflicts", 0, {}, {"profile"}) }

Secrets == {"password", "passphrase"}
KeyOptions == Secrets \cup {"private-key"}

PrepareTools == Checked({
    Tool("prepare_evidence", "evidence.prepare", 1, {"json"}, {"force"} \cup KeyOptions) })

ProfileTools == {
    Tool("list_profiles", "profile.list", 0, {"json"}, {}),
    Tool("get_profile", "profile.show", 1, {}, {}) }

RunTools == Checked({
    Tool(name, "run.start", 0, {"case", "evidence", "profile", "engine", "json"}, KeyOptions) :
        name \in {"run_profile", "analyze_evidence"} })

RunUseTools ==
    { Tool("get_run_status", "run.status", 1, {"json"}, {}),
      Tool("list_runs", "run.list", 0, {"json"}, {"case"}),
      Tool("cancel_run", "run.cancel", 1, {"json"}, {}) } \cup
    Checked({ Tool("resume_run", "run.resume", 1, {"json"}, KeyOptions) })

ExportTools == { Tool("export_timeline", "timeline.export", 0, {"case", "format"}, {"output", "sources"}) }

(* start and status of supertimeline_host, which the MCP tools and the CLI *)
(* of the host share.                                                      *)
SupertimelineTools == {
    Tool("build_supertimeline", "supertimeline.prepare", 0, {"case", "evidence", "mode", "workers"},
         {"parsers", "timezone", "filter", "overwrite"}),
    Tool("get_supertimeline_status", "supertimeline.import", 1, {}, {}) }

NormalizeTools == {
    Tool("normalize_replay", "normalize.replay", 0, {"case"}, {}),
    Tool("normalize_rerun", "normalize.rerun", 1, {}, {}),
    Tool("get_normalization_stats", "normalize.stats", 1, {}, {}) }

Tools ==
    RunTool \cup CaseTools \cup EvidenceTools \cup MftToPrefetchTools \cup AmcacheToJumplistTools \cup
    RecyclebinToSqliteTools \cup SrumToUalTools \cup ArtifactTools \cup HuntTools \cup CaseViewTools \cup
    TimelineTools \cup FindingTools \cup ScanTools \cup RuleTools \cup PrepareTools \cup ProfileTools \cup
    RunTools \cup RunUseTools \cup ExportTools \cup SupertimelineTools \cup NormalizeTools
=============================================================================
