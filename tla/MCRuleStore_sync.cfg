SPECIFICATION Spec
CONSTANTS
  Syncers = {p}
  Scanners = {q}
  SourceList <- TwoSources
  Releases = {"yara"}
  Files = {"a", "b"}
  RuleFile <- Moving
  MaxVersion = 2
  None = None
INVARIANTS
  ScanLoadsPinned
PROPERTY
  SyncedIsIntact
\* TypeOK holds too; RuleTraced does not (MCRuleStore_traced.cfg).
