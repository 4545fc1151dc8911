SPECIFICATION SessionsSpec
CONSTANTS
  bare = bare
  full = full
  d1 = d1
  d2 = d2
  d3 = d3
  link = link
  Nothing = Nothing
  Names = {bare, full}
  Prefixed <- MCPrefixed
  Real <- MCReal
  Below <- MCBelow
  Base <- MCBase
  Keepers = {k1}
  Paths = {}
  Workspaces = {Nothing}
  KeyDirs = {Nothing}
  MaxGiven = 1
  Callers = {c1}
  MaxCreated = 2
  MayDash = FALSE
INVARIANT CallsUnderstood
PROPERTY ForeignUntouched
CHECK_DEADLOCK FALSE
\* What is mounted does not matter here: see MCSessions_documented.cfg.
