SPECIFICATION Spec
CONSTANTS
  Workers = {w1, w2}
  Clients = {c1, c2}
  Steps = {s1, s2}
  OptionalSteps = {s2}
  Commands = {"status", "resume"}
  MayRaise = FALSE
  MayDie = TRUE
  NoPid = NoPid
INVARIANTS
  TypeOK
  ManifestBehindRow
PROPERTIES
  RecordedStepsKept
  CompletedNotRerun
SYMMETRY Symmetry
CHECK_DEADLOCK FALSE
