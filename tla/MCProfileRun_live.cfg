SPECIFICATION FairSpec
CONSTANTS
  Workers = {w1}
  Clients = {c1, c2}
  Steps = {s1, s2}
  OptionalSteps = {}
  Commands = {"status", "cancel"}
  MayRaise = TRUE
  MayDie = TRUE
  NoPid = NoPid
PROPERTIES
  RunningEnds
CHECK_DEADLOCK FALSE
