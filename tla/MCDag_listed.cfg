SPECIFICATION FairSpec
CONSTANTS
  a = a
  b = b
  c = c
  Steps = {a, b, c}
  Profiles <- ListedFirst
  MaxParallel = 2
  NotifyMayFail = FALSE
INVARIANTS
  NothingLeftStuck
PROPERTIES
  ImplementsStepGraph
  Termination
CHECK_DEADLOCK FALSE
