SPECIFICATION Spec
CONSTANTS
  a = a
  b = b
  c = c
  Steps = {a, b, c}
  Profiles <- AnyOrder
  MaxParallel = 2
  NotifyMayFail = TRUE
INVARIANTS
  TypeOK
  PermitsAccounted
  ResumedNeverRun
  EndsSettled
  RetriesExhausted
PROPERTIES
  VerdictIsFinal
  NoStartAfterCancel
  NoRunnerAfterCancel
CHECK_DEADLOCK FALSE
