SPECIFICATION MCSpec
CONSTANTS
  Items <- MCItems
  Steps <- MCSteps
  Engines = {"auto", "ez", "dissect"}
  MaxAttempts = 2
  i1 = i1
  i2 = i2
  i3 = i3
  i4 = i4
  Top = i1
  Preps = {p1}
  MaxNesting = 1
  SevenDepth = 1
  None = None
INVARIANTS FindsWhatIsThere StepCovers
PROPERTY RecordIsWhole
CHECK_DEADLOCK FALSE
\* TypeOK, SkippedParsedNothing and EngineRespected hold too.
