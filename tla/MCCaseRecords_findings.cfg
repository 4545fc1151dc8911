SPECIFICATION Spec
CONSTANTS
  a = a
  b = b
  c = c
  p = p
  q = q
  l = l
  x = x
  s1 = s1
  s2 = s2
  s3 = s3
  None = None
  Tasks = {a, b, c}
  Process <- MCProcess
  Ops <- MCOps
  Cap = 9
  Old = {1}
  Paths = {"disk"}
  Slots <- MCSlots
  Rules = {1, 2}
  Runs <- MCRuns
  Threshold = 2
  Literals = {l}
  Regexes = {x}
  Lines <- MCLines
  MaxCount = 2
  MaxLinked = 2
CHECK_DEADLOCK FALSE
INVARIANTS  FailsOnlyAcross
