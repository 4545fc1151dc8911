SPECIFICATION FairSpec
CONSTANTS
  j1 = j1
  j2 = j2
  h1 = h1
  h2 = h2
  p1 = p1
  p2 = p2
  Jobs = {j1}
  Hosts = {h1, h2}
  Mortal = {h1}
  Params = {p1}
  Modes = {"plaso", "all", "unallocated"}
  FsTypes = 2
  Alone = TRUE
  None = None
INVARIANTS
  ImportIsFaithful
  CompletedIsWhole
PROPERTIES
  JobsEnd
CHECK_DEADLOCK FALSE
