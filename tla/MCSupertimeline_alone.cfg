SPECIFICATION Spec
CONSTANTS
  j1 = j1
  j2 = j2
  h1 = h1
  h2 = h2
  p1 = p1
  p2 = p2
  Jobs = {j1, j2}
  Hosts = {h1}
  Mortal = {h1}
  Params = {p1, p2}
  Modes = {"plaso", "bodyfile"}
  FsTypes = 1
  Alone = TRUE
  None = None
INVARIANTS
  TypeOK
  ReuseIsSound
  CompletedIsWhole
SYMMETRY Symmetry
CHECK_DEADLOCK FALSE
