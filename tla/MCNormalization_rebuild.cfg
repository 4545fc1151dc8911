SPECIFICATION Spec
CONSTANTS
  Tasks = {p, q}
  Process <- OneProcess
  Runs = {"r1", "r2"}
  Keys = {"a", "b", "c"}
  Types = {"x", "y"}
  Rows <- RowsFixed
  Careful = TRUE
  Halves = FALSE
  MaxNumber = 4
  None = None
SYMMETRY Symmetry
CHECK_DEADLOCK FALSE
INVARIANTS
  RecordMatchesTable
  RunsWhole
PROPERTY
  NumbersKept
\* TypeOK holds too.
