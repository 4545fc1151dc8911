SPECIFICATION FairSpec
CONSTANTS
  p = p
  q = q
  t1 = t1
  t2 = t2
  t3 = t3
  Conns = {p, q}
  Tasks = {t1, t2, t3}
  ConnOf <- OneProcess
  MayCancel = TRUE
  Nobody = Nobody
INVARIANTS
  NumbersUnique
  ArtifactsTraceable
PROPERTIES
  RunRowsKept
  ArtifactsKept
  RunsEnd
CHECK_DEADLOCK FALSE
\* TypeOK holds too.
