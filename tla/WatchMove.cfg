SPECIFICATION Spec
CONSTANTS
  e1 = e1  e2 = e2  t1 = t1
  Event = {e1}
  Thread = {t1}
  ThreadOf <- OneThread
  NumBoxes = 2
  Sidecar = {p1}
  None = None
  FirstStart = TRUE
  MaxMoves = 1
  MaxFailures = 1
INVARIANTS
  ReplayedAfterRestart
