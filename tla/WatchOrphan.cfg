SPECIFICATION Spec
CONSTANTS
  e1 = e1  e2 = e2  t1 = t1
  Event = {e1, e2}
  Thread = {t1}
  ThreadOf <- OneThread
  NumBoxes = 2
  Sidecar = {p1, p2}
  None = None
  FirstStart = FALSE
  MaxMoves = 0
  MaxFailures = 2
SYMMETRY Alike
INVARIANTS
  NothingPassedBy
  ThreadOrder
