SPECIFICATION Spec
CONSTANTS
  Event = {e1, e2, e3, e4, e5}
  MaxSeen = 3
  MaxPending = 2
INVARIANTS
  TypeOK
  EachEventOnce
  WindowIsExact
PROPERTIES
  NoneLostNoneOvertaken
