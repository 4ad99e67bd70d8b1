SPECIFICATION Spec
CONSTANTS
  Event = {e1, e2}
  MaxSeen = 1
  MaxPending = 2
  Caller = {c1}
  NoOne = NoOne
  Platforms = {"posix"}
  Mishaps = {"cutShort", "powerLoss"}
  MaxMishaps = 2
INVARIANTS
  PersistedBeforeAcknowledged
