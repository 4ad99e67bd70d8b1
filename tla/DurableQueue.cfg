SPECIFICATION Spec
CONSTANTS
  Event = {e1, e2, e3}
  MaxSeen = 1
  MaxPending = 2
  Caller = {c1, c2}
  NoOne = NoOne
  Platforms = {"posix", "nt"}
  Mishaps = {"crash", "cutShort", "powerLoss", "damage"}
  MaxMishaps = 2
INVARIANTS
  TypeOK
  NeverUnreadable
  PromisedIsDurable
PROPERTIES
  ImplementsAssignmentQueue
  DamageIsNeverOverwritten
