SPECIFICATION Spec
CONSTANT MaxRetries = 3
INVARIANTS
  TypeOK
  AtMostOneMutation
  ConfirmedMeansApplied
  NoSidecarLeftBehind
PROPERTIES
  CallEnds
