SPECIFICATION Spec
CONSTANTS
  Threshold = 8
INVARIANTS
  TypeOK
  SupervisionFitsHistory
  NoneLeftUnkilled
  EndIsReported
PROPERTIES
  DisconnectEnds
  HopelessIsReported
