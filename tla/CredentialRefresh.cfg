SPECIFICATION Spec
CONSTANTS
  Process = {p1, p2, p3}
  NoProcess = NoProcess
  MaxPairs = 2
  MaxCuts = 1
INVARIANTS
  TypeOK
  NoReplacedTokenPresented
  StoreIsCurrent
PROPERTIES
  SpentOnlyWhenDue
