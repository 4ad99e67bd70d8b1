SPECIFICATION FairSpec
CONSTANTS
  e1 = e1  e2 = e2  t1 = t1  old = old  new = new
  Event = {e1, e2}
  Thread = {t1}
  ThreadOf <- OneThread
  Instance = {old, new}
  Allowed <- AllowAll
  Nobody = Nobody
  Overlap = FALSE
  MaxPending = 2
  MaxRetries = 0
  MaxTroubles = 1
  MaxCrashes = 1
INVARIANTS
  AnsweredOnce
PROPERTIES
  AnsweredUnlessTrouble
  AnsweredWithRestarts
