SPECIFICATION FairSpec
CONSTANTS
  t1 = t1
  t2 = t2
  ZeroID = zero
  TombstoneID = tomb
  TraceIDs = {t1}
  Lens = {1, 4}
  HdrSize = 1
  PageSize = 4
  Pages = 2
  DecisionWait = 1
  StalePages <- StaleSmall
  Faults = {}
  MaxFaults = 0
  MaxRecs = 3
  MaxLag = 0
  MaxCallers = 1
  LastInput = 0
  MaxTime = 1
PROPERTIES
  EverySettled
  CloseReturns
  ImplementsQueue
