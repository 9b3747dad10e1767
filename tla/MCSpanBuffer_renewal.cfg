SPECIFICATION Spec
CONSTANTS
  t1 = t1
  t2 = t2
  ZeroID = zero
  TombstoneID = tomb
  TraceIDs = {t1}
  Lens = {1}
  HdrSize = 1
  PageSize = 4
  Pages = 2
  DecisionWait = 2
  StalePages <- NoPages
  Faults = {}
  MaxFaults = 0
  MaxRecs = 1
  MaxLag = 0
  MaxCallers = 1
  LastInput = 3
  MaxTime = 5
PROPERTIES
  DecisionInTimeMatches
