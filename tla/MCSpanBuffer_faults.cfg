SPECIFICATION Spec
CONSTANTS
  t1 = t1
  t2 = t2
  ZeroID = zero
  TombstoneID = tomb
  TraceIDs = {t1}
  Lens = {1, 5}
  HdrSize = 1
  PageSize = 5
  Pages = 3
  DecisionWait = 1
  StalePages <- NoPages
  Faults = {"flush", "large", "read", "chunk", "writeback"}
  MaxFaults = 2
  MaxRecs = 3
  MaxLag = 0
  MaxCallers = 1
  LastInput = 0
  MaxTime = 1
INVARIANTS
  FaultsContained
  RedeliveryBounded
