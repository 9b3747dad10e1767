SPECIFICATION Spec
CONSTANTS
  t1 = t1
  t2 = t2
  ZeroID = zero
  TombstoneID = tomb
  TraceIDs = {t1}
  Lens = {1, 4}
  HdrSize = 1
  PageSize = 4
  Pages = 3
  DecisionWait = 1
  StalePages <- NoPages
  Faults = {}
  MaxFaults = 0
  MaxRecs = 3
  MaxLag = 0
  MaxCallers = 1
  LastInput = 1
  MaxTime = 2
INVARIANTS
  TypeOK
  UsedInRing
  RingAligned
  RingFramed
  AtMostOnce
  NoSilentLoss
  InsertionOrder
  WriterArmed
  SweeperArmed
  DecisionWakes
PROPERTIES
  EarlyOnlyUnderPressure
