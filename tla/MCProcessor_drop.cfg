SPECIFICATION Spec
CONSTANTS
  t1 = t1
  t2 = t2
  c1 = c1
  c2 = c2
  TraceIDs = {t1, t2}
  DecisionWait = 2
  Callers = {c1}
  Batches <- SmallBatches
  MaxGroups = 1
  MaxDecisions = 1
  MaxTime = 2
INVARIANTS DroppedStays
CHECK_DEADLOCK FALSE
