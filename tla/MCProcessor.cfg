SPECIFICATION Spec
CONSTANTS
  t1 = t1
  t2 = t2
  c1 = c1
  c2 = c2
  TraceIDs = {t1, t2}
  DecisionWait = 2
  Callers = {c1, c2}
  Batches <- SmallBatches
  MaxGroups = 2
  MaxDecisions = 1
  MaxTime = 4
SYMMETRY Sym
INVARIANTS TypeOK GroupsFaithful OneFate ForwardedOnDecision
PROPERTIES WholeTrace QuietAfterShutdown
CHECK_DEADLOCK FALSE
