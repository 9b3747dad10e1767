SPECIFICATION FairSpec
CONSTANTS
  c1 = c1
  c2 = c2
  s1 = s1
  s2 = s2
  Coordinators = {c1, c2}
  Streams = {s1, s2}
  Deployments <- Either
  TraceIDs = {"t1"}
  Cap = 1
  MaxBatch = 2
  MaxNotifies = 2
  MaxExpiries = 0
  MaxFaults = 0
  MayStop = {c1, c2}
  NoTrace = "none"
CHECK_DEADLOCK FALSE
PROPERTIES
  DecisionHeard
  ShutdownEnds
