SPECIFICATION Spec
CONSTANTS
  c1 = c1
  c2 = c2
  s1 = s1
  s2 = s2
  Coordinators = {c1, c2}
  Streams = {s1, s2}
  Deployments <- Either
  TraceIDs = {t1, t2}
  Cap = 1
  MaxBatch = 2
  MaxNotifies = 2
  MaxExpiries = 1
  MaxFaults = 1
  MayStop = {c1}
  NoTrace = none
SYMMETRY TraceSymmetry
CHECK_DEADLOCK FALSE
INVARIANTS
  TypeOK
  StreamOrder
  DropsAccounted
  Deduplicated
