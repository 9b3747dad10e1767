SPECIFICATION Spec
CONSTANTS
  c1 = c1
  c2 = c2
  p1 = p1
  p2 = p2
  TraceIDs = {t1}
  Clients = {c1, c2}
  Proxies = {p1, p2}
  Deployments <- Both
  SendCap = 1
  SendBufSize = 1
  Cap = 1
  MaxBackoff = 2
  MaxPause = 2
  MaxFaults = 1
INVARIANTS TypeOK NoEcho KeptWasDecided
PROPERTIES DecisionReachesFleet ConnectedOrClosed
CHECK_DEADLOCK FALSE
