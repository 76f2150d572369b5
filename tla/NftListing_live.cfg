\* Liveness, two requests at a time.
SPECIFICATION FairSpec
CONSTANTS
  m = m  l1 = l1  c1 = c1  c2 = c2  p1 = p1  p2 = p2
  None = None
  Mint = m
  Lists <- OneList
  Cancels <- OneCancel
  Replicas <- OneReplica
  Currencies <- AnyCurrency
  PollingLoops = 1  LeaseLoops = 1  MaxInFlight = 2  MaxFaults = 1
\* Every request may have ended.
CHECK_DEADLOCK FALSE
PROPERTIES
  MintSettles
  RequestsEnd
