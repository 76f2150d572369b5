\* One request served at a time, in any currency, with lagging replicas and failures.
SPECIFICATION Spec
CONSTANTS
  m = m  l1 = l1  c1 = c1  c2 = c2  p1 = p1  p2 = p2
  None = None
  Mint = m
  Lists <- OneList
  Cancels <- TwoCancels
  Replicas <- TwoReplicas
  Currencies <- AnyCurrency
  PollingLoops = 2  LeaseLoops = 1  MaxInFlight = 1  MaxFaults = 1
SYMMETRY Symmetry
CONSTRAINT Promised
\* Every request may have ended.
CHECK_DEADLOCK FALSE
INVARIANTS
  TypeOK
  DatabaseAgreesWithChain
PROPERTY
  LifecycleSpec
