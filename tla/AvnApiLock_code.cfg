\* Three operations on two pods; a key lives for one of two polls.
SPECIFICATION FairSpec
CONSTANTS
  o1 = o1  o2 = o2  o3 = o3  p1 = p1  p2 = p2
  NoOp = NoOp  NoPod = NoPod
  Pods <- TwoPods
  Ops <- ThreeOps
  Unawaited <- OneMint
  PollingLoops = 2
  LeaseLoops = 1
  MaxRetry = 1
\* Every operation may have ended.
CHECK_DEADLOCK FALSE
INVARIANTS
  TypeOK
  ExclusiveWithinLease
  SignedByOwnerWithinLease
  NoKeyLeftBehind
PROPERTIES
  FreedByItsPod
  MutexSpec
  EveryOpEnds
  KeyIsFreed
