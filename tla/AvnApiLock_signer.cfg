\* Finding: after a lapsed lease a request is signed with another user's key.
SPECIFICATION Spec
CONSTANTS
  o1 = o1  o2 = o2  o3 = o3  p1 = p1  p2 = p2
  NoOp = NoOp  NoPod = NoPod
  Pods <- OnePod
  Ops <- ThreeOps
  Unawaited <- OneMint
  PollingLoops = 3
  LeaseLoops = 2
  MaxRetry = 0
CHECK_DEADLOCK FALSE
INVARIANT SignedByOwner
