\* Finding: cancelling a rejected listing puts the NFT on sale.
SPECIFICATION Spec
CONSTANTS
  m = m  l1 = l1  c1 = c1  c2 = c2  p1 = p1  p2 = p2
  None = None
  Mint = m
  Lists <- OneList
  Cancels <- OneCancel
  Replicas <- OneReplica
  Currencies <- USD
  PollingLoops = 1  LeaseLoops = 1  MaxInFlight = 1  MaxFaults = 0
CHECK_DEADLOCK FALSE
INVARIANT ForSaleOnlyIfListed
