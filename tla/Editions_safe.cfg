\* An edition of two NFTs, announced to two replicas, which may restart, with one fault.
SPECIFICATION FairSpec
CONSTANTS
  p1 = p1  p2 = p2  h1 = h1  h2 = h2
  Nobody = Nobody
  Pods <- TwoPods
  Handlers <- TwoHandlers
  PodOf <- OneEach
  Quantity = 2
  MaxFaults = 1
\* Every handler may have ended.
CHECK_DEADLOCK FALSE
INVARIANTS
  TypeOK
  ListIsComplete
PROPERTIES
  ListIsWrittenOnce
  NftsAreCreated
