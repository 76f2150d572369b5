\* Two buyers on two pods, any currency and NFT, with failures.
SPECIFICATION FairSpec
CONSTANTS
  b1 = b1  b2 = b2  u1 = u1  u2 = u2  p1 = p1  p2 = p2
  NoBuy = NoBuy
  Buys <- TwoBuys
  Users <- TwoUsers
  Buyer <- OneEach
  Pods <- TwoPods
  PodOf <- TwoOnTwoPods
  Currencies <- AnyCurrency
\* Every purchase may have ended.
CHECK_DEADLOCK FALSE
INVARIANTS
  TypeOK
  RecordedPaymentConfirmed
  WinnerHasTransaction
  MintedForWhoIsTold
PROPERTIES
  LateBuyerIsRefused
  PurchasesEnd
  LockIsFreed
