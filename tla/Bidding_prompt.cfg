\* Three bids of two users, fairly scheduled, none of which outlasts its key.
SPECIFICATION FairSpec
CONSTANTS
  b1 = b1  b2 = b2  b3 = b3  u1 = u1  u2 = u2
  NoBid = NoBid
  Bids <- ThreeBids
  Users <- TwoUsers
  Bidder <- TwoOfOne
  Offers <- ReserveOrAbove
  Reserve = 1
  SlowBids <- None
\* Every request may have ended.
CHECK_DEADLOCK FALSE
INVARIANTS
  TypeOK
  OneAuthorisationPerUser
  CancelledByOwnRebid
PROPERTIES
  BidsEnd
  BidLockIsFreed
  HighestBidRises
  OneBidOutlivesAuction
