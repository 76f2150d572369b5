\* Two users whose requests outlast the key's time to live.
SPECIFICATION Spec
CONSTANTS
  b1 = b1  b2 = b2  b3 = b3  u1 = u1  u2 = u2
  NoBid = NoBid
  Bids <- TwoBids
  Users <- TwoUsers
  Bidder <- OneEach
  Offers <- EitherValue
  Reserve = 1
  SlowBids <- TwoBids
\* Every request may have ended.
CHECK_DEADLOCK FALSE
PROPERTY
  HighestBidRises
