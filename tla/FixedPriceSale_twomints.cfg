\* Two buyers in ETH.
SPECIFICATION Spec
CONSTANTS
  b1 = b1  b2 = b2  u1 = u1  u2 = u2  p1 = p1  p2 = p2
  NoBuy = NoBuy
  Buys <- TwoBuys
  Users <- TwoUsers
  Buyer <- OneEach
  Pods <- TwoPods
  PodOf <- TwoOnTwoPods
  Currencies <- ETH
\* Every purchase may have ended.
CHECK_DEADLOCK FALSE
INVARIANT OneMintTransaction
