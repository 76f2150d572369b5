-------------------------- MODULE MCFixedPriceSale --------------------------
(* Small instances of FixedPriceSale for TLC. *)
EXTENDS FixedPriceSale, Fees

CONSTANTS b1, b2, u1, u2, p1, p2

TwoBuys == {b1, b2}
TwoUsers == {u1, u2}
OneEach == [b \in TwoBuys |-> IF b = b1 THEN u1 ELSE u2]
TwoPods == {p1, p2}
TwoOnTwoPods == [b \in TwoBuys |-> IF b = b1 THEN p1 ELSE p2]
AnyCurrency == {"USD", "ETH", "ADA", "NONE"}
ETH == {"ETH"}

\* The example beside calculateRoyaltyFees: 1 % of 4588 is 46.
ASSUME RoyaltyExample == RoyaltyFees(4588, NoRoyalties, [entries |-> 1, sum |-> 10000]) = {46}

\* Royalties that are null are not paid, though the default is reckoned with.
ASSUME NullExample ==
  LET defaults == [entries |-> 1, sum |-> 990000]
  IN /\ RoyaltyFees(4588, NullRoyalties, defaults) = {0}
     /\ NftRoyalties(NullRoyalties, defaults) = {99}

\* Every small payment has a fee, and what the seller gets is off by two cents at most.
ASSUME SmallFees ==
  \A value \in 0 .. 120, percent \in 0 .. 97 :
    LET fees == FeesTotal(value, percent, [entries |-> 1, sum |-> 10000])
    IN /\ fees # {}
       /\ \A fee \in fees : 100 * (value - fee) - value * (97 - percent) \in -200 .. 200
=============================================================================
