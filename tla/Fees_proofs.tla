----------------------------- MODULE Fees_proofs -----------------------------
(* Theorems about the fee of a second-hand payment, for every amount.       *)
EXTENDS Fees, TLAPS

Defaults == [entries: Nat \ {0}, sum: Nat]

(* What remains for the platform is never negative, and at most its fee:    *)
(* together with the royalties it takes no more than everything.            *)
LEMMA PlatformShare ==
  ASSUME NEW percent \in 0 .. 100
  PROVE  /\ PlatformFees(percent) \in 0 .. StripeFee
         /\ 10 * percent + PlatformFees(percent) <= 1000
  BY DEF PlatformFees, StripeFee

(* A fraction that is not negative is rounded to a natural number.          *)
LEMMA Rounding ==
  ASSUME NEW n \in Nat, NEW d \in Nat \ {0}
  PROVE  /\ \A k \in Rounded(n, d) : /\ k \in Nat
                                     /\ 2 * n - d <= 2 * (k * d) /\ 2 * (k * d) <= 2 * n + d
         /\ \A k \in Ceiled(n, d) : k \in Nat /\ n <= k * d /\ k * d <= n + d
<1>1. n \div d \in Nat /\ n \div d + 1 \in Nat
  OBVIOUS
<1>2. \A k \in Nat : 2 * k * d = 2 * (k * d)
  OBVIOUS
<1> QED
  BY <1>1, <1>2 DEF Rounded, Ceiled

(* What is asked for is made of shares that are natural numbers.            *)
LEMMA Parts ==
  ASSUME NEW value \in Nat, NEW royalties \in Nat \union Unset, royalties <= 100,
         NEW defaults \in Defaults, defaults.sum <= 1000000,
         NEW total \in Asked(value, royalties, defaults)
  PROVE  \E share \in RoyaltyFees(value, royalties, defaults) :
         \E percent \in NftRoyalties(royalties, defaults) :
           /\ share \in Nat
           /\ percent \in 0 .. 100
           /\ total \in Nat
           /\ 1000 * share + value * PlatformFees(percent) <= 1000 * total
           /\ 1000 * total <= 1000 * share + value * PlatformFees(percent) + 1000
<1>1. PICK share \in RoyaltyFees(value, royalties, defaults),
           percent \in NftRoyalties(royalties, defaults) :
        total \in Ceiled(1000 * share + value * PlatformFees(percent), 1000)
  BY DEF Asked
<1>2. RoyaltiesTotal(royalties, defaults) \in Nat
  BY DEF RoyaltiesTotal, Unset, NoRoyalties, NullRoyalties, Defaults
<1>3. value * RoyaltiesTotal(royalties, defaults) \in Nat
  BY <1>2
<1>4. share \in Nat
  BY <1>3, Rounding DEF RoyaltyFees
<1>5. percent \in 0 .. 100
  <2>1. CASE royalties \in Unset
    <3>1. percent \in Rounded(100 * defaults.sum, 1000000) /\ 100 * defaults.sum \in Nat
      BY <2>1 DEF NftRoyalties, RoyaltyFees, RoyaltiesTotal, Defaults
    <3>2. percent \in Nat /\ 2 * (percent * 1000000) <= 2 * (100 * defaults.sum) + 1000000
      BY <3>1, Rounding
    <3>3. defaults.sum \in Nat
      BY DEF Defaults
    <3> QED
      BY <3>2, <3>3
  <2>2. CASE royalties \notin Unset
    BY <2>2 DEF NftRoyalties
  <2> QED
    BY <2>1, <2>2
<1>6. PlatformFees(percent) \in Nat
  BY <1>5, PlatformShare DEF StripeFee
<1>7. value * PlatformFees(percent) \in Nat
  BY <1>6
<1>8. 1000 * share + value * PlatformFees(percent) \in Nat
  BY <1>4, <1>7
<1>9. /\ total \in Nat
      /\ 1000 * share + value * PlatformFees(percent) <= total * 1000
      /\ total * 1000 <= 1000 * share + value * PlatformFees(percent) + 1000
  BY <1>1, <1>8, Rounding
<1> QED
  BY <1>4, <1>5, <1>9

(* The royalties of an NFT with a percentage of its own, if the defaults    *)
(* have one entry.                                                          *)
LEMMA OwnRoyalties ==
  ASSUME NEW value \in Nat, NEW royalties \in Nat, NEW defaults \in Defaults,
         defaults.entries = 1, NEW share \in RoyaltyFees(value, royalties, defaults)
  PROVE  /\ 2 * (value * royalties) - 100 <= 200 * share
         /\ 200 * share <= 2 * (value * royalties) + 100
<1>1. RoyaltiesTotal(royalties, defaults) = royalties * 10000
  BY DEF RoyaltiesTotal, NoRoyalties, NullRoyalties, Defaults
<1>2. value * (royalties * 10000) = 10000 * (value * royalties)
  OBVIOUS
<1>3. value * royalties \in Nat
  OBVIOUS
<1>4. share \in Rounded(10000 * (value * royalties), 1000000)
  BY <1>1, <1>2 DEF RoyaltyFees
<1>5. /\ share \in Nat
      /\ 2 * (10000 * (value * royalties)) - 1000000 <= 2 * (share * 1000000)
      /\ 2 * (share * 1000000) <= 2 * (10000 * (value * royalties)) + 1000000
  BY <1>3, <1>4, Rounding
<1> QED
  BY <1>3, <1>5

(* calculateFeesTotal: the fee that is applied to a payment intent is an    *)
(* amount that the payment has, whatever the royalties are.                 *)
THEOREM FeeIsPartOfPayment ==
  ASSUME NEW value \in Nat, NEW royalties \in Nat \union Unset, royalties <= 100,
         NEW defaults \in Defaults, defaults.sum <= 1000000,
         NEW fee \in FeesTotal(value, royalties, defaults)
  PROVE  fee \in 0 .. value
<1>1. PICK total \in Asked(value, royalties, defaults) :
        fee = IF total <= value THEN total ELSE value
  BY DEF FeesTotal
<1>2. total \in Nat
  BY Parts
<1> QED
  BY <1>1, <1>2

(* calculateFeesTotal: if the configuration has one entry of royalties, the *)
(* platform gets the royalties and its 3 %, up to half a cent, and the      *)
(* seller the rest of the payment, up to one cent and a half.               *)
THEOREM SharesAreRespected ==
  ASSUME NEW value \in Nat, NEW royalties \in 0 .. 97, NEW defaults \in Defaults,
         defaults.entries = 1, defaults.sum <= 1000000,
         NEW fee \in FeesTotal(value, royalties, defaults)
  PROVE  /\ 2 * (value * royalties) + 6 * value <= 200 * fee + 100
         /\ 200 * fee <= 2 * (value * royalties) + 6 * value + 300
<1>1. PICK total \in Asked(value, royalties, defaults) :
        fee = IF total <= value THEN total ELSE value
  BY DEF FeesTotal
<1>2. PICK share \in RoyaltyFees(value, royalties, defaults),
           percent \in NftRoyalties(royalties, defaults) :
        /\ share \in Nat /\ total \in Nat
        /\ 1000 * share + value * PlatformFees(percent) <= 1000 * total
        /\ 1000 * total <= 1000 * share + value * PlatformFees(percent) + 1000
  BY Parts
<1>3. PlatformFees(percent) = 30
  BY DEF NftRoyalties, Unset, NoRoyalties, NullRoyalties, PlatformFees, StripeFee
<1>4. /\ 1000 * share + value * 30 <= 1000 * total
      /\ 1000 * total <= 1000 * share + value * 30 + 1000
  BY <1>2, <1>3
<1>5. /\ 2 * (value * royalties) - 100 <= 200 * share
      /\ 200 * share <= 2 * (value * royalties) + 100
  BY OwnRoyalties
<1>6. value * royalties \in Nat /\ value * royalties <= 97 * value
  <2>1. \A v, r \in Nat : r <= 97 => v * r <= v * 97
    BY Z3
  <2> QED
    BY <2>1
<1>7. /\ 2 * (value * royalties) + 6 * value <= 200 * total + 100
      /\ 200 * total <= 2 * (value * royalties) + 6 * value + 300
  BY <1>2, <1>4, <1>5, <1>6
<1> QED
  BY <1>1, <1>2, <1>6, <1>7

(* calculateFeesTotal: for an NFT with royalties of its own and one default *)
(* entry the limit to the payment only cuts off what rounding adds, also    *)
(* when royalties leave less than 3 %.                                      *)
THEOREM LimitIsRounding ==
  ASSUME NEW value \in Nat, NEW royalties \in 0 .. 100, NEW defaults \in Defaults,
         defaults.entries = 1, defaults.sum <= 1000000,
         NEW total \in Asked(value, royalties, defaults)
  PROVE  total <= value + 1
<1> DEFINE platform == PlatformFees(royalties)
<1>1. PICK share \in RoyaltyFees(value, royalties, defaults),
           percent \in NftRoyalties(royalties, defaults) :
        /\ share \in Nat /\ total \in Nat
        /\ 1000 * total <= 1000 * share + value * PlatformFees(percent) + 1000
  BY Parts
<1>2. percent = royalties
  BY DEF NftRoyalties, Unset, NoRoyalties, NullRoyalties
<1>3. 1000 * total <= 1000 * share + value * platform + 1000
  BY <1>1, <1>2
<1>4. platform \in Nat /\ 10 * royalties + platform <= 1000
  BY PlatformShare DEF StripeFee
<1>5. 200 * share <= 2 * (value * royalties) + 100
  BY OwnRoyalties
<1>6. 10 * (value * royalties) + value * platform <= 1000 * value
  <2>1. value * (10 * royalties + platform) <= value * 1000
    <3>1. \A v, a \in Nat : a <= 1000 => v * a <= v * 1000
      BY Z3
    <3> QED
      BY <3>1, <1>4
  <2>2. value * (10 * royalties + platform) = 10 * (value * royalties) + value * platform
    BY <1>4
  <2> QED
    BY <2>1, <2>2
<1>7. value * royalties \in Nat /\ value * platform \in Nat
  BY <1>4
<1> HIDE DEF platform
<1>8. 1000 * total <= 1000 * value + 1500
  BY <1>1, <1>3, <1>5, <1>6, <1>7
<1> QED
  BY <1>1, <1>8
=============================================================================
