-------------------------------- MODULE Fees --------------------------------
(***************************************************************************)
(* What the platform keeps of a second-hand payment                        *)
(* (ListingService.calculateFeesTotal): the royalties and its own fee, at  *)
(* most the payment.  Amounts are in the smallest unit, cents of USD.      *)
(*                                                                         *)
(* The code computes in floating point.  The exact values are fractions    *)
(* with six decimals, so that a price within the limit of a listing loses  *)
(* nothing but the side on which a value falls that should be exactly on   *)
(* the boundary: rounding is a relation, and not a function.               *)
(***************************************************************************)
EXTENDS Integers

\* An NFT without royalties of its own: it has no such field, or null in it.
NoRoyalties == -1
NullRoyalties == -2
Unset == {NoRoyalties, NullRoyalties}

\* Math.round(n / d) and Math.ceil(n / d), for n >= 0 and d > 0.
Rounded(n, d) ==
  {k \in {n \div d, n \div d + 1} : 2 * n - d <= 2 * k * d /\ 2 * k * d <= 2 * n + d}
Ceiled(n, d) == {k \in {n \div d, n \div d + 1} : n <= k * d /\ k * d <= n + d}

\* Parts per million that all royalties amount to.  The defaults of the configuration
\* have a number of entries and a sum; a percentage of the NFT's own replaces each entry,
\* and so does null, which counts as zero.
RoyaltiesTotal(royalties, defaults) ==
  IF royalties = NoRoyalties
    THEN defaults.sum
    ELSE defaults.entries * (IF royalties = NullRoyalties THEN 0 ELSE royalties * 10000)

RoyaltyFees(value, royalties, defaults) ==
  Rounded(value * RoyaltiesTotal(royalties, defaults), 1000000)

\* In percent: the default, here for null too, is what royalties a payment of 100 has.
NftRoyalties(royalties, defaults) ==
  IF royalties \in Unset THEN RoyaltyFees(100, NoRoyalties, defaults) ELSE {royalties}

\* Per mille: 3 %, or what the royalties leave.
StripeFee == 30
PlatformFees(percent) ==
  IF 10 * percent + StripeFee > 1000 THEN 1000 - 10 * percent ELSE StripeFee

\* The sum, and the fee that is applied to the payment intent.
Asked(value, royalties, defaults) ==
  UNION {Ceiled(1000 * share + value * PlatformFees(percent), 1000) :
           share \in RoyaltyFees(value, royalties, defaults),
           percent \in NftRoyalties(royalties, defaults)}

FeesTotal(value, royalties, defaults) ==
  {IF total <= value THEN total ELSE value : total \in Asked(value, royalties, defaults)}
=============================================================================
