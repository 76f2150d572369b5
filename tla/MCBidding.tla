------------------------------ MODULE MCBidding ------------------------------
(* Small instances of Bidding for TLC. *)
EXTENDS Bidding

CONSTANTS b1, b2, b3, u1, u2

TwoBids == {b1, b2}
ThreeBids == {b1, b2, b3}
TwoUsers == {u1, u2}
\* u1 bids twice.
TwoOfOne == [b \in ThreeBids |-> IF b = b3 THEN u2 ELSE u1]
OneEach == [b \in TwoBids |-> IF b = b1 THEN u1 ELSE u2]
EitherValue == [b \in TwoBids |-> {1, 2}]
\* One of u1's bids is at the reserve price, the others may be above it.
ReserveOrAbove == [b \in ThreeBids |-> IF b = b1 THEN {1} ELSE {1, 2}]
None == {}
=============================================================================
