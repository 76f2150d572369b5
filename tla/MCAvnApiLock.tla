---------------------------- MODULE MCAvnApiLock ----------------------------
(* Instances of AvnApiLock for TLC. *)
EXTENDS AvnApiLock

CONSTANTS o1, o2, o3, p1, p2

ThreeOps == {o1, o2, o3}
OnePod == {p1}
TwoPods == {p1, p2}
OneMint == {o1}
=============================================================================
