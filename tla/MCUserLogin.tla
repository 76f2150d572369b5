----------------------------- MODULE MCUserLogin -----------------------------
(* Small instances of UserLogin for TLC. *)
EXTENDS UserLogin

CONSTANTS l1, l2, r1, r2

TwoLogins == {l1, l2}
TwoReplicas == {r1, r2}
=============================================================================
