----------------------------- MODULE MCEditions -----------------------------
(* A small instance of Editions for TLC. *)
EXTENDS Editions

CONSTANTS p1, p2, h1, h2

TwoPods == {p1, p2}
TwoHandlers == {h1, h2}
OneEach == [h \in TwoHandlers |-> IF h = h1 THEN p1 ELSE p2]
=============================================================================
