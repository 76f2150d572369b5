---------------------------- MODULE MCNftListing ----------------------------
(* Instances of NftListing for TLC. *)
EXTENDS NftListing, TLC

CONSTANTS m, l1, c1, c2, p1, p2

OneList == {l1}
OneCancel == {c1}
TwoCancels == {c1, c2}
OneReplica == {p1}
TwoReplicas == {p1, p2}

USD == {"USD"}
AnyCurrency == {"USD", "ETH", "ADA"}

\* Past the first lapse the properties of the safe run promise nothing more.
Promised == ~lapsed

Symmetry == Permutations(TwoCancels) \union Permutations(TwoReplicas)
=============================================================================
