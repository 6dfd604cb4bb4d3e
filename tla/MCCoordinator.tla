--------------------------- MODULE MCCoordinator ----------------------------
(* Instances of Coordinator small enough for TLC. *)
EXTENDS Coordinator, TLC

CONSTANTS a, b, g, h, k

MCSid == {a, b}
MCGen == {g, h}
OneGen == {g}
MCKey == {k}
NoKey == {}

(* Identities are only compared, and nothing is ordered by them. *)
Symmetry == Permutations({a, b}) \cup Permutations({g, h})
=============================================================================
