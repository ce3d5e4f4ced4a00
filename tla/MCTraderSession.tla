--------------------------- MODULE MCTraderSession ---------------------------
(* Instances of TraderSession for TLC. *)
EXTENDS TraderSession, TLC

CONSTANTS s1, s2, s3, tA

\* Three connections of one trader: a victim and two that compete for its slot.
OneTrader == [s \in Sessions |-> tA]

Symmetry == Permutations(Sessions)
=============================================================================
