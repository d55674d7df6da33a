--------------------------- MODULE MCRoundPayouts ---------------------------
(* Instances of RoundPayouts for TLC.                                      *)
EXTENDS RoundPayouts

Symmetry == Permutations(Oracles)

TwoOracles == {<<2, 2>>, <<1, 1>>}
=============================================================================
