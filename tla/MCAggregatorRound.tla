-------------------------- MODULE MCAggregatorRound -------------------------
(* Instances of AggregatorRound for TLC.                                   *)
EXTENDS AggregatorRound

Symmetry == Permutations(Oracles)

TwoOrThree == {<<2, 1>>, <<3, 2>>}

OneOfOne == {<<1, 1>>}

TwoOfTwo == {<<2, 2>>}
=============================================================================
