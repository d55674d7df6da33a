---------------------------- MODULE MCFeedUpdates ----------------------------
EXTENDS FeedUpdates, TLC

(* Answers of both signs.  Beside MaxU128 = 24, the two extremes cannot be *)
(* fresh together, and either of them can with zero.                       *)
MCResults == {-3, 0, 4}

Symmetry == Permutations(Oracles)
=============================================================================
