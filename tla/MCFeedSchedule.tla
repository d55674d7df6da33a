--------------------------- MODULE MCFeedSchedule ---------------------------
(* Instances of FeedSchedule for TLC.                                      *)
EXTENDS FeedSchedule

CONSTANT f1

ItsPermission == {<<f1, "permission">>}
=============================================================================
