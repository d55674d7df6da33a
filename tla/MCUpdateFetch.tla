--------------------------- MODULE MCUpdateFetch ----------------------------
EXTENDS UpdateFetch

CONSTANTS c1, c2, f1, f2, h1, h2

MCRequests == {<<f1>>, <<f2, f1>>}

(* A small and a large feed; two feeds may have the same jobs.             *)
MCConfigs == {[feed_hash |-> h1, min_sample_size |-> 1],
              [feed_hash |-> h2, min_sample_size |-> 3]}

(* Both feeds are in one shard, and so are both hashes.                    *)
MCFeedShard == [f \in Feeds |-> 1]
MCJobShard  == [h \in {h1, h2} |-> 1]

(* Each call a task of its own, or both joined in one.                     *)
MCTaskings == {[c \in Calls |-> c], [c \in Calls |-> c1]}

(* A part of the feeds, or all; according to what their accounts hold, in  *)
(* the order of the request or another, or about jobs that it has not.     *)
MCAnswers == {<<h2>>, <<h2, h1>>}
=============================================================================
