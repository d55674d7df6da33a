---------------------------- MODULE FeedSchedule ----------------------------
(***************************************************************************)
(* The abstract specification of the cranks: a crank is a set of rows, a   *)
(* push adds a row, and a turn may take any row, for the caller names the  *)
(* index to pop.  Crank refines it with the binary heap of the code.       *)
(***************************************************************************)
EXTENDS FeedRounds, FiniteSets

VARIABLES
    rows,     \* the rows of each crank
    jitter    \* Crank.jitter_modifier of each crank

vars == <<feedVars, rows, jitter>>

Row == [aggregator_addr : Feeds, timestamp : Nat]

RowsOf(c, a) == {r \in rows[c] : r.aggregator_addr = a}

Init ==
    /\ FeedInit
    /\ rows = [c \in Cranks |-> {}]
    /\ jitter = [c \in Cranks |-> 0]

CrankPush(c, a, byAuthority) ==
    /\ PushFeed(a, c, byAuthority)
    /\ rows' = [rows EXCEPT ![c] = @ \cup {[aggregator_addr |-> a, timestamp |-> now]}]
    /\ UNCHANGED jitter

CrankPop(c, row, outcome) ==
    LET a == row.aggregator_addr
    IN  /\ now > row.timestamp
        /\ outcome \in SimulationOutcomes(a)
        /\ TurnFeed(a, outcome, row.timestamp, jitter[c])
        /\ rows' = [rows EXCEPT ![c] = (@ \ {row}) \cup
                       IF Rescheduled(outcome)
                       THEN {[aggregator_addr |-> a, timestamp |-> next_allowed'[a]]}
                       ELSE {}]
        /\ jitter' = [jitter EXCEPT ![c] = NextJitter(@)]

CrankNext ==
    \/ \E c \in Cranks, a \in Feeds, b \in BOOLEAN : CrankPush(c, a, b)
    \/ \E c \in Cranks : \E row \in rows[c] : \E o \in Outcomes : CrankPop(c, row, o)

Next ==
    \/ CrankNext
    \/ FeedNext /\ UNCHANGED <<rows, jitter>>

Spec == Init /\ [][Next]_vars

----------------------------------------------------------------------------
TypeOK ==
    /\ FeedTypeOK
    /\ rows \in [Cranks -> SUBSET Row]
    /\ jitter \in [Cranks -> 0..(JitterModulus - 1)]

(* A feed has at most one row, in one crank, and has one only while its    *)
(* row count is 1: the count is the only thing that keeps crank_push from  *)
(* enlisting a feed twice, and set_config may point the feed at another    *)
(* crank while its row is still in the old one.                            *)
OneRowPerFeed ==
    /\ \A a \in Feeds : crank_row_count[a] \in {0, 1}
    /\ \A a \in Feeds, c \in Cranks : \A r \in RowsOf(c, a) : crank_row_count[a] = 1
    /\ \A a \in Feeds, c, d \in Cranks : \A r \in RowsOf(c, a), s \in RowsOf(d, a) :
          c = d /\ r = s

(* The next round of a feed is never due before the least delay after the  *)
(* round that was opened last, even if the authority changes the delay.    *)
DelayKept ==
    \A a \in Feeds :
        /\ round_open_timestamp[a] <= now
        /\ rounds_opened[a] > 0 => next_allowed[a] >= round_open_timestamp[a] + LeastDelay

(* Two rounds of one feed are opened at least the least delay apart,       *)
(* whoever opens them: a crank turn, a direct open_round call, or the one  *)
(* right after the other, with any change of configuration in between.     *)
RoundsSpaced ==
    [][\A a \in Feeds :
          rounds_opened'[a] # rounds_opened[a] /\ rounds_opened[a] > 0
            => now - round_open_timestamp[a] >= LeastDelay]_vars

InACrank(a) == \E c \in Cranks : RowsOf(c, a) # {}

RefusedIn(a, outcomes) ==
    \E c \in Cranks : \E row \in RowsOf(c, a), o \in outcomes : CrankPop(c, row, o)

(* A feed leaves the cranks only in a turn that found it due and refused   *)
(* it the round for want of a queue, coins or a permission.  A turn whose  *)
(* outcome is any other keeps it: one that opens the round, one that comes *)
(* too early for it or finds too few oracles, and one whose row had grown  *)
(* stale.                                                                  *)
LeavesForCause ==
    [][/\ \A a \in Feeds : InACrank(a) /\ ~InACrank(a)' =>
             /\ can_open_round(a)
             /\ RefusedIn(a, {"QueueNotFound", "LeaseInsufficientCoin", "PermissionDenied"})
       /\ \A c \in Cranks : \A row \in rows[c] :
             \A o \in {"Ok", "IllegalRoundOpenCall", "QueueNotReady"} :
                CrankPop(c, row, o) => InACrank(row.aggregator_addr)']_vars

(* The row count, which is all that crank_push asks, is 0 exactly when the *)
(* feed has no row and may be given one.  Only a feed that a turn evicted, *)
(* and told so, is counted without a row, and it never has one again.      *)
CountedOrEvicted ==
    \A a \in Feeds :
        /\ crank_row_count[a] = IF InACrank(a) \/ a \in evicted THEN 1 ELSE 0
        /\ ~(InACrank(a) /\ a \in evicted)
=============================================================================
