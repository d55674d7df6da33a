----------------------------- MODULE FeedRounds -----------------------------
(***************************************************************************)
(* What a crank turn needs to know of a feed (an Aggregator of aptos_v2)   *)
(* and does to it: when its next round may be opened, and how many crank   *)
(* rows it believes to have.  FeedSchedule and Crank add the rows, as sets *)
(* and as heaps.                                                           *)
(*                                                                         *)
(* What a lease holds, what a permission says and the size of the queue,   *)
(* which other transactions change at any time, decide whether a feed that *)
(* is due gets its round.  They are not state here: the outcome of a       *)
(* simulation is any that some state of them gives.  Whether the records   *)
(* exist at all is state, since a turn that looks for a missing one aborts *)
(* and leaves the row where it was.  RoundPayouts models the lease.        *)
(***************************************************************************)
EXTENDS Integers

CONSTANTS
    Feeds,            \* addresses of the aggregators
    Cranks,           \* addresses of the cranks
    LeastDelay,       \* the 5 seconds that validate asks of a delay
    Delays,           \* delays that authorities ask for
    JitterModulus,    \* the 5 of the jitter computations
    StartTimes,       \* values given to start_after
    DisableChoices,   \* values given to crank_disabled
    Refusals,         \* why a feed that is due may be refused a round
    MayLack,          \* pairs of a feed and a record that may be missing
    Reconfigured,     \* feeds whose authority calls set_configs
    OpenedDirectly,   \* feeds whose rounds are opened by other calls than pop
    MaxTime           \* bound of the clock, for model checking

ASSUME FeedRoundsAssumption ==
    /\ LeastDelay \in Nat \ {0}
    /\ Delays \subseteq Nat
    /\ JitterModulus \in Nat \ {0}
    /\ StartTimes \subseteq Nat
    /\ DisableChoices \subseteq BOOLEAN
    /\ Refusals \subseteq {"QueueNotFound", "QueueNotReady", "LeaseInsufficientCoin",
                           "PermissionDenied"}
    /\ MayLack \subseteq Feeds \X {"escrow", "permission", "wallet"}
    /\ Reconfigured \subseteq Feeds
    /\ OpenedDirectly \subseteq Feeds
    /\ MaxTime \in Nat

VARIABLES
    now,                  \* timestamp::now_seconds()
    crank_addr,           \* AggregatorConfig.crank_addr
    crank_disabled,       \* AggregatorConfig.crank_disabled
    crank_row_count,      \* AggregatorConfig.crank_row_count
    next_allowed,         \* AggregatorConfig.next_allowed_update_time
    start_after,          \* AggregatorConfig.start_after
    min_update_delay,     \* AggregatorConfig.min_update_delay_seconds
    rounds_opened,        \* how many rounds open_round has opened
    round_open_timestamp, \* of the current round
    lacking,              \* what of MayLack is missing: the feed's escrow for its
                          \* queue, its permission if the queue asks for one, the
                          \* wallet of an oracle that its open round pays or fines
    evicted               \* feeds of the events that tell of an eviction

feedConfigVars == <<crank_addr, crank_disabled, start_after, min_update_delay>>
feedRoundVars  == <<next_allowed, rounds_opened, round_open_timestamp>>
feedVars == <<now, crank_addr, crank_disabled, crank_row_count, next_allowed, start_after,
              min_update_delay, rounds_opened, round_open_timestamp, lacking, evicted>>

(* What validate lets through, of aggregator_init and of set_configs.      *)
AllowedDelays == {d \in Delays : d >= LeastDelay}

FeedTypeOK ==
    /\ now \in Nat
    /\ crank_addr \in [Feeds -> Cranks]
    /\ crank_disabled \in [Feeds -> BOOLEAN]
    /\ crank_row_count \in [Feeds -> Nat]
    /\ next_allowed \in [Feeds -> Nat]
    /\ start_after \in [Feeds -> StartTimes]
    /\ min_update_delay \in [Feeds -> AllowedDelays]
    /\ rounds_opened \in [Feeds -> Nat]
    /\ round_open_timestamp \in [Feeds -> Nat]
    /\ lacking \in SUBSET MayLack
    /\ evicted \in SUBSET Feeds

(* A feed is created with any configuration, and without a row.  Its       *)
(* escrow and its permission are made later by calls of their own.         *)
FeedInit ==
    /\ now = 0
    /\ crank_addr \in [Feeds -> Cranks]
    /\ crank_disabled \in [Feeds -> DisableChoices]
    /\ crank_row_count = [a \in Feeds |-> 0]
    /\ next_allowed = [a \in Feeds |-> 0]
    /\ start_after \in [Feeds -> StartTimes]
    /\ min_update_delay \in [Feeds -> AllowedDelays]
    /\ rounds_opened = [a \in Feeds |-> 0]
    /\ round_open_timestamp = [a \in Feeds |-> 0]
    /\ lacking = MayLack
    /\ evicted = {}

----------------------------------------------------------------------------
MayOpenIgnoringDelay(a) == now >= start_after[a]                  \* mutant

can_open_round(a) == now >= start_after[a] /\ now >= next_allowed[a]

Outcomes == Refusals \cup {"Ok", "IllegalRoundOpenCall"}

Lacks(a, record) == <<a, record>> \in lacking

(* The outcomes of aggregator_open_round_action::simulate, in its order:   *)
(* the queue is looked at before the escrow, and the escrow before the     *)
(* permission.  The lookup of one that is missing aborts the transaction,  *)
(* so that no outcome past that point is left.                             *)
RefusalsOf(a) ==
    {r \in Refusals : /\ Lacks(a, "escrow") => r \in {"QueueNotFound", "QueueNotReady"}
                      /\ Lacks(a, "permission") => r # "PermissionDenied"}

SimulationOutcomes(a) ==
    IF ~can_open_round(a) THEN {"IllegalRoundOpenCall"}
    ELSE RefusalsOf(a) \cup {o \in {"Ok"} : ~Lacks(a, "escrow") /\ ~Lacks(a, "permission")}

(* A delay from now, with the jitter of the caller or of the crank.        *)
NextUpdateTime(a, jitter) == now + min_update_delay[a] + ((now + jitter) % JitterModulus)

(* The settlement of the round before pays or fines its oracles, and       *)
(* aborts at one that has no wallet.  The first round has none before it.  *)
SettlementEnds(a) == rounds_opened[a] > 0 => ~Lacks(a, "wallet")

(* actuate and aggregator::open_round, as far as the schedule goes.        *)
ActuateOpenRound(a, jitter) ==
    /\ SettlementEnds(a)
    /\ rounds_opened' = [rounds_opened EXCEPT ![a] = @ + 1]
    /\ round_open_timestamp' = [round_open_timestamp EXCEPT ![a] = now]
    /\ next_allowed' = [next_allowed EXCEPT ![a] = NextUpdateTime(a, jitter)]

(* The jitter modifier of a crank after a turn.                            *)
NextJitter(jitter) == (jitter + 1) % JitterModulus

(* What a crank turn does to the popped feed, whose row was marked with    *)
(* the time mark.  The outcomes differ in whether the round is opened,     *)
(* whether the row count is reduced and when the feed is due next.         *)
RescheduledIfOpened(outcome) == outcome = "Ok"                    \* mutant

Rescheduled(outcome) == outcome \in {"Ok", "IllegalRoundOpenCall", "QueueNotReady"}

UncountsIfUnleased(outcome) == outcome = "LeaseInsufficientCoin"  \* mutant

UncountsRow(outcome) == outcome \in {"LeaseInsufficientCoin", "QueueNotFound"}

OpensOnCrank(a, outcome, mark) == outcome = "Ok" /\ mark = next_allowed[a]

RowCountAfterTurn(a, outcome) ==
    IF UncountsRow(outcome) THEN [crank_row_count EXCEPT ![a] = @ - 1] ELSE crank_row_count

TurnFeed(a, outcome, mark, jitter) ==
    /\ crank_row_count' = RowCountAfterTurn(a, outcome)
    /\ UncountsRow(outcome) => crank_row_count[a] > 0
    /\ evicted' = IF outcome = "PermissionDenied" THEN evicted \cup {a} ELSE evicted
    /\ \/ /\ OpensOnCrank(a, outcome, mark)
          /\ ActuateOpenRound(a, jitter)
       \/ /\ outcome = "QueueNotReady"
          /\ next_allowed' = [next_allowed EXCEPT ![a] = NextUpdateTime(a, jitter)]
          /\ UNCHANGED <<rounds_opened, round_open_timestamp>>
       \/ /\ ~OpensOnCrank(a, outcome, mark) /\ outcome # "QueueNotReady"
          /\ UNCHANGED feedRoundVars
    /\ UNCHANGED <<now, feedConfigVars, lacking>>

(* crank_push_action on the feed: only its authority may choose the crank. *)
PushUnguarded(a) == TRUE                                          \* mutant

PushRowGuard(a) == crank_row_count[a] = 0

PushFeed(a, c, byAuthority) ==
    /\ ~crank_disabled[a]
    /\ PushRowGuard(a)
    /\ crank_row_count' = [crank_row_count EXCEPT ![a] = @ + 1]
    /\ crank_addr' = IF byAuthority THEN [crank_addr EXCEPT ![a] = c] ELSE crank_addr
    /\ crank_addr'[a] = c
    /\ UNCHANGED <<now, crank_disabled, start_after, min_update_delay, feedRoundVars,
                   lacking, evicted>>

----------------------------------------------------------------------------
(* The actions that involve no crank row.                                  *)

(* aggregator_open_round_action::run, with a jitter chosen by the caller.  *)
OpenRound(a, jitter) ==
    /\ "Ok" \in SimulationOutcomes(a)
    /\ ActuateOpenRound(a, jitter)
    /\ UNCHANGED <<now, feedConfigVars, crank_row_count, lacking, evicted>>

(* aggregator_set_configs_action by the feed's authority.                  *)
SetConfigs(a, c, disable, start, delay) ==
    /\ crank_addr' = [crank_addr EXCEPT ![a] = c]
    /\ crank_disabled' = [crank_disabled EXCEPT ![a] = disable]
    /\ start_after' = [start_after EXCEPT ![a] = start]
    /\ min_update_delay' = [min_update_delay EXCEPT ![a] = delay]
    /\ UNCHANGED <<now, crank_row_count, feedRoundVars, lacking, evicted>>

(* A record is created, or is missing from now on: the feed or its queue's *)
(* authority changed the key it is kept under, or an oracle without a      *)
(* wallet was assigned, or answered.                                       *)
RecordChanges(record) ==
    /\ lacking' = IF record \in lacking THEN lacking \ {record} ELSE lacking \cup {record}
    /\ UNCHANGED <<now, feedConfigVars, crank_row_count, feedRoundVars, evicted>>

Tick ==
    /\ now < MaxTime
    /\ now' = now + 1
    /\ UNCHANGED <<feedConfigVars, crank_row_count, feedRoundVars, lacking, evicted>>

FeedNext ==
    \/ \E a \in OpenedDirectly, j \in 0..(JitterModulus - 1) : OpenRound(a, j)
    \/ \E a \in Reconfigured, c \in Cranks, d \in DisableChoices, s \in StartTimes, u \in AllowedDelays :
          SetConfigs(a, c, d, s, u)
    \/ \E record \in MayLack : RecordChanges(record)
    \/ Tick
=============================================================================
