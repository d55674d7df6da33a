--------------------------- MODULE AggregatorRound --------------------------
(***************************************************************************)
(* The rounds of one aptos_v2 feed: a round is opened for a batch of       *)
(* oracles, each of which may answer once, with a value or with an error;  *)
(* when enough have answered the round is copied to the latest confirmed   *)
(* round, which a relay of signed updates may also overwrite.              *)
(*                                                                         *)
(* When a round may be opened is the subject of FeedRounds: here it is at  *)
(* any time after the last one was.  Values are natural numbers, of which  *)
(* the median and the deviation are rounded down; the code rounds at nine  *)
(* decimals.  Left out are consecutive_failure_count and is_closed, on     *)
(* which no step of the protocol depends, and the checksum of the jobs.    *)
(***************************************************************************)
EXTENDS Integers, FiniteSetsExt, SequencesExt

CONSTANTS
    Oracles,            \* addresses of the oracles
    Values,             \* what oracles answer
    NoAnswer,           \* the None of the medians
    Configs,            \* pairs of batch size and min_oracle_results
    ForceReportPeriod,  \* force_report_period
    MaxRelayed,         \* bound of the updates in one relay
    MaxId,              \* bound of the round ids
    MaxTime             \* bound of the clock

ASSUME AggregatorRoundAssumption ==
    /\ Values \subseteq Nat
    /\ NoAnswer \notin Nat
    /\ \A c \in Configs : c[1] \in Nat /\ c[2] \in Nat /\ 0 < c[2] /\ c[2] <= c[1]
    /\ ForceReportPeriod \in Nat

VARIABLES
    now,        \* timestamp::now_seconds()
    config,     \* batch_size and min_oracle_results of AggregatorConfig
    current,    \* AggregatorRound<CurrentRound>
    latest      \* AggregatorRound<LatestConfirmedRound>

roundVars == <<now, config, current, latest>>

batch_size == config[1]
min_oracle_results == config[2]

Round == [id : Nat, round_open_timestamp : Nat, round_confirmed_timestamp : Nat,
          result : Nat, std_deviation : Nat, min_response : Nat, max_response : Nat,
          oracle_keys : Seq(Oracles), medians : Seq(Values \cup {NoAnswer}),
          errors_fulfilled : Seq(BOOLEAN), num_success : Nat, num_error : Nat]

default_round ==
    [id |-> 0, round_open_timestamp |-> 0, round_confirmed_timestamp |-> 0,
     result |-> 0, std_deviation |-> 0, min_response |-> 0, max_response |-> 0,
     oracle_keys |-> <<>>, medians |-> <<>>, errors_fulfilled |-> <<>>,
     num_success |-> 0, num_error |-> 0]

RoundInit ==
    /\ now = 0
    /\ config \in Configs
    /\ current = default_round
    /\ latest = default_round

----------------------------------------------------------------------------
(* The statistics of a non-empty sequence of answers.                      *)

EntriesAt(s, places) ==    \* in their order
    LET taken[n \in 0..Len(s)] ==
          IF n = 0 THEN <<>>
          ELSE IF n \in places THEN Append(taken[n - 1], s[n]) ELSE taken[n - 1]
    IN  taken[Len(s)]

unwrap(medians) == EntriesAt(medians, {i \in DOMAIN medians : medians[i] # NoAnswer})

Smallest(s, k) ==          \* the k-th smallest, from 0
    CHOOSE v \in ToSet(s) : /\ Cardinality({i \in DOMAIN s : s[i] < v}) <= k
                            /\ Cardinality({i \in DOMAIN s : s[i] <= v}) > k

median(s) ==
    IF Len(s) % 2 = 0
    THEN (Smallest(s, Len(s) \div 2) + Smallest(s, Len(s) \div 2 - 1)) \div 2
    ELSE Smallest(s, Len(s) \div 2)

sqrt(n) == CHOOSE r \in 0..n : r * r <= n /\ (r + 1) * (r + 1) > n

std_deviation(s, m) ==
    sqrt(MapThenSumSet(LAMBDA i : (s[i] - m) * (s[i] - m), DOMAIN s) \div Len(s))

WithStatistics(round, s) ==
    [round EXCEPT !.result = median(s), !.std_deviation = std_deviation(s, median(s))]

----------------------------------------------------------------------------
(* open_round, for the batch of oracles that the queue assigns.            *)
OpenKeepingCounts(keys) ==                                        \* mutant
    [current EXCEPT !.id = latest.id + 1, !.round_open_timestamp = now,
       !.round_confirmed_timestamp = 0, !.oracle_keys = keys,
       !.medians = [i \in 1..batch_size |-> NoAnswer],
       !.errors_fulfilled = [i \in 1..batch_size |-> FALSE]]

OpenedRound(keys) ==
    [current EXCEPT !.id = latest.id + 1, !.round_open_timestamp = now,
       !.round_confirmed_timestamp = 0, !.oracle_keys = keys,
       !.medians = [i \in 1..batch_size |-> NoAnswer],
       !.errors_fulfilled = [i \in 1..batch_size |-> FALSE],
       !.num_success = 0, !.num_error = 0]

OpenRound(keys) ==
    /\ latest.id < MaxId
    /\ now > current.round_open_timestamp
    /\ Len(keys) = batch_size
    /\ current' = OpenedRound(keys)
    /\ UNCHANGED <<now, config, latest>>

(* can_save_result, and the bound on the index of the entry function.      *)
MaySaveTwice(o, i) ==                                             \* mutant
    i <= batch_size /\ i <= Len(current.oracle_keys) /\ current.oracle_keys[i] = o

can_save_result(o, i) ==
    /\ i <= batch_size
    /\ i <= Len(current.oracle_keys) /\ current.oracle_keys[i] = o
    /\ current.medians[i] = NoAnswer /\ ~current.errors_fulfilled[i]

ErrorCounted(i) == [current EXCEPT !.num_error = @ + 1, !.errors_fulfilled[i] = TRUE]

SaveError(o, i) ==
    /\ can_save_result(o, i)
    /\ current' = ErrorCounted(i)
    /\ UNCHANGED <<now, config, latest>>

(* save_result: the round with the answer, and the copy of a round that    *)
(* has enough of them.  The answer's own range is the value alone.         *)
Widened(round, v) ==
    IF round.num_success = 1
    THEN [round EXCEPT !.min_response = v, !.max_response = v]
    ELSE [round EXCEPT !.min_response = IF @ > v THEN v ELSE @,
                       !.max_response = IF @ < v THEN v ELSE @]

JudgedByEarlier(i, v) ==                                          \* mutant
    LET round == Widened([current EXCEPT !.medians[i] = v, !.num_success = @ + 1], v)
    IN  IF round.num_success > min_oracle_results
        THEN WithStatistics(round, unwrap(round.medians))
        ELSE round

Answered(i, v) ==
    LET round == Widened([current EXCEPT !.medians[i] = v, !.num_success = @ + 1], v)
    IN  IF round.num_success >= min_oracle_results
        THEN WithStatistics(round, unwrap(round.medians))
        ELSE round

EnoughIfAny(n) == n > 0                                           \* mutant

EnoughAnswers(n) == n >= min_oracle_results

SaveResult(o, i, v) ==
    /\ can_save_result(o, i)
    /\ current' = Answered(i, v)
    /\ latest' = IF EnoughAnswers(current'.num_success)
                 THEN [current' EXCEPT !.round_confirmed_timestamp = now]
                 ELSE latest
    /\ UNCHANGED <<now, config>>

----------------------------------------------------------------------------
(* relay_value: signed updates of the oracles of the feed's relay, with a  *)
(* value and a time.  All must be recent; those from before the latest     *)
(* confirmation are skipped.                                               *)
Update == [value : Values, timestamp_seconds : 0..MaxTime]

RecentUpdates(updates) ==
    updates # <<>> => /\ now >= ForceReportPeriod
                      /\ \A u \in ToSet(updates) : u.timestamp_seconds >= now - ForceReportPeriod

IsStale(u) == u.timestamp_seconds < latest.round_confirmed_timestamp

FreshValues(updates) ==
    EntriesAt([i \in DOMAIN updates |-> updates[i].value],
              {i \in DOMAIN updates : ~IsStale(updates[i])})

(* The range starts at zero when the first update is skipped.              *)
RelayedRange(updates) ==
    ToSet(FreshValues(updates)) \cup IF IsStale(updates[1]) THEN {0} ELSE {}

KeysNotWiped == current                                           \* mutant

WipedKeys == [current EXCEPT !.oracle_keys = <<>>]

RelayedRound(updates) ==
    LET values == FreshValues(updates)
        round  == [default_round EXCEPT
                     !.id = latest.id + 1, !.round_open_timestamp = now,
                     !.round_confirmed_timestamp = now, !.medians = values,
                     !.min_response = Min(RelayedRange(updates)),
                     !.max_response = Max(RelayedRange(updates)),
                     !.num_success = Len(values)]
    IN  WithStatistics(round, values)

RelayValue(updates) ==
    /\ latest.id < MaxId
    /\ RecentUpdates(updates)
    /\ current' = WipedKeys
    /\ latest' = IF EnoughAnswers(Len(FreshValues(updates))) THEN RelayedRound(updates) ELSE latest
    /\ UNCHANGED <<now, config>>

SetConfigs(c) == config' = c /\ UNCHANGED <<now, current, latest>>

Tick == now < MaxTime /\ now' = now + 1 /\ UNCHANGED <<config, current, latest>>

----------------------------------------------------------------------------
Batch(n) == {keys \in [1..n -> Oracles] : IsInjective(keys)}

AnswerOrRelay ==
    \/ \E o \in Oracles, i \in 1..batch_size, v \in Values : SaveResult(o, i, v)
    \/ \E o \in Oracles, i \in 1..batch_size : SaveError(o, i)
    \/ \E n \in 0..MaxRelayed : \E updates \in [1..n -> Update] : RelayValue(updates)
    \/ \E c \in Configs : SetConfigs(c)
    \/ Tick

RoundNext == AnswerOrRelay \/ \E keys \in Batch(batch_size) : OpenRound(keys)

RoundSpec == RoundInit /\ [][RoundNext]_roundVars

----------------------------------------------------------------------------
RoundTypeOK ==
    /\ now \in Nat
    /\ config \in Configs
    /\ current \in Round
    /\ latest \in Round

(* The counters of a round agree with its answers, and no oracle has given *)
(* both a value and an error: the counters are all that decides on the     *)
(* confirmation.                                                           *)
Counted(round) ==
    /\ round.num_success = Cardinality({i \in DOMAIN round.medians : round.medians[i] # NoAnswer})
    /\ Len(round.errors_fulfilled) = Len(round.medians)
    /\ round.num_error = Cardinality({i \in DOMAIN round.errors_fulfilled : round.errors_fulfilled[i]})
    /\ \A i \in DOMAIN round.medians : ~(round.medians[i] # NoAnswer /\ round.errors_fulfilled[i])
    /\ round.oracle_keys # <<>> => Len(round.oracle_keys) = Len(round.medians)

AnswersCounted == Counted(current)

(* What a reader gets is the median of the answers of one round, which are *)
(* as many as the round says.                                              *)
LatestIsMedian ==
    latest.id > 0 =>
        LET s == unwrap(latest.medians)
        IN  latest.num_success = Len(s) /\ s # <<>> /\ latest.result = median(s)

(* The latest confirmed round never gives way to an older one: an answer   *)
(* to a round that was opened before a relay is not taken any more.        *)
LatestNeverOlder ==
    [][/\ latest'.id \in {latest.id, latest.id + 1}
       /\ latest'.round_open_timestamp >= latest.round_open_timestamp
       /\ latest'.round_confirmed_timestamp >= latest.round_confirmed_timestamp]_roundVars

(* What an oracle answered in a round stays until the next round.          *)
AnswersStay ==
    [][current'.round_open_timestamp = current.round_open_timestamp =>
         \A i \in DOMAIN current.medians :
             /\ current.medians[i] # NoAnswer => current'.medians[i] = current.medians[i]
             /\ current.errors_fulfilled[i] => current'.errors_fulfilled[i]]_roundVars

(* A value that readers get was answered by at least min_oracle_results of *)
(* the configuration in force when it is confirmed.                        *)
ConfirmedByEnough ==
    [][latest' # latest => latest'.num_success >= min_oracle_results]_roundVars

(* The comment of the field: "Maintains the minimum node response this     *)
(* round."                                                                 *)
MinIsMinimum ==
    latest.id > 0 => latest.min_response = Min(ToSet(unwrap(latest.medians)))
=============================================================================
