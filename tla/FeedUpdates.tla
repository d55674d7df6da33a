----------------------------- MODULE FeedUpdates -----------------------------
(***************************************************************************)
(* One feed of the on_demand package for Aptos: a ring of the last signed  *)
(* updates that were accepted, and the current result, which every update  *)
(* computes anew from the newest fresh update of each oracle.              *)
(*                                                                         *)
(* That the update was signed by an enabled oracle is the subject of       *)
(* OracleAttestation.  Results are integers; arithmetic on them aborts the *)
(* transaction beyond MaxU128, as that of Move does.  Left out are the     *)
(* fee, the range (a difference of two fields) and the standard deviation  *)
(* (a root of m2, which is kept as far as it can abort).                   *)
(***************************************************************************)
EXTENDS Integers, FiniteSets, FiniteSetsExt, SequencesExt

CONSTANTS
    Oracles,        \* addresses of the enabled oracles
    Results,        \* what they sign
    MAX_RESULTS,    \* size of the ring
    MaxU128,        \* bound of the arithmetic
    Stalenesses,    \* max_staleness_seconds that authorities configure
    SampleSizes,    \* min_sample_size that authorities configure
    MaxTime         \* bound of the clock, and of the clocks of the oracles

ASSUME FeedUpdatesAssumption ==
    /\ Results \subseteq Int
    /\ MAX_RESULTS \in Nat \ {0}
    /\ MaxU128 \in Nat
    /\ Stalenesses \subseteq Nat
    /\ SampleSizes \subseteq Nat \ {0}

VARIABLES
    now,                    \* timestamp::now_seconds()
    max_staleness_seconds,  \* Aggregator
    min_sample_size,        \* Aggregator
    results,                \* UpdateState.results
    curr_idx,               \* UpdateState.curr_idx, from 0
    current_result          \* CurrentResult

vars == <<now, max_staleness_seconds, min_sample_size, results, curr_idx, current_result>>

Update == [result : Results, timestamp : Nat, oracle : Oracles]

CurrentResult == [result : Int, timestamp : Nat, min_timestamp : Nat, max_timestamp : Nat,
                  min_result : Int, max_result : Int, mean : Int]

Init ==
    /\ now = 1
    /\ max_staleness_seconds \in Stalenesses
    /\ min_sample_size \in SampleSizes
    /\ results = <<>>
    /\ curr_idx = 0
    /\ current_result = [result |-> 0, timestamp |-> 0, min_timestamp |-> 0, max_timestamp |-> 0,
                         min_result |-> 0, max_result |-> 0, mean |-> 0]

----------------------------------------------------------------------------
(* set_update: what becomes of UpdateState with an update.  The sequences   *)
(* count from 1, the indices of the code from 0.                           *)
UpdateState == [results |-> results, curr_idx |-> curr_idx]

UpdateAt(state, idx) == state.results[idx + 1]

TakenAlways(u) == u.timestamp > 0                                 \* mutant

Taken(u) == results = <<>> \/ u.timestamp >= UpdateAt(UpdateState, curr_idx).timestamp

NextIdx == (curr_idx + 1) % MAX_RESULTS

set_update(u) ==
    IF ~Taken(u) THEN UpdateState
    ELSE [results  |-> IF Len(results) < MAX_RESULTS THEN Append(results, u)
                       ELSE [results EXCEPT ![NextIdx + 1] = u],
          curr_idx |-> IF results = <<>> THEN curr_idx ELSE NextIdx]

(* valid_update_indices: back from the newest update until a stale one,    *)
(* the first update seen of each oracle.                                   *)
Fresh(u) == u.timestamp + max_staleness_seconds >= now

Back(state, k) == (state.curr_idx - (k - 1)) % Len(state.results)

Reached(state, k) == \A j \in 1..k : Fresh(UpdateAt(state, Back(state, j)))

WithUnseen(state, valid, idx) ==
    IF \E seen \in ToSet(valid) : UpdateAt(state, seen).oracle = UpdateAt(state, idx).oracle
    THEN valid ELSE Append(valid, idx)

valid_update_indices(state) ==
    LET valid[k \in 0..Len(state.results)] ==
          IF k = 0 THEN <<>>
          ELSE IF Reached(state, k) THEN WithUnseen(state, valid[k - 1], Back(state, k))
          ELSE valid[k - 1]
    IN  valid[Len(state.results)]

----------------------------------------------------------------------------
(* median_result: a quickselect of the middle one of the valid updates.    *)
Swapped(s, i, j) == [s EXCEPT ![i] = s[j], ![j] = s[i]]

Below(acc, j, pivot) ==
    IF acc.s[j].result < pivot.result
    THEN [s |-> Swapped(acc.s, acc.i, j), i |-> acc.i + 1] ELSE acc

Partitioned(s, lo, hi) ==
    LET below[n \in 0..(hi - lo)] ==
          IF n = 0 THEN [s |-> s, i |-> lo] ELSE Below(below[n - 1], lo + n - 1, s[hi])
    IN  below[hi - lo]

NarrowedToPivot(q, mid) ==                                        \* mutant
    [s |-> Partitioned(q.s, q.lo, q.hi).s, lo |-> mid, hi |-> mid]

Narrowed(q, mid) ==
    LET below == Partitioned(q.s, q.lo, q.hi)
        s     == Swapped(below.s, below.i, q.hi)
    IN  CASE below.i = mid -> [s |-> s, lo |-> mid, hi |-> mid]
          [] below.i < mid -> [s |-> s, lo |-> below.i + 1, hi |-> q.hi]
          [] below.i > mid -> [s |-> s, lo |-> q.lo, hi |-> below.i - 1]

NarrowedIfOpen(q, mid) == IF q.lo < q.hi THEN Narrowed(q, mid) ELSE q

(* The loop ends within as many rounds as there are updates.               *)
median_result(updates) ==
    LET mid == Len(updates) \div 2 + 1
        q[n \in 0..Len(updates)] ==
          IF n = 0 THEN [s |-> updates, lo |-> 1, hi |-> Len(updates)]
          ELSE NarrowedIfOpen(q[n - 1], mid)
    IN  q[Len(updates)].s[mid]

(* Welford's algorithm, with division towards zero.  Its sum of squares,   *)
(* and the sum of the absolute values, must not overflow.                  *)
Quotient(a, n) == IF a < 0 THEN -((-a) \div n) ELSE a \div n

Abs(a) == IF a < 0 THEN -a ELSE a

WelfordStart == [count |-> 0, mean |-> 0, m2 |-> 0, sum |-> 0]

MeanStepUndivided(acc, v) ==                                      \* mutant
    [count |-> acc.count + 1, mean |-> v - acc.mean, m2 |-> acc.m2, sum |-> acc.sum + Abs(v)]

SquaredStep(acc, v) ==                                            \* mutant
    LET delta == v - acc.mean
    IN  [count |-> acc.count + 1, mean |-> acc.mean + Quotient(delta, acc.count + 1),
         m2 |-> acc.m2 + delta * delta, sum |-> acc.sum + Abs(v)]

WelfordStep(acc, v) ==
    LET delta == v - acc.mean
        mean  == acc.mean + Quotient(delta, acc.count + 1)
    IN  [count |-> acc.count + 1, mean |-> mean, m2 |-> acc.m2 + delta * (v - mean),
         sum |-> acc.sum + Abs(v)]

Welford(updates) ==
    LET acc[n \in 0..Len(updates)] ==
          IF n = 0 THEN WelfordStart ELSE WelfordStep(acc[n - 1], updates[n].result)
    IN  acc[Len(updates)]

Overflows(updates) ==
    /\ Len(updates) > 1
    /\ LET end == Welford(updates) IN end.m2 > MaxU128 \/ end.sum > MaxU128

Aborts(updates) == Len(updates) >= min_sample_size /\ Overflows(updates)

(* The greatest result starts at zero, unless there is one update only.    *)
compute_current_result(updates) ==
    LET median == median_result(updates)
        values == {u.result : u \in ToSet(updates)}
        times  == {u.timestamp : u \in ToSet(updates)}
    IN  [result |-> median.result, timestamp |-> median.timestamp,
         min_timestamp |-> Min(times), max_timestamp |-> Max(times),
         min_result |-> Min(values),
         max_result |-> IF Len(updates) = 1 THEN Max(values) ELSE Max(values \cup {0}),
         mean |-> Welford(updates).mean]

ValidUpdates(state) ==
    LET indices == valid_update_indices(state)
    IN  [i \in DOMAIN indices |-> UpdateAt(state, indices[i])]

SubmitResult(o, v, t) ==
    LET state   == set_update([result |-> v, timestamp |-> t, oracle |-> o])
        updates == ValidUpdates(state)
    IN  /\ t > 0
        /\ results' = state.results
        /\ curr_idx' = state.curr_idx
        /\ ~Aborts(updates)
        /\ current_result' = IF Len(updates) < min_sample_size THEN current_result
                             ELSE compute_current_result(updates)
        /\ UNCHANGED <<now, max_staleness_seconds, min_sample_size>>

SetConfigs(staleness, size) ==
    /\ max_staleness_seconds' = staleness
    /\ min_sample_size' = size
    /\ UNCHANGED <<now, results, curr_idx, current_result>>

Tick ==
    /\ now < MaxTime
    /\ now' = now + 1
    /\ UNCHANGED <<max_staleness_seconds, min_sample_size, results, curr_idx, current_result>>

Next ==
    \/ \E o \in Oracles, v \in Results, t \in 1..MaxTime : SubmitResult(o, v, t)
    \/ \E staleness \in Stalenesses, size \in SampleSizes : SetConfigs(staleness, size)
    \/ Tick

Spec == Init /\ [][Next]_vars

----------------------------------------------------------------------------
(* The ring holds at most MAX_RESULTS updates, its index points at one, or *)
(* where the first will go, and the index is on the last one until the     *)
(* ring is full.                                                           *)
TypeOK ==
    /\ now \in 1..MaxTime
    /\ max_staleness_seconds \in Stalenesses
    /\ min_sample_size \in SampleSizes
    /\ results \in Seq(Update)
    /\ Len(results) <= MAX_RESULTS
    /\ curr_idx \in 0..(MAX_RESULTS - 1)
    /\ Len(results) < MAX_RESULTS => curr_idx = (IF results = <<>> THEN 0 ELSE Len(results) - 1)
    /\ current_result \in CurrentResult

(* The updates that count for the next result are, at any time, one of     *)
(* each oracle that has a fresh update anywhere in the ring: no older than *)
(* any other of that oracle.  valid_update_indices stops at the first      *)
(* stale update, so this needs the ring to be in the order of time across  *)
(* its wrap, whatever the clocks of the oracles say.                       *)
FreshNewestOf(o) ==
    {u \in ToSet(results) : u.oracle = o /\ Fresh(u)
        /\ \A w \in ToSet(results) : w.oracle = o => w.timestamp <= u.timestamp}

ValidAreNewest ==
    LET valid == ValidUpdates(UpdateState)
    IN  /\ \A i, j \in DOMAIN valid : i # j => valid[i].oracle # valid[j].oracle
        /\ \A i \in DOMAIN valid : valid[i] \in FreshNewestOf(valid[i].oracle)
        /\ \A u \in ToSet(results) : Fresh(u) =>
               \E i \in DOMAIN valid : valid[i].oracle = u.oracle

(* An update leaves the ring only when the ring is full and no other is    *)
(* older: the sixteen newest of all oracles stay, in whatever order their  *)
(* updates arrive.  How few of them another oracle's updates leave to one  *)
(* oracle is not bounded.                                                  *)
RingKeepsNewest ==
    [][\A u \in ToSet(results) : u \notin ToSet(results') =>
          /\ Len(results) = MAX_RESULTS
          /\ \A w \in ToSet(results) : u.timestamp <= w.timestamp]_vars

(* The time of the newest update in a published result never goes back,    *)
(* whatever authorities do to the staleness between two updates.           *)
MaxTimestampNeverBack ==
    [][current_result'.max_timestamp >= current_result.max_timestamp]_vars

(* A published result is the answer of one of the valid updates, with the  *)
(* time of that update, and no fewer than half of the valid answers are on *)
(* either side of it, or equal it: the quickselect does not stop early or  *)
(* leave its interval, whatever the order of the answers and with any of   *)
(* them equal.  Of two middle answers this does not say which: the comment *)
(* of median_result calls it the lower one, and the code takes the upper.  *)
InTheMiddle(v, answers) ==
    /\ 2 * Cardinality({i \in DOMAIN answers : answers[i] <= v}) >= Len(answers)
    /\ 2 * Cardinality({i \in DOMAIN answers : answers[i] >= v}) >= Len(answers)

NextValid == ValidUpdates([results |-> results', curr_idx |-> curr_idx'])

MedianPublished ==
    LET valid == NextValid
    IN  Len(valid) >= min_sample_size =>
          /\ InTheMiddle(current_result'.result, [i \in DOMAIN valid |-> valid[i].result])
          /\ \E u \in ToSet(valid) : /\ u.result = current_result'.result
                                     /\ u.timestamp = current_result'.timestamp

ResultIsMedian == [][results' # results => MedianPublished]_vars

MeanBetween ==
    LET valid  == NextValid
        values == {u.result : u \in ToSet(valid)}
    IN  Len(valid) >= min_sample_size => current_result'.mean \in Min(values)..Max(values)

(* The published mean lies between the least and the greatest valid answer *)
(* although every step of Welford's algorithm truncates a quotient.        *)
MeanWithinRange == [][results' # results => MeanBetween]_vars

(* No update that could arrive is refused by an overflow unless the        *)
(* answers that are valid with it are far apart, or far from zero: the     *)
(* square of their spread, once for each of them but the first, exceeds    *)
(* MaxU128, or their number times one of them does.  The truncation of the *)
(* mean costs no more than that.                                           *)
Spread(values) == Max(values) - Min(values)

FarApart(updates) ==
    LET values == {u.result : u \in ToSet(updates)}
    IN  \/ (Len(updates) - 1) * (Spread(values) * Spread(values)) > MaxU128
        \/ \E w \in values : Len(updates) * Abs(w) > MaxU128

UpdatesAcceptedUnlessSpread ==
    \A o \in Oracles, v \in Results, t \in 1..MaxTime :
        LET valid == ValidUpdates(set_update([result |-> v, timestamp |-> t, oracle |-> o]))
        IN  Aborts(valid) => FarApart(valid)
=============================================================================
