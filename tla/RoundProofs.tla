----------------------------- MODULE RoundProofs -----------------------------
(***************************************************************************)
(* Proofs about the rounds of a feed, for every set of oracles and values, *)
(* every set of configurations and every report period, and about their    *)
(* payouts, for every finite set of oracles and every reward, penalty,     *)
(* tolerance and load.  Of the median and the deviation nothing is assumed *)
(* but of what they are taken.                                             *)
(***************************************************************************)
EXTENDS RoundPayouts, FiniteSetTheorems, WellFoundedInduction, TLAPS

(***************************************************************************)
(* The rounds, of AggregatorRound.                                         *)
(***************************************************************************)
RoundFields ==
    {"id", "round_open_timestamp", "round_confirmed_timestamp", "result", "std_deviation",
     "min_response", "max_response", "oracle_keys", "medians", "errors_fulfilled",
     "num_success", "num_error"}

(* What the steps need of a round's type.                                  *)
Dated(round) ==
    /\ DOMAIN round = RoundFields
    /\ round.id \in Nat
    /\ round.round_open_timestamp \in Nat
    /\ round.round_confirmed_timestamp \in Nat

Slotted(round) ==
    /\ round.oracle_keys \in Seq(Oracles)
    /\ round.medians \in Seq(Values \cup {NoAnswer})
    /\ round.errors_fulfilled \in Seq(BOOLEAN)
    /\ round.num_success \in Nat
    /\ round.num_error \in Nat

Typed ==
    /\ now \in Nat /\ config \in Configs
    /\ Dated(current) /\ Dated(latest) /\ Slotted(current)

(* A round that may still be answered is the latest or the one after it.   *)
Timeline ==
    /\ current.round_open_timestamp <= now
    /\ latest.round_open_timestamp <= now
    /\ latest.round_confirmed_timestamp <= now
    /\ current.oracle_keys # <<>> =>
          /\ current.id \in {latest.id, latest.id + 1}
          /\ latest.round_open_timestamp <= current.round_open_timestamp

IInv == Typed /\ AnswersCounted /\ Timeline

----------------------------------------------------------------------------
(* Marking one more of the indices adds one to how many are marked.        *)
LEMMA OneMoreCounted ==
    ASSUME NEW n \in Nat, NEW A \in SUBSET (1..n), NEW i \in (1..n) \ A
    PROVE  Cardinality(A \cup {i}) = Cardinality(A) + 1
  <1>1. IsFiniteSet(A)
    BY FS_Interval, FS_Subset, 1 \in Int, n \in Int
  <1> QED BY <1>1, FS_AddElement

(* A vector with one entry overwritten.                                    *)
LEMMA OverwrittenEntry ==
    ASSUME NEW S, NEW s \in Seq(S), NEW i \in 1..Len(s), NEW v \in S
    PROVE  LET t == [s EXCEPT ![i] = v]
           IN  /\ t \in Seq(S) /\ Len(t) = Len(s)
               /\ DOMAIN t = 1..Len(s) /\ DOMAIN s = 1..Len(s)
               /\ t[i] = v
               /\ \A k \in 1..Len(s) : k # i => t[k] = s[k]
  OBVIOUS

(* The statistics change no field but their own two.                       *)
LEMMA StatisticsAside ==
    ASSUME NEW round, NEW s, DOMAIN round = RoundFields
    PROVE  /\ DOMAIN WithStatistics(round, s) = RoundFields
           /\ \A f \in RoundFields \ {"result", "std_deviation"} :
                 WithStatistics(round, s)[f] = round[f]
  <1> DEFINE m == median(s)  d == std_deviation(s, m)
  <1>1. WithStatistics(round, s) = [round EXCEPT !.result = m, !.std_deviation = d]
    BY DEF WithStatistics
  <1> HIDE DEF m, d
  <1> QED BY <1>1 DEF RoundFields

LEMMA WidenedAside ==
    ASSUME NEW round, NEW v, DOMAIN round = RoundFields
    PROVE  /\ DOMAIN Widened(round, v) = RoundFields
           /\ \A f \in RoundFields \ {"min_response", "max_response"} :
                 Widened(round, v)[f] = round[f]
  BY DEF Widened, RoundFields

(* What an answer changes of the current round.                            *)
LEMMA AnsweredFacts ==
    ASSUME Dated(current), NEW i, NEW v
    PROVE  LET r == Answered(i, v)
           IN  /\ DOMAIN r = RoundFields
               /\ r.medians = [current.medians EXCEPT ![i] = v]
               /\ r.num_success = current.num_success + 1
               /\ r.id = current.id
               /\ r.round_open_timestamp = current.round_open_timestamp
               /\ r.round_confirmed_timestamp = current.round_confirmed_timestamp
               /\ r.oracle_keys = current.oracle_keys
               /\ r.errors_fulfilled = current.errors_fulfilled
               /\ r.num_error = current.num_error
  <1> DEFINE a == [current EXCEPT !.medians[i] = v, !.num_success = @ + 1]
             w == Widened(a, v)
  <1>1. /\ DOMAIN a = RoundFields
        /\ a.medians = [current.medians EXCEPT ![i] = v]
        /\ a.num_success = current.num_success + 1
        /\ \A f \in RoundFields \ {"medians", "num_success"} : a[f] = current[f]
    BY DEF Dated, RoundFields
  <1>2. Answered(i, v) = w \/ Answered(i, v) = WithStatistics(w, unwrap(w.medians))
    BY DEF Answered
  <1> HIDE DEF a
  <1>3. /\ DOMAIN w = RoundFields
        /\ \A f \in RoundFields \ {"min_response", "max_response"} : w[f] = a[f]
    BY <1>1, WidenedAside
  <1> HIDE DEF w
  <1> DEFINE r == Answered(i, v)
  <1>4. /\ DOMAIN r = RoundFields
        /\ \A f \in RoundFields \ {"min_response", "max_response", "result", "std_deviation"} :
              r[f] = a[f]
    <2>1. /\ DOMAIN WithStatistics(w, unwrap(w.medians)) = RoundFields
          /\ \A f \in RoundFields \ {"result", "std_deviation"} :
                 WithStatistics(w, unwrap(w.medians))[f] = w[f]
      BY <1>3, StatisticsAside
    <2> QED BY <1>2, <1>3, <2>1
  <1> HIDE DEF r
  <1>5. /\ r.medians = a.medians /\ r.num_success = a.num_success
        /\ r.id = a.id /\ r.round_open_timestamp = a.round_open_timestamp
        /\ r.round_confirmed_timestamp = a.round_confirmed_timestamp
        /\ r.oracle_keys = a.oracle_keys /\ r.errors_fulfilled = a.errors_fulfilled
        /\ r.num_error = a.num_error
    BY <1>4 DEF RoundFields
  <1>6. /\ a.id = current.id /\ a.round_open_timestamp = current.round_open_timestamp
        /\ a.round_confirmed_timestamp = current.round_confirmed_timestamp
        /\ a.oracle_keys = current.oracle_keys
        /\ a.errors_fulfilled = current.errors_fulfilled
        /\ a.num_error = current.num_error
    BY <1>1 DEF RoundFields
  <1> QED BY <1>1, <1>4, <1>5, <1>6 DEF r

(* Only an unanswered slot of the open round is taken.                     *)
LEMMA SlotFacts ==
    ASSUME IInv, NEW o, NEW i \in 1..batch_size, can_save_result(o, i)
    PROVE  /\ current.oracle_keys # <<>>
           /\ i \in 1..Len(current.medians)
           /\ Len(current.errors_fulfilled) = Len(current.medians)
           /\ Len(current.medians) \in Nat
           /\ current.medians[i] = NoAnswer
           /\ ~current.errors_fulfilled[i]
  <1>1. batch_size \in Nat
    BY AggregatorRoundAssumption DEF IInv, Typed, batch_size
  <1>2. i \in Nat /\ i >= 1 /\ i <= Len(current.oracle_keys)
    BY <1>1 DEF can_save_result
  <1>3. current.oracle_keys # <<>>
    BY <1>2
  <1>4. /\ Len(current.oracle_keys) = Len(current.medians)
        /\ Len(current.errors_fulfilled) = Len(current.medians)
    BY <1>3 DEF IInv, AnswersCounted, Counted
  <1>5. Len(current.medians) \in Nat
    BY DEF IInv, Typed, Slotted
  <1> QED BY <1>2, <1>3, <1>4, <1>5 DEF can_save_result

LEMMA InitIInv == RoundInit => IInv
  <1> SUFFICES ASSUME RoundInit PROVE IInv
    OBVIOUS
  <1>1. now = 0 /\ config \in Configs /\ current = default_round /\ latest = default_round
    BY DEF RoundInit
  <1>2. Dated(default_round) /\ Slotted(default_round)
    BY DEF Dated, Slotted, default_round, RoundFields
  <1>3. Counted(default_round)
    <2>1. {i \in DOMAIN default_round.medians : default_round.medians[i] # NoAnswer} = {}
      BY DEF default_round
    <2>2. {i \in DOMAIN default_round.errors_fulfilled : default_round.errors_fulfilled[i]} = {}
      BY DEF default_round
    <2>3. /\ default_round.num_success = 0 /\ default_round.num_error = 0
          /\ default_round.medians = <<>> /\ default_round.errors_fulfilled = <<>>
          /\ default_round.oracle_keys = <<>>
      BY DEF default_round
    <2> QED BY <2>1, <2>2, <2>3, FS_EmptySet DEF Counted
  <1>4. Timeline
    BY <1>1 DEF Timeline, default_round
  <1> QED BY <1>1, <1>2, <1>3, <1>4 DEF IInv, Typed, AnswersCounted

----------------------------------------------------------------------------
LEMMA OpenFacts ==
    ASSUME IInv, NEW keys \in Batch(batch_size), OpenRound(keys)
    PROVE  IInv'
  <1>1. batch_size \in Nat
    BY AggregatorRoundAssumption DEF IInv, Typed, batch_size
  <1> DEFINE n == batch_size
  <1>2. keys \in [1..n -> Oracles] /\ keys \in Seq(Oracles) /\ Len(keys) = n
    BY <1>1 DEF Batch, OpenRound
  <1>3. /\ DOMAIN current' = RoundFields
        /\ current'.id = latest.id + 1
        /\ current'.round_open_timestamp = now
        /\ current'.round_confirmed_timestamp = 0
        /\ current'.oracle_keys = keys
        /\ current'.medians = [i \in 1..n |-> NoAnswer]
        /\ current'.errors_fulfilled = [i \in 1..n |-> FALSE]
        /\ current'.num_success = 0
        /\ current'.num_error = 0
    BY DEF OpenRound, OpenedRound, IInv, Typed, Dated, RoundFields
  <1>4. now' = now /\ config' = config /\ latest' = latest
    BY DEF OpenRound
  <1>5. Typed'
    <2>1. current'.medians \in Seq(Values \cup {NoAnswer}) /\ current'.errors_fulfilled \in Seq(BOOLEAN)
      BY <1>1, <1>3
    <2> QED BY <1>2, <1>3, <1>4, <2>1 DEF IInv, Typed, Dated, Slotted
  <1>6. AnswersCounted'
    <2>1. {i \in DOMAIN current'.medians : current'.medians[i] # NoAnswer} = {}
      BY <1>3
    <2>2. {i \in DOMAIN current'.errors_fulfilled : current'.errors_fulfilled[i]} = {}
      BY <1>3
    <2>3. Len(current'.medians) = n /\ Len(current'.errors_fulfilled) = n
      BY <1>1, <1>3
    <2>4. \A i \in DOMAIN current'.medians : current'.medians[i] = NoAnswer
      BY <1>3
    <2> QED BY <1>2, <1>3, <2>1, <2>2, <2>3, <2>4, FS_EmptySet DEF AnswersCounted, Counted
  <1>7. Timeline'
    BY <1>3, <1>4 DEF Timeline, IInv, Typed, Dated
  <1> QED BY <1>5, <1>6, <1>7 DEF IInv

LEMMA ErrorFacts ==
    ASSUME IInv, NEW o, NEW i \in 1..batch_size, SaveError(o, i)
    PROVE  IInv'
  <1> DEFINE e == current.errors_fulfilled  m == current.medians
  <1>1. /\ i \in 1..Len(m) /\ Len(m) \in Nat /\ Len(e) = Len(m)
        /\ m[i] = NoAnswer /\ ~e[i] /\ current.oracle_keys # <<>>
    BY SlotFacts DEF SaveError
  <1>2. m \in Seq(Values \cup {NoAnswer}) /\ e \in Seq(BOOLEAN)
    BY DEF IInv, Typed, Slotted
  <1>3. /\ DOMAIN current' = RoundFields
        /\ current'.errors_fulfilled = [e EXCEPT ![i] = TRUE]
        /\ current'.num_error = current.num_error + 1
        /\ \A f \in RoundFields \ {"errors_fulfilled", "num_error"} : current'[f] = current[f]
    BY DEF SaveError, ErrorCounted, IInv, Typed, Dated, RoundFields
  <1>4. now' = now /\ config' = config /\ latest' = latest
    BY DEF SaveError
  <1>5. /\ current'.id = current.id
        /\ current'.round_open_timestamp = current.round_open_timestamp
        /\ current'.round_confirmed_timestamp = current.round_confirmed_timestamp
        /\ current'.oracle_keys = current.oracle_keys
        /\ current'.medians = m /\ current'.num_success = current.num_success
    BY <1>3 DEF RoundFields
  <1> DEFINE E == [e EXCEPT ![i] = TRUE]
             marked == {k \in 1..Len(m) : e[k]}
  <1>6. /\ E \in Seq(BOOLEAN) /\ Len(E) = Len(m) /\ DOMAIN E = 1..Len(m)
        /\ DOMAIN e = 1..Len(m) /\ DOMAIN m = 1..Len(m)
        /\ E[i] = TRUE
        /\ \A k \in 1..Len(m) : k # i => E[k] = e[k]
    <2>1. i \in 1..Len(e) /\ TRUE \in BOOLEAN /\ DOMAIN m = 1..Len(m)
      BY <1>1, <1>2
    <2>2. /\ E \in Seq(BOOLEAN) /\ Len(E) = Len(e)
          /\ DOMAIN E = 1..Len(e) /\ DOMAIN e = 1..Len(e)
          /\ E[i] = TRUE
          /\ \A k \in 1..Len(e) : k # i => E[k] = e[k]
      BY <1>2, <2>1, OverwrittenEntry
    <2> HIDE DEF E
    <2> QED BY <1>1, <2>1, <2>2
  <1>7. Typed'
    BY <1>3, <1>4, <1>5, <1>6 DEF IInv, Typed, Dated, Slotted
  <1>8. AnswersCounted'
    <2>0. current'.errors_fulfilled = E
      BY <1>3
    <2>1. {k \in DOMAIN E : E[k]} = marked \cup {i}
      <3> HIDE DEF E
      <3> QED BY <1>1, <1>6
    <2>2. Cardinality(marked \cup {i}) = Cardinality(marked) + 1
      BY <1>1, OneMoreCounted
    <2>3. current.num_error = Cardinality(marked)
      BY <1>6 DEF IInv, AnswersCounted, Counted
    <2>4. \A k \in DOMAIN m : ~(m[k] # NoAnswer /\ E[k])
      <3> HIDE DEF E
      <3> QED BY <1>1, <1>6 DEF IInv, AnswersCounted, Counted
    <2> HIDE DEF E, marked
    <2>5. {k \in DOMAIN current'.errors_fulfilled : current'.errors_fulfilled[k]} = marked \cup {i}
      BY <2>0, <2>1
    <2>6. current'.num_error = Cardinality(marked \cup {i})
      BY <1>3, <2>2, <2>3
    <2>7. /\ current'.num_success = Cardinality({k \in DOMAIN m : m[k] # NoAnswer})
          /\ current'.oracle_keys # <<>> => Len(current'.oracle_keys) = Len(m)
      BY <1>5 DEF IInv, AnswersCounted, Counted
    <2> QED BY <1>5, <1>6, <2>0, <2>4, <2>5, <2>6, <2>7 DEF AnswersCounted, Counted
  <1>9. Timeline'
    BY <1>4, <1>5 DEF IInv, Timeline
  <1> QED BY <1>7, <1>8, <1>9 DEF IInv

LEMMA ResultOnCurrent ==
    ASSUME IInv, NEW o, NEW i \in 1..batch_size, NEW v \in Values, SaveResult(o, i, v)
    PROVE  /\ DOMAIN current' = RoundFields
           /\ current'.medians = [current.medians EXCEPT ![i] = v]
           /\ current'.num_success = current.num_success + 1
           /\ current'.id = current.id
           /\ current'.round_open_timestamp = current.round_open_timestamp
           /\ current'.round_confirmed_timestamp = current.round_confirmed_timestamp
           /\ current'.oracle_keys = current.oracle_keys
           /\ current'.errors_fulfilled = current.errors_fulfilled
           /\ current'.num_error = current.num_error
  <1>1. current' = Answered(i, v)
    BY DEF SaveResult
  <1> QED BY <1>1, AnsweredFacts DEF IInv, Typed

(* What an answer does to the latest round.                                *)
LEMMA ConfirmFacts ==
    ASSUME IInv, NEW o, NEW i \in 1..batch_size, NEW v \in Values, SaveResult(o, i, v)
    PROVE  \/ latest' = latest
           \/ /\ EnoughAnswers(latest'.num_success)
              /\ DOMAIN latest' = RoundFields
              /\ latest'.id = current.id
              /\ latest'.round_open_timestamp = current.round_open_timestamp
              /\ latest'.round_confirmed_timestamp = now
              /\ current.oracle_keys # <<>>
  <1>1. current.oracle_keys # <<>>
    BY SlotFacts DEF SaveResult
  <1>3. /\ DOMAIN current' = RoundFields
        /\ current'.id = current.id
        /\ current'.round_open_timestamp = current.round_open_timestamp
    BY ResultOnCurrent
  <1>4. CASE ~EnoughAnswers(current'.num_success)
    BY <1>4 DEF SaveResult
  <1>5. CASE EnoughAnswers(current'.num_success)
    <2>1. latest' = [current' EXCEPT !.round_confirmed_timestamp = now]
      BY <1>5 DEF SaveResult
    <2>2. /\ DOMAIN latest' = RoundFields
          /\ latest'.round_confirmed_timestamp = now
          /\ latest'.id = current'.id
          /\ latest'.round_open_timestamp = current'.round_open_timestamp
          /\ latest'.num_success = current'.num_success
      BY <1>3, <2>1 DEF RoundFields
    <2> QED BY <1>1, <1>3, <1>5, <2>2
  <1> QED BY <1>4, <1>5

LEMMA ResultFacts ==
    ASSUME IInv, NEW o, NEW i \in 1..batch_size, NEW v \in Values, SaveResult(o, i, v)
    PROVE  IInv'
  <1> DEFINE e == current.errors_fulfilled  m == current.medians
             M == [m EXCEPT ![i] = v]
             answered == {k \in 1..Len(m) : m[k] # NoAnswer}
  <1>1. /\ i \in 1..Len(m) /\ Len(m) \in Nat /\ Len(e) = Len(m)
        /\ m[i] = NoAnswer /\ ~e[i] /\ current.oracle_keys # <<>>
    BY SlotFacts DEF SaveResult
  <1>2. v # NoAnswer /\ v \in Values \cup {NoAnswer}
    BY AggregatorRoundAssumption
  <1>3. /\ DOMAIN current' = RoundFields
        /\ current'.medians = M
        /\ current'.num_success = current.num_success + 1
        /\ current'.id = current.id
        /\ current'.round_open_timestamp = current.round_open_timestamp
        /\ current'.round_confirmed_timestamp = current.round_confirmed_timestamp
        /\ current'.oracle_keys = current.oracle_keys
        /\ current'.errors_fulfilled = e
        /\ current'.num_error = current.num_error
    BY ResultOnCurrent
  <1>4. /\ M \in Seq(Values \cup {NoAnswer}) /\ Len(M) = Len(m) /\ DOMAIN M = 1..Len(m)
        /\ DOMAIN m = 1..Len(m)
        /\ M[i] = v
        /\ \A k \in 1..Len(m) : k # i => M[k] = m[k]
    BY <1>1, <1>2, OverwrittenEntry DEF IInv, Typed, Slotted
  <1>5. now' = now /\ config' = config
    BY DEF SaveResult
  <1>6. Typed' /\ Timeline'
    <2>1. Dated(current') /\ Slotted(current')
      BY <1>3, <1>4 DEF IInv, Typed, Dated, Slotted
    <2>2. CASE latest' = latest
      <3>1. Typed'
        BY <1>5, <2>1, <2>2 DEF IInv, Typed
      <3>2. Timeline'
        BY <1>3, <1>5, <2>2 DEF IInv, Timeline
      <3> QED BY <3>1, <3>2
    <2>3. CASE latest' # latest
      <3>1. /\ DOMAIN latest' = RoundFields
            /\ latest'.id = current.id
            /\ latest'.round_open_timestamp = current.round_open_timestamp
            /\ latest'.round_confirmed_timestamp = now
        BY <2>3, ConfirmFacts
      <3>2. Typed'
        BY <1>5, <2>1, <3>1 DEF IInv, Typed, Dated
      <3>3. Timeline'
        BY <1>3, <1>5, <3>1 DEF IInv, Typed, Dated, Timeline
      <3> QED BY <3>2, <3>3
    <2> QED BY <2>2, <2>3
  <1>7. AnswersCounted'
    <2>1. {k \in DOMAIN M : M[k] # NoAnswer} = answered \cup {i}
      <3> HIDE DEF M
      <3> QED BY <1>1, <1>2, <1>4
    <2>2. Cardinality(answered \cup {i}) = Cardinality(answered) + 1
      BY <1>1, OneMoreCounted
    <2>3. current.num_success = Cardinality(answered)
      BY <1>4 DEF IInv, AnswersCounted, Counted
    <2>4. \A k \in DOMAIN M : ~(M[k] # NoAnswer /\ e[k])
      <3> HIDE DEF M
      <3> QED BY <1>1, <1>4 DEF IInv, AnswersCounted, Counted
    <2> HIDE DEF M, answered
    <2>5. {k \in DOMAIN current'.medians : current'.medians[k] # NoAnswer} = answered \cup {i}
      BY <1>3, <2>1
    <2>6. current'.num_success = Cardinality(answered \cup {i})
      BY <1>3, <2>2, <2>3
    <2>7. /\ current'.num_error = Cardinality({k \in DOMAIN e : e[k]})
          /\ current'.oracle_keys # <<>> => Len(current'.oracle_keys) = Len(m)
      BY <1>3 DEF IInv, AnswersCounted, Counted
    <2>8. {k \in DOMAIN current'.errors_fulfilled : current'.errors_fulfilled[k]}
            = {k \in DOMAIN e : e[k]}
      BY <1>3
    <2> QED BY <1>1, <1>3, <1>4, <2>4, <2>5, <2>6, <2>7, <2>8 DEF AnswersCounted, Counted
  <1> QED BY <1>6, <1>7 DEF IInv

(* What a relay does to the latest round.                                  *)
LEMMA RelayFacts ==
    ASSUME IInv, NEW updates, RelayValue(updates)
    PROVE  /\ current' = [current EXCEPT !.oracle_keys = <<>>]
           /\ now' = now /\ config' = config
           /\ \/ latest' = latest
              \/ /\ EnoughAnswers(latest'.num_success)
                 /\ DOMAIN latest' = RoundFields
                 /\ latest'.id = latest.id + 1
                 /\ latest'.round_open_timestamp = now
                 /\ latest'.round_confirmed_timestamp = now
  <1> DEFINE values == FreshValues(updates)
             lo == Min(RelayedRange(updates))  hi == Max(RelayedRange(updates))
             n == Len(values)
             round == [default_round EXCEPT
                         !.id = latest.id + 1, !.round_open_timestamp = now,
                         !.round_confirmed_timestamp = now, !.medians = values,
                         !.min_response = lo, !.max_response = hi, !.num_success = n]
  <1>1. RelayedRound(updates) = WithStatistics(round, values)
    BY DEF RelayedRound
  <1>2. latest' = latest \/ (EnoughAnswers(n) /\ latest' = RelayedRound(updates))
    BY DEF RelayValue
  <1> HIDE DEF values, lo, hi, n
  <1>3. /\ DOMAIN round = RoundFields
        /\ round.id = latest.id + 1
        /\ round.round_open_timestamp = now
        /\ round.round_confirmed_timestamp = now
        /\ round.num_success = n
    BY DEF default_round, RoundFields
  <1> HIDE DEF round
  <1> DEFINE r == WithStatistics(round, values)
  <1>4. /\ DOMAIN r = RoundFields
        /\ \A f \in RoundFields \ {"result", "std_deviation"} : r[f] = round[f]
    BY <1>3, StatisticsAside
  <1> HIDE DEF r
  <1>5. /\ r.id = round.id /\ r.num_success = round.num_success
        /\ r.round_open_timestamp = round.round_open_timestamp
        /\ r.round_confirmed_timestamp = round.round_confirmed_timestamp
    BY <1>4 DEF RoundFields
  <1>6. latest' = latest \/ (EnoughAnswers(n) /\ latest' = r)
    BY <1>1, <1>2 DEF r
  <1>7. current' = [current EXCEPT !.oracle_keys = <<>>] /\ now' = now /\ config' = config
    BY DEF RelayValue, WipedKeys
  <1>8. CASE latest' = latest
    BY <1>7, <1>8
  <1>9. CASE EnoughAnswers(n) /\ latest' = r
    BY <1>3, <1>4, <1>5, <1>7, <1>9
  <1> QED BY <1>6, <1>8, <1>9

LEMMA RelayKeeps ==
    ASSUME IInv, NEW updates, RelayValue(updates)
    PROVE  IInv'
  <1>1. /\ DOMAIN current' = RoundFields
        /\ current'.oracle_keys = <<>>
        /\ current'.id = current.id
        /\ current'.round_open_timestamp = current.round_open_timestamp
        /\ current'.round_confirmed_timestamp = current.round_confirmed_timestamp
        /\ current'.medians = current.medians
        /\ current'.errors_fulfilled = current.errors_fulfilled
        /\ current'.num_success = current.num_success
        /\ current'.num_error = current.num_error
    <2>1. current' = [current EXCEPT !.oracle_keys = <<>>]
      BY RelayFacts
    <2> QED BY <2>1 DEF IInv, Typed, Dated, RoundFields
  <1>2. now' = now /\ config' = config
    BY RelayFacts
  <1>3. Dated(current') /\ Slotted(current')
    BY <1>1 DEF IInv, Typed, Dated, Slotted
  <1>4. Typed' /\ Timeline'
    <2>1. CASE latest' = latest
      <3>1. Typed'
        BY <1>2, <1>3, <2>1 DEF IInv, Typed
      <3>2. Timeline'
        BY <1>1, <1>2, <2>1 DEF IInv, Timeline
      <3> QED BY <3>1, <3>2
    <2>2. CASE latest' # latest
      <3>1. /\ DOMAIN latest' = RoundFields
            /\ latest'.id = latest.id + 1
            /\ latest'.round_open_timestamp = now
            /\ latest'.round_confirmed_timestamp = now
        BY <2>2, RelayFacts
      <3>2. Typed'
        BY <1>2, <1>3, <3>1 DEF IInv, Typed, Dated
      <3>3. Timeline'
        BY <1>1, <1>2, <3>1 DEF IInv, Typed, Timeline
      <3> QED BY <3>2, <3>3
    <2> QED BY <2>1, <2>2
  <1>5. AnswersCounted'
    <2>1. {k \in DOMAIN current'.medians : current'.medians[k] # NoAnswer}
            = {k \in DOMAIN current.medians : current.medians[k] # NoAnswer}
      BY <1>1
    <2>2. {k \in DOMAIN current'.errors_fulfilled : current'.errors_fulfilled[k]}
            = {k \in DOMAIN current.errors_fulfilled : current.errors_fulfilled[k]}
      BY <1>1
    <2> QED BY <1>1, <2>1, <2>2 DEF IInv, AnswersCounted, Counted
  <1> QED BY <1>4, <1>5 DEF IInv

LEMMA NextKeepsIInv ==
    ASSUME IInv, [RoundNext]_roundVars
    PROVE  IInv'
  <1>1. CASE \E o \in Oracles, i \in 1..batch_size, v \in Values : SaveResult(o, i, v)
    BY <1>1, ResultFacts
  <1>2. CASE \E o \in Oracles, i \in 1..batch_size : SaveError(o, i)
    BY <1>2, ErrorFacts
  <1>3. CASE \E n \in 0..MaxRelayed : \E updates \in [1..n -> Update] : RelayValue(updates)
    BY <1>3, RelayKeeps
  <1>4. CASE \E c \in Configs : SetConfigs(c)
    <2>1. current' = current /\ latest' = latest /\ now' = now /\ config' \in Configs
      BY <1>4 DEF SetConfigs
    <2> QED BY <2>1 DEF IInv, Typed, AnswersCounted, Timeline
  <1>5. CASE Tick
    <2>1. current' = current /\ latest' = latest /\ now' = now + 1 /\ config' = config
      BY <1>5 DEF Tick
    <2>2. Typed' /\ AnswersCounted'
      BY <2>1 DEF IInv, Typed, AnswersCounted
    <2>3. Timeline'
      BY <2>1 DEF IInv, Typed, Dated, Timeline
    <2> QED BY <2>2, <2>3 DEF IInv
  <1>6. CASE \E keys \in Batch(batch_size) : OpenRound(keys)
    BY <1>6, OpenFacts
  <1>7. CASE UNCHANGED roundVars
    BY <1>7 DEF roundVars, IInv, Typed, AnswersCounted, Timeline
  <1> QED BY <1>1, <1>2, <1>3, <1>4, <1>5, <1>6, <1>7 DEF RoundNext, AnswerOrRelay

THEOREM RoundInvariant == RoundSpec => []IInv
  BY InitIInv, NextKeepsIInv, PTL DEF RoundSpec

(* The counters of the current round agree with its answers: whatever the  *)
(* order of openings, answers, errors, relays and reconfigurations.        *)
THEOREM AnswersAlwaysCounted == RoundSpec => []AnswersCounted
  BY RoundInvariant, PTL DEF IInv

(* A step that changes the latest round publishes enough answers.          *)
LEMMA ConfirmedStep ==
    ASSUME IInv, [RoundNext]_roundVars, latest' # latest
    PROVE  latest'.num_success >= min_oracle_results
  <1>1. CASE \E o \in Oracles, i \in 1..batch_size, v \in Values : SaveResult(o, i, v)
    BY <1>1, ConfirmFacts DEF EnoughAnswers
  <1>2. CASE \E n \in 0..MaxRelayed : \E updates \in [1..n -> Update] : RelayValue(updates)
    BY <1>2, RelayFacts DEF EnoughAnswers
  <1> QED BY <1>1, <1>2
          DEF RoundNext, AnswerOrRelay, roundVars, OpenRound, SaveError, SetConfigs, Tick

(* Nobody reads a value with fewer answers than the configuration asks.    *)
THEOREM AlwaysConfirmedByEnough == RoundSpec => ConfirmedByEnough
  <1>1. IInv /\ [RoundNext]_roundVars
          => [latest' # latest => latest'.num_success >= min_oracle_results]_roundVars
    BY ConfirmedStep
  <1> QED BY <1>1, RoundInvariant, PTL DEF RoundSpec, ConfirmedByEnough

LEMMA NotOlderStep ==
    ASSUME IInv, [RoundNext]_roundVars
    PROVE  /\ latest'.id \in {latest.id, latest.id + 1}
           /\ latest'.round_open_timestamp >= latest.round_open_timestamp
           /\ latest'.round_confirmed_timestamp >= latest.round_confirmed_timestamp
  <1>1. CASE \E o \in Oracles, i \in 1..batch_size, v \in Values : SaveResult(o, i, v)
    <2>1. \/ latest' = latest
          \/ /\ latest'.id = current.id
             /\ latest'.round_open_timestamp = current.round_open_timestamp
             /\ latest'.round_confirmed_timestamp = now
             /\ current.oracle_keys # <<>>
      BY <1>1, ConfirmFacts
    <2> QED BY <2>1 DEF IInv, Typed, Dated, Timeline
  <1>2. CASE \E n \in 0..MaxRelayed : \E updates \in [1..n -> Update] : RelayValue(updates)
    <2>1. \/ latest' = latest
          \/ /\ latest'.id = latest.id + 1
             /\ latest'.round_open_timestamp = now
             /\ latest'.round_confirmed_timestamp = now
      BY <1>2, RelayFacts
    <2> QED BY <2>1 DEF IInv, Typed, Dated, Timeline
  <1>3. CASE latest' = latest
    BY <1>3 DEF IInv, Typed, Dated
  <1> QED BY <1>1, <1>2, <1>3
          DEF RoundNext, AnswerOrRelay, roundVars, OpenRound, SaveError, SetConfigs, Tick

(* The published round is never replaced by one that was opened or         *)
(* confirmed before it: relays wipe the open round, so that the answers to *)
(* it that are still on their way are refused.                             *)
THEOREM LatestIsNeverOlder == RoundSpec => LatestNeverOlder
  <1> DEFINE A == /\ latest'.id \in {latest.id, latest.id + 1}
                  /\ latest'.round_open_timestamp >= latest.round_open_timestamp
                  /\ latest'.round_confirmed_timestamp >= latest.round_confirmed_timestamp
  <1>1. IInv /\ [RoundNext]_roundVars => [A]_roundVars
    BY NotOlderStep
  <1>2. RoundSpec => [][A]_roundVars
    BY <1>1, RoundInvariant, PTL DEF RoundSpec
  <1> QED BY <1>2 DEF LatestNeverOlder

(* No step but an opening changes what was answered.                       *)
LEMMA StayStep ==
    ASSUME IInv, [RoundNext]_roundVars,
           current'.round_open_timestamp = current.round_open_timestamp,
           NEW j \in DOMAIN current.medians
    PROVE  /\ current.medians[j] # NoAnswer => current'.medians[j] = current.medians[j]
           /\ current.errors_fulfilled[j] => current'.errors_fulfilled[j]
  <1> DEFINE e == current.errors_fulfilled  m == current.medians
  <1>1. CASE \E o \in Oracles, i \in 1..batch_size, v \in Values : SaveResult(o, i, v)
    <2>1. PICK o \in Oracles, i \in 1..batch_size, v \in Values : SaveResult(o, i, v)
      BY <1>1
    <2>2. m[i] = NoAnswer
      BY <2>1, SlotFacts DEF SaveResult
    <2>3. /\ current'.medians = [current.medians EXCEPT ![i] = v]
          /\ current'.errors_fulfilled = current.errors_fulfilled
      <3>1. current' = Answered(i, v)
        BY <2>1 DEF SaveResult
      <3> HIDE DEF e, m
      <3> QED BY <3>1, AnsweredFacts DEF IInv, Typed
    <2> QED BY <2>2, <2>3
  <1>2. CASE \E o \in Oracles, i \in 1..batch_size : SaveError(o, i)
    <2>1. PICK o \in Oracles, i \in 1..batch_size : SaveError(o, i)
      BY <1>2
    <2>2. /\ i \in 1..Len(m) /\ Len(m) \in Nat /\ Len(e) = Len(m)
      BY <2>1, SlotFacts DEF SaveError
    <2>3. current'.medians = m /\ current'.errors_fulfilled = [e EXCEPT ![i] = TRUE]
      BY <2>1 DEF SaveError, ErrorCounted, IInv, Typed, Dated, RoundFields
    <2>4. e \in Seq(BOOLEAN) /\ DOMAIN e = 1..Len(e) /\ DOMAIN m = 1..Len(m)
      BY DEF IInv, Typed, Slotted
    <2>5. CASE j = i
      BY <2>2, <2>3, <2>4, <2>5
    <2>6. CASE j # i
      BY <2>2, <2>3, <2>4, <2>6
    <2> QED BY <2>5, <2>6
  <1>3. CASE \E n \in 0..MaxRelayed : \E updates \in [1..n -> Update] : RelayValue(updates)
    <2>1. current' = [current EXCEPT !.oracle_keys = <<>>]
      BY <1>3, RelayFacts
    <2> QED BY <2>1 DEF IInv, Typed, Dated, RoundFields
  <1>4. CASE current' = current
    BY <1>4
  <1>5. CASE \E keys \in Batch(batch_size) : OpenRound(keys)
    <2>1. current'.round_open_timestamp = now /\ now > current.round_open_timestamp
      BY <1>5 DEF OpenRound, OpenedRound, IInv, Typed, Dated, RoundFields
    <2> QED BY <2>1 DEF IInv, Typed, Dated
  <1> QED BY <1>1, <1>2, <1>3, <1>4, <1>5
          DEF RoundNext, AnswerOrRelay, roundVars, SetConfigs, Tick

(* What an oracle answered in a round stays, whatever it sends again.      *)
THEOREM AnswersAlwaysStay == RoundSpec => AnswersStay
  <1> DEFINE A == current'.round_open_timestamp = current.round_open_timestamp =>
                    \A i \in DOMAIN current.medians :
                      /\ current.medians[i] # NoAnswer => current'.medians[i] = current.medians[i]
                      /\ current.errors_fulfilled[i] => current'.errors_fulfilled[i]
  <1>1. IInv /\ [RoundNext]_roundVars => [A]_roundVars
    BY StayStep
  <1>2. RoundSpec => [][A]_roundVars
    BY <1>1, RoundInvariant, PTL DEF RoundSpec
  <1> QED BY <1>2 DEF AnswersStay

----------------------------------------------------------------------------
(* The median that readers get.  What an inductive definition computes is  *)
(* proved by induction, stated for the set of the numbers that have a      *)
(* property.                                                               *)
LEMMA NatSetInduction ==
    ASSUME NEW P, 0 \in P, \A n \in Nat : n \in P => n + 1 \in P
    PROVE  Nat \subseteq P
  <1> SUFFICES ASSUME NEW m \in Nat, m \notin P PROVE FALSE
    OBVIOUS
  <1> DEFINE W == {0..n : n \in Nat \ P}
  <1>1. W \subseteq FiniteSubsetsOf(Nat) /\ W # {}
    <2>1. \A n \in Nat : 0..n \in SUBSET Nat /\ IsFiniteSet(0..n)
      BY FS_Interval
    <2>2. 0..m \in W
      OBVIOUS
    <2> QED BY <2>1, <2>2 DEF FiniteSubsetsOf
  <1>2. PICK w \in W : \A v \in W : <<v, w>> \notin StrictSubsetOrdering(Nat)
    <2> HIDE DEF W
    <2> QED BY <1>1, FS_StrictSubsetOrderingWellFounded, WFMin
  <1>3. PICK x \in Nat \ P : w = 0..x
    OBVIOUS
  <1>4. x - 1 \in Nat \ P
    OBVIOUS
  <1>5. /\ 0..(x - 1) \in W
        /\ 0..(x - 1) \subseteq 0..x /\ x \in 0..x /\ x \notin 0..(x - 1)
    BY <1>4
  <1>6. <<0..(x - 1), w>> \in StrictSubsetOrdering(Nat)
    BY <1>3, <1>5 DEF StrictSubsetOrdering
  <1> QED BY <1>2, <1>5, <1>6

OneMoreEntry(taken, s, n, places) == IF n \in places THEN Append(taken, s[n]) ELSE taken

TakesEntries(g, s, places, m) ==
    g = [n \in 0..m |-> IF n = 0 THEN <<>> ELSE OneMoreEntry(g[n - 1], s, n, places)]

LEMMA TakesExists ==
    ASSUME NEW s, NEW places, NEW m \in Nat
    PROVE  \E g : TakesEntries(g, s, places, m)
  <1> DEFINE P == {k \in Nat : \E g : TakesEntries(g, s, places, k)}
  <1>1. 0 \in P
    <2>1. TakesEntries([n \in 0..0 |-> <<>>], s, places, 0)
      BY DEF TakesEntries
    <2> QED BY <2>1
  <1>2. ASSUME NEW k \in Nat, k \in P PROVE k + 1 \in P
    <2>1. PICK g : TakesEntries(g, s, places, k)
      BY <1>2
    <2> DEFINE f == [n \in 0..(k + 1) |->
                       IF n = 0 THEN <<>> ELSE OneMoreEntry(g[n - 1], s, n, places)]
    <2>2. \A n \in 0..k : f[n] = g[n]
      BY <2>1 DEF TakesEntries
    <2>3. \A n \in 0..(k + 1) : n # 0 => n - 1 \in 0..k
      OBVIOUS
    <2>4. ASSUME NEW n \in 0..(k + 1)
          PROVE  f[n] = IF n = 0 THEN <<>> ELSE OneMoreEntry(f[n - 1], s, n, places)
      <3>1. CASE n = 0
        BY <3>1
      <3>2. CASE n # 0
        <4>1. f[n - 1] = g[n - 1]
          BY <2>2, <2>3, <3>2
        <4>2. f[n] = OneMoreEntry(g[n - 1], s, n, places)
          BY <3>2
        <4> HIDE DEF f
        <4> QED BY <3>2, <4>1, <4>2
      <3> QED BY <3>1, <3>2
    <2>5. TakesEntries(f, s, places, k + 1)
      BY <2>4 DEF TakesEntries
    <2> QED BY <2>5
  <1> HIDE DEF P
  <1>3. m \in P
    BY <1>1, <1>2, NatSetInduction
  <1> QED BY <1>3 DEF P

(* The entries at some places are entries, as many as there are places, and *)
(* the entries at all places are the sequence.                             *)
LEMMA EntriesFacts ==
    ASSUME NEW R, NEW s \in Seq(R), NEW places \in SUBSET (1..Len(s))
    PROVE  LET t == EntriesAt(s, places)
           IN  /\ \A S : (\A i \in places : s[i] \in S) => t \in Seq(S)
               /\ Len(t) = Cardinality(places)
               /\ places = 1..Len(s) => t = s
  <1> DEFINE m == Len(s)
  <1>0. m \in Nat
    OBVIOUS
  <1>1. PICK g : TakesEntries(g, s, places, m) /\ EntriesAt(s, places) = g[m]
    <2>1. EntriesAt(s, places) = (CHOOSE g : TakesEntries(g, s, places, m))[m]
      BY DEF EntriesAt, TakesEntries, OneMoreEntry
    <2>2. \E g : TakesEntries(g, s, places, m)
      BY <1>0, TakesExists
    <2> QED BY <2>1, <2>2
  <1>2. g[0] = <<>> /\ Len(g[0]) = 0 /\ \A S : g[0] \in Seq(S)
    <2>1. g[0] = <<>>
      BY <1>0, <1>1 DEF TakesEntries
    <2>2. Len(<<>>) = 0 /\ \A S : <<>> \in Seq(S)
      OBVIOUS
    <2> QED BY <2>1, <2>2
  <1>7. \A n \in Nat : n + 1 <= m => s[n + 1] \in R
    OBVIOUS
  <1>8. ASSUME NEW t \in Seq(R), NEW x \in R
        PROVE  /\ Append(t, x) \in Seq(R) /\ Len(Append(t, x)) = Len(t) + 1
               /\ \A i \in 1..Len(t) : Append(t, x)[i] = t[i]
               /\ Append(t, x)[Len(t) + 1] = x
    OBVIOUS
  <1>3. ASSUME NEW n \in Nat, n + 1 <= m
        PROVE  g[n + 1] = IF n + 1 \in places THEN Append(g[n], s[n + 1]) ELSE g[n]
    <2>1. n + 1 \in 0..m /\ n + 1 # 0 /\ (n + 1) - 1 = n
      BY <1>0, <1>3
    <2> HIDE DEF m
    <2> QED BY <1>1, <2>1 DEF TakesEntries, OneMoreEntry
  <1>4. ASSUME NEW S, \A i \in places : s[i] \in S
        PROVE  g[m] \in Seq(S)
    <2> DEFINE P == {n \in Nat : n <= m => g[n] \in Seq(S)}
    <2>1. 0 \in P
      BY <1>2
    <2>2. ASSUME NEW n \in Nat, n \in P PROVE n + 1 \in P
      <3>1. CASE n + 1 <= m
        <4>1. g[n] \in Seq(S)
          BY <1>0, <2>2, <3>1
        <4>2. g[n + 1] \in Seq(S)
          <5>1. \A x \in S : Append(g[n], x) \in Seq(S)
            BY <4>1
          <5>2. CASE n + 1 \in places
            <6>1. s[n + 1] \in S /\ g[n + 1] = Append(g[n], s[n + 1])
              BY <1>3, <1>4, <3>1, <5>2
            <6> QED BY <5>1, <6>1
          <5>3. CASE n + 1 \notin places
            <6>1. g[n + 1] = g[n]
              BY <1>3, <3>1, <5>3
            <6> QED BY <4>1, <6>1
          <5> QED BY <5>2, <5>3
        <4> QED BY <4>2
      <3> QED BY <3>1
    <2> HIDE DEF P
    <2>3. m \in P
      BY <1>0, <2>1, <2>2, NatSetInduction
    <2> QED BY <1>0, <2>3 DEF P
  <1>5. Len(g[m]) = Cardinality(places)
    <2> DEFINE upTo(n) == places \cap 1..n
               P == {n \in Nat : n <= m => g[n] \in Seq(R) /\ Len(g[n]) = Cardinality(upTo(n))}
    <2>1. 0 \in P
      <3>1. upTo(0) = {}
        OBVIOUS
      <3>2. Cardinality(upTo(0)) = 0
        BY <3>1, FS_EmptySet
      <3> HIDE DEF upTo
      <3> QED BY <1>2, <3>2
    <2>2. ASSUME NEW n \in Nat, n \in P PROVE n + 1 \in P
      <3>1. CASE n + 1 <= m
        <4>1. g[n] \in Seq(R) /\ Len(g[n]) = Cardinality(upTo(n))
          BY <1>0, <2>2, <3>1
        <4>2. IsFiniteSet(upTo(n))
          BY FS_Interval, FS_Subset, 1 \in Int, n \in Int
        <4>3. CASE n + 1 \in places
          <5>1. upTo(n + 1) = upTo(n) \cup {n + 1} /\ n + 1 \notin upTo(n)
            BY <4>3
          <5> HIDE DEF upTo
          <5>2. Cardinality(upTo(n + 1)) = Cardinality(upTo(n)) + 1
            BY <4>2, <5>1, FS_AddElement
          <5>3. g[n + 1] = Append(g[n], s[n + 1]) /\ s[n + 1] \in R
            BY <1>3, <1>7, <3>1, <4>3
          <5>4. g[n + 1] \in Seq(R) /\ Len(g[n + 1]) = Len(g[n]) + 1
            BY <1>8, <4>1, <5>3
          <5> QED BY <4>1, <5>2, <5>4
        <4>4. CASE n + 1 \notin places
          <5>1. upTo(n + 1) = upTo(n)
            BY <4>4
          <5>2. g[n + 1] = g[n]
            BY <1>3, <3>1, <4>4
          <5> HIDE DEF upTo
          <5> QED BY <4>1, <5>1, <5>2
        <4> QED BY <4>3, <4>4
      <3> QED BY <3>1
    <2> HIDE DEF P
    <2>3. m \in P
      BY <1>0, <2>1, <2>2, NatSetInduction
    <2>4. upTo(m) = places
      OBVIOUS
    <2> HIDE DEF upTo
    <2> QED BY <1>0, <2>3, <2>4 DEF P
  <1>6. ASSUME places = 1..m PROVE g[m] = s
    <2> DEFINE P == {n \in Nat : n <= m =>
                       /\ g[n] \in Seq(R) /\ Len(g[n]) = n
                       /\ \A i \in 1..n : g[n][i] = s[i]}
    <2>1. 0 \in P
      <3>1. g[0] \in Seq(R) /\ Len(g[0]) = 0
        BY <1>2
      <3>2. \A i \in 1..0 : g[0][i] = s[i]
        OBVIOUS
      <3> QED BY <3>1, <3>2
    <2>2. ASSUME NEW n \in Nat, n \in P PROVE n + 1 \in P
      <3>1. CASE n + 1 <= m
        <4>1. g[n] \in Seq(R) /\ Len(g[n]) = n /\ \A i \in 1..n : g[n][i] = s[i]
          BY <1>0, <2>2, <3>1
        <4>2. n + 1 \in places /\ s[n + 1] \in R
          BY <1>0, <1>6, <1>7, <3>1
        <4>3. g[n + 1] = Append(g[n], s[n + 1])
          BY <1>3, <3>1, <4>2
        <4>4. /\ g[n + 1] \in Seq(R) /\ Len(g[n + 1]) = n + 1
              /\ \A i \in 1..(n + 1) : g[n + 1][i] = s[i]
          <5>1. /\ g[n + 1] \in Seq(R) /\ Len(g[n + 1]) = n + 1
                /\ \A i \in 1..n : g[n + 1][i] = g[n][i]
                /\ g[n + 1][n + 1] = s[n + 1]
            BY <1>8, <4>1, <4>2, <4>3
          <5> QED BY <4>1, <5>1
        <4> QED BY <4>4
      <3> QED BY <3>1
    <2> HIDE DEF P
    <2>3. m \in P
      BY <1>0, <2>1, <2>2, NatSetInduction
    <2>4. g[m] \in Seq(R) /\ Len(g[m]) = m /\ \A i \in 1..m : g[m][i] = s[i]
      BY <1>0, <2>3 DEF P
    <2> QED BY <2>4
  <1> QED BY <1>1, <1>4, <1>5, <1>6

(* As many values as there are answers.                                    *)
LEMMA UnwrapFacts ==
    ASSUME NEW R, NEW s \in Seq(R)
    PROVE  /\ unwrap(s) \in Seq(R)
           /\ Len(unwrap(s)) = Cardinality({i \in DOMAIN s : s[i] # NoAnswer})
           /\ (\A i \in 1..Len(s) : s[i] # NoAnswer) => unwrap(s) = s
  <1> DEFINE places == {i \in DOMAIN s : s[i] # NoAnswer}
  <1>1. /\ places \in SUBSET (1..Len(s))
        /\ \A i \in places : s[i] \in R
        /\ (\A i \in 1..Len(s) : s[i] # NoAnswer) => places = 1..Len(s)
    OBVIOUS
  <1>2. unwrap(s) = EntriesAt(s, places)
    BY DEF unwrap
  <1> HIDE DEF places
  <1>3. /\ unwrap(s) \in Seq(R) /\ Len(unwrap(s)) = Cardinality(places)
        /\ places = 1..Len(s) => unwrap(s) = s
    BY <1>1, <1>2, EntriesFacts
  <1> QED BY <1>1, <1>3 DEF places

LEMMA FreshFacts ==
    ASSUME NEW n \in Nat, NEW updates \in [1..n -> Update]
    PROVE  FreshValues(updates) \in Seq(Values)
  <1> DEFINE values == [i \in DOMAIN updates |-> updates[i].value]
             places == {i \in DOMAIN updates : ~IsStale(updates[i])}
  <1>1. DOMAIN updates = 1..n /\ \A i \in 1..n : updates[i].value \in Values
    BY DEF Update
  <1>2. values \in Seq(Values) /\ Len(values) = n
    BY <1>1
  <1>3. places \in SUBSET (1..Len(values)) /\ \A i \in places : values[i] \in Values
    BY <1>1, <1>2
  <1>4. FreshValues(updates) = EntriesAt(values, places)
    BY DEF FreshValues
  <1> HIDE DEF values, places
  <1> QED BY <1>2, <1>3, <1>4, EntriesFacts

LEMMA StatisticsMedian ==
    ASSUME NEW round, NEW s, DOMAIN round = RoundFields
    PROVE  WithStatistics(round, s).result = median(s)
  <1> DEFINE m == median(s)  d == std_deviation(s, m)
  <1>1. WithStatistics(round, s) = [round EXCEPT !.result = m, !.std_deviation = d]
    BY DEF WithStatistics
  <1> HIDE DEF m, d
  <1>2. WithStatistics(round, s).result = m
    BY <1>1 DEF RoundFields
  <1> QED BY <1>2 DEF m

(* A round with enough answers carries the median of those it has.         *)
LEMMA AnsweredMedian ==
    ASSUME Dated(current), NEW i, NEW v, Answered(i, v).num_success >= min_oracle_results
    PROVE  Answered(i, v).result = median(unwrap(Answered(i, v).medians))
  <1> DEFINE a == [current EXCEPT !.medians[i] = v, !.num_success = @ + 1]
             w == Widened(a, v)
             t == WithStatistics(w, unwrap(w.medians))
  <1>1. DOMAIN a = RoundFields
    BY DEF Dated, RoundFields
  <1>2. Answered(i, v) = IF w.num_success >= min_oracle_results THEN t ELSE w
    BY DEF Answered
  <1> HIDE DEF a
  <1>3. DOMAIN w = RoundFields
    BY <1>1, WidenedAside
  <1> HIDE DEF w
  <1>4. t.result = median(unwrap(w.medians))
    BY <1>3, StatisticsMedian
  <1>5. t.num_success = w.num_success /\ t.medians = w.medians
    BY <1>3, StatisticsAside DEF RoundFields
  <1> HIDE DEF t
  <1>6. Answered(i, v) = t
    BY <1>2, <1>5
  <1> QED BY <1>4, <1>5, <1>6

(* The latest round as a relay or a confirmed answer leaves it.            *)
MedianOf(round) ==
    LET s == unwrap(round.medians)
    IN  round.num_success = Len(s) /\ s # <<>> /\ round.result = median(s)

LEMMA EnoughIsSome ==
    ASSUME IInv, NEW n \in Nat, EnoughAnswers(n)
    PROVE  n > 0
  <1>1. min_oracle_results \in Nat /\ min_oracle_results > 0
    BY AggregatorRoundAssumption DEF IInv, Typed, min_oracle_results
  <1> QED BY <1>1 DEF EnoughAnswers

LEMMA MedianOfResult ==
    ASSUME IInv, IInv', NEW o, NEW i \in 1..batch_size, NEW v \in Values, SaveResult(o, i, v),
           latest' # latest
    PROVE  MedianOf(latest') /\ latest'.medians \in Seq(Values \cup {NoAnswer})
  <1>1. current' = Answered(i, v) /\ DOMAIN current' = RoundFields
    BY ResultOnCurrent DEF SaveResult
  <1>2. EnoughAnswers(current'.num_success) /\ latest' = [current' EXCEPT !.round_confirmed_timestamp = now]
    BY DEF SaveResult
  <1>3. /\ latest'.medians = current'.medians /\ latest'.num_success = current'.num_success
        /\ latest'.result = current'.result
    BY <1>1, <1>2 DEF RoundFields
  <1>4. current'.result = median(unwrap(current'.medians))
    BY <1>1, <1>2, AnsweredMedian DEF EnoughAnswers, IInv, Typed
  <1> DEFINE s == unwrap(current'.medians)
  <1>5. s \in Seq(Values \cup {NoAnswer}) /\ Len(s) = current'.num_success /\ current'.num_success \in Nat
    <2>1. current'.medians \in Seq(Values \cup {NoAnswer}) /\ current'.num_success \in Nat
      BY DEF IInv, Typed, Slotted
    <2>2. current'.num_success
            = Cardinality({k \in DOMAIN current'.medians : current'.medians[k] # NoAnswer})
      BY DEF IInv, AnswersCounted, Counted
    <2> QED BY <2>1, <2>2, UnwrapFacts
  <1>6. Len(s) > 0
    BY <1>2, <1>5, EnoughIsSome
  <1>7. s # <<>>
    BY <1>5, <1>6
  <1> HIDE DEF s
  <1>8. latest'.num_success = Len(s) /\ latest'.result = median(s) /\ unwrap(latest'.medians) = s
    BY <1>3, <1>4, <1>5 DEF s
  <1>9. current'.medians \in Seq(Values \cup {NoAnswer})
    BY DEF IInv, Typed, Slotted
  <1> QED BY <1>3, <1>7, <1>8, <1>9 DEF MedianOf

LEMMA MedianOfRelay ==
    ASSUME IInv, NEW n \in Nat, NEW updates \in [1..n -> Update], RelayValue(updates),
           latest' # latest
    PROVE  MedianOf(latest') /\ latest'.medians \in Seq(Values \cup {NoAnswer})
  <1> DEFINE values == FreshValues(updates)
             lo == Min(RelayedRange(updates))  hi == Max(RelayedRange(updates))
             k == Len(values)
             round == [default_round EXCEPT
                         !.id = latest.id + 1, !.round_open_timestamp = now,
                         !.round_confirmed_timestamp = now, !.medians = values,
                         !.min_response = lo, !.max_response = hi, !.num_success = k]
             r == WithStatistics(round, values)
  <1>1. EnoughAnswers(k) /\ latest' = r
    BY DEF RelayValue, RelayedRound
  <1>2. values \in Seq(Values) /\ k \in Nat
    BY FreshFacts
  <1>3. unwrap(values) = values
    <2>1. \A j \in 1..Len(values) : values[j] # NoAnswer
      <3> HIDE DEF values
      <3>1. \A j \in 1..Len(values) : values[j] \in Values
        BY <1>2
      <3> QED BY <3>1, AggregatorRoundAssumption
    <2> HIDE DEF values
    <2> QED BY <1>2, <2>1, UnwrapFacts
  <1>4. k > 0
    <2> HIDE DEF k
    <2> QED BY <1>1, <1>2, EnoughIsSome
  <1>5. values # <<>>
    <2> HIDE DEF values
    <2> QED BY <1>2, <1>4
  <1> HIDE DEF lo, hi, values
  <1>6. DOMAIN round = RoundFields /\ round.medians = values /\ round.num_success = k
    BY DEF default_round, RoundFields
  <1> HIDE DEF round, k
  <1>7. r.result = median(values)
    BY <1>6, StatisticsMedian
  <1>8. r.medians = values /\ r.num_success = k
    BY <1>6, StatisticsAside DEF RoundFields
  <1>9. values \in Seq(Values \cup {NoAnswer})
    BY <1>2
  <1> HIDE DEF r
  <1> QED BY <1>1, <1>3, <1>5, <1>7, <1>8, <1>9 DEF MedianOf, k

LEMMA NewMedian ==
    ASSUME IInv, IInv', [RoundNext]_roundVars, latest' # latest
    PROVE  MedianOf(latest') /\ latest'.medians \in Seq(Values \cup {NoAnswer})
  <1>1. CASE \E o \in Oracles, i \in 1..batch_size, v \in Values : SaveResult(o, i, v)
    BY <1>1, MedianOfResult
  <1>2. CASE \E n \in 0..MaxRelayed : \E updates \in [1..n -> Update] : RelayValue(updates)
    <2>1. PICK n \in 0..MaxRelayed : \E updates \in [1..n -> Update] : RelayValue(updates)
      BY <1>2
    <2> QED BY <2>1, MedianOfRelay
  <1> QED BY <1>1, <1>2
          DEF RoundNext, AnswerOrRelay, roundVars, OpenRound, SaveError, SetConfigs, Tick

LEMMA MedianStep ==
    ASSUME IInv, IInv', latest.id > 0 => MedianOf(latest), [RoundNext]_roundVars
    PROVE  latest'.id > 0 => MedianOf(latest')
  <1>1. CASE latest' = latest
    BY <1>1
  <1>2. CASE latest' # latest
    BY <1>2, NewMedian
  <1> QED BY <1>1, <1>2

(* What readers get is the median of all the answers of one round, of      *)
(* which there is one at least: also when more answers come after the      *)
(* round was confirmed, and after a relay that skips stale updates.        *)
THEOREM LatestIsAlwaysMedian == RoundSpec => []LatestIsMedian
  <1> DEFINE M == latest.id > 0 => MedianOf(latest)
  <1>1. RoundInit => M
    BY DEF RoundInit, default_round
  <1>2. IInv /\ IInv' /\ M /\ [RoundNext]_roundVars => M'
    BY MedianStep
  <1>3. M => LatestIsMedian
    BY DEF MedianOf, LatestIsMedian
  <1> HIDE DEF M
  <1> QED BY <1>1, <1>2, <1>3, RoundInvariant, PTL DEF RoundSpec

----------------------------------------------------------------------------
(* The median.  The answer of a rank exists, and is the only thing that    *)
(* Smallest may choose: so many are less, and more are no greater.         *)
AtMost(s, v) == {i \in DOMAIN s : s[i] <= v}

Below(s, v) == {i \in DOMAIN s : s[i] < v}

LEMMA PlacesFinite ==
    ASSUME NEW m \in Nat
    PROVE  /\ IsFiniteSet(1..m) /\ Cardinality(1..m) = m
           /\ \A S : S \subseteq 1..m => IsFiniteSet(S) /\ Cardinality(S) \in Nat
           /\ \A S, T : S \subseteq T /\ T \subseteq 1..m => Cardinality(S) <= Cardinality(T)
  <1>1. IsFiniteSet(1..m) /\ Cardinality(1..m) = m
    <2>1. 1 \in Int /\ m \in Int /\ (1 > m => m = 0) /\ m - 1 + 1 = m
      OBVIOUS
    <2> QED BY <2>1, FS_Interval
  <1> DEFINE All == 1..m
  <1>2. IsFiniteSet(All) /\ Cardinality(All) = m
    BY <1>1
  <1> HIDE DEF All
  <1>3. ASSUME NEW S, S \subseteq All PROVE IsFiniteSet(S) /\ Cardinality(S) \in Nat
    BY <1>2, <1>3, FS_Subset, FS_CardinalityType
  <1>4. ASSUME NEW S, NEW T, S \subseteq T, T \subseteq All PROVE Cardinality(S) <= Cardinality(T)
    <2>1. IsFiniteSet(T)
      BY <1>3, <1>4
    <2> QED BY <1>4, <2>1, FS_Subset
  <1> QED BY <1>1, <1>3, <1>4 DEF All

LEMMA BoundExists ==
    ASSUME NEW m \in Nat, NEW s, \A i \in 1..m : s[i] \in Nat
    PROVE  \E b \in Nat : \A i \in 1..m : s[i] <= b
  <1> DEFINE P == {n \in Nat : n <= m => \E b \in Nat : \A i \in 1..n : s[i] <= b}
  <1>1. 0 \in P
    OBVIOUS
  <1>2. ASSUME NEW n \in Nat, n \in P PROVE n + 1 \in P
    <2> SUFFICES ASSUME n + 1 <= m PROVE \E b \in Nat : \A i \in 1..(n + 1) : s[i] <= b
      OBVIOUS
    <2>1. PICK b \in Nat : \A i \in 1..n : s[i] <= b
      BY <1>2
    <2>2. /\ \A i \in 1..(n + 1) : s[i] \in Nat /\ (i \in 1..n \/ i = n + 1)
          /\ n + 1 \in 1..(n + 1)
      OBVIOUS
    <2>3. CASE s[n + 1] <= b
      BY <2>1, <2>2, <2>3
    <2>4. CASE ~(s[n + 1] <= b)
      <3>1. \A i \in 1..(n + 1) : s[i] <= s[n + 1]
        BY <2>1, <2>2, <2>4
      <3> QED BY <2>2, <3>1
    <2> QED BY <2>3, <2>4
  <1> HIDE DEF P
  <1>3. m \in P
    BY <1>1, <1>2, NatSetInduction
  <1> QED BY <1>3 DEF P

LEMMA SmallestFacts ==
    ASSUME NEW s \in Seq(Nat), NEW k \in 0..(Len(s) - 1)
    PROVE  /\ Smallest(s, k) \in Nat
           /\ Cardinality(Below(s, Smallest(s, k))) <= k
           /\ Cardinality(AtMost(s, Smallest(s, k))) > k
  <1> DEFINE m == Len(s)
             P == {v \in Nat : Cardinality(AtMost(s, v)) <= k}
             Ranked(v) == Cardinality(Below(s, v)) <= k /\ Cardinality(AtMost(s, v)) > k
  <1>1. m \in Nat /\ DOMAIN s = 1..m /\ k \in Nat /\ k < m /\ \A i \in 1..m : s[i] \in Nat
    OBVIOUS
  <1>2. \A v : AtMost(s, v) \subseteq 1..m /\ Below(s, v) \subseteq 1..m
    BY <1>1 DEF AtMost, Below
  <1> HIDE DEF m
  <1>3. \A v : Cardinality(AtMost(s, v)) \in Nat /\ Cardinality(Below(s, v)) \in Nat
    BY <1>1, <1>2, PlacesFinite
  <1>4. \E v \in Nat : Ranked(v)
    <2>1. CASE 0 \notin P
      <3>1. Below(s, 0) = {}
        BY <1>1 DEF Below
      <3>2. Cardinality(Below(s, 0)) = 0
        BY <3>1, FS_EmptySet
      <3>3. Cardinality(AtMost(s, 0)) > k
        BY <1>1, <1>3, <2>1
      <3> QED BY <1>1, <3>2, <3>3
    <2>2. CASE 0 \in P
      <3>1. PICK b \in Nat : \A i \in 1..m : s[i] <= b
        BY <1>1, BoundExists
      <3>2. AtMost(s, b) = 1..m
        BY <1>1, <3>1 DEF AtMost
      <3>3. b \notin P
        BY <1>1, <3>2, PlacesFinite
      <3> HIDE DEF P
      <3>4. PICK v \in Nat : v \in P /\ v + 1 \notin P
        BY <2>2, <3>1, <3>3, NatSetInduction
      <3>5. Below(s, v + 1) = AtMost(s, v)
        BY <1>1 DEF Below, AtMost
      <3>6. v + 1 \in Nat /\ Cardinality(Below(s, v + 1)) <= k /\ Cardinality(AtMost(s, v + 1)) > k
        BY <1>1, <1>3, <3>4, <3>5 DEF P
      <3> QED BY <3>6
    <2> QED BY <2>1, <2>2
  <1>5. ASSUME NEW v \in Nat, Ranked(v) PROVE v \in ToSet(s)
    <2>1. Below(s, v) # AtMost(s, v)
      BY <1>1, <1>3, <1>5
    <2>2. \E i \in 1..m : s[i] = v
      BY <1>1, <2>1 DEF Below, AtMost
    <2> QED BY <1>1, <2>2 DEF ToSet
  <1>6. ToSet(s) \subseteq Nat
    BY <1>1 DEF ToSet
  <1>7. Smallest(s, k) = CHOOSE v \in ToSet(s) : Ranked(v)
    BY DEF Smallest, Below, AtMost
  <1> HIDE DEF Ranked
  <1>8. Smallest(s, k) \in ToSet(s) /\ Ranked(Smallest(s, k))
    BY <1>4, <1>5, <1>7
  <1> QED BY <1>6, <1>8 DEF Ranked

(* The mean of the two middle answers, rounded down, still has one of them *)
(* on either side.                                                         *)
LEMMA MedianBounds ==
    ASSUME NEW s \in Seq(Nat), Len(s) > 0
    PROVE  /\ median(s) \in Nat
           /\ 2 * Cardinality(AtMost(s, median(s))) >= Len(s)
           /\ 2 * Cardinality(Below(s, median(s))) <= Len(s)
  <1> DEFINE m == Len(s)
             half == m \div 2
             v == median(s)
  <1>1. m \in Nat /\ m > 0 /\ DOMAIN s = 1..m /\ \A i \in 1..m : s[i] \in Nat
    OBVIOUS
  <1>2. \A x : AtMost(s, x) \subseteq 1..m /\ Below(s, x) \subseteq 1..m
    BY <1>1 DEF AtMost, Below
  <1> HIDE DEF m
  <1>3. /\ \A x : Cardinality(AtMost(s, x)) \in Nat /\ Cardinality(Below(s, x)) \in Nat
        /\ \A x, y : AtMost(s, x) \subseteq AtMost(s, y)
                        => Cardinality(AtMost(s, x)) <= Cardinality(AtMost(s, y))
        /\ \A x, y : Below(s, x) \subseteq Below(s, y)
                        => Cardinality(Below(s, x)) <= Cardinality(Below(s, y))
        /\ \A x, y : AtMost(s, x) \subseteq Below(s, y)
                        => Cardinality(AtMost(s, x)) <= Cardinality(Below(s, y))
    <2>1. \A S : S \subseteq 1..m => Cardinality(S) \in Nat
      BY <1>1, PlacesFinite
    <2>2. \A S, T : S \subseteq T /\ T \subseteq 1..m => Cardinality(S) <= Cardinality(T)
      BY <1>1, PlacesFinite
    <2> QED BY <1>2, <2>1, <2>2
  <1>4. half \in Nat /\ half <= m - 1
    BY <1>1
  <1> DEFINE b == Smallest(s, half)
  <1>5. b \in Nat /\ Cardinality(Below(s, b)) <= half /\ Cardinality(AtMost(s, b)) > half
    <2>1. half \in 0..(Len(s) - 1)
      BY <1>4 DEF m
    <2> HIDE DEF half
    <2> QED BY <2>1, SmallestFacts
  <1>6. CASE m % 2 # 0
    <2>1. v = b
      BY <1>6 DEF median, m
    <2>2. m = 2 * half + 1
      BY <1>1, <1>6
    <2> HIDE DEF v, b, half
    <2>3. 2 * Cardinality(AtMost(s, v)) >= m /\ 2 * Cardinality(Below(s, v)) <= m
      BY <1>1, <1>3, <1>4, <1>5, <2>1, <2>2
    <2> QED BY <1>5, <2>1, <2>3 DEF v, m
  <1>7. CASE m % 2 = 0
    <2> DEFINE a == Smallest(s, half - 1)
    <2>1. m = 2 * half /\ half - 1 \in 0..(m - 1) /\ half - 1 \in Nat
      BY <1>1, <1>7
    <2>2. v = (b + a) \div 2
      BY <1>7 DEF median, m
    <2> HIDE DEF half
    <2>3. a \in Nat /\ Cardinality(Below(s, a)) <= half - 1 /\ Cardinality(AtMost(s, a)) > half - 1
      BY <2>1, SmallestFacts DEF m
    <2> HIDE DEF a, b, v
    <2>4. a <= b
      <3> SUFFICES ASSUME b < a PROVE FALSE
        BY <1>5, <2>3
      <3>1. AtMost(s, b) \subseteq Below(s, a)
        BY <1>1, <1>5, <2>3 DEF AtMost, Below
      <3>2. Cardinality(AtMost(s, b)) <= Cardinality(Below(s, a))
        BY <1>3, <3>1
      <3> QED BY <1>3, <1>4, <1>5, <2>3, <3>2
    <2>5. v \in Nat /\ a <= v /\ v <= b
      BY <1>5, <2>2, <2>3, <2>4
    <2>6. AtMost(s, a) \subseteq AtMost(s, v) /\ Below(s, v) \subseteq Below(s, b)
      BY <1>1, <1>5, <2>3, <2>5 DEF AtMost, Below
    <2>7. /\ Cardinality(AtMost(s, a)) <= Cardinality(AtMost(s, v))
          /\ Cardinality(Below(s, v)) <= Cardinality(Below(s, b))
      BY <1>3, <2>6
    <2>8. 2 * Cardinality(AtMost(s, v)) >= m /\ 2 * Cardinality(Below(s, v)) <= m
      <3> DEFINE A == Cardinality(AtMost(s, a))  V == Cardinality(AtMost(s, v))
                 B == Cardinality(Below(s, b))   W == Cardinality(Below(s, v))
      <3>1. A \in Nat /\ V \in Nat /\ B \in Nat /\ W \in Nat
        BY <1>3
      <3>2. A > half - 1 /\ A <= V /\ B <= half /\ W <= B /\ m = 2 * half /\ half \in Nat
        BY <1>4, <1>5, <2>1, <2>3, <2>7
      <3> HIDE DEF A, V, B, W
      <3>3. 2 * V >= m /\ 2 * W <= m
        BY <3>1, <3>2
      <3> QED BY <3>3 DEF V, W
    <2> QED BY <2>5, <2>8 DEF v, m
  <1> QED BY <1>6, <1>7

(* The feed as a register.  What readers get is the result of the latest   *)
(* round, from the time of its confirmation.                               *)
Register == INSTANCE FeedRegister
    WITH Answers <- Values, enough <- min_oracle_results,
         value <- latest.result, time <- latest.round_confirmed_timestamp

LEMMA SameCardinality == \A S : Register!Cardinality(S) = Cardinality(S)
  BY DEF Register!Cardinality, Cardinality

LEMMA MedianInTheMiddle ==
    ASSUME NEW s \in Seq(Nat), Len(s) > 0
    PROVE  Register!InTheMiddle(median(s), s)
  <1> DEFINE m == Len(s)
             v == median(s)
             All == 1..m
             Rest == {i \in DOMAIN s : s[i] >= v}
  <1>1. m \in Nat /\ DOMAIN s = All /\ \A i \in 1..m : s[i] \in Nat
    OBVIOUS
  <1>2. /\ v \in Nat /\ 2 * Cardinality(AtMost(s, v)) >= m
        /\ 2 * Cardinality(Below(s, v)) <= m
    BY MedianBounds
  <1> HIDE DEF m, v
  <1>3. Below(s, v) \subseteq All /\ Rest = All \ Below(s, v) /\ All \cap Below(s, v) = Below(s, v)
    BY <1>1, <1>2 DEF Below
  <1>4. IsFiniteSet(All) /\ Cardinality(All) = m /\ Cardinality(Below(s, v)) \in Nat
    BY <1>1, <1>3, PlacesFinite
  <1> HIDE DEF All, Rest
  <1>5. Cardinality(All \ Below(s, v)) = Cardinality(All) - Cardinality(All \cap Below(s, v))
    BY <1>4, FS_Difference
  <1>6. 2 * Cardinality(Rest) >= m
    <2> DEFINE b == Cardinality(Below(s, v))  r == Cardinality(Rest)
    <2>1. r = m - b
      BY <1>3, <1>4, <1>5
    <2>2. b \in Nat /\ m \in Nat /\ 2 * b <= m
      BY <1>1, <1>2, <1>4
    <2> HIDE DEF b, r
    <2>3. 2 * r >= m
      BY <2>1, <2>2
    <2> QED BY <2>3 DEF r
  <1> QED BY <1>2, <1>6, SameCardinality DEF Register!InTheMiddle, AtMost, Rest, m, v

(* The answers that a new latest round holds.                              *)
LEMMA NewAnswers ==
    ASSUME IInv, IInv', [RoundNext]_roundVars, latest' # latest
    PROVE  LET s == unwrap(latest'.medians)
           IN  /\ s \in Seq(Values) /\ s \in Seq(Nat) /\ Len(s) > 0
               /\ Len(s) >= min_oracle_results /\ latest'.result = median(s)
  <1> DEFINE t == latest'.medians
             places == {i \in DOMAIN t : t[i] # NoAnswer}
             s == unwrap(t)
  <1>1. /\ latest'.num_success = Len(s) /\ s # <<>> /\ latest'.result = median(s)
        /\ t \in Seq(Values \cup {NoAnswer})
    BY NewMedian DEF MedianOf
  <1>2. latest'.num_success >= min_oracle_results
    BY ConfirmedStep
  <1> HIDE DEF t
  <1>3. places \in SUBSET (1..Len(t)) /\ \A i \in places : t[i] \in Values
    BY <1>1
  <1>4. s = EntriesAt(t, places)
    BY DEF unwrap
  <1> HIDE DEF places
  <1>5. s \in Seq(Values)
    BY <1>1, <1>3, <1>4, EntriesFacts
  <1> HIDE DEF s
  <1>6. s \in Seq(Nat) /\ Len(s) > 0
    <2>1. Values \subseteq Nat
      BY AggregatorRoundAssumption
    <2>2. s # <<>>
      BY <1>1
    <2>3. Len(s) \in Nat /\ Len(s) # 0
      BY <1>5, <2>2
    <2>4. \A i \in 1..Len(s) : s[i] \in Nat
      <3>1. \A i \in 1..Len(s) : s[i] \in Values
        BY <1>5
      <3> QED BY <2>1, <3>1
    <2>5. s \in Seq(Nat)
      BY <1>5, <2>4
    <2> QED BY <2>3, <2>5
  <1> QED BY <1>1, <1>2, <1>5, <1>6 DEF s, t

LEMMA RegisterStep ==
    ASSUME IInv, IInv', [RoundNext]_roundVars
    PROVE  [Register!Next]_(Register!vars)
  <1>1. CASE latest' # latest
    <2> DEFINE s == unwrap(latest'.medians)
    <2>1. /\ s \in Seq(Values) /\ s \in Seq(Nat) /\ Len(s) > 0
          /\ Len(s) >= min_oracle_results /\ latest'.result = median(s)
      BY <1>1, NewAnswers
    <2> HIDE DEF s
    <2>2. Register!InTheMiddle(median(s), s) /\ median(s) \in Int
      BY <2>1, MedianInTheMiddle, MedianBounds
    <2>3. /\ latest'.round_confirmed_timestamp \in Nat
          /\ latest'.round_confirmed_timestamp >= latest.round_confirmed_timestamp
      BY NotOlderStep DEF IInv, Typed, Dated
    <2>4. min_oracle_results' = min_oracle_results
      BY <1>1 DEF RoundNext, AnswerOrRelay, roundVars, SaveResult, SaveError, RelayValue,
                  OpenRound, SetConfigs, Tick, min_oracle_results
    <2>5. Register!Publish(s)
      BY <2>1, <2>2, <2>3, <2>4 DEF Register!Publish
    <2> QED BY <2>1, <2>5 DEF Register!Next
  <1>2. CASE latest' = latest
    <2>1. min_oracle_results' \in Nat \ {0}
      BY AggregatorRoundAssumption DEF IInv, Typed, min_oracle_results
    <2> QED BY <1>2, <2>1 DEF Register!Next, Register!Configure
  <1> QED BY <1>1, <1>2

(* The feed is a register of what its oracles answer: whether it is moved  *)
(* by the oracles of a round, one answer after the other, or by a relay of *)
(* updates, a value that readers get is in the middle of as many answers   *)
(* as the authority asks for, and is confirmed no earlier than the one it  *)
(* replaces.                                                               *)
THEOREM RoundsImplementRegister == RoundSpec => Register!Spec
  <1>1. RoundInit => Register!Init
    BY AggregatorRoundAssumption
       DEF RoundInit, default_round, min_oracle_results, Register!Init
  <1>2. IInv /\ IInv' /\ [RoundNext]_roundVars => [Register!Next]_(Register!vars)
    BY RegisterStep
  <1> QED BY <1>1, <1>2, RoundInvariant, PTL DEF RoundSpec, Register!Spec

(***************************************************************************)
(* The payouts, of RoundPayouts.  A settlement is a function defined by    *)
(* recursion on the oracles of the round, and the worth of the wallets a   *)
(* sum over a set: what they compute is proved by induction.               *)
(***************************************************************************)
----------------------------------------------------------------------------
(* Sums.  MapThenSumSet takes an element out of the set, adds what it maps *)
(* to, and goes on with the rest.                                          *)
SumOf(f, S) == MapThenSumSet(LAMBDA o : f[o], S)

Taken(s) == CHOOSE x \in s : TRUE

IsSum(g, f, D) == g = [s \in D |-> IF s = {} THEN 0 ELSE f[Taken(s)] + g[s \ {Taken(s)}]]

UpTo(n, S) == {s \in SUBSET S : Cardinality(s) <= n}

LEMMA SumDef ==
    ASSUME NEW f, NEW S
    PROVE  SumOf(f, S) = (CHOOSE g : IsSum(g, f, SUBSET S))[S]
  BY DEF SumOf, MapThenSumSet, MapThenFoldSet, IsSum, Taken

LEMMA SubsetCount ==
    ASSUME NEW S, IsFiniteSet(S), NEW s \in SUBSET S
    PROVE  /\ Cardinality(s) \in Nat
           /\ Cardinality(s) <= Cardinality(S)
           /\ Cardinality(s) = 0 => s = {}
  <1>1. IsFiniteSet(s) /\ Cardinality(s) <= Cardinality(S)
    BY FS_Subset
  <1> QED BY <1>1, FS_CardinalityType, FS_EmptySet

LEMMA OneTaken ==
    ASSUME NEW S, IsFiniteSet(S), NEW s \in SUBSET S, s # {}
    PROVE  /\ Taken(s) \in s
           /\ Cardinality(s \ {Taken(s)}) = Cardinality(s) - 1
  <1>1. IsFiniteSet(s)
    BY FS_Subset
  <1>2. Taken(s) \in s
    BY DEF Taken
  <1> QED BY <1>1, <1>2, FS_RemoveElement

(* What holds of the empty set, and of a set if it holds of the set        *)
(* without the element that is taken first, holds of every finite set.     *)
LEMMA SubsetInduction ==
    ASSUME NEW S, IsFiniteSet(S), NEW Q, {} \in Q,
           \A s \in SUBSET S : s # {} /\ s \ {Taken(s)} \in Q => s \in Q
    PROVE  \A s \in SUBSET S : s \in Q
  <1> DEFINE P == {n \in Nat : \A s \in SUBSET S : Cardinality(s) <= n => s \in Q}
  <1>1. 0 \in P
    <2>1. ASSUME NEW s \in SUBSET S, Cardinality(s) <= 0 PROVE s = {}
      <3>1. Cardinality(s) \in Nat /\ (Cardinality(s) = 0 => s = {})
        BY SubsetCount
      <3> QED BY <2>1, <3>1
    <2> QED BY <2>1
  <1>2. ASSUME NEW n \in Nat, n \in P PROVE n + 1 \in P
    <2>1. ASSUME NEW s \in SUBSET S, Cardinality(s) <= n + 1, s # {} PROVE s \in Q
      <3>1. Cardinality(s \ {Taken(s)}) <= n
        BY <2>1, SubsetCount, OneTaken
      <3> QED BY <1>2, <2>1, <3>1
    <2> QED BY <2>1
  <1> HIDE DEF P
  <1>3. ASSUME NEW s \in SUBSET S PROVE s \in Q
    <2>1. Cardinality(s) \in Nat /\ Cardinality(s) <= Cardinality(s)
      BY SubsetCount
    <2>2. Cardinality(s) \in P
      BY <1>1, <1>2, <2>1, NatSetInduction
    <2> QED BY <2>1, <2>2 DEF P
  <1> QED BY <1>3

LEMMA SumExists ==
    ASSUME NEW f, NEW S, IsFiniteSet(S)
    PROVE  \E g : IsSum(g, f, SUBSET S)
  <1> DEFINE P == {n \in Nat : \E g : IsSum(g, f, UpTo(n, S))}
  <1>1. 0 \in P
    <2>1. ASSUME NEW s \in UpTo(0, S) PROVE s = {}
      <3>1. s \in SUBSET S /\ Cardinality(s) <= 0
        BY DEF UpTo
      <3>2. Cardinality(s) \in Nat /\ (Cardinality(s) = 0 => s = {})
        BY <3>1, SubsetCount
      <3> QED BY <3>1, <3>2
    <2>2. IsSum([s \in UpTo(0, S) |-> 0], f, UpTo(0, S))
      BY <2>1 DEF IsSum
    <2> QED BY <2>2
  <1>2. ASSUME NEW n \in Nat, n \in P PROVE n + 1 \in P
    <2>1. PICK g : IsSum(g, f, UpTo(n, S))
      BY <1>2
    <2> DEFINE h == [s \in UpTo(n + 1, S) |->
                       IF s = {} THEN 0 ELSE f[Taken(s)] + g[s \ {Taken(s)}]]
    <2>2. ASSUME NEW s \in UpTo(n + 1, S), s # {}
          PROVE  s \ {Taken(s)} \in UpTo(n, S) /\ s \ {Taken(s)} \in UpTo(n + 1, S)
      <3>1. s \in SUBSET S /\ Cardinality(s) <= n + 1
        BY DEF UpTo
      <3>2. Cardinality(s) \in Nat /\ Cardinality(s \ {Taken(s)}) = Cardinality(s) - 1
        BY <2>2, <3>1, SubsetCount, OneTaken
      <3> QED BY <3>1, <3>2 DEF UpTo
    <2>3. ASSUME NEW s \in UpTo(n, S) PROVE s \in UpTo(n + 1, S)
      <3>1. s \in SUBSET S /\ Cardinality(s) <= n
        BY DEF UpTo
      <3>2. Cardinality(s) \in Nat
        BY <3>1, SubsetCount
      <3> QED BY <3>1, <3>2 DEF UpTo
    <2>4. \A s \in UpTo(n, S) : h[s] = g[s]
      BY <2>1, <2>3 DEF IsSum
    <2>5. IsSum(h, f, UpTo(n + 1, S))
      BY <2>2, <2>4 DEF IsSum
    <2> QED BY <2>5
  <1>3. Cardinality(S) \in P
    <2> HIDE DEF P
    <2> QED BY <1>1, <1>2, NatSetInduction, FS_CardinalityType
  <1>4. UpTo(Cardinality(S), S) = SUBSET S
    BY SubsetCount DEF UpTo
  <1> QED BY <1>3, <1>4

(* More of what one of the elements maps to is as much more in the sum.    *)
LEMMA SumChange ==
    ASSUME NEW S, IsFiniteSet(S), NEW f \in [S -> Int], NEW o \in S, NEW d \in Int
    PROVE  /\ SumOf(f, S) \in Int
           /\ SumOf([f EXCEPT ![o] = @ + d], S) = SumOf(f, S) + d
  <1> DEFINE h == [f EXCEPT ![o] = @ + d]
  <1>1. PICK p : IsSum(p, f, SUBSET S) /\ SumOf(f, S) = p[S]
    BY SumDef, SumExists
  <1>2. PICK q : IsSum(q, h, SUBSET S) /\ SumOf(h, S) = q[S]
    <2> HIDE DEF h
    <2> QED BY SumDef, SumExists
  <1> DEFINE Good(s) == p[s] \in Int /\ q[s] = p[s] + (IF o \in s THEN d ELSE 0)
             Q == {s \in SUBSET S : Good(s)}
  <1>3. \A x \in S : f[x] \in Int /\ h[x] = f[x] + IF x = o THEN d ELSE 0
    OBVIOUS
  <1>4. /\ p[{}] = 0 /\ q[{}] = 0
        /\ \A s \in SUBSET S : s # {} => /\ p[s] = f[Taken(s)] + p[s \ {Taken(s)}]
                                         /\ q[s] = h[Taken(s)] + q[s \ {Taken(s)}]
    <2> HIDE DEF h
    <2> QED BY <1>1, <1>2 DEF IsSum
  <1>5. {} \in Q
    <2> HIDE DEF h
    <2> QED BY <1>4
  <1>6. ASSUME NEW s \in SUBSET S, s # {}, s \ {Taken(s)} \in Q PROVE s \in Q
    <2> DEFINE x == Taken(s)
               r == s \ {x}
    <2>1. x \in s /\ x \in S
      BY <1>6, OneTaken
    <2>2. Good(r)
      BY <1>6
    <2>3. p[s] = f[x] + p[r] /\ q[s] = h[x] + q[r]
      BY <1>4, <1>6
    <2>4. f[x] \in Int /\ h[x] = f[x] + IF x = o THEN d ELSE 0
      BY <1>3, <2>1
    <2>5. (o \in s <=> (o = x \/ o \in r)) /\ x \notin r
      BY <2>1
    <2> HIDE DEF h, r, x
    <2> QED BY <2>2, <2>3, <2>4, <2>5
  <1> HIDE DEF Q
  <1>7. S \in Q
    BY <1>5, <1>6, SubsetInduction
  <1> QED BY <1>1, <1>2, <1>7 DEF Q

LEMMA SumOfNothing ==
    ASSUME NEW S, IsFiniteSet(S)
    PROVE  SumOf([o \in S |-> 0], S) = 0
  <1> DEFINE f == [o \in S |-> 0]
  <1>1. PICK p : IsSum(p, f, SUBSET S) /\ SumOf(f, S) = p[S]
    <2> HIDE DEF f
    <2> QED BY SumDef, SumExists
  <1> DEFINE Q == {s \in SUBSET S : p[s] = 0}
  <1>2. {} \in Q
    BY <1>1 DEF IsSum
  <1>3. ASSUME NEW s \in SUBSET S, s # {}, s \ {Taken(s)} \in Q PROVE s \in Q
    <2>1. Taken(s) \in S
      BY <1>3, OneTaken
    <2>2. p[s] = f[Taken(s)] + p[s \ {Taken(s)}]
      <3> HIDE DEF f
      <3> QED BY <1>1, <1>3 DEF IsSum
    <2>3. f[Taken(s)] = 0
      BY <2>1
    <2> QED BY <1>3, <2>2, <2>3
  <1> HIDE DEF Q
  <1>4. S \in Q
    BY <1>2, <1>3, SubsetInduction
  <1> QED BY <1>1, <1>4 DEF Q

LEMMA SumIsInt ==
    ASSUME NEW S, IsFiniteSet(S), NEW f \in [S -> Int]
    PROVE  SumOf(f, S) \in Int
  <1>1. CASE S = {}
    <2>1. f = [o \in S |-> 0]
      BY <1>1
    <2> QED BY <2>1, SumOfNothing
  <1>2. CASE S # {}
    BY <1>2, SumChange, 0 \in Int
  <1> QED BY <1>1, <1>2

----------------------------------------------------------------------------
(* One payment, one fine.                                                  *)
Ledger == [lease : Nat, wallet : [Oracles -> Nat]]

Worth(s) == s.lease + SumOf(s.wallet, Oracles)

LEMMA WorthOfTransfer ==
    ASSUME NEW s \in Ledger, NEW o \in Oracles, NEW d \in Int
    PROVE  /\ Worth(s) \in Int
           /\ Worth([lease |-> s.lease - d, wallet |-> [s.wallet EXCEPT ![o] = @ + d]]) = Worth(s)
  <1> DEFINE w == s.wallet  u == [w EXCEPT ![o] = @ + d]
  <1>1. IsFiniteSet(Oracles) /\ w \in [Oracles -> Int] /\ s.lease \in Int
    BY RoundPayoutsAssumption DEF Ledger
  <1> HIDE DEF w
  <1>2. SumOf(w, Oracles) \in Int /\ SumOf(u, Oracles) = SumOf(w, Oracles) + d
    BY <1>1, SumChange
  <1> HIDE DEF u
  <1>3. Worth(s) = s.lease + SumOf(w, Oracles)
    BY DEF Worth, w
  <1>4. Worth([lease |-> s.lease - d, wallet |-> u]) = s.lease - d + SumOf(u, Oracles)
    BY DEF Worth
  <1>5. Worth([lease |-> s.lease - d, wallet |-> u]) = Worth(s) /\ Worth(s) \in Int
    BY <1>1, <1>2, <1>3, <1>4
  <1> QED BY <1>5 DEF u, w

LEMMA PaidFacts ==
    ASSUME NEW s \in Ledger, NEW o \in Oracles, NEW amount \in Nat
    PROVE  LET t == PaidTo(o, amount, s)
           IN  /\ t \in Ledger /\ Worth(t) = Worth(s)
               /\ t.lease >= s.lease - amount
               /\ t.wallet[o] >= s.wallet[o]
               /\ PaidAsFarAs(t.wallet[o] - s.wallet[o], amount, s.lease)
               /\ \A p \in Oracles : p # o => t.wallet[p] = s.wallet[p]
  <1> DEFINE coin == Extracted(amount, s.lease)
  <1>1. /\ coin \in Nat /\ coin <= s.lease
        /\ PaidAsFarAs(coin, amount, s.lease)
    BY DEF Extracted, Ledger, PaidAsFarAs
  <1> HIDE DEF coin
  <1>2. PaidTo(o, amount, s)
          = [lease |-> s.lease - coin, wallet |-> [s.wallet EXCEPT ![o] = @ + coin]]
    BY DEF PaidTo, coin
  <1>3. Worth(PaidTo(o, amount, s)) = Worth(s)
    BY <1>1, <1>2, WorthOfTransfer
  <1>4. (s.wallet[o] + coin) - s.wallet[o] = coin
    BY <1>1 DEF Ledger
  <1>5. PaidTo(o, amount, s).wallet[o] - s.wallet[o] = coin
    BY <1>2, <1>4 DEF Ledger
  <1>6. coin <= amount
    BY <1>1 DEF PaidAsFarAs
  <1> QED BY <1>1, <1>2, <1>3, <1>5, <1>6 DEF Ledger

LEMMA FinedFacts ==
    ASSUME NEW s \in Ledger, NEW o \in Oracles, NEW amount \in Nat
    PROVE  LET t == FinedFrom(o, amount, s)
           IN  /\ t \in Ledger /\ Worth(t) = Worth(s)
               /\ t.lease >= s.lease
               /\ \A p \in Oracles : p # o => t.wallet[p] = s.wallet[p]
  <1> DEFINE coin == Extracted(amount, s.wallet[o])
  <1>1. s.wallet[o] \in Nat /\ s.lease \in Nat /\ s.wallet \in [Oracles -> Nat]
    BY DEF Ledger
  <1>2. coin \in Nat /\ coin <= s.wallet[o]
    BY <1>1 DEF Extracted
  <1> HIDE DEF coin
  <1> DEFINE d == -coin
  <1>3. FinedFrom(o, amount, s)
          = [lease |-> s.lease + coin, wallet |-> [s.wallet EXCEPT ![o] = @ - coin]]
    BY DEF FinedFrom, coin
  <1>4. s.lease + coin = s.lease - d /\ s.wallet[o] - coin = s.wallet[o] + d /\ d \in Int
    BY <1>1, <1>2
  <1>5. FinedFrom(o, amount, s)
          = [lease |-> s.lease - d, wallet |-> [s.wallet EXCEPT ![o] = @ + d]]
    BY <1>3, <1>4
  <1> HIDE DEF d
  <1>6. Worth(FinedFrom(o, amount, s)) = Worth(s)
    BY <1>4, <1>5, WorthOfTransfer
  <1> QED BY <1>1, <1>2, <1>3, <1>6 DEF Ledger

(* What the settlement does with the i-th oracle of the round.             *)
Keys == current.oracle_keys

Due == SaveReward + Reward

Agreed(i) == current.medians[i] # NoAnswer /\ IsAgreed(i)

Settleable ==
    /\ Keys \in Seq(Oracles)
    /\ IsInjective(Keys)
    /\ \A i \in 1..Len(Keys) :
          /\ current.errors_fulfilled[i] \in BOOLEAN
          /\ current.medians[i] # NoAnswer => ~current.errors_fulfilled[i]

LEMMA SettledFacts ==
    ASSUME Settleable, NEW i \in 1..Len(Keys), NEW s \in Ledger
    PROVE  LET t == SettledWith(i, s)
           IN  /\ t \in Ledger /\ Worth(t) = Worth(s)
               /\ t.lease >= s.lease - (IF Agreed(i) THEN Due ELSE 0)
               /\ \A p \in Oracles : p # Keys[i] => t.wallet[p] = s.wallet[p]
               /\ Agreed(i) => PaidAsFarAs(t.wallet[Keys[i]] - s.wallet[Keys[i]], Due, s.lease)
               /\ \/ t.wallet[Keys[i]] >= s.wallet[Keys[i]]
                  \/ ~current.errors_fulfilled[i] /\ ~Agreed(i)
  <1> DEFINE o == Keys[i]
  <1>1. o \in Oracles
    BY DEF Settleable
  <1>2. Due \in Nat /\ Reward + SlashingPenalty \in Nat /\ SlashingEnabled \in BOOLEAN
    BY RoundPayoutsAssumption DEF Due
  <1>3. s.lease \in Nat /\ s.wallet[o] \in Nat
    BY <1>1 DEF Ledger
  <1> DEFINE F == Fine(o, s)
  <1>4. /\ F \in Ledger /\ Worth(F) = Worth(s)
        /\ F.lease >= s.lease
        /\ \A p \in Oracles : p # o => F.wallet[p] = s.wallet[p]
    <2>1. CASE SlashingEnabled
      <3> DEFINE G == FinedFrom(o, Reward + SlashingPenalty, s)
      <3>1. /\ G \in Ledger /\ Worth(G) = Worth(s)
            /\ G.lease >= s.lease
            /\ \A p \in Oracles : p # o => G.wallet[p] = s.wallet[p]
        BY <1>1, <1>2, FinedFacts
      <3>2. F = G
        BY <2>1 DEF Fine
      <3> HIDE DEF G, F
      <3>3. G.lease \in Nat
        BY <3>1 DEF Ledger
      <3> QED BY <1>2, <1>3, <3>1, <3>2, <3>3
    <2>2. CASE ~SlashingEnabled
      BY <1>2, <1>3, <2>2 DEF Fine
    <2> QED BY <2>1, <2>2
  <1> HIDE DEF F
  <1>5. CASE current.errors_fulfilled[i]
    <2>1. SettledWith(i, s) = s /\ ~Agreed(i)
      BY <1>5 DEF SettledWith, Settleable, Agreed
    <2> QED BY <1>2, <1>3, <2>1
  <1>6. CASE ~current.errors_fulfilled[i] /\ ~Agreed(i)
    <2>1. SettledWith(i, s) = F
      BY <1>6 DEF SettledWith, Agreed, F, Keys
    <2>2. F.lease \in Nat /\ s.lease - (IF Agreed(i) THEN Due ELSE 0) = s.lease
      BY <1>3, <1>4, <1>6 DEF Ledger
    <2> QED BY <1>4, <1>6, <2>1, <2>2
  <1>7. CASE ~current.errors_fulfilled[i] /\ Agreed(i)
    <2> DEFINE G == PaidTo(o, Due, s)
    <2>1. SettledWith(i, s) = G
      BY <1>7 DEF SettledWith, Agreed, Keys, Due
    <2>2. /\ G \in Ledger /\ Worth(G) = Worth(s)
          /\ G.lease >= s.lease - Due
          /\ G.wallet[o] >= s.wallet[o]
          /\ PaidAsFarAs(G.wallet[o] - s.wallet[o], Due, s.lease)
          /\ \A p \in Oracles : p # o => G.wallet[p] = s.wallet[p]
      BY <1>1, <1>2, PaidFacts
    <2>3. s.lease - (IF Agreed(i) THEN Due ELSE 0) = s.lease - Due
      BY <1>7
    <2> HIDE DEF G
    <2> QED BY <1>7, <2>1, <2>2, <2>3
  <1> QED BY <1>5, <1>6, <1>7 DEF Settleable

(* The settlement, and what its first i steps have done.                   *)
Start == [lease |-> lease, wallet |-> wallet]

IsSettled(g, n) ==
    g = [i \in 0..n |-> IF i = 0 THEN Start ELSE SettledWith(i, g[i - 1])]

LEMMA SettlementDef == Settlement = (CHOOSE g : IsSettled(g, Len(Keys)))[Len(Keys)]
  BY DEF Settlement, IsSettled, Start, Keys

LEMMA SettlementExists ==
    ASSUME NEW n \in Nat
    PROVE  \E g : IsSettled(g, n)
  <1> DEFINE P == {k \in Nat : \E g : IsSettled(g, k)}
  <1>1. 0 \in P
    <2>1. IsSettled([i \in 0..0 |-> Start], 0)
      BY DEF IsSettled
    <2> QED BY <2>1
  <1>2. ASSUME NEW k \in Nat, k \in P PROVE k + 1 \in P
    <2>1. PICK g : IsSettled(g, k)
      BY <1>2
    <2> DEFINE h == [i \in 0..(k + 1) |-> IF i = 0 THEN Start ELSE SettledWith(i, g[i - 1])]
    <2>2. \A i \in 0..k : h[i] = g[i]
      BY <2>1 DEF IsSettled
    <2>3. \A i \in 0..(k + 1) : i # 0 => i - 1 \in 0..k
      OBVIOUS
    <2>4. \A i \in 0..(k + 1) : h[i] = IF i = 0 THEN Start ELSE SettledWith(i, h[i - 1])
      BY <2>2, <2>3
    <2>5. IsSettled(h, k + 1)
      BY <2>4 DEF IsSettled
    <2> QED BY <2>5
  <1> HIDE DEF P
  <1>3. n \in P
    BY <1>1, <1>2, NatSetInduction
  <1> QED BY <1>3 DEF P

Cause(i) == ~current.errors_fulfilled[i] /\ ~Agreed(i)

Progress(i, s) ==
    /\ s \in Ledger
    /\ Worth(s) = Worth(Start)
    /\ s.lease >= lease - OwedBefore(i + 1)
    /\ \A p \in Oracles : (\A j \in 1..i : Keys[j] # p) => s.wallet[p] = wallet[p]
    /\ \A j \in 1..i : Agreed(j) =>
          PaidAsFarAs(s.wallet[Keys[j]] - wallet[Keys[j]], Due, lease - OwedBefore(j))
    /\ \A j \in 1..i : s.wallet[Keys[j]] >= wallet[Keys[j]] \/ Cause(j)

(* Only an oracle that agreed adds to what is owed.                        *)
LEMMA OwedFacts ==
    ASSUME Settleable, NEW i \in 1..Len(Keys)
    PROVE  /\ OwedBefore(i) \in Nat
           /\ OwedBefore(i + 1) = OwedBefore(i) + (IF Agreed(i) THEN Due ELSE 0)
  <1> DEFINE A == AgreedBefore(i)  n == Len(Keys)
  <1>1. n \in Nat /\ DOMAIN Keys = 1..n /\ i \in 1..n
    BY DEF Settleable
  <1>2. A = {j \in 1..n : j < i /\ Agreed(j)}
        /\ AgreedBefore(i + 1) = {j \in 1..n : j < i + 1 /\ Agreed(j)}
    BY <1>1 DEF AgreedBefore, Agreed, Keys
  <1> HIDE DEF n
  <1>3. A \subseteq 1..n /\ i \notin A
    BY <1>1, <1>2
  <1>4. IsFiniteSet(A)
    BY <1>1, <1>3, FS_Interval, FS_Subset, 1 \in Int, n \in Int
  <1>5. AgreedBefore(i + 1) = IF Agreed(i) THEN A \cup {i} ELSE A
    <2>1. \A j \in 1..n : j < i + 1 <=> j < i \/ j = i
      BY <1>1
    <2> HIDE DEF A
    <2> QED BY <1>1, <1>2, <2>1
  <1>6. Cardinality(A) \in Nat
    BY <1>4, FS_CardinalityType
  <1>7. Cardinality(AgreedBefore(i + 1)) = Cardinality(A) + (IF Agreed(i) THEN 1 ELSE 0)
    <2>1. Cardinality(A \cup {i}) = Cardinality(A) + 1
      BY <1>3, <1>4, FS_AddElement
    <2> HIDE DEF A
    <2> QED BY <1>5, <1>6, <2>1
  <1>8. Due \in Nat
    BY RoundPayoutsAssumption DEF Due
  <1>9. \A k, d \in Nat : d * (k + 1) = d * k + d /\ d * k \in Nat /\ d * (k + 0) = d * k + 0
    OBVIOUS
  <1>10. OwedBefore(i) = Due * Cardinality(A)
         /\ OwedBefore(i + 1) = Due * Cardinality(AgreedBefore(i + 1))
    BY DEF OwedBefore, Due
  <1> HIDE DEF A
  <1> QED BY <1>6, <1>7, <1>8, <1>9, <1>10

LEMMA OwedAtFirst ==
    ASSUME Settleable
    PROVE  OwedBefore(1) = 0
  <1>1. \A j \in DOMAIN Keys : j \in Nat /\ j >= 1
    BY DEF Settleable
  <1>2. AgreedBefore(1) = {}
    BY <1>1 DEF AgreedBefore, Keys
  <1>3. Cardinality(AgreedBefore(1)) = 0
    BY <1>2, FS_EmptySet
  <1>4. SaveReward + Reward \in Nat
    BY RoundPayoutsAssumption
  <1> QED BY <1>3, <1>4 DEF OwedBefore

LEMMA ProgressStep ==
    ASSUME Settleable, lease \in Nat, wallet \in [Oracles -> Nat],
           NEW i \in 1..Len(Keys), NEW s, Progress(i - 1, s)
    PROVE  Progress(i, SettledWith(i, s))
  <1> DEFINE t == SettledWith(i, s)  o == Keys[i]
  <1>0. /\ o \in Oracles /\ Len(Keys) \in Nat /\ i \in Nat /\ Due \in Nat
        /\ \A j \in 1..(i - 1) : Keys[j] \in Oracles /\ Keys[j] # o
        /\ \A j \in 1..i : j = i \/ j \in 1..(i - 1)
    <2>1. Due \in Nat
      BY RoundPayoutsAssumption DEF Due
    <2> QED BY <2>1 DEF Settleable, IsInjective
  <1>1. /\ s \in Ledger /\ Worth(s) = Worth(Start)
        /\ s.lease >= lease - OwedBefore(i)
    BY <1>0 DEF Progress
  <1>2. /\ t \in Ledger /\ Worth(t) = Worth(s)
        /\ t.lease >= s.lease - (IF Agreed(i) THEN Due ELSE 0)
        /\ \A p \in Oracles : p # o => t.wallet[p] = s.wallet[p]
        /\ Agreed(i) => PaidAsFarAs(t.wallet[o] - s.wallet[o], Due, s.lease)
        /\ t.wallet[o] >= s.wallet[o] \/ Cause(i)
    BY <1>1, SettledFacts DEF Cause
  <1> HIDE DEF t, o
  <1>3. s.wallet[o] = wallet[o]
    BY <1>0 DEF Progress
  <1>4. s.lease \in Nat /\ t.lease \in Nat
    BY <1>1, <1>2 DEF Ledger
  <1>5. /\ OwedBefore(i) \in Nat
        /\ OwedBefore(i + 1) = OwedBefore(i) + (IF Agreed(i) THEN Due ELSE 0)
    BY OwedFacts
  <1>6. t.lease >= lease - OwedBefore(i + 1)
    BY <1>0, <1>1, <1>2, <1>4, <1>5
  <1>7. ASSUME NEW p \in Oracles, \A j \in 1..i : Keys[j] # p
        PROVE  t.wallet[p] = wallet[p]
    <2>1. p # o /\ \A j \in 1..(i - 1) : Keys[j] # p
      BY <1>0, <1>7 DEF o
    <2> QED BY <1>2, <2>1 DEF Progress
  <1>8. ASSUME NEW j \in 1..i, Agreed(j)
        PROVE  PaidAsFarAs(t.wallet[Keys[j]] - wallet[Keys[j]], Due, lease - OwedBefore(j))
    <2>1. CASE j = i
      <3>1. PaidAsFarAs(t.wallet[o] - wallet[o], Due, s.lease)
        BY <1>2, <1>3, <1>8, <2>1
      <3>2. t.wallet[o] - wallet[o] \in Int
        BY <1>0, <1>2 DEF Ledger
      <3>3. PaidAsFarAs(t.wallet[o] - wallet[o], Due, lease - OwedBefore(i))
        <4> DEFINE paid == t.wallet[o] - wallet[o]
        <4>1. PaidAsFarAs(paid, Due, s.lease) /\ paid \in Int
          BY <3>1, <3>2
        <4> HIDE DEF paid
        <4>2. PaidAsFarAs(paid, Due, lease - OwedBefore(i))
          BY <1>1, <1>4, <1>5, <4>1 DEF PaidAsFarAs
        <4> QED BY <4>2 DEF paid
      <3> QED BY <2>1, <3>3 DEF o
    <2>2. CASE j \in 1..(i - 1)
      <3>1. PaidAsFarAs(s.wallet[Keys[j]] - wallet[Keys[j]], Due, lease - OwedBefore(j))
        BY <1>8, <2>2 DEF Progress
      <3> QED BY <1>0, <1>2, <2>2, <3>1
    <2> QED BY <1>0, <2>1, <2>2
  <1>9. ASSUME NEW j \in 1..i
        PROVE  t.wallet[Keys[j]] >= wallet[Keys[j]] \/ Cause(j)
    <2>1. CASE j = i
      BY <1>2, <1>3, <2>1 DEF o
    <2>2. CASE j \in 1..(i - 1)
      <3>1. s.wallet[Keys[j]] >= wallet[Keys[j]] \/ Cause(j)
        BY <2>2 DEF Progress
      <3> QED BY <1>0, <1>2, <2>2, <3>1
    <2> QED BY <1>0, <2>1, <2>2
  <1>10. Progress(i, t)
    BY <1>1, <1>2, <1>6, <1>7, <1>8, <1>9 DEF Progress
  <1> QED BY <1>10 DEF t

LEMMA SettlementProgress ==
    ASSUME Settleable, lease \in Nat, wallet \in [Oracles -> Nat]
    PROVE  Progress(Len(Keys), Settlement)
  <1> DEFINE n == Len(Keys)
  <1>0. n \in Nat
    BY DEF Settleable
  <1>1. PICK g : IsSettled(g, n) /\ Settlement = g[n]
    BY <1>0, SettlementDef, SettlementExists
  <1> HIDE DEF n
  <1> DEFINE P == {i \in Nat : i <= n => Progress(i, g[i])}
  <1>2. 0 \in P
    <2>1. g[0] = Start
      BY <1>0, <1>1 DEF IsSettled
    <2>2. Start \in Ledger /\ Start.lease = lease /\ Start.wallet = wallet
      BY DEF Start, Ledger
    <2>3. OwedBefore(0 + 1) = 0
      BY OwedAtFirst
    <2> QED BY <2>1, <2>2, <2>3 DEF Progress
  <1>3. ASSUME NEW i \in Nat, i \in P PROVE i + 1 \in P
    <2> SUFFICES ASSUME i + 1 <= n PROVE Progress(i + 1, g[i + 1])
      OBVIOUS
    <2>1. g[i + 1] = SettledWith(i + 1, g[i])
      <3>1. i + 1 \in 0..n /\ i + 1 # 0 /\ (i + 1) - 1 = i
        BY <1>0
      <3> QED BY <1>1, <3>1 DEF IsSettled
    <2>2. i + 1 \in 1..Len(Keys) /\ (i + 1) - 1 = i
      BY <1>0 DEF n
    <2>3. Progress((i + 1) - 1, g[i])
      BY <1>0, <1>3, <2>2
    <2> QED BY <2>1, <2>2, <2>3, ProgressStep
  <1> HIDE DEF P
  <1>4. n \in P
    BY <1>0, <1>2, <1>3, NatSetInduction
  <1> QED BY <1>0, <1>1, <1>4 DEF P, n

----------------------------------------------------------------------------
(* The invariant: the rounds' own, and that the coins are all there.  No   *)
(* oracle sits twice in a batch, so that none is settled twice.            *)
KeysOnce == IsInjective(current.oracle_keys)

CoinsHeld ==
    /\ lease \in Nat /\ wallet \in [Oracles -> Nat] /\ outside \in Int
    /\ Worth(Start) + outside = 0

PayoutsInv == IInv /\ KeysOnce /\ CoinsHeld

LEMMA SettleableNow == PayoutsInv => Settleable
  <1> SUFFICES ASSUME PayoutsInv PROVE Settleable
    OBVIOUS
  <1> DEFINE e == current.errors_fulfilled  m == current.medians  k == current.oracle_keys
  <1>1. k \in Seq(Oracles) /\ m \in Seq(Values \cup {NoAnswer}) /\ e \in Seq(BOOLEAN)
    BY DEF PayoutsInv, IInv, Typed, Slotted
  <1>2. /\ Len(e) = Len(m)
        /\ \A i \in DOMAIN m : ~(m[i] # NoAnswer /\ e[i])
        /\ k # <<>> => Len(k) = Len(m)
    BY DEF PayoutsInv, IInv, AnswersCounted, Counted
  <1> HIDE DEF e, m, k
  <1>3. ASSUME NEW i \in 1..Len(k) PROVE e[i] \in BOOLEAN /\ (m[i] # NoAnswer => ~e[i])
    <2>1. k # <<>>
      BY <1>1
    <2>2. i \in 1..Len(m) /\ i \in 1..Len(e) /\ i \in DOMAIN m
      BY <1>1, <1>2, <2>1
    <2>3. e[i] \in BOOLEAN
      BY <1>1, <2>2
    <2> QED BY <1>2, <2>2, <2>3
  <1> QED BY <1>1, <1>3 DEF Settleable, Keys, PayoutsInv, KeysOnce, k, m, e

LEMMA PayoutsInit == Init => PayoutsInv
  <1> SUFFICES ASSUME Init PROVE PayoutsInv
    OBVIOUS
  <1>1. IInv /\ KeysOnce
    <2>1. current.oracle_keys = <<>>
      BY DEF Init, RoundInit, default_round
    <2> QED BY <2>1, InitIInv DEF Init, KeysOnce, IsInjective
  <1>2. lease = 0 /\ wallet = [o \in Oracles |-> 0] /\ outside = 0
    BY DEF Init
  <1>3. SumOf(wallet, Oracles) = 0
    BY <1>2, SumOfNothing, RoundPayoutsAssumption
  <1>4. Worth(Start) = 0
    BY <1>2, <1>3 DEF Worth, Start
  <1> QED BY <1>1, <1>2, <1>4 DEF PayoutsInv, CoinsHeld

LEMMA RoundStep == [Next]_vars => [RoundNext]_roundVars
  BY DEF Next, vars, RoundNext, OpenAndSettle, CoinMoves, LeaseLoad, LeaseWithdraw,
         OracleWalletContribute, OracleWalletWithdraw

(* The keys of the round change only when it is opened or wiped.           *)
LEMMA KeysOnceKept ==
    ASSUME IInv, KeysOnce, [RoundNext]_roundVars
    PROVE  KeysOnce'
  <1>1. CASE \E o \in Oracles, i \in 1..batch_size, v \in Values : SaveResult(o, i, v)
    BY <1>1, ResultOnCurrent DEF KeysOnce
  <1>2. CASE \E o \in Oracles, i \in 1..batch_size : SaveError(o, i)
    <2>1. current'.oracle_keys = current.oracle_keys
      BY <1>2 DEF SaveError, ErrorCounted, IInv, Typed, Dated, RoundFields
    <2> QED BY <2>1 DEF KeysOnce
  <1>3. CASE \E n \in 0..MaxRelayed : \E updates \in [1..n -> Update] : RelayValue(updates)
    <2>1. current'.oracle_keys = <<>>
      BY <1>3, RelayFacts DEF IInv, Typed, Dated, RoundFields
    <2> QED BY <2>1 DEF KeysOnce, IsInjective
  <1>4. CASE \E keys \in Batch(batch_size) : OpenRound(keys)
    <2>1. PICK keys \in Batch(batch_size) : OpenRound(keys)
      BY <1>4
    <2>2. current'.oracle_keys = keys
      BY <2>1 DEF OpenRound, OpenedRound, IInv, Typed, Dated, RoundFields
    <2> QED BY <2>2 DEF KeysOnce, Batch
  <1>5. CASE current' = current
    BY <1>5 DEF KeysOnce
  <1> QED BY <1>1, <1>2, <1>3, <1>4, <1>5
          DEF RoundNext, AnswerOrRelay, roundVars, SetConfigs, Tick

LEMMA CoinsMean ==
    ASSUME CoinsHeld
    PROVE  /\ SumOf(wallet, Oracles) \in Int
           /\ lease + SumOf(wallet, Oracles) + outside = 0
           /\ Start \in Ledger
  <1>1. Start \in Ledger /\ Start.lease = lease /\ Start.wallet = wallet
    BY DEF Start, CoinsHeld, Ledger
  <1>2. Worth(Start) = lease + SumOf(wallet, Oracles)
    BY <1>1 DEF Worth
  <1>3. SumOf(wallet, Oracles) \in Int
    <2>1. wallet \in [Oracles -> Int]
      BY DEF CoinsHeld
    <2> QED BY <2>1, SumIsInt, RoundPayoutsAssumption
  <1> QED BY <1>1, <1>2, <1>3 DEF CoinsHeld

(* A settlement pays the turner what it leaves in the lease.               *)
LEMMA SettleStep ==
    ASSUME PayoutsInv, NEW keys, OpenAndSettle(keys)
    PROVE  /\ Progress(Len(Keys), Settlement)
           /\ wallet' = Settlement.wallet
           /\ LET pay == Extracted(Reward + OpenRoundReward, Settlement.lease)
              IN  lease' = Settlement.lease - pay /\ outside' = outside + pay
           /\ CoinsHeld'
  <1> DEFINE T == Settlement
             pay == Extracted(Reward + OpenRoundReward, T.lease)
  <1>1. Progress(Len(Keys), T)
    BY SettleableNow, SettlementProgress DEF PayoutsInv, CoinsHeld
  <1>2. lease' = T.lease - pay /\ wallet' = T.wallet /\ outside' = outside + pay
    BY DEF OpenAndSettle
  <1>3. T \in Ledger /\ Worth(T) = Worth(Start)
    BY <1>1 DEF Progress
  <1> HIDE DEF T
  <1>4. pay \in Nat /\ pay <= T.lease /\ T.lease \in Nat /\ T.wallet \in [Oracles -> Nat]
    BY <1>3, RoundPayoutsAssumption DEF Extracted, Ledger
  <1> HIDE DEF pay
  <1>5. lease' \in Nat /\ wallet' \in [Oracles -> Nat] /\ outside' \in Int
    BY <1>2, <1>4 DEF PayoutsInv, CoinsHeld
  <1>6. Worth(Start') = lease' + SumOf(wallet', Oracles)
    BY DEF Worth, Start
  <1>7. Worth(T) = T.lease + SumOf(wallet', Oracles)
    BY <1>2 DEF Worth
  <1>8. SumOf(wallet, Oracles) \in Int /\ Worth(Start) + outside = 0 /\ outside \in Int
        /\ Worth(Start) = lease + SumOf(wallet, Oracles) /\ lease \in Nat
    BY CoinsMean DEF PayoutsInv, CoinsHeld, Worth, Start
  <1>9. SumOf(wallet', Oracles) \in Int
    <2>1. wallet' \in [Oracles -> Int]
      BY <1>5
    <2> QED BY <2>1, SumIsInt, RoundPayoutsAssumption
  <1>10. Worth(Start') + outside' = 0
    <2> DEFINE A == SumOf(wallet', Oracles)  B == Worth(Start)  C == Worth(Start')
    <2>1. /\ C = lease' + A /\ T.lease + A = B /\ B + outside = 0
          /\ A \in Int
      BY <1>3, <1>6, <1>7, <1>8, <1>9
    <2> HIDE DEF A, B, C
    <2>2. C + outside' = 0
      BY <1>2, <1>4, <1>8, <2>1
    <2> QED BY <2>2 DEF C
  <1>11. CoinsHeld'
    BY <1>5, <1>10 DEF CoinsHeld
  <1> QED BY <1>1, <1>2, <1>11 DEF T, pay

(* What is moved between the escrows and outside by hand.                  *)
LEMMA MoveStep ==
    ASSUME PayoutsInv, CoinMoves
    PROVE  CoinsHeld'
  <1> DEFINE A == SumOf(wallet, Oracles)
  <1>0. /\ lease \in Nat /\ wallet \in [Oracles -> Nat] /\ outside \in Int
        /\ A \in Int /\ lease + A + outside = 0
    BY CoinsMean DEF PayoutsInv, CoinsHeld
  <1>1. PICK amount \in LoadAmounts :
          \/ LeaseLoad(amount)
          \/ LeaseWithdraw(amount)
          \/ \E o \in Oracles : OracleWalletContribute(o, amount) \/ OracleWalletWithdraw(o, amount)
    BY DEF CoinMoves
  <1>2. amount \in Nat
    BY RoundPayoutsAssumption
  <1>3. Worth(Start') = lease' + SumOf(wallet', Oracles)
    BY DEF Worth, Start
  <1>4. ASSUME wallet' = wallet, NEW d \in Int, lease' = lease + d, outside' = outside - d,
               lease + d >= 0
        PROVE  CoinsHeld'
    <2>1. Worth(Start') = lease' + A
      BY <1>3, <1>4
    <2> HIDE DEF A
    <2> QED BY <1>0, <1>4, <2>1 DEF CoinsHeld
  <1>5. ASSUME NEW o \in Oracles, NEW d \in Int, wallet[o] + d >= 0, lease' = lease,
               wallet' = [wallet EXCEPT ![o] = @ + d], outside' = outside - d
        PROVE  CoinsHeld'
    <2>1. SumOf(wallet', Oracles) = A + d
      <3>1. IsFiniteSet(Oracles) /\ wallet \in [Oracles -> Int]
        BY <1>0, RoundPayoutsAssumption
      <3>2. SumOf([wallet EXCEPT ![o] = @ + d], Oracles) = A + d
        BY <3>1, SumChange
      <3> QED BY <1>5, <3>2
    <2>2. wallet' \in [Oracles -> Nat]
      BY <1>0, <1>5
    <2>3. Worth(Start') = lease' + (A + d)
      BY <1>3, <2>1
    <2> HIDE DEF A
    <2> QED BY <1>0, <1>5, <2>2, <2>3 DEF CoinsHeld
  <1>6. CASE LeaseLoad(amount)
    BY <1>0, <1>2, <1>4, <1>6 DEF LeaseLoad
  <1>7. CASE LeaseWithdraw(amount)
    <2> DEFINE most == IF lease < MaxReward THEN 0 ELSE lease - MaxReward
               coin == Extracted(Extracted(amount, most), lease)
               d == -coin
    <2>1. MaxReward \in Nat
      <3>1. batch_size \in Nat /\ Reward \in Nat
        BY AggregatorRoundAssumption, RoundPayoutsAssumption DEF PayoutsInv, IInv, Typed, batch_size
      <3> QED BY <3>1 DEF MaxReward
    <2>2. coin \in Nat /\ coin <= lease
      BY <1>0, <1>2, <2>1 DEF Extracted
    <2>3. wallet' = wallet /\ lease' = lease - coin /\ outside' = outside + coin
      BY <1>7 DEF LeaseWithdraw
    <2> HIDE DEF coin
    <2>4. d \in Int /\ lease' = lease + d /\ outside' = outside - d /\ lease + d >= 0
      BY <1>0, <2>2, <2>3
    <2> HIDE DEF d
    <2> QED BY <1>4, <2>3, <2>4
  <1>8. ASSUME NEW o \in Oracles, OracleWalletContribute(o, amount)
        PROVE  CoinsHeld'
    <2>1. wallet[o] + amount >= 0
      BY <1>0, <1>2
    <2>2. wallet' = [wallet EXCEPT ![o] = @ + amount] /\ lease' = lease
          /\ outside' = outside - amount /\ amount \in Int
      BY <1>2, <1>8 DEF OracleWalletContribute
    <2> QED BY <1>5, <2>1, <2>2
  <1>9. ASSUME NEW o \in Oracles, OracleWalletWithdraw(o, amount)
        PROVE  CoinsHeld'
    <2> DEFINE d == -amount
    <2>1. d \in Int /\ wallet[o] - amount = wallet[o] + d /\ outside + amount = outside - d
          /\ wallet[o] + d >= 0
      BY <1>0, <1>2, <1>9 DEF OracleWalletWithdraw
    <2>2. wallet' = [wallet EXCEPT ![o] = @ + d] /\ lease' = lease /\ outside' = outside - d
      BY <1>9, <2>1 DEF OracleWalletWithdraw
    <2> HIDE DEF d
    <2> QED BY <1>5, <2>1, <2>2
  <1> QED BY <1>1, <1>6, <1>7, <1>8, <1>9

LEMMA PayoutsStep == PayoutsInv /\ [Next]_vars => PayoutsInv'
  <1> SUFFICES ASSUME PayoutsInv, [Next]_vars PROVE PayoutsInv'
    OBVIOUS
  <1>1. IInv' /\ KeysOnce'
    BY RoundStep, NextKeepsIInv, KeysOnceKept DEF PayoutsInv
  <1>2. CoinsHeld'
    <2>1. CASE \E keys \in Batch(batch_size) : OpenAndSettle(keys)
      BY <2>1, SettleStep
    <2>2. CASE UNCHANGED <<lease, wallet, outside>>
      BY <2>2 DEF PayoutsInv, CoinsHeld, Worth, Start
    <2>3. CASE CoinMoves
      BY <2>3, MoveStep
    <2> QED BY <2>1, <2>2, <2>3 DEF Next, vars
  <1> QED BY <1>1, <1>2 DEF PayoutsInv

THEOREM PayoutsInvariant == Spec => []PayoutsInv
  BY PayoutsInit, PayoutsStep, PTL DEF Spec

(* Settlements move coins and nothing that readers get: with leases and    *)
(* wallets the feed is the same register.                                  *)
THEOREM PayoutsImplementRegister == Spec => Register!Spec
  <1>1. Init => RoundInit
    BY DEF Init
  <1>2. Spec => RoundSpec
    BY <1>1, RoundStep, PTL DEF Spec, RoundSpec
  <1> QED BY <1>2, RoundsImplementRegister

(* Coins are neither made nor lost, and no escrow is overdrawn: whatever   *)
(* is loaded, withdrawn, paid and fined, in whatever order.                *)
THEOREM CoinsAlwaysConserved == Spec => []CoinsConserved
  <1>1. PayoutsInv => CoinsConserved
    <2> SUFFICES ASSUME PayoutsInv PROVE CoinsConserved
      OBVIOUS
    <2>1. lease + SumOf(wallet, Oracles) + outside = 0
      BY CoinsMean DEF PayoutsInv
    <2> QED BY <2>1 DEF PayoutsInv, CoinsHeld, CoinsConserved, SumOf
  <1> QED BY <1>1, PayoutsInvariant, PTL

LEMMA OpeningSettles ==
    ASSUME PayoutsInv, [Next]_vars, Opens
    PROVE  \E keys \in Batch(batch_size) : OpenAndSettle(keys)
  <1>0. IInv
    BY DEF PayoutsInv
  <1>1. ASSUME NEW o \in Oracles, NEW i \in 1..batch_size, NEW v \in Values, SaveResult(o, i, v)
        PROVE  FALSE
    BY <1>0, <1>1, ResultOnCurrent DEF Opens
  <1>2. ASSUME NEW o \in Oracles, NEW i \in 1..batch_size, SaveError(o, i)
        PROVE  FALSE
    BY <1>0, <1>2 DEF SaveError, ErrorCounted, IInv, Typed, Dated, RoundFields, Opens
  <1>3. ASSUME NEW updates, RelayValue(updates)
        PROVE  FALSE
    BY <1>0, <1>3, RelayFacts DEF IInv, Typed, Dated, RoundFields, Opens
  <1>4. ASSUME current' = current
        PROVE  FALSE
    BY <1>4 DEF Opens
  <1>5. CASE AnswerOrRelay
    BY <1>1, <1>2, <1>3, <1>4, <1>5 DEF AnswerOrRelay, SetConfigs, Tick
  <1>6. CASE CoinMoves \/ UNCHANGED vars
    <2>1. current' = current
      BY <1>6 DEF CoinMoves, LeaseLoad, LeaseWithdraw, OracleWalletContribute,
                  OracleWalletWithdraw, roundVars, vars
    <2> QED BY <1>4, <2>1
  <1> QED BY <1>5, <1>6 DEF Next

(* Nobody but the oracles that failed the round loses coins by an opening. *)
LEMMA FinedStep ==
    ASSUME PayoutsInv, [Next]_vars, NEW o \in Oracles, Opens, wallet'[o] < wallet[o]
    PROVE  \E i \in DOMAIN current.oracle_keys :
              /\ current.oracle_keys[i] = o
              /\ ~current.errors_fulfilled[i]
              /\ current.medians[i] = NoAnswer \/ ~WithinThreshold(current.medians[i])
  <1>1. PICK keys \in Batch(batch_size) : OpenAndSettle(keys)
    BY OpeningSettles
  <1> DEFINE T == Settlement
  <1>2. Progress(Len(Keys), T) /\ wallet' = T.wallet
    BY <1>1, SettleStep
  <1> HIDE DEF T
  <1>3. T.wallet[o] < wallet[o] /\ wallet[o] \in Nat
    BY <1>2 DEF PayoutsInv, CoinsHeld
  <1>4. PICK i \in 1..Len(Keys) : Keys[i] = o
    BY <1>2, <1>3 DEF Progress
  <1>5. T.wallet[Keys[i]] >= wallet[Keys[i]] \/ Cause(i)
    BY <1>2 DEF Progress
  <1>6. T.wallet[o] \in Nat
    BY <1>2 DEF Progress, Ledger
  <1>7. Cause(i)
    BY <1>3, <1>4, <1>5, <1>6
  <1>8. DOMAIN Keys = 1..Len(Keys)
    BY SettleableNow DEF Settleable
  <1> QED BY <1>4, <1>7, <1>8 DEF Cause, Agreed, IsAgreed, Keys

THEOREM AlwaysFinedForCause == Spec => FinedForCause
  <1> DEFINE A == \A o \in Oracles : Opens /\ wallet'[o] < wallet[o] =>
                    \E i \in DOMAIN current.oracle_keys :
                        /\ current.oracle_keys[i] = o
                        /\ ~current.errors_fulfilled[i]
                        /\ current.medians[i] = NoAnswer \/ ~WithinThreshold(current.medians[i])
  <1>1. PayoutsInv /\ [Next]_vars => [A]_vars
    BY FinedStep
  <1>2. Spec => [][A]_vars
    BY <1>1, PayoutsInvariant, PTL DEF Spec
  <1> QED BY <1>2 DEF FinedForCause

(* A settlement pays in its order, and what it leaves is for the caller.   *)
LEMMA PaidStep ==
    ASSUME PayoutsInv, [Next]_vars, Opens
    PROVE  LET n == Len(current.oracle_keys)
           IN  /\ \A i \in AgreedBefore(n + 1) :
                     LET o == current.oracle_keys[i]
                     IN  PaidAsFarAs(wallet'[o] - wallet[o], SaveReward + Reward, lease - OwedBefore(i))
               /\ PaidAsFarAs(outside' - outside, Reward + OpenRoundReward, lease - OwedBefore(n + 1))
  <1>1. PICK keys \in Batch(batch_size) : OpenAndSettle(keys)
    BY OpeningSettles
  <1> DEFINE T == Settlement
             n == Len(Keys)
             pay == Extracted(Reward + OpenRoundReward, T.lease)
             owed == OwedBefore(n + 1)
  <1>2. Progress(n, T) /\ wallet' = T.wallet /\ outside' = outside + pay
    BY <1>1, SettleStep
  <1> HIDE DEF T
  <1>3. n \in Nat /\ DOMAIN Keys = 1..n
    BY SettleableNow DEF Settleable
  <1>4. lease \in Nat /\ outside \in Int
    BY DEF PayoutsInv, CoinsHeld
  <1>5. ASSUME NEW i \in AgreedBefore(n + 1)
        PROVE  PaidAsFarAs(wallet'[Keys[i]] - wallet[Keys[i]], Due, lease - OwedBefore(i))
    <2>1. i \in 1..n /\ Agreed(i)
      BY <1>3, <1>5 DEF AgreedBefore, Agreed, Keys
    <2> QED BY <1>2, <2>1 DEF Progress
  <1>6. T.lease \in Nat /\ T.lease >= lease - owed
    BY <1>2 DEF Progress, Ledger
  <1>7. owed \in Nat
    <2>1. CASE n = 0
      BY <2>1, SettleableNow, OwedAtFirst
    <2>2. CASE n # 0
      <3>1. n \in 1..Len(Keys)
        BY <1>3, <2>2
      <3>2. OwedBefore(n) \in Nat /\ owed = OwedBefore(n) + (IF Agreed(n) THEN Due ELSE 0)
        BY <3>1, SettleableNow, OwedFacts
      <3>3. Due \in Nat
        BY RoundPayoutsAssumption DEF Due
      <3> HIDE DEF owed, n
      <3> QED BY <3>2, <3>3
    <2> QED BY <2>1, <2>2
  <1> HIDE DEF owed
  <1>8. PaidAsFarAs(pay, Reward + OpenRoundReward, lease - owed) /\ pay \in Nat
    BY <1>4, <1>6, <1>7, RoundPayoutsAssumption DEF PaidAsFarAs, Extracted
  <1> HIDE DEF pay
  <1>9. outside' - outside = pay
    BY <1>2, <1>4, <1>8
  <1> QED BY <1>5, <1>8, <1>9 DEF Keys, Due, n, owed

(* Whoever agreed with the result, and then the caller, get what they are  *)
(* due as far as the lease goes, for any rewards, and no more.             *)
THEOREM AlwaysPaidInOrder == Spec => PaidInOrder
  <1> DEFINE n == Len(current.oracle_keys)
             A == Opens =>
                    /\ \A i \in AgreedBefore(n + 1) :
                          LET o == current.oracle_keys[i]
                          IN  PaidAsFarAs(wallet'[o] - wallet[o], SaveReward + Reward, lease - OwedBefore(i))
                    /\ PaidAsFarAs(outside' - outside, Reward + OpenRoundReward, lease - OwedBefore(n + 1))
  <1>1. PayoutsInv /\ [Next]_vars => [A]_vars
    BY PaidStep
  <1>2. Spec => [][A]_vars
    BY <1>1, PayoutsInvariant, PTL DEF Spec
  <1> QED BY <1>2 DEF PaidInOrder
=============================================================================
