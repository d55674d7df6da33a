------------------------- MODULE FeedScheduleProofs -------------------------
(***************************************************************************)
(* Proofs about FeedSchedule, for every number of feeds and cranks, every  *)
(* delay and jitter, and whatever turns the feeds are refused in.          *)
(***************************************************************************)
EXTENDS FeedSchedule, FiniteSetTheorems, TLAPS

IInv == TypeOK /\ OneRowPerFeed /\ DelayKept

LEMMA InitIInv == Init => IInv
  BY FeedRoundsAssumption, SMT
     DEF Init, FeedInit, IInv, TypeOK, FeedTypeOK, OneRowPerFeed, DelayKept, RowsOf

LEMMA ModInRange ==
    ASSUME NEW i \in Nat, NEW n \in Nat \ {0}
    PROVE  i % n \in 0..(n - 1)
  BY SMT

(* A round that is opened, or put off, is due a delay from now or later.   *)
LEMMA NextUpdateTimeFacts ==
    ASSUME FeedTypeOK, NEW a \in Feeds, NEW j \in Nat
    PROVE  NextUpdateTime(a, j) \in Nat /\ NextUpdateTime(a, j) >= now + LeastDelay
  <1>1. /\ now + j \in Nat /\ now \in Nat
        /\ JitterModulus \in Nat \ {0} /\ LeastDelay \in Nat
    BY FeedRoundsAssumption DEF FeedTypeOK
  <1>0. min_update_delay[a] \in Nat /\ min_update_delay[a] >= LeastDelay
    <2>1. min_update_delay[a] \in AllowedDelays
      BY DEF FeedTypeOK
    <2> QED BY <2>1, FeedRoundsAssumption DEF AllowedDelays
  <1> DEFINE m == (now + j) % JitterModulus
  <1>2. m \in Nat
    BY <1>1, ModInRange
  <1>3. NextUpdateTime(a, j) = now + min_update_delay[a] + m
    BY DEF NextUpdateTime
  <1> HIDE DEF m
  <1> QED BY <1>0, <1>1, <1>2, <1>3

(* Opening the round of a feed keeps the feed's type and its delay.        *)
LEMMA OpenKeeps ==
    ASSUME FeedTypeOK, DelayKept, NEW a \in Feeds, NEW j \in Nat, ActuateOpenRound(a, j),
           now' = now
    PROVE  /\ next_allowed' \in [Feeds -> Nat]
           /\ rounds_opened' \in [Feeds -> Nat]
           /\ round_open_timestamp' \in [Feeds -> Nat]
           /\ DelayKept'
  <1> DEFINE t == NextUpdateTime(a, j)
  <1>1. t \in Nat /\ t >= now + LeastDelay
    BY NextUpdateTimeFacts
  <1>2. /\ rounds_opened' = [rounds_opened EXCEPT ![a] = @ + 1]
        /\ round_open_timestamp' = [round_open_timestamp EXCEPT ![a] = now]
        /\ next_allowed' = [next_allowed EXCEPT ![a] = t]
    BY DEF ActuateOpenRound
  <1> HIDE DEF t
  <1>3. /\ next_allowed' \in [Feeds -> Nat] /\ rounds_opened' \in [Feeds -> Nat]
        /\ round_open_timestamp' \in [Feeds -> Nat]
    BY <1>1, <1>2 DEF FeedTypeOK
  <1>4. DelayKept'
    <2> SUFFICES ASSUME NEW b \in Feeds
                 PROVE  /\ round_open_timestamp'[b] <= now
                        /\ rounds_opened'[b] > 0 =>
                              next_allowed'[b] >= round_open_timestamp'[b] + LeastDelay
      BY DEF DelayKept
    <2>1. CASE b = a
      BY <1>1, <1>2, <2>1 DEF FeedTypeOK
    <2>2. CASE b # a
      BY <1>2, <2>2 DEF FeedTypeOK, DelayKept
    <2> QED BY <2>1, <2>2
  <1> QED BY <1>3, <1>4

(* A turn keeps the feeds' types and delays, when the feed has its row.    *)
LEMMA TurnKeeps ==
    ASSUME FeedTypeOK, DelayKept, NEW a \in Feeds, NEW j \in Nat, NEW o, NEW t,
           TurnFeed(a, o, t, j), crank_row_count[a] = 1
    PROVE  /\ FeedTypeOK'
           /\ DelayKept'
           /\ crank_row_count' = [crank_row_count EXCEPT ![a] = IF UncountsRow(o) THEN 0 ELSE 1]
  <1>1. crank_row_count' = [crank_row_count EXCEPT ![a] = IF UncountsRow(o) THEN 0 ELSE 1]
    <2>1. CASE UncountsRow(o)
      BY <2>1 DEF TurnFeed, RowCountAfterTurn, FeedTypeOK
    <2>2. CASE ~UncountsRow(o)
      BY <2>2 DEF TurnFeed, RowCountAfterTurn, FeedTypeOK
    <2> QED BY <2>1, <2>2
  <1>2. /\ UNCHANGED <<now, crank_addr, crank_disabled, start_after, min_update_delay, lacking>>
        /\ evicted' \in SUBSET Feeds
    BY DEF TurnFeed, feedConfigVars, FeedTypeOK
  <1>3. /\ next_allowed' \in [Feeds -> Nat]
        /\ rounds_opened' \in [Feeds -> Nat]
        /\ round_open_timestamp' \in [Feeds -> Nat]
        /\ DelayKept'
    <2>1. CASE OpensOnCrank(a, o, t)
      <3>1. ActuateOpenRound(a, j)
        BY <2>1 DEF TurnFeed, OpensOnCrank
      <3> QED BY <1>2, <3>1, OpenKeeps
    <2>2. CASE o = "QueueNotReady"
      <3>1. /\ next_allowed' = [next_allowed EXCEPT ![a] = NextUpdateTime(a, j)]
            /\ rounds_opened' = rounds_opened
            /\ round_open_timestamp' = round_open_timestamp
        BY <2>2 DEF TurnFeed, OpensOnCrank
      <3>2. NextUpdateTime(a, j) \in Nat /\ NextUpdateTime(a, j) >= now + LeastDelay
        BY NextUpdateTimeFacts
      <3>3. next_allowed' \in [Feeds -> Nat]
        BY <3>1, <3>2 DEF FeedTypeOK
      <3>4. DelayKept'
        <4> SUFFICES ASSUME NEW b \in Feeds
                     PROVE  /\ round_open_timestamp[b] <= now
                            /\ rounds_opened[b] > 0 =>
                                  next_allowed'[b] >= round_open_timestamp[b] + LeastDelay
          BY <1>2, <3>1 DEF DelayKept
        <4>1. CASE b = a
          <5>1. next_allowed'[b] >= now + LeastDelay
            BY <3>1, <3>2, <4>1 DEF FeedTypeOK
          <5>2. LeastDelay \in Nat
            BY FeedRoundsAssumption
          <5> QED BY <3>3, <5>1, <5>2 DEF FeedTypeOK, DelayKept
        <4>2. CASE b # a
          BY <3>1, <4>2 DEF FeedTypeOK, DelayKept
        <4> QED BY <4>1, <4>2
      <3> QED BY <3>1, <3>3, <3>4 DEF FeedTypeOK
    <2>3. CASE ~OpensOnCrank(a, o, t) /\ o # "QueueNotReady"
      <3>1. UNCHANGED feedRoundVars
        BY <2>3 DEF TurnFeed
      <3> QED BY <1>2, <3>1 DEF feedRoundVars, FeedTypeOK, DelayKept
    <2> QED BY <2>1, <2>2, <2>3
  <1>4. FeedTypeOK'
    BY <1>1, <1>2, <1>3 DEF FeedTypeOK
  <1> QED BY <1>1, <1>3, <1>4

----------------------------------------------------------------------------
(* OneRowPerFeed for any rows d and row counts n, so that a turn can be    *)
(* taken as the removal of a row and the addition of another.              *)
OneRowIn(d, n) ==
    /\ \A a \in Feeds : n[a] \in {0, 1}
    /\ \A c \in Cranks : \A r \in d[c] : n[r.aggregator_addr] = 1
    /\ \A c, e \in Cranks : \A r \in d[c], s \in d[e] :
          r.aggregator_addr = s.aggregator_addr => c = e /\ r = s

LEMMA OneRowMeans ==
    ASSUME TypeOK
    PROVE  OneRowPerFeed <=> OneRowIn(rows, crank_row_count)
  <1>1. \A c \in Cranks : \A r \in rows[c] : r.aggregator_addr \in Feeds
    BY DEF TypeOK, Row
  <1>2. \A c \in Cranks : \A r \in rows[c] : r \in RowsOf(c, r.aggregator_addr)
    BY <1>1 DEF RowsOf
  <1> QED BY <1>1, <1>2 DEF OneRowPerFeed, OneRowIn, RowsOf

LEMMA AddRow ==
    ASSUME NEW d \in [Cranks -> SUBSET Row], NEW n \in [Feeds -> Nat], OneRowIn(d, n),
           NEW c \in Cranks, NEW r \in Row, n[r.aggregator_addr] = 0
    PROVE  OneRowIn([d EXCEPT ![c] = @ \cup {r}], [n EXCEPT ![r.aggregator_addr] = 1])
  <1> DEFINE e == [d EXCEPT ![c] = @ \cup {r}]
             m == [n EXCEPT ![r.aggregator_addr] = 1]
  <1>1. r.aggregator_addr \in Feeds
    BY DEF Row
  <1>2. \A b \in Cranks : \A s \in d[b] : s.aggregator_addr \in Feeds
                                          /\ s.aggregator_addr # r.aggregator_addr
    BY DEF OneRowIn, Row
  <1>3. \A b \in Cranks : \A s \in e[b] : s \in d[b] \/ (b = c /\ s = r)
    OBVIOUS
  <1> HIDE DEF e
  <1>4. \A a \in Feeds : m[a] \in {0, 1}
    BY <1>1 DEF OneRowIn
  <1>5. \A b \in Cranks : \A s \in e[b] : m[s.aggregator_addr] = 1
    BY <1>1, <1>2, <1>3 DEF OneRowIn
  <1>6. ASSUME NEW b \in Cranks, NEW g \in Cranks, NEW s \in e[b], NEW t \in e[g],
               s.aggregator_addr = t.aggregator_addr
        PROVE  b = g /\ s = t
    BY <1>2, <1>3, <1>6 DEF OneRowIn
  <1> QED BY <1>4, <1>5, <1>6 DEF OneRowIn, e

LEMMA RemoveRow ==
    ASSUME NEW d \in [Cranks -> SUBSET Row], NEW n \in [Feeds -> Nat], OneRowIn(d, n),
           NEW c \in Cranks, NEW r \in d[c]
    PROVE  OneRowIn([d EXCEPT ![c] = @ \ {r}], [n EXCEPT ![r.aggregator_addr] = 0])
  <1> DEFINE e == [d EXCEPT ![c] = @ \ {r}]
             m == [n EXCEPT ![r.aggregator_addr] = 0]
  <1>1. r.aggregator_addr \in Feeds
    BY DEF Row
  <1>2. \A b \in Cranks : \A s \in e[b] : s \in d[b] /\ ~(b = c /\ s = r)
    OBVIOUS
  <1> HIDE DEF e
  <1>3. \A b \in Cranks : \A s \in e[b] : s.aggregator_addr \in Feeds
                                          /\ s.aggregator_addr # r.aggregator_addr
    BY <1>2 DEF OneRowIn, Row
  <1>4. \A a \in Feeds : m[a] \in {0, 1}
    BY <1>1 DEF OneRowIn
  <1>5. \A b \in Cranks : \A s \in e[b] : m[s.aggregator_addr] = 1
    BY <1>2, <1>3 DEF OneRowIn
  <1> QED BY <1>2, <1>4, <1>5 DEF OneRowIn, e

----------------------------------------------------------------------------
LEMMA PushKeepsIInv ==
    ASSUME IInv, NEW c \in Cranks, NEW a \in Feeds, NEW b \in BOOLEAN, CrankPush(c, a, b)
    PROVE  IInv'
  <1> DEFINE r == [aggregator_addr |-> a, timestamp |-> now]
  <1> USE DEF IInv
  <1>1. r \in Row /\ r.aggregator_addr = a
    BY DEF TypeOK, FeedTypeOK, Row
  <1>2. /\ crank_row_count[a] = 0
        /\ crank_row_count' = [crank_row_count EXCEPT ![a] = 1]
    BY DEF CrankPush, PushFeed, PushRowGuard, TypeOK, FeedTypeOK
  <1>3. rows' = [rows EXCEPT ![c] = @ \cup {r}] /\ jitter' = jitter
    BY DEF CrankPush
  <1>4. rows' \in [Cranks -> SUBSET Row]
    BY <1>1, <1>3 DEF TypeOK
  <1>5. FeedTypeOK' /\ DelayKept'
    BY <1>2 DEF CrankPush, PushFeed, TypeOK, FeedTypeOK, DelayKept, feedRoundVars
  <1>6. TypeOK'
    BY <1>3, <1>4, <1>5 DEF TypeOK
  <1> HIDE DEF r
  <1>7. OneRowIn(rows', crank_row_count')
    BY <1>1, <1>2, <1>3, AddRow, OneRowMeans DEF TypeOK, FeedTypeOK
  <1>8. OneRowPerFeed'
    <2>1. TypeOK' => (OneRowPerFeed' <=> OneRowIn(rows, crank_row_count)')
      BY OneRowMeans, PTL
    <2> QED BY <1>6, <1>7, <2>1 DEF OneRowIn
  <1> QED BY <1>5, <1>6, <1>8

LEMMA PopKeepsIInv ==
    ASSUME IInv, NEW c \in Cranks, NEW row \in rows[c], NEW o, CrankPop(c, row, o)
    PROVE  IInv'
  <1> DEFINE a == row.aggregator_addr
             back == [aggregator_addr |-> a, timestamp |-> next_allowed'[a]]
             left == [rows EXCEPT ![c] = @ \ {row}]
             uncounted == [crank_row_count EXCEPT ![a] = 0]
  <1> USE DEF IInv
  <1>1. row \in Row /\ a \in Feeds
    BY DEF TypeOK, Row
  <1>2. OneRowIn(rows, crank_row_count)
    BY OneRowMeans
  <1>3. crank_row_count[a] = 1
    BY <1>2 DEF OneRowIn
  <1>4. jitter[c] \in Nat
    BY FeedRoundsAssumption DEF TypeOK
  <1>5. TurnFeed(a, o, row.timestamp, jitter[c])
    BY DEF CrankPop
  <1>6. /\ FeedTypeOK'
        /\ DelayKept'
        /\ crank_row_count' = [crank_row_count EXCEPT ![a] = IF UncountsRow(o) THEN 0 ELSE 1]
    BY <1>1, <1>3, <1>4, <1>5, TurnKeeps DEF TypeOK
  <1>7. rows' = [rows EXCEPT ![c] = (@ \ {row}) \cup IF Rescheduled(o) THEN {back} ELSE {}]
    BY DEF CrankPop
  <1>8. back \in Row /\ back.aggregator_addr = a
    BY <1>1, <1>6 DEF Row, FeedTypeOK
  <1>9. /\ left \in [Cranks -> SUBSET Row]
        /\ uncounted \in [Feeds -> Nat]
        /\ uncounted[a] = 0
        /\ OneRowIn(left, uncounted)
    BY <1>1, <1>2, RemoveRow DEF TypeOK, FeedTypeOK
  <1>10. OneRowIn(rows', crank_row_count')
    <2>1. CASE Rescheduled(o)
      <3>1. rows' = [left EXCEPT ![c] = @ \cup {back}]
        BY <1>7, <2>1 DEF TypeOK
      <3>2. crank_row_count' = [uncounted EXCEPT ![a] = 1]
        BY <1>6, <2>1 DEF Rescheduled, UncountsRow, TypeOK, FeedTypeOK
      <3> HIDE DEF left, uncounted, back
      <3> QED BY <1>8, <1>9, <3>1, <3>2, AddRow
    <2>2. CASE ~Rescheduled(o)
      <3>1. rows' = left
        BY <1>7, <2>2 DEF TypeOK
      <3>2. \A b \in Feeds : crank_row_count'[b] = uncounted[b]
                             \/ (uncounted[b] = 0 /\ crank_row_count'[b] = 1)
        BY <1>1, <1>6 DEF TypeOK, FeedTypeOK
      <3> HIDE DEF left, uncounted
      <3>3. \A e \in Cranks : \A r \in left[e] : r.aggregator_addr \in Feeds
        BY <1>9 DEF Row
      <3> QED BY <1>9, <3>1, <3>2, <3>3 DEF OneRowIn
    <2> QED BY <2>1, <2>2
  <1>11. TypeOK'
    <2>1. rows' \in [Cranks -> SUBSET Row]
      BY <1>7, <1>8 DEF TypeOK
    <2>2. jitter' \in [Cranks -> 0..(JitterModulus - 1)]
      <3>1. NextJitter(jitter[c]) \in 0..(JitterModulus - 1)
        <4>1. jitter[c] + 1 \in Nat /\ JitterModulus \in Nat \ {0}
          BY <1>4, FeedRoundsAssumption
        <4> QED BY <4>1, ModInRange DEF NextJitter
      <3>2. jitter' = [jitter EXCEPT ![c] = NextJitter(jitter[c])]
        BY DEF CrankPop, TypeOK
      <3> QED BY <3>1, <3>2 DEF TypeOK
    <2> QED BY <1>6, <2>1, <2>2 DEF TypeOK
  <1>12. OneRowPerFeed'
    <2>1. TypeOK' => (OneRowPerFeed' <=> OneRowIn(rows, crank_row_count)')
      BY OneRowMeans, PTL
    <2> QED BY <1>10, <1>11, <2>1 DEF OneRowIn
  <1> QED BY <1>6, <1>11, <1>12

LEMMA FeedKeepsIInv ==
    ASSUME IInv, FeedNext, UNCHANGED <<rows, jitter>>
    PROVE  IInv'
  <1> USE DEF IInv
  <1>1. FeedTypeOK' /\ DelayKept' /\ crank_row_count' = crank_row_count
    <2>1. CASE \E a \in OpenedDirectly, j \in 0..(JitterModulus - 1) : OpenRound(a, j)
      <3>1. PICK a \in OpenedDirectly, j \in 0..(JitterModulus - 1) : OpenRound(a, j)
        BY <2>1
      <3>2. j \in Nat /\ a \in Feeds
        BY FeedRoundsAssumption
      <3>3. ActuateOpenRound(a, j) /\ UNCHANGED <<now, crank_addr, crank_disabled, start_after, min_update_delay,
                                              crank_row_count, lacking, evicted>>
        BY <3>1 DEF OpenRound, feedConfigVars
      <3> QED BY <3>2, <3>3, OpenKeeps DEF TypeOK, FeedTypeOK
    <2>2. CASE \E a \in Reconfigured, c \in Cranks, d \in DisableChoices, s \in StartTimes,
                     u \in AllowedDelays : SetConfigs(a, c, d, s, u)
      <3>1. PICK a \in Reconfigured, c \in Cranks, d \in DisableChoices, s \in StartTimes,
                 u \in AllowedDelays : SetConfigs(a, c, d, s, u)
        BY <2>2
      <3>2. UNCHANGED <<now, crank_row_count, next_allowed, rounds_opened, round_open_timestamp,
                        lacking, evicted>>
        BY <3>1 DEF SetConfigs, feedRoundVars
      <3>3. FeedTypeOK'
        BY <3>1, <3>2, FeedRoundsAssumption DEF SetConfigs, TypeOK, FeedTypeOK
      <3> QED BY <3>2, <3>3 DEF DelayKept
    <2>3. CASE Tick
      BY <2>3 DEF Tick, feedRoundVars, feedConfigVars, TypeOK, FeedTypeOK, DelayKept
    <2>4. CASE \E record \in MayLack : RecordChanges(record)
      BY <2>4 DEF RecordChanges, feedRoundVars, feedConfigVars, TypeOK, FeedTypeOK, DelayKept
    <2> QED BY <2>1, <2>2, <2>3, <2>4 DEF FeedNext
  <1> QED BY <1>1 DEF TypeOK, OneRowPerFeed, RowsOf

LEMMA NextIInv == IInv /\ [Next]_vars => IInv'
  <1> SUFFICES ASSUME IInv, [Next]_vars PROVE IInv'
    OBVIOUS
  <1>1. CASE CrankNext
    BY <1>1, PushKeepsIInv, PopKeepsIInv DEF CrankNext
  <1>2. CASE FeedNext /\ UNCHANGED <<rows, jitter>>
    BY <1>2, FeedKeepsIInv
  <1>3. CASE UNCHANGED vars
    BY <1>3 DEF vars, feedVars, IInv, TypeOK, FeedTypeOK, OneRowPerFeed, DelayKept, RowsOf
  <1> QED BY <1>1, <1>2, <1>3 DEF Next

----------------------------------------------------------------------------
(* The invariant of the schedule, from which the theorems below follow.    *)
THEOREM ScheduleInvariant == Spec => []IInv
  BY InitIInv, NextIInv, PTL DEF Spec

(* The state of feeds and cranks keeps its type.                           *)
THEOREM TypeCorrect == Spec => []TypeOK
  BY ScheduleInvariant, PTL DEF IInv

(* No feed is in two crank rows, whatever its authority configures.        *)
THEOREM OneRowPerFeedAlways == Spec => []OneRowPerFeed
  BY ScheduleInvariant, PTL DEF IInv

(* The next round of a feed is always due a delay after its last one.      *)
THEOREM DelayAlwaysKept == Spec => []DelayKept
  BY ScheduleInvariant, PTL DEF IInv

(* A step raises the round id of a feed only by opening a round, which it  *)
(* may not do before the feed is due.                                      *)
LEMMA OpenedOnlyWhenDue ==
    ASSUME IInv, [Next]_vars, NEW a \in Feeds, rounds_opened'[a] # rounds_opened[a]
    PROVE  can_open_round(a)
  <1>1. CASE CrankNext
    <2>1. CASE \E c \in Cranks, b \in Feeds, x \in BOOLEAN : CrankPush(c, b, x)
      BY <2>1 DEF CrankPush, PushFeed, feedRoundVars
    <2>2. CASE \E c \in Cranks : \E row \in rows[c] : \E o \in Outcomes : CrankPop(c, row, o)
      <3>0. PICK c \in Cranks : \E row \in rows[c] : \E o \in Outcomes : CrankPop(c, row, o)
        BY <2>2
      <3>1. PICK row \in rows[c], o \in Outcomes : CrankPop(c, row, o)
        BY <3>0
      <3> DEFINE b == row.aggregator_addr
      <3>2. OpensOnCrank(b, o, row.timestamp) /\ ActuateOpenRound(b, jitter[c])
        BY <3>1 DEF CrankPop, TurnFeed, feedRoundVars
      <3>3. a = b
        BY <3>2 DEF ActuateOpenRound, IInv, TypeOK, FeedTypeOK
      <3>4. o = "Ok" /\ o \in SimulationOutcomes(b)
        BY <3>1, <3>2 DEF OpensOnCrank, CrankPop
      <3> QED BY <3>3, <3>4 DEF SimulationOutcomes
    <2> QED BY <1>1, <2>1, <2>2 DEF CrankNext
  <1>2. CASE FeedNext
    <2>1. PICK b \in OpenedDirectly, j \in 0..(JitterModulus - 1) : OpenRound(b, j)
      BY <1>2 DEF FeedNext, SetConfigs, RecordChanges, Tick, feedRoundVars
    <2>2. a = b
      BY <2>1 DEF OpenRound, ActuateOpenRound, IInv, TypeOK, FeedTypeOK
    <2> QED BY <2>1, <2>2 DEF OpenRound, SimulationOutcomes
  <1>3. CASE UNCHANGED vars
    BY <1>3 DEF vars, feedVars
  <1> QED BY <1>1, <1>2, <1>3 DEF Next

(* Two rounds of a feed are opened at least the delay apart.               *)
THEOREM RoundsAlwaysSpaced == Spec => RoundsSpaced
  <1> DEFINE A == \A a \in Feeds :
                    rounds_opened'[a] # rounds_opened[a] /\ rounds_opened[a] > 0
                      => now - round_open_timestamp[a] >= LeastDelay
  <1>1. IInv /\ [Next]_vars => [A]_vars
    <2> SUFFICES ASSUME IInv, [Next]_vars, NEW a \in Feeds,
                        rounds_opened'[a] # rounds_opened[a], rounds_opened[a] > 0
                 PROVE  now - round_open_timestamp[a] >= LeastDelay
      OBVIOUS
    <2>1. now >= next_allowed[a]
      BY OpenedOnlyWhenDue DEF can_open_round
    <2>2. next_allowed[a] >= round_open_timestamp[a] + LeastDelay
      BY DEF IInv, DelayKept
    <2> QED BY <2>1, <2>2, FeedRoundsAssumption DEF IInv, TypeOK, FeedTypeOK
  <1>2. Spec => [][A]_vars
    BY <1>1, ScheduleInvariant, PTL DEF Spec
  <1> QED BY <1>2 DEF RoundsSpaced

(* A turn takes away its own row and no other, and puts it back unless it  *)
(* refused the round.                                                      *)
Refusing == {"QueueNotFound", "LeaseInsufficientCoin", "PermissionDenied"}

LEMMA TurnPutsBack ==
    ASSUME TypeOK, NEW c \in Cranks, NEW row \in rows[c], NEW o \in Outcomes \ Refusing,
           CrankPop(c, row, o)
    PROVE  InACrank(row.aggregator_addr)'
  <1> DEFINE a == row.aggregator_addr
             back == [aggregator_addr |-> a, timestamp |-> next_allowed'[a]]
  <1>1. Rescheduled(o)
    BY FeedRoundsAssumption DEF Outcomes, Refusing, Rescheduled
  <1>2. back \in rows'[c]
    BY <1>1 DEF CrankPop, TypeOK
  <1>3. back.aggregator_addr = a
    OBVIOUS
  <1> HIDE DEF back
  <1> QED BY <1>2, <1>3 DEF InACrank, RowsOf

(* A feed leaves the cranks only in a turn that found it due and refused   *)
(* it the round, whatever else happens between two turns.                  *)
LEMMA LeavesInATurn ==
    ASSUME TypeOK, Next, NEW a \in Feeds, InACrank(a), ~InACrank(a)'
    PROVE  can_open_round(a) /\ RefusedIn(a, Refusing)
  <1>1. PICK d \in Cranks : \E r \in rows[d] : r.aggregator_addr = a
    BY DEF InACrank, RowsOf
  <1>2. PICK r \in rows[d] : r.aggregator_addr = a
    BY <1>1
  <1>3. \A c \in Cranks : \A s \in rows'[c] : s.aggregator_addr # a
    BY DEF InACrank, RowsOf
  <1>4. rows \in [Cranks -> SUBSET Row]
    BY DEF TypeOK
  <1>5. PICK c \in Cranks : \E row \in rows[c] : \E o \in Outcomes : CrankPop(c, row, o)
    <2>1. CASE \E c \in Cranks, b \in Feeds, x \in BOOLEAN : CrankPush(c, b, x)
      <3>1. \A c \in Cranks : rows[c] \subseteq rows'[c]
        BY <1>4, <2>1 DEF CrankPush
      <3> QED BY <1>2, <1>3, <3>1
    <2>2. CASE UNCHANGED rows
      BY <1>2, <1>3, <2>2
    <2> QED BY <2>1, <2>2 DEF Next, CrankNext
  <1>6. PICK row \in rows[c], o \in Outcomes : CrankPop(c, row, o)
    BY <1>5
  <1> DEFINE b == row.aggregator_addr
             back == [aggregator_addr |-> b, timestamp |-> next_allowed'[b]]
  <1>7. /\ rows' = [rows EXCEPT ![c] = (@ \ {row}) \cup IF Rescheduled(o) THEN {back} ELSE {}]
        /\ o \in SimulationOutcomes(b)
    BY <1>6 DEF CrankPop
  <1>8. row = r /\ b = a
    <2>1. row # r => r \in rows'[d]
      BY <1>2, <1>4, <1>7
    <2> QED BY <1>2, <1>3, <2>1
  <1>9. o \in Refusing
    BY <1>3, <1>6, <1>8, TurnPutsBack DEF InACrank, RowsOf
  <1>10. can_open_round(a)
    BY <1>7, <1>8, <1>9 DEF SimulationOutcomes, Refusing
  <1>11. row \in RowsOf(c, a)
    BY <1>8 DEF RowsOf
  <1> QED BY <1>6, <1>9, <1>10, <1>11 DEF RefusedIn

(* No feed leaves the cranks but in a turn that refused it, and a turn     *)
(* that did not refuse it puts it back.                                    *)
THEOREM AlwaysLeavesForCause == Spec => LeavesForCause
  <1> DEFINE A == /\ \A a \in Feeds : InACrank(a) /\ ~InACrank(a)' =>
                        /\ can_open_round(a)
                        /\ RefusedIn(a, {"QueueNotFound", "LeaseInsufficientCoin",
                                         "PermissionDenied"})
                  /\ \A c \in Cranks : \A row \in rows[c] :
                        \A o \in {"Ok", "IllegalRoundOpenCall", "QueueNotReady"} :
                           CrankPop(c, row, o) => InACrank(row.aggregator_addr)'
  <1>1. ASSUME IInv, Next PROVE A
    <2>1. TypeOK
      BY <1>1 DEF IInv
    <2>2. \A a \in Feeds : InACrank(a) /\ ~InACrank(a)' =>
             can_open_round(a) /\ RefusedIn(a, Refusing)
      BY <1>1, <2>1, LeavesInATurn
    <2>3. ASSUME NEW c \in Cranks, NEW row \in rows[c],
                 NEW o \in {"Ok", "IllegalRoundOpenCall", "QueueNotReady"}, CrankPop(c, row, o)
          PROVE  InACrank(row.aggregator_addr)'
      <3>1. o \in Outcomes \ Refusing
        <4>1. o \in SimulationOutcomes(row.aggregator_addr)
          BY <2>3 DEF CrankPop
        <4> QED BY <2>3, <4>1 DEF SimulationOutcomes, RefusalsOf, Outcomes, Refusing
      <3> QED BY <2>1, <2>3, <3>1, TurnPutsBack
    <2> QED BY <2>2, <2>3 DEF Refusing
  <1> HIDE DEF A
  <1>2. Spec => [][A]_vars
    BY <1>1, ScheduleInvariant, PTL DEF Spec
  <1> QED BY <1>2 DEF LeavesForCause, A

----------------------------------------------------------------------------
(* The count and the rows agree, but for the feeds that were evicted.      *)
LEMMA NextCounted ==
    ASSUME IInv, CountedOrEvicted, [Next]_vars
    PROVE  CountedOrEvicted'
  <1>1. rows \in [Cranks -> SUBSET Row] /\ crank_row_count \in [Feeds -> Nat]
    BY DEF IInv, TypeOK, FeedTypeOK
  <1>2. CASE \E c \in Cranks, a \in Feeds, b \in BOOLEAN : CrankPush(c, a, b)
    <2>1. PICK c \in Cranks, a \in Feeds, b \in BOOLEAN : CrankPush(c, a, b)
      BY <1>2
    <2> DEFINE r == [aggregator_addr |-> a, timestamp |-> now]
    <2>2. /\ crank_row_count[a] = 0 /\ evicted' = evicted
          /\ crank_row_count' = [crank_row_count EXCEPT ![a] = 1]
      BY <1>1, <2>1 DEF CrankPush, PushFeed, PushRowGuard
    <2>3. rows' = [rows EXCEPT ![c] = @ \cup {r}] /\ r.aggregator_addr = a
      BY <2>1 DEF CrankPush
    <2> HIDE DEF r
    <2>4. InACrank(a)' /\ ~(a \in evicted)
      BY <1>1, <2>2, <2>3 DEF InACrank, RowsOf, CountedOrEvicted
    <2>5. \A d \in Feeds : d # a => (InACrank(d)' <=> InACrank(d))
      BY <1>1, <2>3 DEF InACrank, RowsOf
    <2> QED BY <1>1, <2>2, <2>4, <2>5 DEF CountedOrEvicted
  <1>3. CASE \E c \in Cranks : \E row \in rows[c] : \E o \in Outcomes : CrankPop(c, row, o)
    <2>0. PICK c \in Cranks : \E row \in rows[c] : \E o \in Outcomes : CrankPop(c, row, o)
      BY <1>3
    <2>1. PICK row \in rows[c], o \in Outcomes : CrankPop(c, row, o)
      BY <2>0
    <2> DEFINE a == row.aggregator_addr
               back == [aggregator_addr |-> a, timestamp |-> next_allowed'[a]]
    <2>2. a \in Feeds /\ InACrank(a) /\ crank_row_count[a] = 1 /\ ~(a \in evicted)
      <3>1. a \in Feeds /\ InACrank(a)
        BY <1>1 DEF InACrank, RowsOf, Row
      <3> QED BY <3>1 DEF CountedOrEvicted
    <2>3. /\ rows' = [rows EXCEPT ![c] = (@ \ {row}) \cup IF Rescheduled(o) THEN {back} ELSE {}]
          /\ back.aggregator_addr = a
          /\ TurnFeed(a, o, row.timestamp, jitter[c])
      BY <2>1 DEF CrankPop
    <2>4. /\ crank_row_count' = [crank_row_count EXCEPT ![a] = IF UncountsRow(o) THEN 0 ELSE 1]
          /\ evicted' = IF o = "PermissionDenied" THEN evicted \cup {a} ELSE evicted
      <3>1. jitter[c] \in Nat /\ FeedTypeOK /\ DelayKept
        BY FeedRoundsAssumption DEF IInv, TypeOK
      <3>2. crank_row_count' = [crank_row_count EXCEPT ![a] = IF UncountsRow(o) THEN 0 ELSE 1]
        BY <2>2, <2>3, <3>1, TurnKeeps
      <3> QED BY <2>3, <3>2 DEF TurnFeed
    <2>5. \A e \in Cranks : \A r \in rows[e] : r.aggregator_addr = a => e = c /\ r = row
      BY <1>1, <2>2 DEF IInv, OneRowPerFeed, RowsOf
    <2> HIDE DEF back
    <2>6. \A d \in Feeds : d # a => (InACrank(d)' <=> InACrank(d))
      BY <1>1, <2>3 DEF InACrank, RowsOf
    <2>7. InACrank(a)' <=> Rescheduled(o)
      BY <1>1, <2>3, <2>5 DEF InACrank, RowsOf
    <2>8. Rescheduled(o) \/ UncountsRow(o) \/ o = "PermissionDenied"
      BY FeedRoundsAssumption DEF Outcomes, Rescheduled, UncountsRow
    <2>9. /\ Rescheduled(o) => ~UncountsRow(o) /\ o # "PermissionDenied"
          /\ UncountsRow(o) => o # "PermissionDenied"
      BY DEF Rescheduled, UncountsRow
    <2>10. /\ crank_row_count'[a] = IF InACrank(a)' \/ a \in evicted' THEN 1 ELSE 0
           /\ ~(InACrank(a)' /\ a \in evicted')
      BY <1>1, <2>2, <2>4, <2>7, <2>8, <2>9
    <2> QED BY <1>1, <2>2, <2>4, <2>6, <2>10 DEF CountedOrEvicted
  <1>4. CASE UNCHANGED <<rows, crank_row_count, evicted>>
    BY <1>4 DEF CountedOrEvicted, InACrank, RowsOf
  <1> QED
    BY <1>2, <1>3, <1>4
       DEF Next, CrankNext, FeedNext, OpenRound, SetConfigs, RecordChanges, Tick, vars, feedVars

(* A feed has a row and is counted, or has none and may be pushed, or was  *)
(* evicted for good.                                                       *)
THEOREM AlwaysCountedOrEvicted == Spec => []CountedOrEvicted
  <1>1. ASSUME Init PROVE CountedOrEvicted
    <2>1. /\ rows = [c \in Cranks |-> {}]
          /\ crank_row_count = [a \in Feeds |-> 0] /\ evicted = {}
      BY <1>1 DEF Init, FeedInit
    <2>2. \A a \in Feeds : ~InACrank(a)
      BY <2>1 DEF InACrank, RowsOf
    <2> QED
      BY <2>1, <2>2 DEF CountedOrEvicted
  <1> QED BY <1>1, NextCounted, ScheduleInvariant, PTL DEF Spec

----------------------------------------------------------------------------
(* How far a row is from its turn, when callers turn a row that is not due *)
(* after it.  A row ahead of it has to be turned once, and a row whose     *)
(* mark is not the next allowed time of its feed once more: the turn only  *)
(* puts it where the feed is due, and that may be ahead.                   *)
Ahead(c, r) == {w \in rows[c] : w # r /\ w.timestamp <= r.timestamp}

Mismarked(c, r) ==
    {w \in rows[c] : /\ w # r
                     /\ w.timestamp # next_allowed[w.aggregator_addr]
                     /\ next_allowed[w.aggregator_addr] <= r.timestamp}

TurnsBefore(c, r) ==
    Cardinality(Ahead(c, r) \cup Mismarked(c, r)) + Cardinality(Mismarked(c, r))

FiniteRows == \A c \in Cranks : IsFiniteSet(rows[c])

LEMMA FiniteRowsInit == Init => FiniteRows
  BY FS_EmptySet DEF Init, FiniteRows

LEMMA FiniteRowsNext == TypeOK /\ FiniteRows /\ [Next]_vars => FiniteRows'
  <1> SUFFICES ASSUME TypeOK, FiniteRows, [Next]_vars, NEW d \in Cranks
               PROVE  IsFiniteSet(rows'[d])
    BY DEF FiniteRows
  <1>1. IsFiniteSet(rows[d]) /\ rows \in [Cranks -> SUBSET Row]
    BY DEF TypeOK, FiniteRows
  <1>2. \A x : IsFiniteSet(rows[d] \cup {x})
    BY <1>1, FS_AddElement
  <1>3. \E x : rows'[d] \subseteq rows[d] \cup {x}
    <2>1. CASE \E c \in Cranks, a \in Feeds, b \in BOOLEAN : CrankPush(c, a, b)
      <3>1. PICK c \in Cranks, a \in Feeds :
               rows' = [rows EXCEPT ![c] = @ \cup {[aggregator_addr |-> a, timestamp |-> now]}]
        BY <2>1 DEF CrankPush
      <3>2. rows'[d] \subseteq rows[d] \cup {[aggregator_addr |-> a, timestamp |-> now]}
        BY <1>1, <3>1
      <3> QED BY <3>2
    <2>2. CASE \E c \in Cranks : \E row \in rows[c] : \E o \in Outcomes : CrankPop(c, row, o)
      <3>1. PICK c \in Cranks : \E row \in rows[c] : \E o \in Outcomes : CrankPop(c, row, o)
        BY <2>2
      <3>2. PICK row \in rows[c], o \in Outcomes : CrankPop(c, row, o)
        BY <3>1
      <3> DEFINE back == [aggregator_addr |-> row.aggregator_addr,
                          timestamp |-> next_allowed'[row.aggregator_addr]]
      <3>3. rows' = [rows EXCEPT ![c] = (@ \ {row}) \cup IF Rescheduled(o) THEN {back} ELSE {}]
        BY <3>2 DEF CrankPop
      <3>4. rows'[d] \subseteq rows[d] \cup {back}
        BY <1>1, <3>3
      <3> QED BY <3>4
    <2>3. CASE UNCHANGED rows
      BY <2>3
    <2> QED BY <2>1, <2>2, <2>3 DEF Next, CrankNext, vars
  <1> QED BY <1>2, <1>3, FS_Subset

(* What leaves a finite set, and what takes its place.                     *)
LEMMA OneOut ==
    ASSUME NEW S, IsFiniteSet(S), NEW w \in S, NEW x
    PROVE  /\ Cardinality(S) \in Nat /\ Cardinality(S \ {w}) \in Nat
           /\ Cardinality((S \ {w}) \cup {x}) \in Nat
           /\ Cardinality(S \ {w}) = Cardinality(S) - 1
           /\ Cardinality((S \ {w}) \cup {x}) <= Cardinality(S)
  <1>1. /\ IsFiniteSet(S \ {w}) /\ Cardinality(S \ {w}) = Cardinality(S) - 1
        /\ Cardinality(S) \in Nat
    BY FS_RemoveElement, FS_CardinalityType
  <1>2. /\ IsFiniteSet((S \ {w}) \cup {x})
        /\ \/ Cardinality((S \ {w}) \cup {x}) = Cardinality(S \ {w}) + 1
           \/ Cardinality((S \ {w}) \cup {x}) = Cardinality(S \ {w})
    BY <1>1, FS_AddElement
  <1>3. Cardinality(S \ {w}) \in Nat /\ Cardinality((S \ {w}) \cup {x}) \in Nat
    BY <1>1, <1>2, FS_CardinalityType
  <1> QED BY <1>1, <1>2, <1>3

LEMMA NotMore ==
    ASSUME NEW S, IsFiniteSet(S), NEW T, T \subseteq S
    PROVE  Cardinality(S) \in Nat /\ Cardinality(T) \in Nat /\ Cardinality(T) <= Cardinality(S)
  BY FS_Subset, FS_CardinalityType

(* The rows ahead are no more, if no row came nearer.                      *)
LEMMA NoneCameAhead ==
    ASSUME FiniteRows, NEW c \in Cranks, NEW r,
           Ahead(c, r)' \subseteq Ahead(c, r), Mismarked(c, r)' \subseteq Mismarked(c, r)
    PROVE  TurnsBefore(c, r)' <= TurnsBefore(c, r)
  <1> DEFINE A == Ahead(c, r)  M == Mismarked(c, r)
  <1>1. IsFiniteSet(A \cup M) /\ IsFiniteSet(M)
    <2>1. A \cup M \subseteq rows[c] /\ M \subseteq rows[c]
      BY DEF Ahead, Mismarked
    <2> QED BY <2>1, FS_Subset DEF FiniteRows
  <1>2. A' \cup M' \subseteq A \cup M /\ M' \subseteq M
    OBVIOUS
  <1> HIDE DEF A, M
  <1>3. /\ Cardinality(A' \cup M') <= Cardinality(A \cup M) /\ Cardinality(M') <= Cardinality(M)
        /\ Cardinality(A' \cup M') \in Nat /\ Cardinality(A \cup M) \in Nat
        /\ Cardinality(M') \in Nat /\ Cardinality(M) \in Nat
    BY <1>1, <1>2, NotMore
  <1>4. Cardinality(A' \cup M') + Cardinality(M') <= Cardinality(A \cup M) + Cardinality(M)
    BY <1>3
  <1> QED BY <1>4 DEF A, M, TurnsBefore

(* Where a turn puts a row that has to come before r: behind r, if the     *)
(* feed has started and the row was marked with its next allowed time.     *)
LEMMA TurnedBehind ==
    ASSUME IInv, NEW c \in Cranks, NEW r \in rows[c], r.timestamp < now,
           NEW w \in rows[c], NEW o, CrankPop(c, w, o), w # r, Rescheduled(o),
           w \notin Mismarked(c, r), next_allowed'[w.aggregator_addr] <= r.timestamp
    PROVE  w \in Ahead(c, r) /\ now < start_after[w.aggregator_addr]
  <1> DEFINE a == w.aggregator_addr
  <1>1. /\ r \in Row /\ w \in Row /\ a \in Feeds /\ r.timestamp \in Nat /\ w.timestamp \in Nat
        /\ now \in Nat /\ next_allowed \in [Feeds -> Nat] /\ start_after[a] \in Nat
        /\ LeastDelay \in Nat
    <2>1. r \in Row /\ w \in Row
      BY DEF IInv, TypeOK
    <2>2. start_after[a] \in StartTimes
      BY <2>1 DEF IInv, TypeOK, FeedTypeOK, Row
    <2> QED BY <2>1, <2>2, FeedRoundsAssumption DEF IInv, TypeOK, FeedTypeOK, Row
  <1>2. TurnFeed(a, o, w.timestamp, jitter[c]) /\ o \in SimulationOutcomes(a) /\ w.timestamp < now
    BY <1>1 DEF CrankPop
  <1>3. jitter[c] \in Nat
    BY FeedRoundsAssumption DEF IInv, TypeOK
  <1>4. NextUpdateTime(a, jitter[c]) \in Nat /\ NextUpdateTime(a, jitter[c]) >= now + LeastDelay
    BY <1>1, <1>3, NextUpdateTimeFacts DEF IInv, TypeOK
  <1>5. next_allowed' # [next_allowed EXCEPT ![a] = NextUpdateTime(a, jitter[c])]
    BY <1>1, <1>4
  <1>6. ~OpensOnCrank(a, o, w.timestamp) /\ o # "QueueNotReady" /\ next_allowed' = next_allowed
    BY <1>2, <1>5 DEF TurnFeed, ActuateOpenRound, feedRoundVars
  <1>7. w.timestamp = next_allowed[a]
    BY <1>6 DEF Mismarked
  <1>8. w \in Ahead(c, r)
    BY <1>6, <1>7 DEF Ahead
  <1>9. o = "IllegalRoundOpenCall"
    BY <1>6, <1>7 DEF Rescheduled, OpensOnCrank
  <1>10. ~can_open_round(a)
    BY <1>2, <1>9, FeedRoundsAssumption DEF SimulationOutcomes, RefusalsOf
  <1> QED BY <1>1, <1>2, <1>7, <1>8, <1>10 DEF can_open_round

LEMMA TurnBringsForward ==
    ASSUME IInv, FiniteRows, NEW c \in Cranks, NEW r \in rows[c], r.timestamp < now,
           NEW w \in rows[c], NEW o, CrankPop(c, w, o), r \in rows'[c]
    PROVE  /\ TurnsBefore(c, r)' <= TurnsBefore(c, r)
           /\ w \in Ahead(c, r) /\ now >= start_after[w.aggregator_addr]
                 => TurnsBefore(c, r)' < TurnsBefore(c, r)
  <1> DEFINE a == w.aggregator_addr
             back == [aggregator_addr |-> a, timestamp |-> next_allowed'[a]]
             A == Ahead(c, r)
             M == Mismarked(c, r)
  <1>1. /\ rows \in [Cranks -> SUBSET Row] /\ w \in Row /\ a \in Feeds /\ r \in Row
        /\ next_allowed \in [Feeds -> Nat] /\ now \in Nat /\ r.timestamp \in Nat
        /\ now' = now
    BY DEF IInv, TypeOK, FeedTypeOK, Row, CrankPop, TurnFeed
  <1>2. /\ rows'[c] = (rows[c] \ {w}) \cup IF Rescheduled(o) THEN {back} ELSE {}
        /\ TurnFeed(a, o, w.timestamp, jitter[c])
    BY <1>1 DEF CrankPop
  <1>3. \A x \in rows[c] : x # w => /\ x.aggregator_addr # a /\ x.aggregator_addr \in Feeds
                                    /\ next_allowed'[x.aggregator_addr] = next_allowed[x.aggregator_addr]
    <2>1. \A x \in rows[c] : x.aggregator_addr = a => x = w
      BY <1>1 DEF IInv, OneRowPerFeed, RowsOf
    <2>2. \A b \in Feeds : b # a => next_allowed'[b] = next_allowed[b]
      BY <1>1, <1>2 DEF TurnFeed, ActuateOpenRound, feedRoundVars
    <2> QED BY <1>1, <2>1, <2>2 DEF Row
  <1>4. /\ A' = {x \in rows'[c] : x # r /\ x.timestamp <= r.timestamp}
        /\ M' = {x \in rows'[c] : /\ x # r
                                  /\ x.timestamp # next_allowed'[x.aggregator_addr]
                                  /\ next_allowed'[x.aggregator_addr] <= r.timestamp}
    BY DEF Ahead, Mismarked
  <1>5. back.aggregator_addr = a /\ back.timestamp = next_allowed'[a]
    OBVIOUS
  <1> HIDE DEF back
  <1>6. M' \subseteq M \ {w}
    BY <1>2, <1>3, <1>4, <1>5 DEF Mismarked
  <1>7. IsFiniteSet(A \cup M) /\ IsFiniteSet(M)
    <2>1. A \cup M \subseteq rows[c] /\ M \subseteq rows[c]
      BY DEF Ahead, Mismarked
    <2> QED BY <2>1, FS_Subset DEF FiniteRows
  <1>8. next_allowed'[a] \in Nat
    <2>1. crank_row_count[a] = 1 /\ jitter[c] \in Nat
      BY <1>1, FeedRoundsAssumption DEF IInv, OneRowPerFeed, RowsOf, TypeOK
    <2>2. FeedTypeOK'
      BY <1>1, <1>2, <2>1, TurnKeeps DEF IInv, TypeOK
    <2> QED BY <1>1, <2>2 DEF FeedTypeOK
  <1>9. CASE w = r
    <2>1. A' \subseteq A
      <3>1. rows'[c] = rows[c]
        BY <1>2, <1>9
      <3> QED BY <1>4, <3>1 DEF Ahead
    <2> QED BY <1>6, <1>9, <2>1, NoneCameAhead DEF Ahead
  <1>10. CASE w # r
    <2>1. A' \subseteq (A \ {w}) \cup {back}
      BY <1>2, <1>4 DEF Ahead
    <2>2. CASE w \in M
      <3>1. A' \cup M' \subseteq ((A \cup M) \ {w}) \cup {back}
        BY <1>6, <2>1
      <3> DEFINE S == A \cup M
      <3> HIDE DEF A, M, S
      <3>2. w \in S /\ S = A \cup M
        BY <2>2 DEF S
      <3>3. IsFiniteSet(S) /\ IsFiniteSet(M)
        BY <1>7 DEF S
      <3>4. IsFiniteSet((S \ {w}) \cup {back}) /\ IsFiniteSet(M \ {w})
        BY <3>3, FS_RemoveElement, FS_AddElement
      <3>5. /\ Cardinality((S \ {w}) \cup {back}) <= Cardinality(S)
            /\ Cardinality(M \ {w}) = Cardinality(M) - 1
            /\ Cardinality(S) \in Nat /\ Cardinality(M) \in Nat
        BY <2>2, <3>2, <3>3, OneOut
      <3>6. /\ Cardinality(A' \cup M') <= Cardinality((S \ {w}) \cup {back})
            /\ Cardinality(M') <= Cardinality(M \ {w})
            /\ Cardinality(A' \cup M') \in Nat /\ Cardinality(M') \in Nat
            /\ Cardinality((S \ {w}) \cup {back}) \in Nat
        BY <1>6, <3>1, <3>2, <3>4, NotMore
      <3>7. Cardinality(A' \cup M') + Cardinality(M') < Cardinality(S) + Cardinality(M)
        BY <3>5, <3>6
      <3>8. TurnsBefore(c, r)' = Cardinality(A' \cup M') + Cardinality(M')
            /\ TurnsBefore(c, r) = Cardinality(S) + Cardinality(M)
        BY DEF TurnsBefore, S, A, M
      <3>9. /\ Cardinality(A' \cup M') + Cardinality(M') \in Nat
            /\ Cardinality(S) + Cardinality(M) \in Nat
        BY <3>5, <3>6
      <3> QED BY <3>7, <3>8, <3>9
    <2>3. CASE w \notin M /\ (Rescheduled(o) => next_allowed'[a] > r.timestamp)
      <3>1. A' \subseteq A \ {w}
        <4>1. next_allowed'[a] > r.timestamp => ~(back.timestamp <= r.timestamp)
          BY <1>1, <1>5, <1>8
        <4> QED BY <1>2, <1>4, <2>3, <4>1 DEF Ahead
      <3>2. A' \subseteq A /\ M' \subseteq M
        BY <1>6, <3>1
      <3>3. TurnsBefore(c, r)' <= TurnsBefore(c, r)
        BY <3>2, NoneCameAhead
      <3>4. ASSUME w \in A PROVE TurnsBefore(c, r)' < TurnsBefore(c, r)
        <4> DEFINE S == A \cup M
        <4>1. A' \cup M' \subseteq S \ {w} /\ M' \subseteq M
          BY <1>6, <3>1
        <4> HIDE DEF A, M, S
        <4>2. w \in S /\ S = A \cup M /\ IsFiniteSet(S) /\ IsFiniteSet(M)
          BY <1>7, <3>4 DEF S
        <4>3. IsFiniteSet(S \ {w})
          BY <4>2, FS_RemoveElement
        <4>4. Cardinality(S \ {w}) = Cardinality(S) - 1 /\ Cardinality(S) \in Nat
          BY <4>2, OneOut
        <4>5. /\ Cardinality(A' \cup M') <= Cardinality(S \ {w})
              /\ Cardinality(M') <= Cardinality(M)
              /\ Cardinality(A' \cup M') \in Nat /\ Cardinality(M') \in Nat
              /\ Cardinality(M) \in Nat
          BY <4>1, <4>2, <4>3, NotMore
        <4>6. Cardinality(A' \cup M') + Cardinality(M') < Cardinality(S) + Cardinality(M)
          BY <4>4, <4>5
        <4>7. TurnsBefore(c, r)' = Cardinality(A' \cup M') + Cardinality(M')
              /\ TurnsBefore(c, r) = Cardinality(S) + Cardinality(M)
          BY DEF TurnsBefore, S, A, M
        <4> QED BY <4>6, <4>7
      <3> QED BY <3>3, <3>4
    <2>4. CASE w \notin M /\ Rescheduled(o) /\ next_allowed'[a] <= r.timestamp
      <3>1. w \in A /\ now < start_after[a]
        BY <1>10, <2>4, TurnedBehind
      <3>2. start_after[a] \in Nat
        BY <1>1, FeedRoundsAssumption DEF IInv, TypeOK, FeedTypeOK
      <3>3. ~(now >= start_after[a])
        BY <1>1, <3>1, <3>2
      <3> DEFINE S == A \cup M
      <3>4. A' \cup M' \subseteq (S \ {w}) \cup {back} /\ M' \subseteq M
        BY <1>6, <2>1
      <3> HIDE DEF A, M, S
      <3>5. w \in S /\ S = A \cup M /\ IsFiniteSet(S) /\ IsFiniteSet(M)
        BY <1>7, <3>1 DEF S
      <3>6. IsFiniteSet((S \ {w}) \cup {back})
        BY <3>5, FS_RemoveElement, FS_AddElement
      <3>7. /\ Cardinality((S \ {w}) \cup {back}) <= Cardinality(S)
            /\ Cardinality(S) \in Nat
        BY <3>5, OneOut
      <3>8. /\ Cardinality(A' \cup M') <= Cardinality((S \ {w}) \cup {back})
            /\ Cardinality(M') <= Cardinality(M)
            /\ Cardinality(A' \cup M') \in Nat /\ Cardinality(M') \in Nat
            /\ Cardinality(M) \in Nat /\ Cardinality((S \ {w}) \cup {back}) \in Nat
        BY <3>4, <3>5, <3>6, NotMore
      <3>9. Cardinality(A' \cup M') + Cardinality(M') <= Cardinality(S) + Cardinality(M)
        BY <3>7, <3>8
      <3>10. TurnsBefore(c, r)' = Cardinality(A' \cup M') + Cardinality(M')
             /\ TurnsBefore(c, r) = Cardinality(S) + Cardinality(M)
        BY DEF TurnsBefore, S, A, M
      <3> QED BY <3>3, <3>9, <3>10
    <2>5. ~(next_allowed'[a] > r.timestamp) => next_allowed'[a] <= r.timestamp
      BY <1>1, <1>8
    <2> QED BY <2>2, <2>3, <2>4, <2>5
  <1> QED BY <1>9, <1>10

LEMMA StepBringsForward ==
    ASSUME IInv, FiniteRows, [Next]_vars, NEW c \in Cranks, NEW r \in rows[c],
           r.timestamp < now, r \in rows'[c],
           ~ \E a \in Feeds, b \in BOOLEAN : CrankPush(c, a, b)
    PROVE  TurnsBefore(c, r)' <= TurnsBefore(c, r)
  <1> DEFINE same == /\ rows'[c] = rows[c]
                     /\ \A x \in rows[c] : x # r =>
                           next_allowed'[x.aggregator_addr] = next_allowed[x.aggregator_addr]
  <1>1. /\ rows \in [Cranks -> SUBSET Row] /\ next_allowed \in [Feeds -> Nat]
        /\ now \in Nat /\ r \in Row /\ r.timestamp \in Nat
        /\ \A x \in rows[c] : x.aggregator_addr \in Feeds
    BY DEF IInv, TypeOK, FeedTypeOK, Row
  <1>2. same => TurnsBefore(c, r)' <= TurnsBefore(c, r)
    <2>1. same => /\ Ahead(c, r)' \subseteq Ahead(c, r)
                  /\ Mismarked(c, r)' \subseteq Mismarked(c, r)
      BY DEF Ahead, Mismarked
    <2> QED BY <2>1, NoneCameAhead
  <1>3. CASE \E d \in Cranks, a \in Feeds, b \in BOOLEAN : CrankPush(d, a, b)
    <2>1. PICK d \in Cranks, a \in Feeds, b \in BOOLEAN : CrankPush(d, a, b)
      BY <1>3
    <2>2. d # c
      BY <2>1
    <2>3. same
      BY <1>1, <2>1, <2>2 DEF CrankPush, PushFeed, feedRoundVars
    <2> QED BY <1>2, <2>3
  <1>4. CASE \E d \in Cranks : \E w \in rows[d] : \E o \in Outcomes : CrankPop(d, w, o)
    <2>0. PICK d \in Cranks : \E w \in rows[d] : \E o \in Outcomes : CrankPop(d, w, o)
      BY <1>4
    <2>1. PICK w \in rows[d], o \in Outcomes : CrankPop(d, w, o)
      BY <2>0
    <2>2. CASE d = c
      BY <2>1, <2>2, TurnBringsForward
    <2>3. CASE d # c
      <3>1. \A x \in rows[c] : x.aggregator_addr # w.aggregator_addr
        BY <1>1, <2>3 DEF IInv, OneRowPerFeed, RowsOf
      <3>2. \A b \in Feeds : b # w.aggregator_addr => next_allowed'[b] = next_allowed[b]
        BY <1>1, <2>1 DEF CrankPop, TurnFeed, ActuateOpenRound, feedRoundVars
      <3>3. rows'[c] = rows[c]
        BY <1>1, <2>1, <2>3 DEF CrankPop
      <3> QED BY <1>1, <1>2, <3>1, <3>2, <3>3
    <2> QED BY <2>2, <2>3
  <1>5. CASE UNCHANGED <<rows, next_allowed>>
    BY <1>2, <1>5
  <1>6. CASE UNCHANGED rows /\ \E a \in OpenedDirectly, j \in 0..(JitterModulus - 1) : OpenRound(a, j)
    <2>1. PICK a \in OpenedDirectly, j \in 0..(JitterModulus - 1) : OpenRound(a, j)
      BY <1>6
    <2>2. j \in Nat /\ a \in Feeds /\ LeastDelay \in Nat
      BY FeedRoundsAssumption
    <2>3. NextUpdateTime(a, j) \in Nat /\ NextUpdateTime(a, j) >= now + LeastDelay
      BY <2>2, NextUpdateTimeFacts DEF IInv, TypeOK
    <2>4. next_allowed' = [next_allowed EXCEPT ![a] = NextUpdateTime(a, j)]
      BY <2>1 DEF OpenRound, ActuateOpenRound
    <2>5. ~(next_allowed'[a] <= r.timestamp)
      BY <1>1, <2>2, <2>3, <2>4
    <2>6. \A x \in rows[c] : next_allowed'[x.aggregator_addr] = next_allowed[x.aggregator_addr]
                             \/ ~(next_allowed'[x.aggregator_addr] <= r.timestamp)
      BY <1>1, <2>4, <2>5
    <2>7. /\ Ahead(c, r)' \subseteq Ahead(c, r)
          /\ Mismarked(c, r)' \subseteq Mismarked(c, r)
      BY <1>6, <2>6 DEF Ahead, Mismarked
    <2> QED BY <2>7, NoneCameAhead
  <1> QED
    BY <1>3, <1>4, <1>5, <1>6
       DEF Next, CrankNext, FeedNext, SetConfigs, RecordChanges, Tick, feedRoundVars, vars, feedVars

(* No row that is due is overtaken without end.  While it waits, no step   *)
(* takes it further from its turn but a push of another feed, not even the *)
(* turns of rows that are due after it and are put back before it; and     *)
(* each turn of a row ahead of it brings it nearer, if the feed of that    *)
(* row has started: so the turner who keeps taking the earliest row comes  *)
(* to it.  This is what DueRowsAreTurned rests on beside fairness.         *)
TurnsBringForward ==
    [][\A c \in Cranks : \A r \in rows[c] : r.timestamp < now /\ r \in rows'[c] =>
          /\ \/ TurnsBefore(c, r)' <= TurnsBefore(c, r)
             \/ \E a \in Feeds, b \in BOOLEAN : CrankPush(c, a, b)
          /\ \A w \in Ahead(c, r), o \in Outcomes :
                CrankPop(c, w, o) /\ now >= start_after[w.aggregator_addr]
                    => TurnsBefore(c, r)' < TurnsBefore(c, r)]_vars

THEOREM TurnsAlwaysBringForward == Spec => TurnsBringForward
  <1> DEFINE A == \A c \in Cranks : \A r \in rows[c] : r.timestamp < now /\ r \in rows'[c] =>
                     /\ \/ TurnsBefore(c, r)' <= TurnsBefore(c, r)
                        \/ \E a \in Feeds, b \in BOOLEAN : CrankPush(c, a, b)
                     /\ \A w \in Ahead(c, r), o \in Outcomes :
                           CrankPop(c, w, o) /\ now >= start_after[w.aggregator_addr]
                               => TurnsBefore(c, r)' < TurnsBefore(c, r)
  <1>1. IInv /\ FiniteRows /\ [Next]_vars => [A]_vars
    <2> SUFFICES ASSUME IInv, FiniteRows, [Next]_vars, NEW c \in Cranks, NEW r \in rows[c],
                        r.timestamp < now, r \in rows'[c]
                 PROVE  /\ \/ TurnsBefore(c, r)' <= TurnsBefore(c, r)
                           \/ \E a \in Feeds, b \in BOOLEAN : CrankPush(c, a, b)
                        /\ \A w \in Ahead(c, r), o \in Outcomes :
                              CrankPop(c, w, o) /\ now >= start_after[w.aggregator_addr]
                                  => TurnsBefore(c, r)' < TurnsBefore(c, r)
      OBVIOUS
    <2>1. TurnsBefore(c, r)' <= TurnsBefore(c, r) \/ \E a \in Feeds, b \in BOOLEAN : CrankPush(c, a, b)
      BY StepBringsForward
    <2>2. \A w \in Ahead(c, r), o \in Outcomes :
              CrankPop(c, w, o) /\ now >= start_after[w.aggregator_addr]
                  => TurnsBefore(c, r)' < TurnsBefore(c, r)
      <3>1. Ahead(c, r) \subseteq rows[c]
        BY DEF Ahead
      <3> QED BY <3>1, TurnBringsForward
    <2> QED BY <2>1, <2>2
  <1> HIDE DEF A
  <1>2. IInv => TypeOK
    BY DEF IInv
  <1>3. Spec => [][A]_vars
    BY <1>1, <1>2, ScheduleInvariant, FiniteRowsInit, FiniteRowsNext, PTL DEF Spec
  <1> QED BY <1>3 DEF TurnsBringForward, A
=============================================================================
