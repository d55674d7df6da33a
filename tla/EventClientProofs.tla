------------------------- MODULE EventClientProofs --------------------------
(***************************************************************************)
(* Proofs that the subscription task gives up exactly when it should and   *)
(* waits as long as it should, for any limit of retries and any logs, and  *)
(* that what it forwards is all that its node notified, in order.          *)
(***************************************************************************)
EXTENDS EventClient, FiniteSetTheorems, SequenceTheorems, WellFoundedInduction, TLAPS

(* The part of the state that the retries are decided from.  *)
RetryTyped ==
    /\ ctl \in {"building", "connecting", "subscribing", "streaming", "sleeping",
                "returned", "panicked"}
    /\ max_retries \in Int \cup {Forever}
    /\ retry_count \in Nat
    /\ failures \in Nat
    /\ delay \in Nat

(* The code's counter is behind the failures while it sleeps, and equal to *)
(* them before each attempt.                                               *)
CountsFailures ==
    /\ ctl \in {"building", "streaming"} => failures = 0 /\ retry_count = 0
    /\ ctl \in {"connecting", "subscribing"} => failures = retry_count
    /\ ctl = "sleeping" => failures = retry_count + 1

Limited ==
    /\ ctl = "sleeping" /\ max_retries # Forever => retry_count < max_retries

DelayFollowsCount ==
    ctl \in {"building", "connecting", "subscribing", "streaming", "sleeping"} =>
        delay = Backoff[Least(retry_count + 1, 5)]

(* Of the two readings of the limit, the code's: so many attempts.         *)
EndsAtLimit ==
    /\ ctl = "returned" =>
          /\ max_retries # Forever
          /\ failures = Attempts \/ (failures = 0 /\ max_retries <= 0)
    /\ ctl \in {"connecting", "subscribing"} /\ max_retries # Forever => failures < Attempts

IInv == RetryTyped /\ CountsFailures /\ Limited /\ DelayFollowsCount /\ EndsAtLimit

(* The table of delays starts with the first one, and each one is twice    *)
(* the one before, up to the longest.                                      *)
LEMMA BackoffDoubles ==
    ASSUME NEW n \in Nat
    PROVE  /\ Backoff[Least(1, 5)] = FirstDelay
           /\ NextDelay(Backoff[Least(n + 1, 5)]) = Backoff[Least(n + 2, 5)]
           /\ Backoff[Least(n + 1, 5)] \in Nat
<1>1. CASE n = 0
  BY <1>1 DEF Backoff, Least, FirstDelay, NextDelay, LongestDelay
<1>2. CASE n = 1
  BY <1>2 DEF Backoff, Least, FirstDelay, NextDelay, LongestDelay
<1>3. CASE n = 2
  BY <1>3 DEF Backoff, Least, FirstDelay, NextDelay, LongestDelay
<1>4. CASE n = 3
  BY <1>4 DEF Backoff, Least, FirstDelay, NextDelay, LongestDelay
<1>5. CASE n > 3
  BY <1>5 DEF Backoff, Least, FirstDelay, NextDelay, LongestDelay
<1> QED
  BY <1>1, <1>2, <1>3, <1>4, <1>5

LEMMA InitIInv == Init => IInv
<1> SUFFICES ASSUME Init PROVE IInv
  OBVIOUS
<1>1. delay = Backoff[Least(retry_count + 1, 5)]
  BY BackoffDoubles DEF Init
<1> QED
  BY <1>1, EventClientAssumption
     DEF Init, IInv, RetryTyped, CountsFailures, Limited, DelayFollowsCount, EndsAtLimit, FirstDelay

(* Only the client's task and the builder touch what retries depend on.    *)
LEMMA Untouched ==
    ASSUME IInv, UNCHANGED <<ctl, max_retries, retries>>
    PROVE  IInv'
BY DEF IInv, RetryTyped, CountsFailures, Limited, DelayFollowsCount, EndsAtLimit, Attempts, retries

LEMMA NextIInv == IInv /\ [Next]_vars => IInv'
<1> SUFFICES ASSUME IInv, [Next]_vars PROVE IInv'
  OBVIOUS
<1> USE EventClientAssumption
<1>1. ASSUME NEW limit \in RetryLimits, SetMaxRetries(limit) PROVE IInv'
  BY <1>1 DEF SetMaxRetries, retries, IInv, RetryTyped, CountsFailures, Limited,
              DelayFollowsCount, EndsAtLimit, Attempts
<1>2. ASSUME NEW d \in Discriminators, NEW c \in Channels, AddEventHandler(d, c) PROVE IInv'
  BY <1>2, Untouched DEF AddEventHandler
<1>3. CASE Start
  BY <1>3 DEF Start, config, retries, IInv, RetryTyped, CountsFailures, Limited,
              DelayFollowsCount, EndsAtLimit, Attempts, Greatest
<1>4. CASE Connect
  BY <1>4 DEF Connect, config, retries, IInv, RetryTyped, CountsFailures, Limited,
              DelayFollowsCount, EndsAtLimit, Attempts, Greatest
<1>5. CASE ConnectPanics
  BY <1>5 DEF ConnectPanics, config, retries, IInv, RetryTyped, CountsFailures, Limited,
              DelayFollowsCount, EndsAtLimit
<1>6. CASE Subscribed
  <2>1. delay' = Backoff[Least(retry_count' + 1, 5)]
    BY <1>6, BackoffDoubles DEF Subscribed
  <2> QED
    BY <1>6, <2>1 DEF Subscribed, config, FirstDelay, IInv, RetryTyped, CountsFailures, Limited,
                      DelayFollowsCount, EndsAtLimit
<1>7. CASE SubscribeFailed
  <2>1. CASE LimitReached(retry_count)
    BY <1>7, <2>1 DEF SubscribeFailed, LimitReached, config, IInv, RetryTyped, CountsFailures,
                      Limited, DelayFollowsCount, EndsAtLimit, Attempts, Greatest
  <2>2. CASE ~LimitReached(retry_count)
    BY <1>7, <2>2 DEF SubscribeFailed, LimitReached, config, IInv, RetryTyped, CountsFailures,
                      Limited, DelayFollowsCount, EndsAtLimit
  <2> QED
    BY <2>1, <2>2
<1>8. CASE Wake
  <2> retry_count \in Nat /\ delay = Backoff[Least(retry_count + 1, 5)]
    BY <1>8 DEF Wake, IInv, RetryTyped, DelayFollowsCount
  <2>a. delay' = Backoff[Least(retry_count + 2, 5)]
    BY <1>8, BackoffDoubles DEF Wake
  <2>b. Backoff[Least((retry_count + 1) + 1, 5)] \in Nat
    BY BackoffDoubles, retry_count + 1 \in Nat
  <2>c. (retry_count + 1) + 1 = retry_count + 2 /\ retry_count' = retry_count + 1
    BY <1>8 DEF Wake
  <2>1. delay' = Backoff[Least(retry_count' + 1, 5)] /\ delay' \in Nat
    BY <2>a, <2>b, <2>c
  <2>2. CASE LimitReached(retry_count + 1)
    BY <1>8, <2>1, <2>2 DEF Wake, AfterIteration, LimitReached, config, IInv, RetryTyped,
                      CountsFailures, Limited, DelayFollowsCount, EndsAtLimit, Attempts, Greatest
  <2>3. CASE ~LimitReached(retry_count + 1)
    BY <1>8, <2>1, <2>3 DEF Wake, AfterIteration, LimitReached, config, IInv, RetryTyped,
                      CountsFailures, Limited, DelayFollowsCount, EndsAtLimit, Attempts, Greatest
  <2> QED
    BY <2>2, <2>3
<1>9. CASE HandleLine
  BY <1>9, Untouched DEF HandleLine, config
<1>10. CASE StreamEnds
  <2>1. CASE LimitReached(retry_count)
    BY <1>10, <2>1 DEF StreamEnds, AfterIteration, LimitReached, config, retries, IInv, RetryTyped,
                      CountsFailures, Limited, DelayFollowsCount, EndsAtLimit
  <2>2. CASE ~LimitReached(retry_count)
    BY <1>10, <2>2 DEF StreamEnds, AfterIteration, LimitReached, config, retries, IInv, RetryTyped,
                      CountsFailures, Limited, DelayFollowsCount, EndsAtLimit, Attempts, Greatest
  <2> QED
    BY <2>1, <2>2
<1>11. CASE Environment
  BY <1>11, Untouched DEF Environment, Notify, CloseConnection, Receive, DropReceiver, config
<1>12. CASE UNCHANGED vars
  BY <1>12, Untouched DEF vars, config
<1> QED
  BY <1>1, <1>2, <1>3, <1>4, <1>5, <1>6, <1>7, <1>8, <1>9, <1>10, <1>11, <1>12
     DEF Next, Client

LEMMA IInvAlways == Spec => []IInv
BY InitIInv, NextIInv, PTL DEF Spec

(* The task returns only after the refusals in a row that its limit        *)
(* accounts for, and makes no attempt more, whatever closes and succeeds   *)
(* in between.                                                             *)
THEOREM GivesUpAtLimit == Spec => []GivesUp
<1>1. IInv => GivesUp
  BY DEF IInv, EndsAtLimit, GivesUp, RetryTyped, Attempts, Greatest
<1> QED
  BY <1>1, IInvAlways, PTL

(* The delay before an attempt is the one for the number of failures.  *)
THEOREM DelayFollowsFailuresAlways == Spec => []DelayFollowsFailures
<1>1. IInv => DelayFollowsFailures
  <2> SUFFICES ASSUME IInv, ctl = "sleeping"
               PROVE  delay = Backoff[Least(failures, 5)]
    BY DEF DelayFollowsFailures, Backoff
  <2> QED
    BY DEF IInv, DelayFollowsCount, CountsFailures
<1> QED
  BY <1>1, IInvAlways, PTL

----------------------------------------------------------------------------
(* The lines of a channel.  They are collected by a function defined by    *)
(* recursion on the number of lines looked at: what it computes is proved  *)
(* by induction, stated for the set of the numbers that have a property.   *)
LEMMA NatSetInduction ==
    ASSUME NEW P, 0 \in P, \A n \in Nat : n \in P => n + 1 \in P
    PROVE  Nat \subseteq P
  <1> SUFFICES ASSUME NEW m \in Nat, m \notin P PROVE FALSE
    OBVIOUS
  <1> DEFINE W == {0..n : n \in Nat \ P}
  <1>1. W \subseteq FiniteSubsetsOf(Nat) /\ W # {}
    <2>1. \A n \in Nat : 0..n \in SUBSET Nat /\ IsFiniteSet(0..n)
      BY FS_Interval
    <2>2. 0..m \in W
      OBVIOUS
    <2> QED BY <2>1, <2>2 DEF FiniteSubsetsOf
  <1>2. PICK w \in W : \A v \in W : <<v, w>> \notin StrictSubsetOrdering(Nat)
    <2> HIDE DEF W
    <2> QED BY <1>1, FS_StrictSubsetOrderingWellFounded, WFMin
  <1>3. PICK x \in Nat \ P : w = 0..x
    OBVIOUS
  <1>4. x - 1 \in Nat \ P
    OBVIOUS
  <1>5. /\ 0..(x - 1) \in W
        /\ 0..(x - 1) \subseteq 0..x /\ x \in 0..x /\ x \notin 0..(x - 1)
    BY <1>4
  <1>6. <<0..(x - 1), w>> \in StrictSubsetOrdering(Nat)
    BY <1>3, <1>5 DEF StrictSubsetOrdering
  <1> QED BY <1>2, <1>5, <1>6

WithLine(hs, c, s, line) == IF ChannelFor(hs, line) = c THEN Append(s, line) ELSE s

AmongFirst(g, hs, c, lines, m) ==
    g = [n \in 0..m |-> IF n = 0 THEN <<>> ELSE WithLine(hs, c, g[n - 1], lines[n])]

LEMMA AmongExists ==
    ASSUME NEW hs, NEW c, NEW lines, NEW m \in Nat
    PROVE  \E g : AmongFirst(g, hs, c, lines, m)
  <1> DEFINE P == {k \in Nat : \E g : AmongFirst(g, hs, c, lines, k)}
  <1>1. 0 \in P
    <2>1. AmongFirst([n \in 0..0 |-> <<>>], hs, c, lines, 0)
      BY DEF AmongFirst
    <2> QED BY <2>1
  <1>2. ASSUME NEW k \in Nat, k \in P PROVE k + 1 \in P
    <2>1. PICK g : AmongFirst(g, hs, c, lines, k)
      BY <1>2
    <2> DEFINE f == [n \in 0..(k + 1) |-> IF n = 0 THEN <<>> ELSE WithLine(hs, c, g[n - 1], lines[n])]
    <2>2. \A n \in 0..k : f[n] = g[n]
      BY <2>1 DEF AmongFirst
    <2>3. \A n \in 0..(k + 1) : n # 0 => n - 1 \in 0..k
      OBVIOUS
    <2>4. ASSUME NEW n \in 0..(k + 1)
          PROVE  f[n] = IF n = 0 THEN <<>> ELSE WithLine(hs, c, f[n - 1], lines[n])
      <3>1. CASE n = 0
        BY <3>1
      <3>2. CASE n # 0
        <4>1. f[n - 1] = g[n - 1]
          BY <2>2, <2>3, <3>2
        <4>2. f[n] = WithLine(hs, c, g[n - 1], lines[n])
          BY <3>2
        <4> HIDE DEF f
        <4> QED BY <3>2, <4>1, <4>2
      <3> QED BY <3>1, <3>2
    <2>5. AmongFirst(f, hs, c, lines, k + 1)
      BY <2>4 DEF AmongFirst
    <2> QED BY <2>5
  <1> HIDE DEF P
  <1>3. m \in P
    BY <1>1, <1>2, NatSetInduction
  <1> QED BY <1>3 DEF P

LEMMA AmongDef ==
    ASSUME NEW hs, NEW c, NEW lines, Len(lines) \in Nat
    PROVE  \E g : AmongFirst(g, hs, c, lines, Len(lines)) /\ LinesFor(hs, c, lines) = g[Len(lines)]
  <1>1. LinesFor(hs, c, lines) = (CHOOSE g : AmongFirst(g, hs, c, lines, Len(lines)))[Len(lines)]
    BY DEF LinesFor, AmongFirst, WithLine
  <1> QED BY <1>1, AmongExists

LEMMA ForNone ==
    ASSUME NEW hs, NEW c
    PROVE  LinesFor(hs, c, <<>>) = <<>>
  <1>1. Len(<<>>) = 0
    OBVIOUS
  <1>2. PICK g : AmongFirst(g, hs, c, <<>>, 0) /\ LinesFor(hs, c, <<>>) = g[0]
    BY <1>1, AmongDef
  <1> QED BY <1>2 DEF AmongFirst

LEMMA ForAppend ==
    ASSUME NEW hs, NEW c, NEW R, NEW lines \in Seq(R), NEW x \in R
    PROVE  LinesFor(hs, c, Append(lines, x))
           = WithLine(hs, c, LinesFor(hs, c, lines), x)
  <1> DEFINE m == Len(lines)  more == Append(lines, x)
  <1>1. /\ m \in Nat /\ Len(more) = m + 1 /\ more[m + 1] = x
        /\ \A n \in 1..m : more[n] = lines[n]
    OBVIOUS
  <1> HIDE DEF m, more
  <1>2. PICK g : AmongFirst(g, hs, c, lines, m) /\ LinesFor(hs, c, lines) = g[m]
    BY <1>1, AmongDef DEF m
  <1>3. PICK f : AmongFirst(f, hs, c, more, m + 1) /\ LinesFor(hs, c, more) = f[m + 1]
    BY <1>1, AmongDef
  <1> DEFINE P == {n \in Nat : n <= m => f[n] = g[n]}
  <1>4. 0 \in P
    BY <1>1, <1>2, <1>3 DEF AmongFirst
  <1>5. ASSUME NEW n \in Nat, n \in P PROVE n + 1 \in P
    <2> SUFFICES ASSUME n + 1 <= m PROVE f[n + 1] = g[n + 1]
      OBVIOUS
    <2>1. n + 1 \in 0..m /\ n + 1 \in 0..(m + 1) /\ n + 1 # 0 /\ (n + 1) - 1 = n /\ f[n] = g[n]
          /\ more[n + 1] = lines[n + 1]
      BY <1>1, <1>5
    <2>2. g[n + 1] = WithLine(hs, c, g[n], lines[n + 1])
      BY <1>2, <2>1 DEF AmongFirst
    <2>3. f[n + 1] = WithLine(hs, c, f[n], more[n + 1])
      BY <1>3, <2>1 DEF AmongFirst
    <2> QED BY <2>1, <2>2, <2>3
  <1>6. f[m] = g[m]
    <2>1. m \in P
      <3> HIDE DEF P
      <3> QED BY <1>1, <1>4, <1>5, NatSetInduction
    <2> QED BY <1>1, <2>1
  <1>7. f[m + 1] = WithLine(hs, c, f[m], x)
    <2>1. m + 1 \in 0..(m + 1) /\ m + 1 # 0 /\ (m + 1) - 1 = m
      BY <1>1
    <2> QED BY <1>1, <1>3, <2>1 DEF AmongFirst
  <1> QED BY <1>2, <1>3, <1>6, <1>7 DEF more

LEMMA ForTyped ==
    ASSUME NEW hs, NEW c, NEW R, NEW lines \in Seq(R)
    PROVE  LinesFor(hs, c, lines) \in Seq(R)
  <1> DEFINE P == {n \in Nat : \A s \in Seq(R) : Len(s) = n => LinesFor(hs, c, s) \in Seq(R)}
  <1>1. 0 \in P
    <2>1. \A s \in Seq(R) : Len(s) = 0 => s = <<>>
      OBVIOUS
    <2> QED BY <2>1, ForNone
  <1>2. ASSUME NEW n \in Nat, n \in P PROVE n + 1 \in P
    <2> SUFFICES ASSUME NEW s \in Seq(R), Len(s) = n + 1 PROVE LinesFor(hs, c, s) \in Seq(R)
      OBVIOUS
    <2> DEFINE t == SubSeq(s, 1, n)  x == s[n + 1]
    <2>1. t \in Seq(R) /\ Len(t) = n /\ x \in R /\ s = Append(t, x)
      OBVIOUS
    <2> HIDE DEF t, x
    <2>2. LinesFor(hs, c, t) \in Seq(R)
      BY <1>2, <2>1
    <2>3. LinesFor(hs, c, s) = WithLine(hs, c, LinesFor(hs, c, t), x)
      BY <2>1, ForAppend
    <2> QED BY <2>1, <2>2, <2>3 DEF WithLine
  <1> HIDE DEF P
  <1>3. Len(lines) \in P
    BY <1>1, <1>2, NatSetInduction
  <1> QED BY <1>3 DEF P

(* The lines of a channel among those of one notification after another.   *)
LEMMA ForConcat ==
    ASSUME NEW hs, NEW c, NEW R, NEW a \in Seq(R), NEW b \in Seq(R)
    PROVE  LinesFor(hs, c, a \o b) = LinesFor(hs, c, a) \o LinesFor(hs, c, b)
  <1> DEFINE F(s) == LinesFor(hs, c, s)
             P == {n \in Nat : \A s \in Seq(R) : Len(s) = n => F(a \o s) = F(a) \o F(s)}
  <1>0. \A s \in Seq(R) : F(s) \in Seq(R)
    BY ForTyped
  <1>1. 0 \in P
    <2>1. \A s \in Seq(R) : Len(s) = 0 => s = <<>>
      OBVIOUS
    <2>2. F(<<>>) = <<>>
      BY ForNone
    <2>3. a \o <<>> = a /\ F(a) \o <<>> = F(a)
      <3> HIDE DEF F
      <3> QED BY <1>0
    <2> HIDE DEF F
    <2> QED BY <2>1, <2>2, <2>3
  <1>2. ASSUME NEW n \in Nat, n \in P PROVE n + 1 \in P
    <2> SUFFICES ASSUME NEW s \in Seq(R), Len(s) = n + 1 PROVE F(a \o s) = F(a) \o F(s)
      OBVIOUS
    <2> DEFINE t == SubSeq(s, 1, n)  x == s[n + 1]
    <2>1. t \in Seq(R) /\ Len(t) = n /\ x \in R /\ s = Append(t, x)
      OBVIOUS
    <2> HIDE DEF t, x
    <2>2. F(a \o t) = F(a) \o F(t)
      BY <1>2, <2>1
    <2>3. a \o t \in Seq(R) /\ a \o s = Append(a \o t, x)
      BY <2>1
    <2>4. F(s) = WithLine(hs, c, F(t), x) /\ F(a \o s) = WithLine(hs, c, F(a \o t), x)
      <3>1. LinesFor(hs, c, Append(t, x)) = WithLine(hs, c, LinesFor(hs, c, t), x)
        BY <2>1, ForAppend
      <3> DEFINE at == a \o t
      <3>2. at \in Seq(R)
        BY <2>3
      <3> HIDE DEF at
      <3>3. LinesFor(hs, c, Append(at, x)) = WithLine(hs, c, LinesFor(hs, c, at), x)
        BY <2>1, <3>2, ForAppend
      <3> QED BY <2>1, <2>3, <3>1, <3>3, Zenon DEF at
    <2>5. F(a) \in Seq(R) /\ F(t) \in Seq(R)
      BY <1>0, <2>1
    <2> HIDE DEF F
    <2>6. F(a) \o Append(F(t), x) = Append(F(a) \o F(t), x)
      BY <2>1, <2>5
    <2> QED BY <2>2, <2>4, <2>6 DEF WithLine
  <1> HIDE DEF P
  <1>3. Len(b) \in P
    BY <1>1, <1>2, NatSetInduction
  <1> QED BY <1>3 DEF P

(* Sequences put together.                                                 *)
LEMMA HeadFirst ==
    ASSUME NEW R, NEW s \in Seq(R), s # <<>>
    PROVE  Head(s) \in R /\ Tail(s) \in Seq(R) /\ s = <<Head(s)>> \o Tail(s)
  <1>1. s = <<Head(s)>> \o Tail(s)
    OBVIOUS
  <1> QED BY <1>1

(* An element that leads the third sequence may end the second.            *)
LEMMA ConcatTyped ==
    \A a, b \in Seq(LogLine) : a \o b \in Seq(LogLine)
  OBVIOUS

(* Named, so that a proof finds it without looking into concatenations.    *)
Associates(a, b, c) == (a \o b) \o c = a \o (b \o c)

LEMMA LinesAssociate ==
    \A a, b, c \in Seq(LogLine) : Associates(a, b, c)
  BY ConcatAssociative DEF Associates

(* A line that is sent goes from the front of the stream to the channel.   *)
MovesBack(r, w, s, x) == r \o Append(w, x) \o s = r \o w \o (<<x>> \o s)

LEMMA MoveBack ==
    \A r, w, s \in Seq(LogLine), x \in LogLine : MovesBack(r, w, s, x)
  <1> SUFFICES ASSUME NEW r \in Seq(LogLine), NEW w \in Seq(LogLine), NEW s \in Seq(LogLine),
                      NEW x \in LogLine
               PROVE  r \o Append(w, x) \o s = r \o w \o (<<x>> \o s)
    BY DEF MovesBack
  <1> DEFINE one == <<x>>
  <1>1. one \in Seq(LogLine) /\ Append(w, x) = w \o one
    BY AppendIsConcat
  <1> HIDE DEF one
  <1>2. r \o (w \o one) = (r \o w) \o one
    <2>1. Associates(r, w, one)
      BY <1>1, LinesAssociate, Zenon
    <2> QED
      BY <2>1, Zenon DEF Associates
  <1>3. r \o w \in Seq(LogLine)
    BY ConcatTyped
  <1>4. ((r \o w) \o one) \o s = (r \o w) \o (one \o s)
    <2>1. Associates(r \o w, one, s)
      BY <1>1, <1>3, LinesAssociate, Zenon
    <2> QED
      BY <2>1, Zenon DEF Associates
  <1> QED BY <1>1, <1>2, <1>4, Zenon DEF one

LEMMA ForOne ==
    ASSUME NEW hs, NEW c, NEW R, NEW x \in R
    PROVE  LinesFor(hs, c, <<x>>) = WithLine(hs, c, <<>>, x)
  <1>1. <<>> \in Seq(R)
    OBVIOUS
  <1>2. Append(<<>>, x) = <<x>>
    OBVIOUS
  <1>0. \A s \in Seq(R) : LinesFor(hs, c, Append(s, x)) = WithLine(hs, c, LinesFor(hs, c, s), x)
    BY ForAppend
  <1>3. LinesFor(hs, c, Append(<<>>, x)) = WithLine(hs, c, LinesFor(hs, c, <<>>), x)
    BY <1>0, <1>1
  <1>4. LinesFor(hs, c, <<>>) = <<>>
    BY ForNone
  <1> QED BY <1>2, <1>3, <1>4, Zenon

LEMMA ForHead ==
    ASSUME NEW hs, NEW c, NEW R, NEW lines \in Seq(R), lines # <<>>
    PROVE  LinesFor(hs, c, lines)
           = WithLine(hs, c, <<>>, Head(lines)) \o LinesFor(hs, c, Tail(lines))
  <1>1. Head(lines) \in R /\ Tail(lines) \in Seq(R) /\ lines = <<Head(lines)>> \o Tail(lines)
    BY HeadFirst
  <1>2. <<Head(lines)>> \in Seq(R)
    BY <1>1
  <1>3. LinesFor(hs, c, <<Head(lines)>>) = WithLine(hs, c, <<>>, Head(lines))
    BY <1>1, ForOne
  <1>0. \A a, b \in Seq(R) : LinesFor(hs, c, a \o b) = LinesFor(hs, c, a) \o LinesFor(hs, c, b)
    BY ForConcat
  <1>4. LinesFor(hs, c, <<Head(lines)>> \o Tail(lines))
        = LinesFor(hs, c, <<Head(lines)>>) \o LinesFor(hs, c, Tail(lines))
    BY <1>0, <1>1, <1>2
  <1> QED BY <1>1, <1>3, <1>4, Zenon

----------------------------------------------------------------------------
(* What a receiver has taken, what waits in its channel and what waits in  *)
(* the stream.  The handlers change only before the first notification.    *)
FlowTyped ==
    /\ stream \in Seq(LogLine)
    /\ channel \in [Channels -> Seq(LogLine)]
    /\ open \subseteq Channels
    /\ received \in [Channels -> Seq(LogLine)]
    /\ notified \in Seq(LogLine)

NothingBeforeStart ==
    ctl = "building" => stream = <<>> /\ notified = <<>> /\ connected = FALSE

FlowInv == FlowTyped /\ NothingBeforeStart /\ NothingSkipped

LEMMA FlowInit == Init => FlowInv
  <1> SUFFICES ASSUME Init PROVE FlowInv
    OBVIOUS
  <1>1. \A c : LinesFor(event_handlers, c, <<>>) = <<>>
    BY ForNone
  <1>2. <<>> \o <<>> \o <<>> = <<>>
    OBVIOUS
  <1>3. NothingSkipped
    BY <1>1, <1>2 DEF Init, NothingSkipped, For
  <1> QED BY <1>3 DEF Init, FlowInv, FlowTyped, NothingBeforeStart

LEMMA FlowUntouched ==
    ASSUME FlowInv, UNCHANGED <<event_handlers, flow, open>>, ctl' # "building"
    PROVE  FlowInv'
  BY DEF FlowInv, FlowTyped, NothingBeforeStart, NothingSkipped, For, flow

LEMMA FlowHandleLine ==
    ASSUME FlowInv, HandleLine
    PROVE  FlowInv'
  <1> DEFINE h == Head(stream)  rest == Tail(stream)  hs == event_handlers  d == ChannelFor(hs, h)
  <1>1. /\ h \in LogLine /\ rest \in Seq(LogLine) /\ stream # <<>>
    BY DEF HandleLine, FlowInv, FlowTyped
  <1>2. /\ ctl = "streaming" /\ ctl' = ctl /\ event_handlers' = hs /\ received' = received
        /\ notified' = notified /\ open' = open /\ stream' = rest
        /\ channel' = IF d \in open THEN [channel EXCEPT ![d] = Append(@, h)] ELSE channel
    BY DEF HandleLine, config
  <1>3. FlowTyped'
    BY <1>1, <1>2 DEF FlowInv, FlowTyped
  <1>4. ASSUME NEW c \in open
        PROVE  received[c] \o channel'[c] \o LinesFor(hs, c, rest) = LinesFor(hs, c, notified)
    <2> DEFINE r == received[c]  w == channel[c]  s == LinesFor(hs, c, rest)  none == <<>>
    <2>1. r \in Seq(LogLine) /\ w \in Seq(LogLine) /\ s \in Seq(LogLine)
      BY <1>1, ForTyped DEF FlowInv, FlowTyped
    <2>2. r \o w \o LinesFor(hs, c, stream) = LinesFor(hs, c, notified)
      BY DEF FlowInv, NothingSkipped, For
    <2>3. LinesFor(hs, c, stream) = WithLine(hs, c, none, h) \o s
      BY <1>1, ForHead DEF FlowInv, FlowTyped
    <2>4. CASE d = c
      <3>1. channel'[c] = Append(w, h)
        BY <1>2, <2>4 DEF FlowInv, FlowTyped
      <3>2. WithLine(hs, c, none, h) = <<h>>
        BY <2>4 DEF WithLine
      <3> DEFINE one == <<h>>
      <3> HIDE DEF r, w, s, h, rest, d, hs, one
      <3>3. r \o Append(w, h) \o s = r \o w \o (one \o s)
        <4>1. MovesBack(r, w, s, h)
          BY <1>1, <2>1, MoveBack, Zenon
        <4> QED BY <4>1, Zenon DEF MovesBack, one
      <3>4. r \o channel'[c] \o s = r \o w \o LinesFor(hs, c, stream)
        BY <2>3, <3>1, <3>2, <3>3, Zenon DEF one
      <3> QED BY <2>2, <3>4, Zenon DEF r, s, w
    <2>5. CASE d # c
      <3>1. channel'[c] = w
        BY <1>2, <2>5 DEF FlowInv, FlowTyped
      <3>2. WithLine(hs, c, none, h) = none
        BY <2>5 DEF WithLine
      <3> HIDE DEF r, w, s, h
      <3>3. none \o s = s
        BY <2>1
      <3>4. r \o channel'[c] \o s = r \o w \o LinesFor(hs, c, stream)
        BY <2>3, <3>1, <3>2, <3>3, Zenon
      <3> QED BY <2>2, <3>4, Zenon DEF r, s, w
    <2> QED BY <2>4, <2>5
  <1>5. NothingSkipped'
    BY <1>2, <1>4 DEF NothingSkipped, For
  <1>6. NothingBeforeStart'
    BY <1>2 DEF NothingBeforeStart
  <1> QED BY <1>3, <1>5, <1>6 DEF FlowInv

LEMMA FlowNotify ==
    ASSUME FlowInv, EventClientAssumption, NEW log \in Logs, Notify(log)
    PROVE  FlowInv'
  <1> DEFINE hs == event_handlers
  <1>1. log \in Seq(LogLine)
    BY DEF EventClientAssumption
  <1>2. /\ connected /\ ctl' = ctl /\ event_handlers' = hs /\ received' = received
        /\ channel' = channel /\ open' = open
        /\ stream' = stream \o log /\ notified' = notified \o log
    BY DEF Notify, config
  <1>3. FlowTyped'
    BY <1>1, <1>2 DEF FlowInv, FlowTyped
  <1>4. ASSUME NEW c \in open
        PROVE  received[c] \o channel[c] \o LinesFor(hs, c, stream \o log)
               = LinesFor(hs, c, notified \o log)
    <2> DEFINE r == received[c]  w == channel[c]  s == LinesFor(hs, c, stream)
               l == LinesFor(hs, c, log)  all == LinesFor(hs, c, notified)
    <2>0. stream \in Seq(LogLine) /\ notified \in Seq(LogLine)
      BY DEF FlowInv, FlowTyped
    <2>1. /\ r \in Seq(LogLine) /\ w \in Seq(LogLine) /\ s \in Seq(LogLine)
          /\ l \in Seq(LogLine)
      BY <1>1, ForTyped DEF FlowInv, FlowTyped
    <2>2. r \o w \o s = all
      BY DEF FlowInv, NothingSkipped, For
    <2>3. LinesFor(hs, c, stream \o log) = s \o l
      BY <1>1, <2>0, ForConcat
    <2>4. LinesFor(hs, c, notified \o log) = all \o l
      BY <1>1, <2>0, ForConcat
    <2> HIDE DEF r, w, s, l, all
    <2>5. r \o w \in Seq(LogLine)
      BY <2>1, ConcatTyped, Zenon
    <2>6. ((r \o w) \o s) \o l = (r \o w) \o (s \o l)
      <3>1. Associates(r \o w, s, l)
        BY <2>1, <2>5, LinesAssociate, Zenon
      <3> QED
        BY <3>1, Zenon DEF Associates
    <2> QED BY <2>2, <2>3, <2>4, <2>6, Zenon DEF r, w
  <1>5. NothingSkipped'
    BY <1>2, <1>4 DEF NothingSkipped, For
  <1>6. NothingBeforeStart'
    BY <1>2 DEF FlowInv, NothingBeforeStart
  <1> QED BY <1>3, <1>5, <1>6 DEF FlowInv

LEMMA FlowReceive ==
    ASSUME FlowInv, NEW b \in Channels, Receive(b)
    PROVE  FlowInv'
  <1> DEFINE hs == event_handlers
  <1>1. /\ ctl' = ctl /\ event_handlers' = hs /\ connected' = connected
        /\ open' = open /\ stream' = stream /\ notified' = notified
        /\ channel[b] # <<>>
        /\ received' = [received EXCEPT ![b] = Append(@, Head(channel[b]))]
        /\ channel' = [channel EXCEPT ![b] = Tail(@)]
    BY DEF Receive, config
  <1>2. channel[b] \in Seq(LogLine) /\ received[b] \in Seq(LogLine)
    BY DEF FlowInv, FlowTyped
  <1>3. Head(channel[b]) \in LogLine /\ Tail(channel[b]) \in Seq(LogLine)
    BY <1>1, <1>2
  <1>4. FlowTyped'
    BY <1>1, <1>2, <1>3 DEF FlowInv, FlowTyped
  <1>5. Append(received[b], Head(channel[b])) \o Tail(channel[b]) = received[b] \o channel[b]
    <2> DEFINE r == received[b]  w == channel[b]  h == Head(w)  rest == Tail(w)  one == <<h>>
    <2>1. h \in LogLine /\ rest \in Seq(LogLine) /\ w = one \o rest
      BY <1>1, <1>2, HeadFirst
    <2>2. r \in Seq(LogLine) /\ one \in Seq(LogLine)
      BY <1>2, <2>1
    <2>3. Append(r, h) = r \o one
      BY <2>1, <2>2, AppendIsConcat
    <2> HIDE DEF r, w, h, rest, one
    <2>4. (r \o one) \o rest = r \o (one \o rest)
      <3>1. Associates(r, one, rest)
        BY <2>1, <2>2, LinesAssociate, Zenon
      <3> QED
        BY <3>1, Zenon DEF Associates
    <2>5. Append(r, h) \o rest = r \o w
      BY <2>1, <2>3, <2>4, Zenon
    <2> QED BY <2>5 DEF r, w, h, rest
  <1>6. \A c \in Channels : received'[c] \o channel'[c] = received[c] \o channel[c]
    BY <1>1, <1>5 DEF FlowInv, FlowTyped
  <1>7. NothingSkipped'
    <2> SUFFICES ASSUME NEW c \in open
                 PROVE  received'[c] \o channel'[c] \o LinesFor(hs, c, stream)
                        = LinesFor(hs, c, notified)
      BY <1>1 DEF NothingSkipped, For
    <2>1. c \in Channels
      BY DEF FlowInv, FlowTyped
    <2>2. received[c] \o channel[c] \o LinesFor(hs, c, stream) = LinesFor(hs, c, notified)
      BY DEF FlowInv, NothingSkipped, For
    <2> QED BY <1>6, <2>1, <2>2, Zenon
  <1>8. NothingBeforeStart'
    BY <1>1 DEF FlowInv, NothingBeforeStart
  <1> QED BY <1>4, <1>7, <1>8 DEF FlowInv

LEMMA FlowDropReceiver ==
    ASSUME FlowInv, NEW b \in Channels, DropReceiver(b)
    PROVE  FlowInv'
  <1>1. /\ ctl' = ctl /\ event_handlers' = event_handlers /\ connected' = connected
        /\ open' = open \ {b} /\ stream' = stream /\ notified' = notified
        /\ received' = received /\ channel' = [channel EXCEPT ![b] = <<>>]
    BY DEF DropReceiver, config
  <1>2. FlowTyped'
    BY <1>1 DEF FlowInv, FlowTyped
  <1>3. NothingSkipped'
    <2> SUFFICES ASSUME NEW c \in open, c # b
                 PROVE  received[c] \o channel'[c] \o LinesFor(event_handlers, c, stream)
                        = LinesFor(event_handlers, c, notified)
      BY <1>1 DEF NothingSkipped, For
    <2>1. channel'[c] = channel[c]
      BY <1>1 DEF FlowInv, FlowTyped
    <2> QED BY <2>1 DEF FlowInv, NothingSkipped, For
  <1>4. NothingBeforeStart'
    BY <1>1 DEF FlowInv, NothingBeforeStart
  <1> QED BY <1>2, <1>3, <1>4 DEF FlowInv

(* Nothing was notified while the handlers are still given.                *)
LEMMA FlowBuilding ==
    ASSUME FlowInv, ctl = "building", UNCHANGED <<connected, flow, open>>
    PROVE  FlowInv'
  <1>1. /\ stream = <<>> /\ notified = <<>> /\ connected = FALSE
        /\ stream' = stream /\ notified' = notified /\ connected' = connected
        /\ received' = received /\ channel' = channel /\ open' = open
    BY DEF FlowInv, NothingBeforeStart, flow
  <1>2. \A hs, c : LinesFor(hs, c, <<>>) = <<>>
    BY ForNone
  <1>3. NothingSkipped'
    <2> SUFFICES ASSUME NEW c \in open
                 PROVE  received[c] \o channel[c] \o LinesFor(event_handlers', c, stream)
                        = LinesFor(event_handlers', c, notified)
      BY <1>1 DEF NothingSkipped, For
    <2>1. received[c] \o channel[c] \o LinesFor(event_handlers, c, stream)
          = LinesFor(event_handlers, c, notified)
      BY DEF FlowInv, NothingSkipped, For
    <2> QED BY <1>1, <1>2, <2>1, Zenon
  <1>4. FlowTyped' /\ NothingBeforeStart'
    BY <1>1 DEF FlowInv, FlowTyped, NothingBeforeStart
  <1> QED BY <1>3, <1>4 DEF FlowInv

LEMMA FlowNext ==
    ASSUME EventClientAssumption, FlowInv, [Next]_vars
    PROVE  FlowInv'
  <1>1. ASSUME NEW limit, SetMaxRetries(limit) PROVE FlowInv'
    BY <1>1, FlowBuilding DEF SetMaxRetries
  <1>2. ASSUME NEW d, NEW c, AddEventHandler(d, c) PROVE FlowInv'
    BY <1>2, FlowBuilding DEF AddEventHandler
  <1>3. CASE Start
    BY <1>3, FlowUntouched DEF Start, config
  <1>4. CASE Connect
    BY <1>4, FlowUntouched DEF Connect, config
  <1>5. CASE ConnectPanics
    BY <1>5, FlowUntouched DEF ConnectPanics, config
  <1>6. CASE Subscribed
    BY <1>6, FlowUntouched DEF Subscribed, config
  <1>7. CASE SubscribeFailed
    BY <1>7, FlowUntouched DEF SubscribeFailed, config
  <1>8. CASE Wake
    BY <1>8, FlowUntouched DEF Wake, AfterIteration, config
  <1>9. CASE HandleLine
    BY <1>9, FlowHandleLine
  <1>10. CASE StreamEnds
    BY <1>10, FlowUntouched DEF StreamEnds, AfterIteration, config
  <1>11. ASSUME NEW log \in Logs, Notify(log) PROVE FlowInv'
    BY <1>11, FlowNotify
  <1>12. CASE CloseConnection
    BY <1>12 DEF CloseConnection, config, flow, FlowInv, FlowTyped, NothingBeforeStart,
       NothingSkipped, For
  <1>13. ASSUME NEW c \in Channels, Receive(c) PROVE FlowInv'
    BY <1>13, FlowReceive
  <1>14. ASSUME NEW c \in Channels, DropReceiver(c) PROVE FlowInv'
    BY <1>14, FlowDropReceiver
  <1>15. CASE UNCHANGED vars
    BY <1>15 DEF vars, config, flow, FlowInv, FlowTyped, NothingBeforeStart, NothingSkipped, For
  <1> QED BY <1>1, <1>2, <1>3, <1>4, <1>5, <1>6, <1>7, <1>8, <1>9, <1>10, <1>11, <1>12, <1>13,
             <1>14, <1>15 DEF Next, Client, Environment

(* No event is lost, repeated or put behind a later one of its type        *)
(* between the node's notification and a receiver that exists, with any    *)
(* capacities of the channels, over closed connections and reconnections,  *)
(* dropped receivers and lines that are no events: the loop of             *)
(* start_pubsub takes every line of a notification and sends every event   *)
(* that parses before it takes the next.                                   *)
THEOREM NothingEverSkipped == Spec => []NothingSkipped
  <1>1. Init => FlowInv
    BY FlowInit
  <1>2. FlowInv /\ [Next]_vars => FlowInv'
    BY FlowNext, EventClientAssumption
  <1>3. FlowInv => NothingSkipped
    BY DEF FlowInv
  <1> QED BY <1>1, <1>2, <1>3, PTL DEF Spec
=============================================================================
