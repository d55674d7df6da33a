-------------------------- MODULE FeedUpdatesProofs --------------------------
(***************************************************************************)
(* Proofs about FeedUpdates: the ring is always in the order of time from  *)
(* the place behind its index around to the index, so what an update       *)
(* replaces in a full ring is the oldest of all, and the search for the    *)
(* valid updates misses none; the quickselect finds the median of them,    *)
(* and the truncated mean and sums of Welford's algorithm stay in bounds.  *)
(***************************************************************************)
EXTENDS FeedUpdates, FiniteSetTheorems, WellFoundedInduction, TLAPS

(* The place i (from 1) comes before j when the ring is read from the      *)
(* place behind c around to c.                                             *)
Before(i, j, c) == IF (i <= c) = (j <= c) THEN i <= j ELSE i > c

InOrder(s, idx) ==
    \A i, j \in 1..Len(s) : Before(i, j, idx + 1) => s[i].timestamp <= s[j].timestamp

RingTyped(s, idx) ==
    /\ s \in Seq(Update)
    /\ Len(s) <= MAX_RESULTS
    /\ idx \in 0..(MAX_RESULTS - 1)
    /\ Len(s) < MAX_RESULTS => idx = (IF s = <<>> THEN 0 ELSE Len(s) - 1)

(* The inductive invariant: an index that is not on the newest update, or  *)
(* a gap in the ring, would let a newer update be replaced.                *)
RingInOrder == RingTyped(results, curr_idx) /\ InOrder(results, curr_idx)

LEMMA WrapOnce ==
    ASSUME NEW n \in Nat, NEW x \in 0..(n - 1)
    PROVE  (x + 1) % n = IF x + 1 = n THEN 0 ELSE x + 1
  BY SMT

(* What set_update does with an update that it takes.                      *)
LEMMA TakenUpdate ==
    ASSUME RingInOrder, NEW u \in Update, Taken(u)
    PROVE  LET s == set_update(u).results
               n == set_update(u).curr_idx
           IN  /\ RingTyped(s, n) /\ InOrder(s, n)
               /\ \A i \in 1..Len(results) :
                     \/ i \in 1..Len(s) /\ s[i] = results[i]
                     \/ /\ Len(results) = MAX_RESULTS
                        /\ \A j \in 1..Len(results) : results[i].timestamp <= results[j].timestamp
  <1> DEFINE c == curr_idx + 1
             s == set_update(u).results
             n == set_update(u).curr_idx
             k == n + 1
  <1>1. /\ results \in Seq(Update) /\ Len(results) \in Nat /\ Len(results) <= MAX_RESULTS
        /\ curr_idx \in 0..(MAX_RESULTS - 1)
        /\ MAX_RESULTS \in Nat \ {0}
        /\ Len(results) < MAX_RESULTS => curr_idx = (IF results = <<>> THEN 0 ELSE Len(results) - 1)
    BY FeedUpdatesAssumption DEF RingInOrder, RingTyped
  <1>2. \A i \in 1..Len(results) : results[i].timestamp \in Nat
    <2>1. \A i \in 1..Len(results) : results[i] \in Update
      BY <1>1
    <2> QED BY <2>1 DEF Update
  <1>3. u.timestamp \in Nat
    BY DEF Update
  <1>4. \A i, j \in 1..Len(results) : Before(i, j, c) => results[i].timestamp <= results[j].timestamp
    BY DEF RingInOrder, InOrder
  <1>5. NextIdx = IF c = MAX_RESULTS THEN 0 ELSE c
    BY <1>1, WrapOnce DEF NextIdx
  <1>6. results # <<>> => u.timestamp >= results[c].timestamp
    BY DEF Taken, UpdateAt, UpdateState
  <1>7. CASE results = <<>>
    <2>1. s = <<u>> /\ n = curr_idx /\ curr_idx = 0 /\ Len(results) = 0
      BY <1>1, <1>7 DEF set_update
    <2>2. Len(s) = 1 /\ s[1] = u /\ s \in Seq(Update)
      BY <2>1
    <2>3. RingTyped(s, n) /\ InOrder(s, n)
      BY <1>1, <1>3, <2>1, <2>2 DEF RingTyped, InOrder
    <2> QED BY <2>1, <2>3
  <1>8. CASE results # <<>> /\ Len(results) < MAX_RESULTS
    <2>1. c = Len(results) /\ c \in 1..(MAX_RESULTS - 1)
      BY <1>1, <1>8
    <2>2. s = Append(results, u) /\ n = c
      BY <1>5, <1>8, <2>1 DEF set_update
    <2>3. Len(s) = c + 1 /\ s \in Seq(Update) /\ s[c + 1] = u
          /\ \A i \in 1..c : s[i] = results[i]
      BY <1>1, <2>1, <2>2
    <2>4. RingTyped(s, n)
      BY <1>1, <2>1, <2>2, <2>3 DEF RingTyped
    <2>5. ASSUME NEW i \in 1..Len(s), NEW j \in 1..Len(s), Before(i, j, n + 1)
          PROVE  s[i].timestamp <= s[j].timestamp
      <3>1. i <= j
        BY <2>1, <2>2, <2>3, <2>5 DEF Before
      <3>2. CASE j <= c
        <4>1. i \in 1..Len(results) /\ j \in 1..Len(results) /\ Before(i, j, c)
          BY <2>1, <3>1, <3>2 DEF Before
        <4> QED BY <1>4, <2>1, <2>3, <4>1
      <3>3. CASE j = c + 1 /\ i <= c
        <4>1. i \in 1..Len(results) /\ c \in 1..Len(results) /\ Before(i, c, c)
          BY <2>1, <3>3 DEF Before
        <4>2. results[i].timestamp <= results[c].timestamp
          BY <1>4, <4>1
        <4>3. s[i] = results[i] /\ s[j] = u
          BY <2>1, <2>3, <3>3
        <4> QED BY <1>2, <1>3, <1>6, <1>8, <4>1, <4>2, <4>3
      <3>4. CASE j = c + 1 /\ i = c + 1
        BY <1>3, <2>3, <3>4
      <3> QED BY <2>1, <2>3, <3>1, <3>2, <3>3, <3>4
    <2> QED BY <2>1, <2>3, <2>4, <2>5 DEF InOrder
  <1>9. CASE results # <<>> /\ Len(results) = MAX_RESULTS
    <2>1. c \in 1..Len(results) /\ k \in 1..Len(results) /\ n = NextIdx
          /\ k = (IF c = Len(results) THEN 1 ELSE c + 1) /\ n \in 0..(MAX_RESULTS - 1)
      BY <1>1, <1>5, <1>9 DEF set_update
    <2>2. s = [results EXCEPT ![k] = u]
      BY <1>9, <2>1 DEF set_update
    <2>3. Len(s) = Len(results) /\ s \in Seq(Update) /\ s[k] = u
          /\ \A i \in 1..Len(results) : i # k => s[i] = results[i]
      BY <1>1, <2>1, <2>2
    <2>4. RingTyped(s, n)
      <3> HIDE DEF n, s
      <3> QED BY <1>1, <1>9, <2>1, <2>3 DEF RingTyped
    <2>5. \A j \in 1..Len(results) : results[k].timestamp <= results[j].timestamp
      <3>1. \A j \in 1..Len(results) : Before(k, j, c)
        BY <1>1, <2>1 DEF Before
      <3> QED BY <1>4, <2>1, <3>1
    <2>6. ASSUME NEW i \in 1..Len(s), NEW j \in 1..Len(s), Before(i, j, k)
          PROVE  s[i].timestamp <= s[j].timestamp
      <3>1. CASE i = k
        <4>1. j = k
          BY <1>1, <2>1, <2>3, <2>6, <3>1 DEF Before
        <4> QED BY <1>3, <2>3, <3>1, <4>1
      <3>2. CASE i # k /\ j = k
        <4>1. Before(i, c, c)
          BY <1>1, <2>1, <2>3 DEF Before
        <4>2. results[i].timestamp <= results[c].timestamp
          BY <1>4, <2>1, <2>3, <4>1
        <4>3. s[i] = results[i] /\ s[j] = u
          BY <2>3, <3>2
        <4> QED BY <1>2, <1>3, <1>6, <1>9, <2>1, <2>3, <4>2, <4>3
      <3>3. CASE i # k /\ j # k
        <4>1. Before(i, j, c)
          BY <1>1, <2>1, <2>3, <2>6, <3>3 DEF Before
        <4> QED BY <1>4, <2>3, <3>3, <4>1
      <3> QED BY <3>1, <3>2, <3>3
    <2>7. ASSUME NEW i \in 1..Len(results)
          PROVE  \/ i \in 1..Len(s) /\ s[i] = results[i]
                 \/ \A j \in 1..Len(results) : results[i].timestamp <= results[j].timestamp
      BY <2>3, <2>5
    <2> QED BY <1>9, <2>4, <2>6, <2>7 DEF InOrder
  <1> QED BY <1>1, <1>7, <1>8, <1>9

(* The index is on the update that was taken.                              *)
LEMMA TakenPlace ==
    ASSUME RingInOrder, NEW u \in Update, Taken(u)
    PROVE  LET s == set_update(u).results
               n == set_update(u).curr_idx
           IN  Len(s) > 0 /\ s[n + 1] = u
  <1> DEFINE c == curr_idx + 1
  <1>1. /\ results \in Seq(Update) /\ Len(results) \in Nat /\ Len(results) <= MAX_RESULTS
        /\ curr_idx \in 0..(MAX_RESULTS - 1) /\ MAX_RESULTS \in Nat \ {0}
        /\ Len(results) < MAX_RESULTS => curr_idx = (IF results = <<>> THEN 0 ELSE Len(results) - 1)
    BY FeedUpdatesAssumption DEF RingInOrder, RingTyped
  <1>2. NextIdx = IF c = MAX_RESULTS THEN 0 ELSE c
    BY <1>1, WrapOnce DEF NextIdx
  <1>3. CASE results = <<>>
    <2>1. set_update(u).results = <<u>> /\ set_update(u).curr_idx = 0
      BY <1>1, <1>3 DEF set_update
    <2> QED BY <2>1
  <1>4. CASE results # <<>> /\ Len(results) < MAX_RESULTS
    <2>1. set_update(u).results = Append(results, u) /\ set_update(u).curr_idx = Len(results)
      BY <1>1, <1>2, <1>4 DEF set_update
    <2> QED BY <1>1, <2>1
  <1>5. CASE results # <<>> /\ Len(results) = MAX_RESULTS
    <2>1. set_update(u).results = [results EXCEPT ![NextIdx + 1] = u] /\ set_update(u).curr_idx = NextIdx
      BY <1>5 DEF set_update
    <2>2. NextIdx + 1 \in 1..Len(results)
      BY <1>1, <1>2, <1>5
    <2> QED BY <1>1, <2>1, <2>2
  <1> QED BY <1>1, <1>3, <1>4, <1>5

(* The next step of the ring: it keeps its order, and gives up the oldest. *)
OldestLeaves ==
    \A u \in ToSet(results) : u \notin ToSet(results') =>
       /\ Len(results) = MAX_RESULTS
       /\ \A w \in ToSet(results) : u.timestamp <= w.timestamp

LEMMA RingStep ==
    ASSUME RingInOrder, [Next]_vars
    PROVE  RingInOrder' /\ OldestLeaves
  <1>1. CASE results' = results /\ curr_idx' = curr_idx
    BY <1>1 DEF RingInOrder, RingTyped, InOrder, OldestLeaves
  <1>2. ASSUME NEW o \in Oracles, NEW v \in Results, NEW t \in 1..MaxTime, SubmitResult(o, v, t)
        PROVE  RingInOrder' /\ OldestLeaves
    <2> DEFINE u == [result |-> v, timestamp |-> t, oracle |-> o]
    <2>1. u \in Update
      BY FeedUpdatesAssumption DEF Update
    <2>2. results' = set_update(u).results /\ curr_idx' = set_update(u).curr_idx
      BY <1>2 DEF SubmitResult
    <2>3. CASE ~Taken(u)
      BY <1>1, <2>2, <2>3 DEF set_update, UpdateState
    <2>4. CASE Taken(u)
      <3> HIDE DEF u
      <3>1. /\ RingTyped(results', curr_idx') /\ InOrder(results', curr_idx')
            /\ \A i \in 1..Len(results) :
                  \/ i \in 1..Len(results') /\ results'[i] = results[i]
                  \/ /\ Len(results) = MAX_RESULTS
                     /\ \A j \in 1..Len(results) : results[i].timestamp <= results[j].timestamp
        BY <2>1, <2>2, <2>4, TakenUpdate
      <3>2. RingInOrder'
        BY <3>1 DEF RingInOrder, RingTyped, InOrder
      <3>3. ToSet(results) = {results[i] : i \in 1..Len(results)}
            /\ ToSet(results') = {results'[i] : i \in 1..Len(results')}
        BY <3>1 DEF RingInOrder, RingTyped, ToSet
      <3>4. OldestLeaves
        BY <3>1, <3>3 DEF OldestLeaves
      <3> QED BY <3>2, <3>4
    <2> QED BY <2>3, <2>4
  <1>3. CASE UNCHANGED vars
    BY <1>1, <1>3 DEF vars
  <1>4. ASSUME NEW staleness \in Stalenesses, NEW size \in SampleSizes, SetConfigs(staleness, size)
        PROVE  RingInOrder' /\ OldestLeaves
    BY <1>1, <1>4 DEF SetConfigs
  <1>5. CASE Tick
    BY <1>1, <1>5 DEF Tick
  <1> QED BY <1>2, <1>3, <1>4, <1>5 DEF Next

LEMMA RingInit == Init => RingInOrder
  BY FeedUpdatesAssumption DEF Init, RingInOrder, RingTyped, InOrder

(* set_update keeps the ring in the order of time, for rings of any size,  *)
(* any clocks of the oracles and any change of the configuration.          *)
THEOREM RingAlwaysInOrder == Spec => []RingInOrder
  <1>1. RingInOrder /\ [Next]_vars => RingInOrder'
    BY RingStep
  <1> QED BY <1>1, RingInit, PTL DEF Spec

(* set_update replaces an update only when the ring is full and no update  *)
(* of any oracle in it is older.                                           *)
THEOREM RingKeepsNewestAlways == Spec => RingKeepsNewest
  <1> DEFINE A == OldestLeaves
  <1>1. RingInOrder /\ [Next]_vars => A
    BY RingStep
  <1>2. Spec => [][A]_vars
    BY <1>1, RingAlwaysInOrder, PTL DEF Spec
  <1> QED BY <1>2 DEF RingKeepsNewest, OldestLeaves

----------------------------------------------------------------------------
(* Induction, stated for the set of the numbers that have a property, and  *)
(* functions defined by recursion up to a number.                          *)
LEMMA NatSetInduction ==
    ASSUME NEW P, 0 \in P, \A n \in Nat : n \in P => n + 1 \in P
    PROVE  Nat \subseteq P
  <1> SUFFICES ASSUME NEW m \in Nat, m \notin P PROVE FALSE
    OBVIOUS
  <1> DEFINE W == {0..n : n \in Nat \ P}
  <1>1. W \subseteq FiniteSubsetsOf(Nat) /\ W # {}
    <2>1. \A n \in Nat : 0..n \in SUBSET Nat /\ IsFiniteSet(0..n)
      BY FS_Interval
    <2>2. 0..m \in W
      OBVIOUS
    <2> QED BY <2>1, <2>2 DEF FiniteSubsetsOf
  <1>2. PICK w \in W : \A v \in W : <<v, w>> \notin StrictSubsetOrdering(Nat)
    <2> HIDE DEF W
    <2> QED BY <1>1, FS_StrictSubsetOrderingWellFounded, WFMin
  <1>3. PICK x \in Nat \ P : w = 0..x
    OBVIOUS
  <1>4. x - 1 \in Nat \ P
    OBVIOUS
  <1>5. /\ 0..(x - 1) \in W
        /\ 0..(x - 1) \subseteq 0..x /\ x \in 0..x /\ x \notin 0..(x - 1)
    BY <1>4
  <1>6. <<0..(x - 1), w>> \in StrictSubsetOrdering(Nat)
    BY <1>3, <1>5 DEF StrictSubsetOrdering
  <1> QED BY <1>2, <1>5, <1>6

LEMMA RangeInduction ==
    ASSUME NEW m \in Nat, NEW P, 0 \in P, \A n \in 1..m : n - 1 \in P => n \in P
    PROVE  0..m \subseteq P
  <1> DEFINE Q == {n \in Nat : n <= m => n \in P}
  <1>1. 0 \in Q
    OBVIOUS
  <1>2. ASSUME NEW n \in Nat, n \in Q PROVE n + 1 \in Q
    <2>1. CASE n + 1 <= m
      <3>1. n \in P /\ n + 1 \in 1..m /\ (n + 1) - 1 = n
        BY <1>2, <2>1
      <3>2. n + 1 \in P
        BY <3>1
      <3> QED BY <3>2
    <2> QED BY <2>1
  <1> HIDE DEF Q
  <1>3. Nat \subseteq Q
    BY <1>1, <1>2, NatSetInduction
  <1> QED BY <1>3 DEF Q

Iterates(g, x, F, m) == g[0] = x /\ \A n \in 1..m : g[n] = F[n][g[n - 1]]

LEMMA IterationExists ==
    ASSUME NEW X, NEW x \in X, NEW m \in Nat, NEW F \in [1..m -> [X -> X]]
    PROVE  \E g \in [0..m -> X] : Iterates(g, x, F, m)
  <1> DEFINE P == {k \in 0..m : \E g \in [0..k -> X] : Iterates(g, x, F, k)}
  <1>1. 0 \in P
    <2> DEFINE g == [n \in 0..0 |-> x]
    <2>1. g \in [0..0 -> X] /\ Iterates(g, x, F, 0)
      BY DEF Iterates
    <2> QED BY <2>1
  <1>2. ASSUME NEW k \in 1..m, k - 1 \in P PROVE k \in P
    <2>1. PICK g \in [0..(k - 1) -> X] : Iterates(g, x, F, k - 1)
      BY <1>2
    <2>2. F[k][g[k - 1]] \in X
      <3>1. k - 1 \in 0..(k - 1)
        OBVIOUS
      <3> QED BY <3>1
    <2> DEFINE f == [n \in 0..k |-> IF n = k THEN F[k][g[k - 1]] ELSE g[n]]
    <2>3. f \in [0..k -> X]
      <3>1. \A n \in 0..k : n # k => n \in 0..(k - 1)
        OBVIOUS
      <3> QED BY <2>2, <3>1
    <2>4. f[0] = x
      <3>1. 0 \in 0..k /\ 0 # k
        OBVIOUS
      <3> QED BY <2>1, <3>1 DEF Iterates
    <2>5. ASSUME NEW n \in 1..k PROVE f[n] = F[n][f[n - 1]]
      <3>1. n - 1 \in 0..k /\ n - 1 # k /\ n \in 0..k
        OBVIOUS
      <3>2. f[n - 1] = g[n - 1]
        BY <3>1
      <3>3. CASE n = k
        <4>1. f[n] = F[k][g[k - 1]]
          BY <3>1, <3>3
        <4> HIDE DEF f
        <4> QED BY <3>2, <3>3, <4>1
      <3>4. CASE n # k
        <4>1. n \in 1..(k - 1)
          BY <3>4
        <4>2. f[n] = g[n]
          BY <3>1, <3>4
        <4>3. g[n] = F[n][g[n - 1]]
          BY <2>1, <4>1 DEF Iterates
        <4> HIDE DEF f
        <4> QED BY <3>2, <4>2, <4>3
      <3> QED BY <3>3, <3>4
    <2> HIDE DEF f
    <2>6. Iterates(f, x, F, k)
      BY <2>4, <2>5 DEF Iterates
    <2> QED BY <2>3, <2>6
  <1> HIDE DEF P
  <1>3. 0..m \subseteq P
    BY <1>1, <1>2, RangeInduction
  <1>4. m \in 0..m
    OBVIOUS
  <1> QED BY <1>3, <1>4 DEF P

----------------------------------------------------------------------------
(* The ring read back from the newest update.                              *)
RingOk(st) == RingTyped(st.results, st.curr_idx) /\ InOrder(st.results, st.curr_idx)

LEMMA ModFacts ==
    ASSUME NEW n \in Nat, NEW c \in 0..(n - 1), NEW k \in 0..(n - 1)
    PROVE  (c - k) % n = IF k <= c THEN c - k ELSE c - k + n
  BY SMT

LEMMA BackFacts ==
    ASSUME NEW st, RingOk(st)
    PROVE  LET size == Len(st.results)
           IN  /\ size \in Nat
               /\ size > 0 => st.curr_idx \in 0..(size - 1)
               /\ \A k \in 1..size : Back(st, k) \in 0..(size - 1) /\ Back(st, 1) = st.curr_idx
               /\ \A i \in 0..(size - 1) : \E k \in 1..size : Back(st, k) = i
               /\ \A j, k \in 1..size : j <= k =>
                     UpdateAt(st, Back(st, k)).timestamp <= UpdateAt(st, Back(st, j)).timestamp
  <1> DEFINE size == Len(st.results)
             c == st.curr_idx
  <1>1. size \in Nat /\ (size > 0 => c \in 0..(size - 1))
    <2>1. st.results \in Seq(Update) /\ MAX_RESULTS \in Nat \ {0}
      BY FeedUpdatesAssumption DEF RingOk, RingTyped
    <2>2. size > 0 => st.results # <<>>
      OBVIOUS
    <2> QED BY <2>1, <2>2 DEF RingOk, RingTyped
  <1>2. ASSUME NEW k \in 1..size
        PROVE  Back(st, k) = IF k - 1 <= c THEN c - (k - 1) ELSE c - (k - 1) + size
    <2>1. k - 1 \in 0..(size - 1) /\ c \in 0..(size - 1)
      BY <1>1
    <2> HIDE DEF size, c
    <2>2. (c - (k - 1)) % size = IF k - 1 <= c THEN c - (k - 1) ELSE c - (k - 1) + size
      BY <1>1, <2>1, ModFacts
    <2> QED BY <2>2 DEF Back, size, c
  <1>3. ASSUME NEW k \in 1..size PROVE Back(st, k) \in 0..(size - 1) /\ Back(st, 1) = c
    <2>1. 1 \in 1..size
      BY <1>1
    <2> HIDE DEF size, c
    <2> QED BY <1>1, <1>2, <2>1
  <1>4. ASSUME NEW i \in 0..(size - 1) PROVE \E k \in 1..size : Back(st, k) = i
    <2>1. CASE i <= c
      <3>1. c - i + 1 \in 1..size
        BY <1>1, <2>1
      <3>2. Back(st, c - i + 1) = i
        <4> HIDE DEF size, c
        <4> QED BY <1>1, <1>2, <2>1, <3>1
      <3> QED BY <3>1, <3>2
    <2>2. CASE i > c
      <3>1. c - i + 1 + size \in 1..size
        BY <1>1, <2>2
      <3>2. Back(st, c - i + 1 + size) = i
        <4> HIDE DEF size, c
        <4> QED BY <1>1, <1>2, <2>2, <3>1
      <3> QED BY <3>1, <3>2
    <2> QED BY <1>1, <2>1, <2>2
  <1>5. ASSUME NEW j \in 1..size, NEW k \in 1..size, j <= k
        PROVE  UpdateAt(st, Back(st, k)).timestamp <= UpdateAt(st, Back(st, j)).timestamp
    <2> DEFINE a == Back(st, k) + 1  b == Back(st, j) + 1
    <2>1. a \in 1..size /\ b \in 1..size
      <3> HIDE DEF size
      <3> QED BY <1>1, <1>3
    <2>2. Before(a, b, c + 1)
      <3> HIDE DEF size, c
      <3> QED BY <1>1, <1>2, <1>5 DEF Before
    <2> HIDE DEF a, b
    <2>3. st.results[a].timestamp <= st.results[b].timestamp
      BY <2>1, <2>2 DEF RingOk, InOrder
    <2> QED BY <2>3 DEF UpdateAt, a, b
  <1> QED BY <1>1, <1>3, <1>4, <1>5

(* The search for the valid updates.                                       *)
IsSearch(g, st) ==
    g = [k \in 0..Len(st.results) |->
           IF k = 0 THEN <<>>
           ELSE IF Reached(st, k) THEN WithUnseen(st, g[k - 1], Back(st, k))
           ELSE g[k - 1]]

LEMMA SearchExists ==
    ASSUME NEW st, RingOk(st)
    PROVE  \E g : IsSearch(g, st) /\ valid_update_indices(st) = g[Len(st.results)]
  <1> DEFINE size == Len(st.results)
             X == Seq(0..(size - 1))
             F == [k \in 1..size |-> [valid \in X |->
                     IF Reached(st, k) THEN WithUnseen(st, valid, Back(st, k)) ELSE valid]]
  <1>1. size \in Nat /\ \A k \in 1..size : Back(st, k) \in 0..(size - 1)
    BY BackFacts
  <1>2. ASSUME NEW k \in 1..size, NEW valid \in X
        PROVE  WithUnseen(st, valid, Back(st, k)) \in X
    <2>1. Back(st, k) \in 0..(size - 1)
      BY <1>1
    <2> DEFINE b == Back(st, k)
    <2>2. WithUnseen(st, valid, b) = valid \/ WithUnseen(st, valid, b) = Append(valid, b)
      BY DEF WithUnseen
    <2> HIDE DEF size, b
    <2>3. Append(valid, b) \in X
      BY <2>1 DEF b
    <2> QED BY <2>2, <2>3 DEF b
  <1>3. F \in [1..size -> [X -> X]]
    <2> HIDE DEF X
    <2> QED BY <1>2
  <1>4. <<>> \in X
    OBVIOUS
  <1>5. PICK g \in [0..size -> X] : Iterates(g, <<>>, F, size)
    <2> HIDE DEF X, F
    <2> QED BY <1>1, <1>3, <1>4, IterationExists
  <1>6. ASSUME NEW k \in 1..size
        PROVE  g[k] = IF Reached(st, k) THEN WithUnseen(st, g[k - 1], Back(st, k)) ELSE g[k - 1]
    <2>1. k - 1 \in 0..size
      BY <1>1
    <2>2. g[k - 1] \in X
      BY <1>5, <2>1
    <2>3. g[k] = F[k][g[k - 1]]
      BY <1>5 DEF Iterates
    <2> HIDE DEF X
    <2> QED BY <2>2, <2>3
  <1>7. g[0] = <<>>
    BY <1>5 DEF Iterates
  <1>8. IsSearch(g, st)
    <2> HIDE DEF X, F
    <2>1. \A k \in 0..size : k # 0 => k \in 1..size
      OBVIOUS
    <2>2. ASSUME NEW k \in 0..size
          PROVE  g[k] = IF k = 0 THEN <<>>
                        ELSE IF Reached(st, k) THEN WithUnseen(st, g[k - 1], Back(st, k))
                        ELSE g[k - 1]
      BY <1>6, <1>7, <2>1
    <2> QED BY <1>5, <2>2 DEF IsSearch
  <1>9. valid_update_indices(st) = (CHOOSE h : IsSearch(h, st))[size]
    BY DEF valid_update_indices, IsSearch
  <1> HIDE DEF size, X, F
  <1>10. IsSearch(CHOOSE h : IsSearch(h, st), st)
    BY <1>8
  <1> QED BY <1>9, <1>10 DEF size

OracleAt(st, idx) == UpdateAt(st, idx).oracle

(* What the search has after k places: of each oracle the first update     *)
(* that it reached.                                                        *)
FirstsOf(valid, st, k) ==
    /\ valid \in Seq(0..(Len(st.results) - 1))
    /\ \A i, j \in 1..Len(valid) : i # j => OracleAt(st, valid[i]) # OracleAt(st, valid[j])
    /\ \A i \in 1..Len(valid) : \E n \in 1..k :
          /\ Reached(st, n) /\ valid[i] = Back(st, n)
          /\ \A j \in 1..(n - 1) : OracleAt(st, Back(st, j)) # OracleAt(st, Back(st, n))
    /\ \A n \in 1..k : Reached(st, n) =>
          \E i \in 1..Len(valid) : OracleAt(st, valid[i]) = OracleAt(st, Back(st, n))

LEMMA SearchStep ==
    ASSUME NEW st, NEW k \in Nat, NEW valid, FirstsOf(valid, st, k),
           Back(st, k + 1) \in 0..(Len(st.results) - 1), Reached(st, k + 1)
    PROVE  FirstsOf(WithUnseen(st, valid, Back(st, k + 1)), st, k + 1)
  <1> DEFINE I == 0..(Len(st.results) - 1)
             b == Back(st, k + 1)
             n == Len(valid)
             more == Append(valid, b)
  <1>1. valid \in Seq(I) /\ n \in Nat /\ b \in I
    BY DEF FirstsOf
  <1>2. \A j \in 1..(k + 1) : j \in 1..k \/ j = k + 1
    OBVIOUS
  <1>3. \A j \in 1..k : Reached(st, j)
    BY DEF Reached
  <1>4. ToSet(valid) = {valid[i] : i \in 1..n}
    BY <1>1 DEF ToSet
  <1>5. CASE \E i \in 1..n : OracleAt(st, valid[i]) = OracleAt(st, b)
    <2>1. WithUnseen(st, valid, b) = valid
      <3> HIDE DEF n, b
      <3> QED BY <1>4, <1>5 DEF WithUnseen, OracleAt
    <2>2. FirstsOf(valid, st, k + 1)
      <3>1. \A i \in 1..n : \E m \in 1..(k + 1) :
               /\ Reached(st, m) /\ valid[i] = Back(st, m)
               /\ \A j \in 1..(m - 1) : OracleAt(st, Back(st, j)) # OracleAt(st, Back(st, m))
        BY DEF FirstsOf
      <3>2. \A m \in 1..(k + 1) : Reached(st, m) =>
               \E i \in 1..n : OracleAt(st, valid[i]) = OracleAt(st, Back(st, m))
        BY <1>2, <1>5 DEF FirstsOf
      <3> QED BY <3>1, <3>2 DEF FirstsOf
    <2> QED BY <2>1, <2>2
  <1>6. CASE \A i \in 1..n : OracleAt(st, valid[i]) # OracleAt(st, b)
    <2>1. WithUnseen(st, valid, b) = more
      <3> HIDE DEF n, b
      <3> QED BY <1>4, <1>6 DEF WithUnseen, OracleAt
    <2>2. /\ more \in Seq(I) /\ Len(more) = n + 1
          /\ \A i \in 1..n : more[i] = valid[i]
          /\ more[n + 1] = b
      <3> HIDE DEF b, I
      <3> QED BY <1>1
    <2>3. \A i \in 1..(n + 1) : i \in 1..n \/ i = n + 1
      BY <1>1
    <2>4. \A i \in 1..n : i \in 1..(n + 1) /\ i # n + 1
      BY <1>1
    <2>5. n + 1 \in 1..(n + 1)
      BY <1>1
    <2>6. \A j \in 1..k : OracleAt(st, Back(st, j)) # OracleAt(st, b)
      BY <1>3, <1>6 DEF FirstsOf
    <2> HIDE DEF more, n, b
    <2>7. ASSUME NEW i \in 1..(n + 1), NEW j \in 1..(n + 1), i # j
          PROVE  OracleAt(st, more[i]) # OracleAt(st, more[j])
      <3>1. CASE i \in 1..n /\ j \in 1..n
        <4>1. OracleAt(st, valid[i]) # OracleAt(st, valid[j])
          BY <2>7, <3>1 DEF FirstsOf, n
        <4> QED BY <2>2, <3>1, <4>1
      <3>2. CASE i \in 1..n /\ j = n + 1
        BY <1>6, <2>2, <3>2
      <3>3. CASE i = n + 1 /\ j \in 1..n
        BY <1>6, <2>2, <3>3
      <3> QED BY <2>3, <2>7, <3>1, <3>2, <3>3
    <2>8. ASSUME NEW i \in 1..(n + 1)
          PROVE  \E m \in 1..(k + 1) :
                   /\ Reached(st, m) /\ more[i] = Back(st, m)
                   /\ \A j \in 1..(m - 1) : OracleAt(st, Back(st, j)) # OracleAt(st, Back(st, m))
      <3>1. CASE i \in 1..n
        <4>1. \E m \in 1..k :
                /\ Reached(st, m) /\ valid[i] = Back(st, m)
                /\ \A j \in 1..(m - 1) : OracleAt(st, Back(st, j)) # OracleAt(st, Back(st, m))
          BY <3>1 DEF FirstsOf, n
        <4> QED BY <2>2, <3>1, <4>1
      <3>2. CASE i = n + 1
        <4>1. k + 1 \in 1..(k + 1) /\ (k + 1) - 1 = k
          OBVIOUS
        <4> QED BY <2>2, <2>6, <3>2, <4>1 DEF b
      <3> QED BY <2>3, <3>1, <3>2
    <2>9. ASSUME NEW m \in 1..(k + 1), Reached(st, m)
          PROVE  \E i \in 1..(n + 1) : OracleAt(st, more[i]) = OracleAt(st, Back(st, m))
      <3>1. CASE m \in 1..k
        <4>1. PICK i \in 1..n : OracleAt(st, valid[i]) = OracleAt(st, Back(st, m))
          BY <2>9, <3>1 DEF FirstsOf, n
        <4> QED BY <2>2, <2>4, <4>1
      <3>2. CASE m = k + 1
        BY <2>2, <2>5, <3>2 DEF b
      <3> QED BY <1>2, <3>1, <3>2
    <2>10. FirstsOf(more, st, k + 1)
      BY <2>2, <2>7, <2>8, <2>9 DEF FirstsOf
    <2> QED BY <2>1, <2>10 DEF b
  <1> QED BY <1>5, <1>6

LEMMA ValidAreFirsts ==
    ASSUME NEW st, RingOk(st)
    PROVE  FirstsOf(valid_update_indices(st), st, Len(st.results))
  <1> DEFINE size == Len(st.results)
  <1>1. size \in Nat /\ \A k \in 1..size : Back(st, k) \in 0..(size - 1)
    BY BackFacts
  <1>2. PICK g : IsSearch(g, st) /\ valid_update_indices(st) = g[size]
    BY SearchExists
  <1> DEFINE P == {k \in 0..size : FirstsOf(g[k], st, k)}
  <1>3. 0 \in P
    <2>1. g[0] = <<>>
      BY <1>1, <1>2 DEF IsSearch
    <2>2. Len(<<>>) = 0 /\ <<>> \in Seq(0..(size - 1))
      OBVIOUS
    <2>3. FirstsOf(<<>>, st, 0)
      BY <2>2 DEF FirstsOf
    <2> QED BY <1>1, <2>1, <2>3
  <1>4. ASSUME NEW k \in 1..size, k - 1 \in P PROVE k \in P
    <2>1. FirstsOf(g[k - 1], st, k - 1)
      BY <1>4
    <2>2. k \in 0..size /\ k # 0 /\ k - 1 \in Nat /\ (k - 1) + 1 = k
      BY <1>1
    <2>3. g[k] = IF Reached(st, k) THEN WithUnseen(st, g[k - 1], Back(st, k)) ELSE g[k - 1]
      BY <1>2, <2>2 DEF IsSearch
    <2>4. CASE Reached(st, k)
      <3>1. Back(st, k) \in 0..(Len(st.results) - 1)
        BY <1>1
      <3>2. FirstsOf(WithUnseen(st, g[k - 1], Back(st, (k - 1) + 1)), st, (k - 1) + 1)
        BY <2>1, <2>2, <2>4, <3>1, SearchStep
      <3> QED BY <2>2, <2>3, <2>4, <3>2
    <2>5. CASE ~Reached(st, k)
      <3>1. \A n \in 1..k : n \in 1..(k - 1) \/ n = k
        OBVIOUS
      <3>2. \A n \in 1..(k - 1) : n \in 1..k
        OBVIOUS
      <3>3. FirstsOf(g[k - 1], st, k)
        BY <2>1, <2>5, <3>1, <3>2 DEF FirstsOf
      <3> QED BY <2>2, <2>3, <2>5, <3>3
    <2> QED BY <2>4, <2>5
  <1> HIDE DEF P
  <1>5. 0..size \subseteq P
    BY <1>1, <1>3, <1>4, RangeInduction
  <1>6. size \in P
    BY <1>1, <1>5
  <1> QED BY <1>2, <1>6 DEF P

----------------------------------------------------------------------------
(* The updates that count.                                                 *)
Clocked ==
    /\ now \in Nat
    /\ max_staleness_seconds \in Stalenesses
    /\ min_sample_size \in SampleSizes

LEMMA ClockedInit == Init => Clocked
  BY DEF Init, Clocked

LEMMA ClockedNext == Clocked /\ [Next]_vars => Clocked'
  <1> SUFFICES ASSUME Clocked, [Next]_vars PROVE Clocked'
    OBVIOUS
  <1>1. CASE now' = now /\ UNCHANGED <<max_staleness_seconds, min_sample_size>>
    BY <1>1 DEF Clocked
  <1>2. ASSUME NEW o \in Oracles, NEW v \in Results, NEW t \in 1..MaxTime, SubmitResult(o, v, t)
        PROVE  Clocked'
    <2>1. UNCHANGED <<now, max_staleness_seconds, min_sample_size>>
      BY <1>2 DEF SubmitResult
    <2> QED BY <1>1, <2>1
  <1>3. ASSUME NEW staleness \in Stalenesses, NEW size \in SampleSizes, SetConfigs(staleness, size)
        PROVE  Clocked'
    BY <1>3 DEF SetConfigs, Clocked
  <1>4. CASE Tick
    BY <1>4 DEF Tick, Clocked
  <1>5. CASE UNCHANGED vars
    BY <1>1, <1>5 DEF vars
  <1> QED BY <1>2, <1>3, <1>4, <1>5 DEF Next

LEMMA UpdateAtFacts ==
    ASSUME NEW st, RingOk(st), NEW idx \in 0..(Len(st.results) - 1)
    PROVE  /\ UpdateAt(st, idx) \in Update
           /\ UpdateAt(st, idx).timestamp \in Nat
           /\ UpdateAt(st, idx).result \in Results
  <1>1. idx + 1 \in 1..Len(st.results) /\ st.results \in Seq(Update)
    BY DEF RingOk, RingTyped
  <1>2. st.results[idx + 1] \in Update
    BY <1>1
  <1> QED BY <1>2 DEF UpdateAt, Update

(* The search stops at the first stale update: all that it has not reached *)
(* are stale, because the ring is in order.                                *)
LEMMA ReachedIsFresh ==
    ASSUME NEW st, RingOk(st), Clocked, NEW k \in 1..Len(st.results)
    PROVE  Reached(st, k) <=> Fresh(UpdateAt(st, Back(st, k)))
  <1>1. max_staleness_seconds \in Nat /\ now \in Nat
    BY FeedUpdatesAssumption DEF Clocked
  <1>2. k \in 1..k /\ \A j \in 1..k : j \in 1..Len(st.results) /\ j <= k
    BY BackFacts
  <1>3. \A j \in 1..Len(st.results) : UpdateAt(st, Back(st, j)).timestamp \in Nat
    BY BackFacts, UpdateAtFacts
  <1>4. \A j \in 1..k :
           UpdateAt(st, Back(st, k)).timestamp <= UpdateAt(st, Back(st, j)).timestamp
    BY <1>2, BackFacts
  <1>5. ASSUME Fresh(UpdateAt(st, Back(st, k))), NEW j \in 1..k
        PROVE  Fresh(UpdateAt(st, Back(st, j)))
    BY <1>1, <1>2, <1>3, <1>4, <1>5 DEF Fresh
  <1> QED BY <1>2, <1>5 DEF Reached

LEMMA ValidFacts ==
    ASSUME NEW st, RingOk(st)
    PROVE  LET v == valid_update_indices(st)
               valid == ValidUpdates(st)
           IN  /\ valid \in Seq(Update) /\ Len(valid) = Len(v) /\ Len(valid) \in Nat
               /\ DOMAIN valid = 1..Len(valid)
               /\ \A i \in 1..Len(valid) :
                     v[i] \in 0..(Len(st.results) - 1) /\ valid[i] = UpdateAt(st, v[i])
  <1> DEFINE v == valid_update_indices(st)
             I == 0..(Len(st.results) - 1)
             valid == [i \in DOMAIN v |-> UpdateAt(st, v[i])]
  <1>1. v \in Seq(I)
    BY ValidAreFirsts DEF FirstsOf
  <1>2. ValidUpdates(st) = valid
    BY DEF ValidUpdates
  <1>3. \A idx \in I : UpdateAt(st, idx) \in Update
    BY UpdateAtFacts
  <1> HIDE DEF v, I
  <1>4. DOMAIN v = 1..Len(v) /\ Len(v) \in Nat /\ \A i \in 1..Len(v) : v[i] \in I
    BY <1>1
  <1>5. valid \in Seq(Update) /\ Len(valid) = Len(v) /\ DOMAIN valid = 1..Len(v)
        /\ \A i \in 1..Len(v) : valid[i] = UpdateAt(st, v[i])
    BY <1>3, <1>4
  <1> HIDE DEF valid
  <1> QED BY <1>2, <1>4, <1>5 DEF v, I

(* The newest update is among the valid ones, if there are any.            *)
LEMMA NewestIsValid ==
    ASSUME NEW st, RingOk(st), Len(ValidUpdates(st)) > 0
    PROVE  /\ Len(st.results) > 0
           /\ \E i \in 1..Len(ValidUpdates(st)) : ValidUpdates(st)[i] = UpdateAt(st, st.curr_idx)
  <1> DEFINE v == valid_update_indices(st)
             size == Len(st.results)
  <1>1. FirstsOf(v, st, size)
    BY ValidAreFirsts
  <1>2. Len(v) > 0 /\ Len(v) \in Nat
    BY ValidFacts
  <1>3. 1 \in 1..Len(v)
    BY <1>2
  <1>4. PICK n \in 1..size : Reached(st, n)
    BY <1>1, <1>3 DEF FirstsOf
  <1>5. size \in Nat /\ 1 \in 1..size /\ 1 \in 1..n
    BY <1>4, BackFacts
  <1>6. Reached(st, 1)
    <2>1. \A j \in 1..1 : j \in 1..n
      BY <1>5
    <2> QED BY <1>4, <2>1 DEF Reached
  <1>7. PICK i \in 1..Len(v) : OracleAt(st, v[i]) = OracleAt(st, Back(st, 1))
    BY <1>1, <1>5, <1>6 DEF FirstsOf
  <1>8. PICK m \in 1..size :
           /\ v[i] = Back(st, m)
           /\ \A j \in 1..(m - 1) : OracleAt(st, Back(st, j)) # OracleAt(st, Back(st, m))
    BY <1>1 DEF FirstsOf
  <1>9. m = 1
    <2>1. ~(1 \in 1..(m - 1))
      BY <1>7, <1>8
    <2> QED BY <2>1
  <1>10. v[i] = st.curr_idx
    BY <1>5, <1>8, <1>9, BackFacts
  <1>11. i \in 1..Len(ValidUpdates(st)) /\ ValidUpdates(st)[i] = UpdateAt(st, v[i])
    BY ValidFacts
  <1> QED BY <1>5, <1>10, <1>11

LEMMA ValidNewest ==
    ASSUME RingInOrder, Clocked
    PROVE  ValidAreNewest
  <1> DEFINE st == UpdateState
             v == valid_update_indices(UpdateState)
             valid == ValidUpdates(UpdateState)
             size == Len(results)
  <1>0. RingOk(UpdateState) /\ UpdateState.results = results /\ UpdateState.curr_idx = curr_idx
    BY DEF RingInOrder, RingOk, UpdateState
  <1>1. /\ DOMAIN valid = 1..Len(valid) /\ Len(valid) = Len(v)
        /\ \A i \in 1..Len(valid) : v[i] \in 0..(size - 1) /\ valid[i] = UpdateAt(UpdateState, v[i])
    BY <1>0, ValidFacts
  <1>2. FirstsOf(v, UpdateState, size)
    BY <1>0, ValidAreFirsts
  <1>3. size \in Nat /\ results \in Seq(Update)
    BY <1>0, BackFacts DEF RingOk, RingTyped
  <1>4. ToSet(results) = {results[x] : x \in 1..size}
    BY <1>3 DEF ToSet
  <1>5. \A idx \in 0..(size - 1) : UpdateAt(UpdateState, idx) = results[idx + 1] /\ idx + 1 \in 1..size
    BY <1>0, <1>3 DEF UpdateAt
  <1>6. ASSUME NEW w \in ToSet(results)
        PROVE  \E n \in 1..size : w = UpdateAt(UpdateState, Back(UpdateState, n))
    <2>1. PICK x \in 1..size : w = results[x]
      BY <1>4
    <2>2. x - 1 \in 0..(size - 1) /\ (x - 1) + 1 = x
      BY <1>3
    <2>3. PICK n \in 1..size : Back(UpdateState, n) = x - 1
      BY <1>0, <2>2, BackFacts
    <2> QED BY <1>5, <2>1, <2>2, <2>3
  <1>7. \A n \in 1..size : Reached(UpdateState, n) <=> Fresh(UpdateAt(UpdateState, Back(UpdateState, n)))
    BY <1>0, ReachedIsFresh
  <1>8. \A j, k \in 1..size : j <= k =>
           UpdateAt(UpdateState, Back(UpdateState, k)).timestamp
             <= UpdateAt(UpdateState, Back(UpdateState, j)).timestamp
    BY <1>0, BackFacts
  <1> HIDE DEF v, valid, size
  <1>9. \A i, j \in DOMAIN valid : i # j => valid[i].oracle # valid[j].oracle
    <2>1. \A i \in 1..Len(valid) : valid[i].oracle = OracleAt(UpdateState, v[i])
      BY <1>1 DEF OracleAt
    <2>2. \A i, j \in 1..Len(v) : i # j => OracleAt(UpdateState, v[i]) # OracleAt(UpdateState, v[j])
      BY <1>2 DEF FirstsOf
    <2> QED BY <1>1, <2>1, <2>2
  <1>10. ASSUME NEW i \in DOMAIN valid PROVE valid[i] \in FreshNewestOf(valid[i].oracle)
    <2>1. PICK n \in 1..size :
             /\ Reached(UpdateState, n) /\ v[i] = Back(UpdateState, n)
             /\ \A j \in 1..(n - 1) : OracleAt(UpdateState, Back(UpdateState, j))
                                        # OracleAt(UpdateState, Back(UpdateState, n))
      BY <1>1, <1>2 DEF FirstsOf
    <2>2. valid[i] = UpdateAt(UpdateState, Back(UpdateState, n)) /\ valid[i] \in ToSet(results)
      BY <1>1, <1>4, <1>5, <2>1
    <2>3. Fresh(valid[i])
      BY <1>7, <2>1, <2>2
    <2>4. ASSUME NEW w \in ToSet(results), w.oracle = valid[i].oracle
          PROVE  w.timestamp <= valid[i].timestamp
      <3>1. PICK m \in 1..size : w = UpdateAt(UpdateState, Back(UpdateState, m))
        BY <1>6
      <3>2. ~(m < n)
        <4>1. m < n => m \in 1..(n - 1)
          OBVIOUS
        <4> QED BY <2>1, <2>2, <2>4, <3>1, <4>1 DEF OracleAt
      <3>3. n <= m
        BY <3>2
      <3> QED BY <1>8, <2>2, <3>1, <3>3
    <2> QED BY <2>2, <2>3, <2>4 DEF FreshNewestOf
  <1>11. ASSUME NEW u \in ToSet(results), Fresh(u)
         PROVE  \E i \in DOMAIN valid : valid[i].oracle = u.oracle
    <2>1. PICK n \in 1..size : u = UpdateAt(UpdateState, Back(UpdateState, n))
      BY <1>6
    <2>2. Reached(UpdateState, n)
      BY <1>7, <1>11, <2>1
    <2>3. PICK i \in 1..Len(v) : OracleAt(UpdateState, v[i]) = OracleAt(UpdateState, Back(UpdateState, n))
      BY <1>2, <2>2 DEF FirstsOf
    <2> QED BY <1>1, <2>1, <2>3 DEF OracleAt
  <1> QED BY <1>9, <1>10, <1>11 DEF ValidAreNewest, valid

(* The updates that count are the newest fresh one of each oracle that has *)
(* one, for rings of any size, any clocks of the oracles, and whatever     *)
(* staleness is configured: the search may stop at the first stale update. *)
THEOREM ValidAreNewestAlways == Spec => []ValidAreNewest
  BY ValidNewest, ClockedInit, ClockedNext, RingAlwaysInOrder, PTL DEF Spec

----------------------------------------------------------------------------
(* The time of the published result.                                       *)
Newest(st) == UpdateAt(st, st.curr_idx).timestamp

LEMMA NewestFacts ==
    ASSUME NEW st, RingOk(st), Len(st.results) > 0
    PROVE  /\ Newest(st) \in Nat
           /\ \A i \in 1..Len(ValidUpdates(st)) :
                 ValidUpdates(st)[i].timestamp \in Nat /\ ValidUpdates(st)[i].timestamp <= Newest(st)
  <1> DEFINE size == Len(st.results)
             valid == ValidUpdates(st)
             v == valid_update_indices(st)
  <1>1. size \in Nat /\ 1 \in 1..size /\ st.curr_idx \in 0..(size - 1) /\ Back(st, 1) = st.curr_idx
    BY BackFacts
  <1>2. ASSUME NEW i \in 1..Len(valid)
        PROVE  valid[i].timestamp \in Nat /\ valid[i].timestamp <= Newest(st)
    <2>1. v[i] \in 0..(size - 1) /\ valid[i] = UpdateAt(st, v[i])
      BY ValidFacts
    <2>2. PICK k \in 1..size : Back(st, k) = v[i]
      BY <2>1, BackFacts
    <2>3. 1 <= k
      BY <1>1
    <2>4. UpdateAt(st, Back(st, k)).timestamp <= UpdateAt(st, Back(st, 1)).timestamp
      BY <1>1, <2>3, BackFacts
    <2> QED BY <1>1, <2>1, <2>2, <2>4, UpdateAtFacts DEF Newest
  <1> QED BY <1>1, <1>2, UpdateAtFacts DEF Newest

(* What SubmitResult makes of the ring, and of the result.                 *)
LEMMA SubmitFacts ==
    ASSUME RingInOrder, Clocked, NEW o \in Oracles, NEW v \in Results, NEW t \in 1..MaxTime,
           SubmitResult(o, v, t)
    PROVE  LET st == [results |-> results', curr_idx |-> curr_idx']
               valid == ValidUpdates(st)
           IN  /\ RingOk(st) /\ Len(st.results) > 0
               /\ results # <<>> => Newest(UpdateState) \in Nat /\ Newest(UpdateState) <= Newest(st)
               /\ current_result' = IF Len(valid) < min_sample_size THEN current_result
                                    ELSE compute_current_result(valid)
               /\ Len(valid) \in Nat /\ min_sample_size \in Nat /\ min_sample_size > 0
  <1> DEFINE u == [result |-> v, timestamp |-> t, oracle |-> o]
             st == [results |-> results', curr_idx |-> curr_idx']
  <1>1. u \in Update /\ u.timestamp \in Nat
    BY FeedUpdatesAssumption DEF Update
  <1>2. results' = set_update(u).results /\ curr_idx' = set_update(u).curr_idx
    BY DEF SubmitResult
  <1>3. set_update(u) = st
    BY <1>2 DEF set_update, UpdateState
  <1>4. current_result' = IF Len(ValidUpdates(set_update(u))) < min_sample_size THEN current_result
                          ELSE compute_current_result(ValidUpdates(set_update(u)))
    BY DEF SubmitResult
  <1>5. RingOk(UpdateState) /\ UpdateState.results = results /\ UpdateState.curr_idx = curr_idx
    BY DEF RingInOrder, RingOk, UpdateState
  <1>6. min_sample_size \in Nat /\ min_sample_size > 0
    BY FeedUpdatesAssumption DEF Clocked
  <1>7. RingOk(set_update(u)) /\ Len(set_update(u).results) > 0
        /\ (results # <<>> => Newest(UpdateState) <= Newest(set_update(u)))
    <2>1. CASE ~Taken(u)
      <3>1. set_update(u) = UpdateState /\ results # <<>>
        BY <2>1 DEF set_update, Taken
      <3>2. Len(results) > 0
        BY <3>1, <1>5 DEF RingOk, RingTyped
      <3>3. Newest(UpdateState) \in Nat
        BY <1>5, <3>2, NewestFacts
      <3> QED BY <1>5, <3>1, <3>2, <3>3
    <2>2. CASE Taken(u)
      <3>1. RingOk(set_update(u))
        BY <1>1, <2>2, TakenUpdate DEF RingOk
      <3>2. Len(set_update(u).results) > 0 /\ UpdateAt(set_update(u), set_update(u).curr_idx) = u
        BY <1>1, <2>2, TakenPlace DEF UpdateAt
      <3>3. results # <<>> => Newest(UpdateState) <= u.timestamp
        <4>1. ASSUME results # <<>> PROVE Newest(UpdateState) <= u.timestamp
          <5>1. Len(results) > 0
            BY <4>1, <1>5 DEF RingOk, RingTyped
          <5>2. Newest(UpdateState) \in Nat
            BY <1>5, <5>1, NewestFacts
          <5>3. u.timestamp >= UpdateAt(UpdateState, curr_idx).timestamp
            BY <2>2, <4>1 DEF Taken
          <5> HIDE DEF u
          <5> QED BY <1>1, <1>5, <5>2, <5>3 DEF Newest
        <4> QED BY <4>1
      <3> HIDE DEF u
      <3> QED BY <3>1, <3>2, <3>3 DEF Newest
    <2> QED BY <2>1, <2>2
  <1>8. results # <<>> => Newest(UpdateState) \in Nat
    <2>1. results # <<>> => Len(results) > 0
      BY <1>5 DEF RingOk, RingTyped
    <2> QED BY <1>5, <2>1, NewestFacts
  <1>9. Len(ValidUpdates(set_update(u))) \in Nat
    BY <1>7, ValidFacts
  <1> QED BY <1>3, <1>4, <1>6, <1>7, <1>8, <1>9

LEMMA MaxIs ==
    ASSUME NEW S, NEW m \in S, S \subseteq Int, \A x \in S : x <= m
    PROVE  Max(S) = m
  <1>1. \A x \in S : m >= x
    OBVIOUS
  <1>2. \A y \in S : (\A x \in S : y >= x) => y = m
    OBVIOUS
  <1> QED BY <1>1, <1>2 DEF Max

(* What is published is as new as the ring.                                *)
PublishedTime ==
    /\ results = <<>> => current_result.max_timestamp = 0
    /\ results # <<>> => /\ current_result.max_timestamp \in Nat
                         /\ current_result.max_timestamp <= Newest(UpdateState)

LEMMA PublishedStep ==
    ASSUME RingInOrder, Clocked, PublishedTime, [Next]_vars
    PROVE  PublishedTime' /\ current_result'.max_timestamp >= current_result.max_timestamp
  <1>0. current_result.max_timestamp \in Nat
    BY DEF PublishedTime
  <1>1. CASE UNCHANGED <<results, curr_idx, current_result>>
    BY <1>0, <1>1 DEF PublishedTime, Newest, UpdateAt, UpdateState
  <1>2. ASSUME NEW o \in Oracles, NEW v \in Results, NEW t \in 1..MaxTime, SubmitResult(o, v, t)
        PROVE  PublishedTime' /\ current_result'.max_timestamp >= current_result.max_timestamp
    <2> DEFINE st == [results |-> results', curr_idx |-> curr_idx']
               valid == ValidUpdates(st)
               newest == Newest(st)
               times == {w.timestamp : w \in ToSet(valid)}
    <2>1. /\ RingOk(st) /\ Len(st.results) > 0
          /\ results # <<>> => Newest(UpdateState) \in Nat /\ Newest(UpdateState) <= newest
          /\ current_result' = IF Len(valid) < min_sample_size THEN current_result
                               ELSE compute_current_result(valid)
          /\ Len(valid) \in Nat /\ min_sample_size \in Nat /\ min_sample_size > 0
      BY <1>2, SubmitFacts
    <2>2. newest \in Nat
      BY <2>1, NewestFacts
    <2>3. current_result.max_timestamp <= newest
      BY <1>0, <2>1, <2>2 DEF PublishedTime
    <2>4. newest = Newest(UpdateState)' /\ results' # <<>>
      BY <2>1 DEF Newest, UpdateAt, UpdateState
    <2>5. CASE Len(valid) < min_sample_size
      <3>1. current_result' = current_result
        BY <2>1, <2>5
      <3> HIDE DEF newest
      <3> QED BY <1>0, <2>3, <2>4, <3>1 DEF PublishedTime
    <2>6. CASE ~(Len(valid) < min_sample_size)
      <3>1. Len(valid) > 0
        <4> HIDE DEF valid
        <4> QED BY <2>1, <2>6
      <3>2. ToSet(valid) = {valid[i] : i \in 1..Len(valid)}
        <4>1. DOMAIN valid = 1..Len(valid)
          BY <2>1, ValidFacts
        <4> HIDE DEF valid
        <4> QED BY <4>1 DEF ToSet
      <3>3. \A i \in 1..Len(valid) : valid[i].timestamp \in Nat /\ valid[i].timestamp <= newest
        BY <2>1, NewestFacts
      <3>4. \E i \in 1..Len(valid) : valid[i].timestamp = newest
        BY <2>1, <3>1, NewestIsValid DEF Newest
      <3>5. current_result'.max_timestamp = Max(times)
        BY <2>1, <2>6 DEF compute_current_result
      <3> HIDE DEF valid, newest
      <3>6. newest \in times /\ times \subseteq Int /\ \A x \in times : x <= newest
        BY <3>2, <3>3, <3>4
      <3> HIDE DEF times
      <3>7. Max(times) = newest
        BY <3>6, MaxIs
      <3> QED BY <1>0, <2>2, <2>3, <2>4, <3>5, <3>7 DEF PublishedTime
    <2> QED BY <2>5, <2>6
  <1>3. CASE UNCHANGED vars
    BY <1>1, <1>3 DEF vars
  <1>4. ASSUME NEW staleness \in Stalenesses, NEW size \in SampleSizes, SetConfigs(staleness, size)
        PROVE  PublishedTime' /\ current_result'.max_timestamp >= current_result.max_timestamp
    BY <1>1, <1>4 DEF SetConfigs
  <1>5. CASE Tick
    BY <1>1, <1>5 DEF Tick
  <1> QED BY <1>2, <1>3, <1>4, <1>5 DEF Next

(* A published result is never followed by one whose newest update is      *)
(* older, whatever the staleness is set to in between: while there are     *)
(* valid updates the newest of the ring is one, and the ring never goes    *)
(* back in time.                                                           *)
THEOREM MaxTimestampNeverGoesBack == Spec => MaxTimestampNeverBack
  <1> DEFINE A == current_result'.max_timestamp >= current_result.max_timestamp
  <1>1. Init => PublishedTime
    BY DEF Init, PublishedTime
  <1>2. RingInOrder /\ Clocked /\ PublishedTime /\ [Next]_vars => PublishedTime' /\ A
    BY PublishedStep
  <1> HIDE DEF A
  <1>3. Spec => [][A]_vars
    BY <1>1, <1>2, ClockedInit, ClockedNext, RingAlwaysInOrder, PTL DEF Spec
  <1> QED BY <1>3 DEF MaxTimestampNeverBack, A

----------------------------------------------------------------------------
(* The mean.  Each step moves it towards the next answer, by a share that  *)
(* is rounded towards zero, so never past that answer.                     *)
LEMMA QuotientFacts ==
    ASSUME NEW a \in Int, NEW n \in Nat \ {0}
    PROVE  /\ Quotient(a, n) \in Int
           /\ a >= 0 => 0 <= Quotient(a, n) /\ Quotient(a, n) <= a
           /\ a < 0 => a <= Quotient(a, n) /\ Quotient(a, n) <= 0
  <1>1. ASSUME NEW b \in Nat PROVE b \div n \in Int /\ 0 <= b \div n /\ b \div n <= b
    BY SMT
  <1>2. CASE a >= 0
    BY <1>1, <1>2 DEF Quotient
  <1>3. CASE a < 0
    <2>1. -a \in Nat /\ Quotient(a, n) = -((-a) \div n)
      BY <1>3 DEF Quotient
    <2>2. (-a) \div n \in Int /\ 0 <= (-a) \div n /\ (-a) \div n <= -a
      BY <1>1, <2>1
    <2> DEFINE q == (-a) \div n
    <2> HIDE DEF q
    <2>3. q \in Int /\ 0 <= q /\ q <= -a /\ Quotient(a, n) = -q
      BY <2>1, <2>2 DEF q
    <2> QED BY <1>3, <2>3
  <1> QED BY <1>2, <1>3

LEMMA UpdatesTyped ==
    ASSUME NEW updates \in Seq(Update)
    PROVE  /\ Len(updates) \in Nat /\ DOMAIN updates = 1..Len(updates)
           /\ \A n \in 1..Len(updates) : updates[n] \in Update /\ updates[n].result \in Int
  <1>1. Len(updates) \in Nat /\ DOMAIN updates = 1..Len(updates)
    OBVIOUS
  <1>2. ASSUME NEW n \in 1..Len(updates)
        PROVE  updates[n] \in Update /\ updates[n].result \in Int
    <2>1. updates[n] \in Update
      OBVIOUS
    <2>2. updates[n].result \in Results
      BY <2>1 DEF Update
    <2> QED BY <2>1, <2>2, FeedUpdatesAssumption
  <1> QED BY <1>1, <1>2

IsWelford(g, updates) ==
    g = [n \in 0..Len(updates) |->
           IF n = 0 THEN WelfordStart ELSE WelfordStep(g[n - 1], updates[n].result)]

Accumulator == [count : Nat, mean : Int, m2 : Int, sum : Int]

LEMMA WelfordTyped ==
    ASSUME NEW acc \in Accumulator, NEW v \in Int
    PROVE  WelfordStep(acc, v) \in Accumulator
  <1> DEFINE q == Quotient(v - acc.mean, acc.count + 1)
             k == (v - acc.mean) * (v - (acc.mean + q))
             a == Abs(v)
  <1>1. acc.count + 1 \in Nat \ {0} /\ v - acc.mean \in Int
    BY DEF Accumulator
  <1>2. q \in Int /\ a \in Int
    BY <1>1, QuotientFacts DEF Abs
  <1>3. k \in Int
    <2> HIDE DEF q
    <2> QED BY <1>1, <1>2 DEF Accumulator
  <1>4. WelfordStep(acc, v) = [count |-> acc.count + 1, mean |-> acc.mean + q,
                               m2 |-> acc.m2 + k, sum |-> acc.sum + a]
    BY DEF WelfordStep
  <1> HIDE DEF q, k, a
  <1> QED BY <1>2, <1>3, <1>4 DEF Accumulator

LEMMA WelfordExists ==
    ASSUME NEW updates \in Seq(Update)
    PROVE  \E g : IsWelford(g, updates) /\ Welford(updates) = g[Len(updates)]
  <1> DEFINE m == Len(updates)
             X == Accumulator
             F == [n \in 1..m |-> [acc \in X |-> WelfordStep(acc, updates[n].result)]]
  <1>1. m \in Nat /\ \A n \in 1..m : updates[n].result \in Int
    BY UpdatesTyped
  <1>2. F \in [1..m -> [X -> X]]
    <2> HIDE DEF X
    <2>1. \A n \in 1..m : \A acc \in X : WelfordStep(acc, updates[n].result) \in X
      BY <1>1, WelfordTyped DEF X
    <2> QED BY <2>1
  <1>3. WelfordStart \in X
    BY DEF WelfordStart, Accumulator
  <1>4. PICK g \in [0..m -> X] : Iterates(g, WelfordStart, F, m)
    <2> HIDE DEF X, F
    <2> QED BY <1>1, <1>2, <1>3, IterationExists
  <1>5. ASSUME NEW n \in 1..m
        PROVE  g[n] = WelfordStep(g[n - 1], updates[n].result)
    <2>1. n - 1 \in 0..m
      BY <1>1
    <2>2. g[n - 1] \in X
      BY <1>4, <2>1
    <2>3. g[n] = F[n][g[n - 1]]
      BY <1>4 DEF Iterates
    <2> HIDE DEF X
    <2> QED BY <2>2, <2>3
  <1>6. IsWelford(g, updates)
    <2>1. g[0] = WelfordStart
      BY <1>4 DEF Iterates
    <2> HIDE DEF X, F
    <2>2. \A n \in 0..m : n # 0 => n \in 1..m
      OBVIOUS
    <2>3. ASSUME NEW n \in 0..m
          PROVE  g[n] = IF n = 0 THEN WelfordStart ELSE WelfordStep(g[n - 1], updates[n].result)
      BY <1>5, <2>1, <2>2
    <2> QED BY <1>4, <2>3 DEF IsWelford
  <1>7. Welford(updates) = (CHOOSE h : IsWelford(h, updates))[m]
    BY DEF Welford, IsWelford
  <1> HIDE DEF m, X, F
  <1>8. IsWelford(CHOOSE h : IsWelford(h, updates), updates)
    BY <1>6
  <1> QED BY <1>7, <1>8 DEF m

(* A product of two distances in the same direction, none of them beyond   *)
(* the spread.                                                             *)
LEMMA ProductBounded ==
    ASSUME NEW S \in Nat, NEW d \in Int, NEW e \in Int, -S <= d, d <= S,
           (0 <= e /\ e <= d) \/ (d <= e /\ e <= 0)
    PROVE  d * e <= S * S
  <1>1. ASSUME NEW a \in Nat, NEW b \in Nat, a <= S, b <= S PROVE a * b <= S * S
    <2>1. a * b <= S * b /\ S * b <= S * S
      BY <1>1, SMT
    <2>2. a * b \in Nat /\ S * b \in Nat /\ S * S \in Nat
      OBVIOUS
    <2> QED BY <2>1, <2>2
  <1>2. CASE 0 <= e /\ e <= d
    <2>1. d \in Nat /\ e \in Nat /\ d <= S /\ e <= S
      BY <1>2
    <2> QED BY <1>1, <2>1
  <1>3. CASE d <= e /\ e <= 0
    <2>1. -d \in Nat /\ -e \in Nat /\ -d <= S /\ -e <= S
      BY <1>3
    <2>2. (-d) * (-e) <= S * S
      BY <1>1, <2>1
    <2>3. (-d) * (-e) = d * e
      OBVIOUS
    <2> QED BY <2>2, <2>3
  <1> QED BY <1>2, <1>3

(* Welford's algorithm on answers within lo..hi, of absolute values of at  *)
(* most b.                                                                 *)
LEMMA WelfordBounded ==
    ASSUME NEW updates \in Seq(Update), Len(updates) > 0, NEW lo \in Int, NEW hi \in Int,
           NEW b \in Nat,
           \A n \in 1..Len(updates) : /\ lo <= updates[n].result /\ updates[n].result <= hi
                                      /\ Abs(updates[n].result) <= b
    PROVE  /\ Welford(updates) \in Accumulator
           /\ lo <= Welford(updates).mean /\ Welford(updates).mean <= hi
           /\ Welford(updates).m2 <= (Len(updates) - 1) * ((hi - lo) * (hi - lo))
           /\ Welford(updates).sum <= Len(updates) * b
  <1> DEFINE m == Len(updates)
             spread == hi - lo
             square == spread * spread
             most(n) == (n - 1) * square
  <1>1. m \in Nat /\ \A n \in 1..m : updates[n].result \in Int
    BY UpdatesTyped
  <1>2. PICK g : IsWelford(g, updates) /\ Welford(updates) = g[m]
    BY WelfordExists
  <1>3. spread \in Nat /\ square \in Nat
    <2>1. lo <= updates[1].result /\ updates[1].result <= hi /\ updates[1].result \in Int
      BY <1>1
    <2>2. spread \in Nat
      BY <2>1
    <2> HIDE DEF spread
    <2> QED BY <2>2
  <1>4. \A n \in 1..m : g[n] = WelfordStep(g[n - 1], updates[n].result)
    <2>1. \A n \in 1..m : n \in 0..Len(updates) /\ n # 0
      BY <1>1
    <2> QED BY <1>2, <2>1, Zenon DEF IsWelford
  <1> DEFINE P == {n \in 0..m : /\ g[n] \in Accumulator /\ g[n].count = n
                                /\ n = 0 => g[n].mean = 0 /\ g[n].m2 = 0
                                /\ n > 0 => /\ lo <= g[n].mean /\ g[n].mean <= hi
                                            /\ g[n].m2 <= most(n)
                                /\ g[n].sum <= n * b}
  <1> HIDE DEF square, most
  <1>5. 0 \in P
    <2>1. g[0] = WelfordStart
      BY <1>1, <1>2 DEF IsWelford
    <2>2. /\ g[0] \in Accumulator /\ g[0].count = 0 /\ g[0].mean = 0
          /\ g[0].m2 = 0 /\ g[0].sum = 0
      BY <2>1 DEF WelfordStart, Accumulator
    <2>3. 0 * b = 0 /\ 0 \in 0..m
      BY <1>1
    <2> QED BY <2>2, <2>3
  <1>6. ASSUME NEW n \in 1..m, n - 1 \in P PROVE n \in P
    <2> DEFINE acc == g[n - 1]  v == updates[n].result
               delta == v - acc.mean
               q == Quotient(delta, acc.count + 1)
               mean == acc.mean + q
               more == delta * (v - mean)
    <2>1. /\ acc \in Accumulator /\ acc.count = n - 1 /\ acc.mean \in Int
          /\ acc.m2 \in Int /\ acc.sum \in Int
          /\ n - 1 = 0 => acc.mean = 0 /\ acc.m2 = 0
          /\ n - 1 > 0 => /\ lo <= acc.mean /\ acc.mean <= hi
                          /\ acc.m2 <= most(n - 1)
          /\ acc.sum <= (n - 1) * b
      BY <1>6 DEF Accumulator
    <2>2. v \in Int /\ lo <= v /\ v <= hi /\ n \in Nat \ {0} /\ n \in 0..m /\ Abs(v) <= b
      BY <1>1
    <2>3. g[n] = WelfordStep(acc, v)
      BY <1>4
    <2>4. WelfordStep(acc, v) \in Accumulator
      BY <2>1, <2>2, WelfordTyped
    <2>5. /\ g[n].count = acc.count + 1 /\ g[n].mean = mean
          /\ g[n].m2 = acc.m2 + more /\ g[n].sum = acc.sum + Abs(v)
      BY <2>3 DEF WelfordStep
    <2> HIDE DEF acc, v
    <2>6. acc.count + 1 = n /\ Abs(v) \in Int
      BY <2>1, <2>2 DEF Abs
    <2>7. delta \in Int
      <3>1. acc.mean \in Int /\ v \in Int
        BY <2>1, <2>2
      <3> QED BY <3>1
    <2> HIDE DEF delta
    <2>8. /\ q \in Int
          /\ delta >= 0 => 0 <= q /\ q <= delta
          /\ delta < 0 => delta <= q /\ q <= 0
      BY <2>2, <2>6, <2>7, QuotientFacts
    <2> DEFINE rest == v - mean
    <2>9. rest \in Int /\ mean \in Int /\ rest = delta - q /\ more = delta * rest
      <3>1. acc.mean \in Int /\ v \in Int /\ q \in Int
        BY <2>1, <2>2, <2>8
      <3> HIDE DEF q
      <3>2. mean \in Int /\ rest \in Int /\ rest = delta - q
        BY <3>1 DEF delta
      <3> QED BY <3>2
    <2>10. lo <= mean /\ mean <= hi /\ more \in Int /\ more <= square /\ (n = 1 => more = 0)
      <3>1. CASE n = 1
        <4>1. acc.mean = 0 /\ delta = v /\ q = v
          BY <2>1, <2>2, <2>6, <2>7, <3>1 DEF Quotient, delta
        <4> HIDE DEF q
        <4>2. mean = v /\ rest = 0
          BY <2>2, <2>7, <4>1
        <4> HIDE DEF rest, mean
        <4>3. more = 0
          BY <2>7, <2>9, <4>2
        <4> QED BY <1>3, <2>2, <4>2, <4>3
      <3>2. CASE n > 1
        <4>1. lo <= acc.mean /\ acc.mean <= hi
          BY <2>1, <2>2, <3>2
        <4>2. -spread <= delta /\ delta <= spread
          BY <2>1, <2>2, <4>1 DEF delta
        <4> HIDE DEF q
        <4>3. lo <= mean /\ mean <= hi
          <5>1. /\ acc.mean \in Int /\ v \in Int /\ lo \in Int /\ hi \in Int
                /\ lo <= v /\ v <= hi
            BY <1>3, <2>1, <2>2
          <5>2. /\ q \in Int /\ delta = v - acc.mean
                /\ delta >= 0 => 0 <= q /\ q <= delta
                /\ delta < 0 => delta <= q /\ q <= 0
            BY <2>8 DEF delta
          <5> QED BY <4>1, <5>1, <5>2
        <4> HIDE DEF mean, spread
        <4>4. (0 <= rest /\ rest <= delta) \/ (delta <= rest /\ rest <= 0)
          <5> HIDE DEF rest
          <5> QED BY <2>7, <2>8, <2>9
        <4>5. delta * rest <= spread * spread /\ delta * rest \in Int
          <5>1. spread \in Nat /\ delta \in Int /\ rest \in Int
            BY <1>3, <2>7, <2>9
          <5> HIDE DEF rest
          <5>2. delta * rest <= spread * spread
            BY <4>2, <4>4, <5>1, ProductBounded
          <5> QED BY <5>1, <5>2
        <4>6. more \in Int /\ more <= square
          BY <2>9, <4>5 DEF square
        <4> QED BY <3>2, <4>3, <4>6
      <3> QED BY <2>2, <3>1, <3>2
    <2> HIDE DEF mean, more
    <2>11. acc.m2 + more <= most(n)
      <3>1. CASE n = 1
        <4>1. most(n) = 0
          BY <1>3, <3>1 DEF most
        <4>2. acc.m2 + more = 0
          BY <2>1, <2>10, <3>1
        <4> QED BY <4>1, <4>2
      <3>2. CASE n > 1
        <4> DEFINE x == most(n - 1)  x2 == most(n)
        <4>1. x + square = x2 /\ x \in Int
          BY <1>3, <2>2 DEF most
        <4>2. acc.m2 <= x /\ acc.m2 \in Int /\ more \in Int /\ more <= square /\ square \in Int
          BY <1>3, <2>1, <2>2, <2>10, <3>2
        <4> HIDE DEF x, x2
        <4>3. acc.m2 + more <= x2
          BY <4>1, <4>2
        <4> QED BY <4>3 DEF x2
      <3> QED BY <2>2, <3>1, <3>2
    <2>12. acc.sum + Abs(v) <= n * b
      <3> DEFINE y == (n - 1) * b  y2 == n * b
      <3>1. y + b = y2 /\ y \in Int
        BY <2>2
      <3>2. acc.sum <= y /\ acc.sum \in Int /\ Abs(v) \in Int /\ Abs(v) <= b
        BY <2>1, <2>2, <2>6
      <3> HIDE DEF y, y2
      <3>3. acc.sum + Abs(v) <= y2
        BY <3>1, <3>2
      <3> QED BY <3>3 DEF y2
    <2>13. g[n] \in Accumulator /\ g[n].count = n /\ n # 0
      BY <2>2, <2>3, <2>4, <2>5, <2>6
    <2>14. /\ lo <= g[n].mean /\ g[n].mean <= hi
           /\ g[n].m2 <= most(n) /\ g[n].sum <= n * b
      BY <2>5, <2>10, <2>11, <2>12
    <2> QED BY <2>2, <2>13, <2>14
  <1> HIDE DEF P
  <1>7. 0..m \subseteq P
    BY <1>1, <1>5, <1>6, RangeInduction
  <1>8. m \in P /\ m > 0
    BY <1>1, <1>7
  <1> QED BY <1>2, <1>8 DEF P, square, most

LEMMA LeastExists ==
    ASSUME NEW m \in Nat, m > 0, NEW f, \A i \in 1..m : f[i] \in Int
    PROVE  \E i \in 1..m : \A j \in 1..m : f[i] <= f[j]
  <1> DEFINE P == {k \in 0..m : k > 0 => \E i \in 1..k : \A j \in 1..k : f[i] <= f[j]}
  <1>1. 0 \in P
    OBVIOUS
  <1>2. ASSUME NEW k \in 1..m, k - 1 \in P PROVE k \in P
    <2>1. CASE k = 1
      <3>1. \A j \in 1..k : f[1] <= f[j]
        BY <2>1
      <3> QED BY <2>1, <3>1
    <2>2. CASE k > 1
      <3>1. PICK i \in 1..(k - 1) : \A j \in 1..(k - 1) : f[i] <= f[j]
        BY <1>2, <2>2
      <3>2. \A j \in 1..k : j \in 1..(k - 1) \/ j = k
        OBVIOUS
      <3>3. i \in 1..k /\ k \in 1..k /\ f[i] \in Int /\ f[k] \in Int /\ \A j \in 1..k : f[j] \in Int
        OBVIOUS
      <3>4. CASE f[i] <= f[k]
        <4>1. \A j \in 1..k : f[i] <= f[j]
          BY <3>1, <3>2, <3>4
        <4> QED BY <3>3, <4>1
      <3>5. CASE f[k] < f[i]
        <4>1. \A j \in 1..k : f[k] <= f[j]
          BY <3>1, <3>2, <3>3, <3>5
        <4> QED BY <3>3, <4>1
      <3> QED BY <3>3, <3>4, <3>5
    <2> QED BY <2>1, <2>2
  <1> HIDE DEF P
  <1>3. 0..m \subseteq P
    BY <1>1, <1>2, RangeInduction
  <1>4. m \in P
    BY <1>3
  <1> QED BY <1>4 DEF P

LEMMA GreatestExists ==
    ASSUME NEW m \in Nat, m > 0, NEW f, \A i \in 1..m : f[i] \in Int
    PROVE  \E i \in 1..m : \A j \in 1..m : f[j] <= f[i]
  <1> DEFINE g == [i \in 1..m |-> -f[i]]
  <1>1. \A i \in 1..m : g[i] \in Int /\ g[i] = -f[i]
    OBVIOUS
  <1> HIDE DEF g
  <1>2. PICK i \in 1..m : \A j \in 1..m : g[i] <= g[j]
    BY <1>1, LeastExists
  <1>3. \A j \in 1..m : f[j] <= f[i]
    BY <1>1, <1>2
  <1> QED BY <1>3

(* The least and the greatest of the answers of some updates.              *)
LEMMA RangeFacts ==
    ASSUME NEW updates \in Seq(Update), Len(updates) > 0
    PROVE  LET values == {u.result : u \in ToSet(updates)}
           IN  /\ Min(values) \in values /\ Max(values) \in values
               /\ Min(values) \in Int /\ Max(values) \in Int
               /\ \A i \in 1..Len(updates) : /\ Min(values) <= updates[i].result
                                             /\ updates[i].result <= Max(values)
  <1> DEFINE m == Len(updates)
             values == {u.result : u \in ToSet(updates)}
             f == [i \in 1..m |-> updates[i].result]
  <1>1. m \in Nat /\ m > 0 /\ \A i \in 1..m : updates[i].result \in Int
    BY UpdatesTyped
  <1>2. ToSet(updates) = {updates[i] : i \in 1..m}
    BY UpdatesTyped DEF ToSet
  <1>3. \A i \in 1..m : f[i] = updates[i].result /\ f[i] \in Int /\ f[i] \in values
    BY <1>1, <1>2
  <1>4. \A x \in values : \E i \in 1..m : x = f[i]
    BY <1>2
  <1> HIDE DEF f, values, m
  <1>5. PICK i \in 1..m : \A j \in 1..m : f[i] <= f[j]
    BY <1>1, <1>3, LeastExists
  <1>6. PICK k \in 1..m : \A j \in 1..m : f[j] <= f[k]
    BY <1>1, <1>3, GreatestExists
  <1>7. Min(values) \in values /\ \A x \in values : Min(values) <= x
    <2>1. \E x \in values : \A y \in values : x <= y
      BY <1>3, <1>4, <1>5
    <2> QED BY <2>1 DEF Min
  <1>8. Max(values) \in values /\ \A x \in values : Max(values) >= x
    <2>1. \E x \in values : \A y \in values : x >= y
      BY <1>3, <1>4, <1>6
    <2> QED BY <2>1 DEF Max
  <1>9. values \subseteq Int
    BY <1>3, <1>4
  <1> QED BY <1>3, <1>7, <1>8, <1>9 DEF values, m

LEMMA AbsBounded ==
    ASSUME NEW lo \in Int, NEW hi \in Int
    PROVE  \E w \in {lo, hi} : /\ Abs(w) \in Nat
                               /\ \A x \in Int : lo <= x /\ x <= hi => Abs(x) <= Abs(w)
  <1>1. Abs(lo) \in Nat /\ Abs(hi) \in Nat
    BY DEF Abs
  <1>2. CASE Abs(lo) <= Abs(hi)
    <2>1. \A x \in Int : lo <= x /\ x <= hi => Abs(x) <= Abs(hi)
      BY <1>2 DEF Abs
    <2> QED BY <1>1, <2>1
  <1>3. CASE Abs(hi) <= Abs(lo)
    <2>1. \A x \in Int : lo <= x /\ x <= hi => Abs(x) <= Abs(lo)
      BY <1>3 DEF Abs
    <2> QED BY <1>1, <2>1
  <1> QED BY <1>1, <1>2, <1>3

(* A step that changes the ring leaves the result as it was or publishes   *)
(* the one of the valid updates.                                           *)
LEMMA RingChanges ==
    ASSUME RingInOrder, Clocked, [Next]_vars, results' # results
    PROVE  /\ RingOk([results |-> results', curr_idx |-> curr_idx'])
           /\ NextValid \in Seq(Update) /\ Len(NextValid) \in Nat
           /\ Len(NextValid) >= min_sample_size =>
                 Len(NextValid) > 0 /\ current_result' = compute_current_result(NextValid)
  <1>1. PICK o \in Oracles, v \in Results, t \in 1..MaxTime : SubmitResult(o, v, t)
    BY DEF Next, SetConfigs, Tick, vars
  <1> DEFINE st == [results |-> results', curr_idx |-> curr_idx']
             valid == ValidUpdates(st)
  <1>2. /\ RingOk(st)
        /\ current_result' = IF Len(valid) < min_sample_size THEN current_result
                             ELSE compute_current_result(valid)
        /\ Len(valid) \in Nat /\ min_sample_size \in Nat /\ min_sample_size > 0
    BY <1>1, SubmitFacts
  <1>3. valid \in Seq(Update)
    BY <1>2, ValidFacts
  <1>4. NextValid = valid
    BY DEF NextValid
  <1> HIDE DEF st, valid
  <1> QED BY <1>2, <1>3, <1>4 DEF st

LEMMA MeanStep ==
    ASSUME RingInOrder, Clocked, [Next]_vars, results' # results
    PROVE  MeanBetween
  <1> DEFINE values == {u.result : u \in ToSet(NextValid)}
  <1> SUFFICES ASSUME Len(NextValid) >= min_sample_size
               PROVE  current_result'.mean \in Min(values)..Max(values)
    BY DEF MeanBetween
  <1>1. /\ NextValid \in Seq(Update) /\ Len(NextValid) > 0
        /\ current_result' = compute_current_result(NextValid)
    BY RingChanges
  <1>2. /\ Min(values) \in Int /\ Max(values) \in Int
        /\ \A i \in 1..Len(NextValid) : /\ Min(values) <= NextValid[i].result
                                        /\ NextValid[i].result <= Max(values)
    BY <1>1, RangeFacts
  <1>3. current_result'.mean = Welford(NextValid).mean
    BY <1>1 DEF compute_current_result
  <1> HIDE DEF values
  <1>4. PICK w \in {Min(values), Max(values)} :
           /\ Abs(w) \in Nat
           /\ \A x \in Int : Min(values) <= x /\ x <= Max(values) => Abs(x) <= Abs(w)
    BY <1>2, AbsBounded
  <1>5. \A i \in 1..Len(NextValid) : Abs(NextValid[i].result) <= Abs(w)
    BY <1>1, <1>2, <1>4, UpdatesTyped
  <1>6. Welford(NextValid) \in Accumulator
        /\ Min(values) <= Welford(NextValid).mean /\ Welford(NextValid).mean <= Max(values)
    BY <1>1, <1>2, <1>4, <1>5, WelfordBounded
  <1> QED BY <1>2, <1>3, <1>6 DEF Accumulator

(* The published mean lies between the answers it is of, for any number of *)
(* them and answers of both signs, though every step of it is truncated.   *)
THEOREM MeanAlwaysWithinRange == Spec => MeanWithinRange
  <1> DEFINE A == results' # results => MeanBetween
  <1>1. RingInOrder /\ Clocked /\ [Next]_vars => A
    BY MeanStep
  <1> HIDE DEF A
  <1>2. Spec => [][A]_vars
    BY <1>1, ClockedInit, ClockedNext, RingAlwaysInOrder, PTL DEF Spec
  <1> QED BY <1>2 DEF MeanWithinRange, A

----------------------------------------------------------------------------
(* The bound of the arithmetic.                                            *)
LEMMA OverflowBounded ==
    ASSUME NEW updates \in Seq(Update), Overflows(updates)
    PROVE  FarApart(updates)
  <1> DEFINE values == {u.result : u \in ToSet(updates)}
             end == Welford(updates)
             m == Len(updates)
             square == Spread(values) * Spread(values)
  <1>1. m > 1 /\ m \in Nat /\ (end.m2 > MaxU128 \/ end.sum > MaxU128)
    BY DEF Overflows
  <1>2. Len(updates) > 0
    BY <1>1
  <1>3. MaxU128 \in Nat
    BY FeedUpdatesAssumption
  <1>4. /\ Min(values) \in values /\ Max(values) \in values
        /\ Min(values) \in Int /\ Max(values) \in Int
        /\ \A i \in 1..m : /\ Min(values) <= updates[i].result
                           /\ updates[i].result <= Max(values)
    BY <1>2, RangeFacts
  <1> HIDE DEF values, end
  <1>5. PICK w \in {Min(values), Max(values)} :
           /\ Abs(w) \in Nat
           /\ \A x \in Int : Min(values) <= x /\ x <= Max(values) => Abs(x) <= Abs(w)
    BY <1>4, AbsBounded
  <1>6. \A i \in 1..m : Abs(updates[i].result) <= Abs(w)
    BY <1>4, <1>5, UpdatesTyped
  <1>7. end \in Accumulator /\ end.m2 <= (m - 1) * square /\ end.sum <= m * Abs(w)
    <2> DEFINE lo == Min(values)  hi == Max(values)  b == Abs(w)
    <2>1. /\ lo \in Int /\ hi \in Int /\ b \in Nat
          /\ \A n \in 1..Len(updates) : /\ lo <= updates[n].result /\ updates[n].result <= hi
                                        /\ Abs(updates[n].result) <= b
      BY <1>4, <1>5, <1>6
    <2>2. square = (hi - lo) * (hi - lo)
      BY DEF Spread
    <2> HIDE DEF lo, hi, b, square
    <2>3. /\ Welford(updates) \in Accumulator
          /\ Welford(updates).m2 <= (Len(updates) - 1) * ((hi - lo) * (hi - lo))
          /\ Welford(updates).sum <= Len(updates) * b
      BY <1>2, <2>1, WelfordBounded
    <2> QED BY <2>2, <2>3 DEF end, b
  <1>8. end.m2 \in Int /\ end.sum \in Int
    BY <1>7 DEF Accumulator
  <1>9. (m - 1) * square \in Int /\ m * Abs(w) \in Int
    <2>1. square \in Int
      <3>1. Spread(values) \in Int
        BY <1>4 DEF Spread
      <3> QED BY <3>1
    <2> HIDE DEF square
    <2> QED BY <1>1, <1>5, <2>1
  <1>10. (m - 1) * square > MaxU128 \/ m * Abs(w) > MaxU128
    <2> DEFINE x == (m - 1) * square  y == m * Abs(w)
    <2>1. x \in Int /\ y \in Int /\ end.m2 <= x /\ end.sum <= y
      BY <1>7, <1>9
    <2> HIDE DEF x, y
    <2>2. x > MaxU128 \/ y > MaxU128
      BY <1>1, <1>3, <1>8, <2>1
    <2> QED BY <2>2 DEF x, y
  <1>11. w \in values
    BY <1>4, <1>5
  <1> QED BY <1>10, <1>11 DEF FarApart, values

LEMMA RefusedFacts == RingInOrder => UpdatesAcceptedUnlessSpread
  <1> SUFFICES ASSUME RingInOrder, NEW o \in Oracles, NEW v \in Results, NEW t \in 1..MaxTime
               PROVE  LET u == [result |-> v, timestamp |-> t, oracle |-> o]
                          valid == ValidUpdates(set_update(u))
                      IN  Aborts(valid) => FarApart(valid)
    BY DEF UpdatesAcceptedUnlessSpread
  <1> DEFINE u == [result |-> v, timestamp |-> t, oracle |-> o]
             st == set_update(u)
  <1>1. u \in Update
    BY DEF Update
  <1>2. RingOk(st)
    <2>1. CASE ~Taken(u)
      BY <2>1 DEF set_update, UpdateState, RingInOrder, RingOk
    <2>2. CASE Taken(u)
      BY <1>1, <2>2, TakenUpdate DEF RingOk
    <2> QED BY <2>1, <2>2
  <1> HIDE DEF u, st
  <1>3. ValidUpdates(st) \in Seq(Update)
    BY <1>2, ValidFacts
  <1>4. Aborts(ValidUpdates(st)) => FarApart(ValidUpdates(st))
    BY <1>3, OverflowBounded DEF Aborts
  <1> QED BY <1>4 DEF st, u

(* No update, of whatever time, is refused for an overflow unless the      *)
(* answers valid with it spread so far that the square of the spread, once *)
(* for each but the first, or their number times one of them, exceeds      *)
(* MaxU128: the sums of Welford's algorithm, with its truncated means,     *)
(* stay below.  The bound is sharp: of 0, 1, 1, ... the mean stays at 0.   *)
THEOREM UpdatesAlwaysAcceptedUnlessSpread == Spec => []UpdatesAcceptedUnlessSpread
  BY RefusedFacts, RingAlwaysInOrder, PTL

----------------------------------------------------------------------------
(* The median.  The quickselect swaps updates, which changes none of the   *)
(* counts of answers that a rank is made of.                               *)
Having(s, V) == {k \in 1..Len(s) : s[k].result \in V}

Rearranged(t, s) ==
    /\ t \in Seq(Update)
    /\ Len(t) = Len(s)
    /\ \A k \in 1..Len(t) : \E m \in 1..Len(s) : t[k] = s[m]
    /\ \A V : Cardinality(Having(t, V)) = Cardinality(Having(s, V))

LEMMA MovedOne ==
    ASSUME NEW A, IsFiniteSet(A), NEW i \in A, NEW j, j \notin A
    PROVE  Cardinality((A \ {i}) \cup {j}) = Cardinality(A)
  <1>1. /\ IsFiniteSet(A \ {i}) /\ Cardinality(A \ {i}) = Cardinality(A) - 1
        /\ Cardinality(A) \in Nat
    BY FS_RemoveElement, FS_CardinalityType
  <1>2. Cardinality((A \ {i}) \cup {j}) = Cardinality(A \ {i}) + 1
    BY <1>1, FS_AddElement
  <1> QED BY <1>1, <1>2

LEMMA SwappedFacts ==
    ASSUME NEW s \in Seq(Update), NEW i \in 1..Len(s), NEW j \in 1..Len(s)
    PROVE  LET t == Swapped(s, i, j)
           IN  /\ t \in Seq(Update) /\ Len(t) = Len(s)
               /\ t[i] = s[j] /\ t[j] = s[i]
               /\ \A k \in 1..Len(s) : k # i /\ k # j => t[k] = s[k]
  <1> DEFINE t == Swapped(s, i, j)
  <1>1. t = [s EXCEPT ![i] = s[j], ![j] = s[i]]
    BY DEF Swapped
  <1> HIDE DEF t
  <1>2. t \in Seq(Update) /\ Len(t) = Len(s)
    BY <1>1
  <1>3. t[i] = s[j] /\ t[j] = s[i]
    BY <1>1
  <1>4. \A k \in 1..Len(s) : k # i /\ k # j => t[k] = s[k]
    BY <1>1
  <1> QED BY <1>2, <1>3, <1>4 DEF t

LEMMA SwappedRearranges ==
    ASSUME NEW s \in Seq(Update), NEW i \in 1..Len(s), NEW j \in 1..Len(s)
    PROVE  Rearranged(Swapped(s, i, j), s)
  <1> DEFINE t == Swapped(s, i, j)
  <1>1. /\ t \in Seq(Update) /\ Len(t) = Len(s)
        /\ t[i] = s[j] /\ t[j] = s[i]
        /\ \A k \in 1..Len(s) : k # i /\ k # j => t[k] = s[k]
    BY SwappedFacts
  <1> HIDE DEF t
  <1>2. ASSUME NEW V PROVE Cardinality(Having(t, V)) = Cardinality(Having(s, V))
    <2>1. IsFiniteSet(Having(s, V))
      <3>1. Len(s) \in Int /\ 1 \in Int
        OBVIOUS
      <3>2. IsFiniteSet(1..Len(s))
        BY <3>1, FS_Interval
      <3>3. Having(s, V) \in SUBSET (1..Len(s))
        BY DEF Having
      <3> QED BY <3>2, <3>3, FS_Subset
    <2>2. CASE (i \in Having(s, V)) = (j \in Having(s, V))
      <3>1. Having(t, V) = Having(s, V)
        BY <1>1, <2>2 DEF Having
      <3> QED BY <3>1
    <2>3. CASE i \in Having(s, V) /\ j \notin Having(s, V)
      <3>1. Having(t, V) = (Having(s, V) \ {i}) \cup {j}
        BY <1>1, <2>3 DEF Having
      <3> QED BY <2>1, <2>3, <3>1, MovedOne
    <2>4. CASE j \in Having(s, V) /\ i \notin Having(s, V)
      <3>1. Having(t, V) = (Having(s, V) \ {j}) \cup {i}
        BY <1>1, <2>4 DEF Having
      <3> QED BY <2>1, <2>4, <3>1, MovedOne
    <2> QED BY <2>2, <2>3, <2>4
  <1>3. \A k \in 1..Len(t) : \E m \in 1..Len(s) : t[k] = s[m]
    BY <1>1
  <1> QED BY <1>1, <1>2, <1>3 DEF Rearranged, t

LEMMA RearrangedTwice ==
    ASSUME NEW u, NEW t, NEW s, Rearranged(u, t), Rearranged(t, s)
    PROVE  Rearranged(u, s)
  BY DEF Rearranged

(* What the loop of the partition has after n updates of lo..hi: the       *)
(* smaller ones than the pivot, which is at hi, then the others.           *)
PartitionOf(acc, s, lo, hi, n) ==
    /\ acc \in [s : Seq(Update), i : Int]
    /\ Rearranged(acc.s, s)
    /\ acc.i \in lo..(lo + n)
    /\ \A k \in 1..Len(s) : k < lo \/ k >= lo + n => acc.s[k] = s[k]
    /\ \A k \in lo..hi : \E m \in lo..hi : acc.s[k] = s[m]
    /\ \A k \in lo..(acc.i - 1) : acc.s[k].result < s[hi].result
    /\ \A k \in acc.i..(lo + n - 1) : acc.s[k].result >= s[hi].result

LEMMA PartitionStep ==
    ASSUME NEW s \in Seq(Update), NEW lo \in 1..Len(s), NEW hi \in 1..Len(s),
           NEW n \in 1..(hi - lo), NEW acc, PartitionOf(acc, s, lo, hi, n - 1)
    PROVE  PartitionOf(Below(acc, lo + n - 1, s[hi]), s, lo, hi, n)
  <1> DEFINE j == lo + n - 1
             x == acc.i
             t == acc.s
  <1>1. /\ Len(s) \in Nat /\ lo \in Nat /\ hi \in Nat /\ n \in Nat /\ 1 <= lo /\ lo + n <= hi /\ hi <= Len(s)
        /\ 1 <= n
    OBVIOUS
  <1>2. /\ acc \in [s : Seq(Update), i : Int] /\ acc = [s |-> t, i |-> x]
        /\ t \in Seq(Update) /\ Len(t) = Len(s) /\ Rearranged(t, s)
        /\ x \in Int /\ lo <= x /\ x <= lo + n - 1
        /\ \A k \in 1..Len(s) : k < lo \/ k >= lo + n - 1 => t[k] = s[k]
        /\ \A k \in lo..hi : \E m \in lo..hi : t[k] = s[m]
        /\ \A k \in lo..(x - 1) : t[k].result < s[hi].result
        /\ \A k \in x..(lo + n - 2) : t[k].result >= s[hi].result
    <2>1. /\ acc \in [s : Seq(Update), i : Int] /\ acc = [s |-> t, i |-> x]
          /\ t \in Seq(Update) /\ Len(t) = Len(s) /\ Rearranged(t, s)
      BY DEF PartitionOf, Rearranged
    <2>2. lo + (n - 1) = lo + n - 1 /\ lo + (n - 1) - 1 = lo + n - 2
      BY <1>1
    <2>3. x \in lo..(lo + (n - 1))
      BY DEF PartitionOf
    <2>4. /\ \A k \in 1..Len(s) : k < lo \/ k >= lo + (n - 1) => t[k] = s[k]
          /\ \A k \in lo..hi : \E m \in lo..hi : t[k] = s[m]
          /\ \A k \in lo..(x - 1) : t[k].result < s[hi].result
          /\ \A k \in x..(lo + (n - 1) - 1) : t[k].result >= s[hi].result
      BY DEF PartitionOf
    <2> HIDE DEF x, t
    <2>5. x \in Int /\ lo <= x /\ x <= lo + n - 1
      BY <1>1, <2>3
    <2>6. \A k \in 1..Len(s) : k < lo \/ k >= lo + n - 1 => t[k] = s[k]
      BY <2>2, <2>4
    <2>7. \A k \in x..(lo + n - 2) : t[k].result >= s[hi].result
      BY <2>2, <2>4
    <2> QED BY <2>1, <2>4, <2>5, <2>6, <2>7
  <1>7. Len(t) = Len(s) /\ x \in Int /\ lo <= x /\ x <= lo + n - 1
    <2> HIDE DEF t, x
    <2> QED BY <1>2
  <1>3. \A k \in 1..Len(s) : t[k].result \in Int /\ s[k].result \in Int
    <2> HIDE DEF t
    <2> QED BY <1>2, UpdatesTyped
  <1> DEFINE p == s[hi].result
  <1>4. p \in Int
    BY <1>3
  <1>5. CASE t[j].result < p
    <2> DEFINE u == Swapped(t, x, j)
    <2>1. Below(acc, j, s[hi]) = [s |-> u, i |-> x + 1]
      BY <1>5 DEF Below
    <2>2. x \in 1..Len(t) /\ j \in 1..Len(t)
      <3> HIDE DEF t, x
      <3> QED BY <1>1, <1>2
    <2>3. /\ u \in Seq(Update) /\ Len(u) = Len(t) /\ u[x] = t[j] /\ u[j] = t[x]
          /\ \A k \in 1..Len(t) : k # x /\ k # j => u[k] = t[k]
      <3>1. t \in Seq(Update)
        BY <1>2
      <3> HIDE DEF t, x, j
      <3> QED BY <2>2, <3>1, SwappedFacts
    <2>4. Rearranged(u, s)
      <3>1. Rearranged(u, t)
        <4> HIDE DEF t, x, j
        <4> QED BY <1>2, <2>2, SwappedRearranges
      <3> HIDE DEF u, t
      <3> QED BY <1>2, <3>1, RearrangedTwice
    <2> HIDE DEF u, t, x, p
    <2>5. x + 1 \in lo..(lo + n)
      BY <1>1, <1>7
    <2>6. ASSUME NEW k \in 1..Len(s), k < lo \/ k >= lo + n PROVE u[k] = s[k]
      BY <1>1, <1>2, <2>3, <2>6
    <2>7. ASSUME NEW k \in lo..hi PROVE \E m \in lo..hi : u[k] = s[m]
      <3>1. k \in 1..Len(t) /\ x \in lo..hi /\ j \in lo..hi
        BY <1>1, <1>7
      <3> QED BY <1>2, <2>3, <3>1
    <2>8. ASSUME NEW k \in lo..x PROVE u[k].result < p
      <3>1. CASE k = x
        BY <1>5, <2>3, <3>1
      <3>2. CASE k # x
        <4>1. k \in lo..(x - 1) /\ k \in 1..Len(t) /\ k # j
          BY <1>1, <1>7, <3>2
        <4> QED BY <1>2, <2>3, <3>2, <4>1 DEF p
      <3> QED BY <3>1, <3>2
    <2>9. ASSUME NEW k \in (x + 1)..(lo + n - 1) PROVE u[k].result >= p
      <3>1. CASE k = j
        <4>1. x \in x..(lo + n - 2) /\ x # j
          BY <1>1, <1>7, <3>1
        <4> QED BY <1>2, <2>3, <3>1, <4>1 DEF p
      <3>2. CASE k # j
        <4>1. k \in x..(lo + n - 2) /\ k \in 1..Len(t) /\ k # x
          BY <1>1, <1>7, <3>2
        <4> QED BY <1>2, <2>3, <3>2, <4>1 DEF p
      <3> QED BY <3>1, <3>2
    <2> DEFINE r == [s |-> u, i |-> x + 1]
    <2>10. r \in [s : Seq(Update), i : Int] /\ r.s = u /\ r.i = x + 1 /\ r.i - 1 = x
      BY <1>2, <2>3
    <2> HIDE DEF r
    <2>11. PartitionOf(r, s, lo, hi, n)
      BY <2>4, <2>5, <2>6, <2>7, <2>8, <2>9, <2>10 DEF PartitionOf, p
    <2> QED BY <2>1, <2>11 DEF r
  <1>6. CASE ~(t[j].result < p)
    <2>1. Below(acc, j, s[hi]) = acc
      BY <1>6 DEF Below
    <2>2. j \in 1..Len(s) /\ t[j].result >= p
      <3>1. j \in 1..Len(s)
        BY <1>1
      <3> HIDE DEF p, j, t
      <3> QED BY <1>3, <1>4, <1>6, <3>1
    <2>3. x \in lo..(lo + n)
      <3> HIDE DEF x
      <3> QED BY <1>1, <1>2
    <2>4. \A k \in 1..Len(s) : k < lo \/ k >= lo + n => t[k] = s[k]
      <3> HIDE DEF t, x
      <3> QED BY <1>1, <1>2
    <2>5. ASSUME NEW k \in x..(lo + n - 1) PROVE t[k].result >= p
      <3> HIDE DEF t, x, p
      <3>1. k = j \/ k \in x..(lo + n - 2)
        BY <1>1, <1>7
      <3> QED BY <1>2, <2>2, <3>1 DEF p
    <2> QED BY <1>2, <2>1, <2>3, <2>4, <2>5 DEF PartitionOf
  <1> QED BY <1>5, <1>6

IsPartition(g, s, lo, hi) ==
    g = [n \in 0..(hi - lo) |->
           IF n = 0 THEN [s |-> s, i |-> lo] ELSE Below(g[n - 1], lo + n - 1, s[hi])]

LEMMA PartitionStart ==
    ASSUME NEW s \in Seq(Update), NEW lo \in 1..Len(s), NEW hi \in 1..Len(s), lo <= hi
    PROVE  PartitionOf([s |-> s, i |-> lo], s, lo, hi, 0)
  <1> DEFINE acc == [s |-> s, i |-> lo]
  <1>1. acc \in [s : Seq(Update), i : Int] /\ acc.s = s /\ acc.i = lo
    OBVIOUS
  <1>2. Rearranged(s, s)
    BY DEF Rearranged
  <1>3. lo \in lo..(lo + 0) /\ \A k \in lo..(lo - 1) : FALSE
    OBVIOUS
  <1>4. \A k \in lo..(lo + 0 - 1) : FALSE
    OBVIOUS
  <1> HIDE DEF acc
  <1> QED BY <1>1, <1>2, <1>3, <1>4 DEF PartitionOf

LEMMA PartitionExists ==
    ASSUME NEW s \in Seq(Update), NEW lo \in 1..Len(s), NEW hi \in 1..Len(s), lo <= hi
    PROVE  \E g : IsPartition(g, s, lo, hi) /\ Partitioned(s, lo, hi) = g[hi - lo]
  <1> DEFINE m == hi - lo
             X == [s : Seq(Update), i : Int]
             start == [s |-> s, i |-> lo]
             F == [n \in 1..m |-> [acc \in X |->
                     IF PartitionOf(acc, s, lo, hi, n - 1)
                     THEN Below(acc, lo + n - 1, s[hi]) ELSE acc]]
  <1>1. m \in Nat
    OBVIOUS
  <1>2. F \in [1..m -> [X -> X]]
    <2>1. ASSUME NEW n \in 1..m, NEW acc \in X, PartitionOf(acc, s, lo, hi, n - 1)
          PROVE  Below(acc, lo + n - 1, s[hi]) \in X
      <3>1. PartitionOf(Below(acc, lo + n - 1, s[hi]), s, lo, hi, n)
        BY <2>1, PartitionStep
      <3> QED BY <3>1 DEF PartitionOf
    <2> HIDE DEF X
    <2> QED BY <2>1
  <1>3. start \in X
    OBVIOUS
  <1>4. PICK g \in [0..m -> X] : Iterates(g, start, F, m)
    <2> HIDE DEF X, F, start, m
    <2> QED BY <1>1, <1>2, <1>3, IterationExists
  <1>5. g[0] = start
    BY <1>4 DEF Iterates
  <1> DEFINE P == {n \in 0..m : PartitionOf(g[n], s, lo, hi, n)}
  <1>6. 0 \in P
    <2>1. PartitionOf(g[0], s, lo, hi, 0)
      BY <1>5, PartitionStart
    <2> QED BY <1>1, <2>1
  <1>7. ASSUME NEW n \in 1..m, n - 1 \in P
        PROVE  /\ n \in P
               /\ g[n] = Below(g[n - 1], lo + n - 1, s[hi])
    <2>1. n - 1 \in 0..m /\ n \in 0..m
      BY <1>1
    <2>2. g[n - 1] \in X
      BY <1>4, <2>1
    <2>3. PartitionOf(g[n - 1], s, lo, hi, n - 1)
      BY <1>7
    <2>4. g[n] = F[n][g[n - 1]]
      BY <1>4 DEF Iterates
    <2>5. F[n][g[n - 1]] = Below(g[n - 1], lo + n - 1, s[hi])
      <3> HIDE DEF X
      <3> QED BY <2>2, <2>3
    <2>6. PartitionOf(Below(g[n - 1], lo + n - 1, s[hi]), s, lo, hi, n)
      BY <2>3, PartitionStep
    <2> HIDE DEF X, F
    <2> QED BY <2>1, <2>4, <2>5, <2>6
  <1> HIDE DEF X, F, P
  <1>8. 0..m \subseteq P
    BY <1>1, <1>6, <1>7, RangeInduction
  <1>9. IsPartition(g, s, lo, hi)
    <2>1. \A n \in 0..m : n # 0 => n \in 1..m /\ n - 1 \in 0..m
      BY <1>1
    <2>2. ASSUME NEW n \in 0..m
          PROVE  g[n] = IF n = 0 THEN [s |-> s, i |-> lo] ELSE Below(g[n - 1], lo + n - 1, s[hi])
      BY <1>5, <1>7, <1>8, <2>1
    <2> QED BY <1>4, <2>2 DEF IsPartition
  <1>10. Partitioned(s, lo, hi) = (CHOOSE h : IsPartition(h, s, lo, hi))[m]
    BY DEF Partitioned, IsPartition
  <1> HIDE DEF m
  <1>11. IsPartition(CHOOSE h : IsPartition(h, s, lo, hi), s, lo, hi)
    BY <1>9
  <1> QED BY <1>10, <1>11 DEF m

LEMMA PartitionFacts ==
    ASSUME NEW s \in Seq(Update), NEW lo \in 1..Len(s), NEW hi \in 1..Len(s), lo <= hi
    PROVE  PartitionOf(Partitioned(s, lo, hi), s, lo, hi, hi - lo)
  <1> DEFINE m == hi - lo
  <1>1. m \in Nat
    OBVIOUS
  <1>2. PICK g : IsPartition(g, s, lo, hi) /\ Partitioned(s, lo, hi) = g[m]
    BY PartitionExists
  <1> DEFINE P == {n \in 0..m : PartitionOf(g[n], s, lo, hi, n)}
  <1>3. 0 \in P
    <2>1. g[0] = [s |-> s, i |-> lo]
      BY <1>1, <1>2 DEF IsPartition
    <2>2. PartitionOf(g[0], s, lo, hi, 0)
      BY <2>1, PartitionStart
    <2> QED BY <1>1, <2>2
  <1>4. ASSUME NEW n \in 1..m, n - 1 \in P PROVE n \in P
    <2>1. g[n] = Below(g[n - 1], lo + n - 1, s[hi])
      BY <1>1, <1>2 DEF IsPartition
    <2>2. PartitionOf(g[n - 1], s, lo, hi, n - 1)
      BY <1>4
    <2>3. PartitionOf(g[n], s, lo, hi, n)
      BY <2>1, <2>2, PartitionStep
    <2> QED BY <1>1, <2>3
  <1> HIDE DEF P
  <1>5. 0..m \subseteq P
    BY <1>1, <1>3, <1>4, RangeInduction
  <1>6. m \in P
    BY <1>1, <1>5
  <1> QED BY <1>2, <1>6 DEF P

(* No answer before the place a exceeds one from there on.                 *)
Splits(s, a) ==
    \A k, m \in 1..Len(s) : k < a /\ m >= a => s[k].result <= s[m].result

(* What a round makes of lo..hi: the pivot is at i, between the smaller    *)
(* ones and the others.                                                    *)
Parted(t, s, lo, hi, i, p) ==
    /\ Rearranged(t, s) /\ p \in Int
    /\ \A k \in 1..Len(s) : k < lo \/ k > hi => t[k] = s[k]
    /\ \A k \in lo..hi : \E m \in lo..hi : t[k] = s[m]
    /\ \A k \in lo..(i - 1) : t[k].result < p
    /\ t[i].result = p
    /\ \A k \in (i + 1)..hi : t[k].result >= p

LEMMA PartedFacts ==
    ASSUME NEW s \in Seq(Update), NEW lo \in 1..Len(s), NEW hi \in 1..Len(s), lo <= hi
    PROVE  LET below == Partitioned(s, lo, hi)
           IN  /\ below.i \in Int /\ lo <= below.i /\ below.i <= hi
               /\ Parted(Swapped(below.s, below.i, hi), s, lo, hi, below.i, s[hi].result)
  <1> DEFINE b == Partitioned(s, lo, hi)
             u == b.s
             i == b.i
             t == Swapped(u, i, hi)
             p == s[hi].result
  <1>1. PartitionOf(b, s, lo, hi, hi - lo)
    BY PartitionFacts
  <1> HIDE DEF b
  <1>2. lo \in Int /\ hi \in Int /\ 1 <= lo /\ hi <= Len(s) /\ lo + (hi - lo) = hi
        /\ lo + (hi - lo) - 1 = hi - 1 /\ Len(s) \in Nat
    OBVIOUS
  <1>3. Rearranged(u, s) /\ u \in Seq(Update) /\ Len(u) = Len(s)
    BY <1>1 DEF PartitionOf, Rearranged
  <1>4. i \in Int /\ lo <= i /\ i <= hi
    <2>1. i \in lo..(lo + (hi - lo))
      BY <1>1 DEF PartitionOf
    <2> HIDE DEF i
    <2> QED BY <1>2, <2>1
  <1>5. /\ \A k \in 1..Len(s) : k < lo \/ k >= hi => u[k] = s[k]
        /\ \A k \in lo..hi : \E m \in lo..hi : u[k] = s[m]
        /\ \A k \in lo..(i - 1) : u[k].result < p
        /\ \A k \in i..(hi - 1) : u[k].result >= p
    BY <1>1, <1>2 DEF PartitionOf
  <1>6. p \in Int /\ u[hi] = s[hi]
    <2>1. p \in Int
      BY UpdatesTyped
    <2>2. hi \in 1..Len(s) /\ hi >= hi
      OBVIOUS
    <2>3. u[hi] = s[hi]
      <3> HIDE DEF u, p
      <3> QED BY <1>5, <2>2
    <2> QED BY <2>1, <2>3
  <1> HIDE DEF u, i
  <1>7. i \in 1..Len(u) /\ hi \in 1..Len(u)
    BY <1>2, <1>3, <1>4
  <1>8. /\ t[i] = u[hi] /\ t[hi] = u[i] /\ Len(t) = Len(u)
        /\ \A k \in 1..Len(u) : k # i /\ k # hi => t[k] = u[k]
    BY <1>3, <1>7, SwappedFacts
  <1>9. Rearranged(t, s)
    <2>1. Rearranged(t, u)
      BY <1>3, <1>7, SwappedRearranges
    <2> HIDE DEF t
    <2> QED BY <1>3, <2>1, RearrangedTwice
  <1> HIDE DEF t
  <1>10. ASSUME NEW k \in 1..Len(s), k < lo \/ k > hi PROVE t[k] = s[k]
    BY <1>2, <1>3, <1>4, <1>5, <1>8, <1>10
  <1>11. ASSUME NEW k \in lo..hi PROVE \E m \in lo..hi : t[k] = s[m]
    <2>1. k \in 1..Len(u) /\ i \in lo..hi /\ hi \in lo..hi
      BY <1>2, <1>3, <1>4
    <2>2. PICK n \in lo..hi : t[k] = u[n]
      BY <1>8, <2>1
    <2>3. \E m \in lo..hi : u[n] = s[m]
      BY <1>5
    <2> HIDE DEF u, i
    <2> QED BY <2>2, <2>3
  <1>12. ASSUME NEW k \in lo..(i - 1) PROVE t[k].result < p
    <2>1. k \in 1..Len(u) /\ k # i /\ k # hi
      BY <1>2, <1>3, <1>4
    <2>2. t[k] = u[k]
      BY <1>8, <2>1
    <2> HIDE DEF p
    <2> QED BY <1>5, <2>2
  <1>13. t[i].result = p
    BY <1>6, <1>8
  <1>14. ASSUME NEW k \in (i + 1)..hi PROVE t[k].result >= p
    <2>1. CASE k = hi
      <3>1. i \in i..(hi - 1)
        BY <1>2, <1>4, <2>1
      <3> HIDE DEF p
      <3> QED BY <1>5, <1>8, <2>1, <3>1
    <2>2. CASE k # hi
      <3>1. k \in i..(hi - 1) /\ k \in 1..Len(u) /\ k # i
        BY <1>2, <1>3, <1>4, <2>2
      <3>2. t[k] = u[k]
        BY <1>8, <2>2, <3>1
      <3> HIDE DEF p
      <3> QED BY <1>5, <3>1, <3>2
    <2> QED BY <2>1, <2>2
  <1> HIDE DEF p
  <1>15. Parted(t, s, lo, hi, i, p)
    BY <1>6, <1>9, <1>10, <1>11, <1>12, <1>13, <1>14 DEF Parted
  <1> QED BY <1>4, <1>15 DEF p, t, u, i, b

LEMMA PartedSplits ==
    ASSUME NEW s \in Seq(Update), NEW lo \in 1..Len(s), NEW hi \in 1..Len(s), lo <= hi,
           NEW i \in lo..hi, NEW t, NEW p, Parted(t, s, lo, hi, i, p),
           Splits(s, lo), Splits(s, hi + 1)
    PROVE  Splits(t, lo) /\ Splits(t, hi + 1) /\ Splits(t, i) /\ Splits(t, i + 1)
  <1>1. /\ t \in Seq(Update) /\ Len(t) = Len(s) /\ p \in Int /\ Len(s) \in Nat
        /\ \A k \in 1..Len(s) : k < lo \/ k > hi => t[k] = s[k]
        /\ \A k \in lo..hi : \E m \in lo..hi : t[k] = s[m]
        /\ \A k \in lo..(i - 1) : t[k].result < p
        /\ t[i].result = p
        /\ \A k \in (i + 1)..hi : t[k].result >= p
    BY DEF Parted, Rearranged
  <1>2. \A k \in 1..Len(s) : t[k].result \in Int /\ s[k].result \in Int
    BY <1>1, UpdatesTyped
  <1>3. lo \in Int /\ hi \in Int /\ i \in Int /\ lo <= i /\ i <= hi /\ 1 <= lo /\ hi <= Len(s)
    OBVIOUS
  <1>4. \A k \in 1..Len(s) : k >= lo => \E m \in 1..Len(s) : m >= lo /\ t[k] = s[m]
    <2> SUFFICES ASSUME NEW k \in 1..Len(s), k >= lo
                 PROVE  \E m \in 1..Len(s) : m >= lo /\ t[k] = s[m]
      OBVIOUS
    <2>1. CASE k > hi
      BY <1>1, <2>1
    <2>2. CASE k <= hi
      <3>1. k \in lo..hi
        BY <1>3, <2>2
      <3>2. PICK m \in lo..hi : t[k] = s[m]
        BY <1>1, <3>1
      <3>3. m \in 1..Len(s) /\ m >= lo
        BY <1>3
      <3> QED BY <3>2, <3>3
    <2> QED BY <2>1, <2>2
  <1>5. \A k \in 1..Len(s) : k <= hi => \E m \in 1..Len(s) : m <= hi /\ t[k] = s[m]
    <2> SUFFICES ASSUME NEW k \in 1..Len(s), k <= hi
                 PROVE  \E m \in 1..Len(s) : m <= hi /\ t[k] = s[m]
      OBVIOUS
    <2>1. CASE k < lo
      BY <1>1, <2>1
    <2>2. CASE k >= lo
      <3>1. k \in lo..hi
        BY <1>3, <2>2
      <3>2. PICK m \in lo..hi : t[k] = s[m]
        BY <1>1, <3>1
      <3>3. m \in 1..Len(s) /\ m <= hi
        BY <1>3
      <3> QED BY <3>2, <3>3
    <2> QED BY <2>1, <2>2
  <1>6. Splits(t, lo)
    <2> SUFFICES ASSUME NEW k \in 1..Len(s), NEW m \in 1..Len(s), k < lo, m >= lo
                 PROVE  t[k].result <= t[m].result
      BY <1>1 DEF Splits
    <2>1. t[k] = s[k]
      BY <1>1
    <2>2. PICK n \in 1..Len(s) : n >= lo /\ t[m] = s[n]
      BY <1>4
    <2> QED BY <2>1, <2>2 DEF Splits
  <1>7. Splits(t, hi + 1)
    <2> SUFFICES ASSUME NEW k \in 1..Len(s), NEW m \in 1..Len(s), k < hi + 1, m >= hi + 1
                 PROVE  t[k].result <= t[m].result
      BY <1>1 DEF Splits
    <2>1. k <= hi /\ m > hi
      BY <1>3
    <2>2. t[m] = s[m]
      BY <1>1, <2>1
    <2>3. PICK n \in 1..Len(s) : n <= hi /\ t[k] = s[n]
      BY <1>5, <2>1
    <2>4. n < hi + 1
      BY <1>3, <2>3
    <2> QED BY <2>2, <2>3, <2>4 DEF Splits
  <1>8. \A k \in lo..i : t[k].result <= p
    <2> SUFFICES ASSUME NEW k \in lo..i PROVE t[k].result <= p
      OBVIOUS
    <2>1. k = i \/ k \in lo..(i - 1)
      BY <1>3
    <2>2. t[k].result \in Int
      BY <1>2, <1>3
    <2> QED BY <1>1, <2>1, <2>2
  <1>9. \A k \in i..hi : t[k].result >= p
    <2> SUFFICES ASSUME NEW k \in i..hi PROVE t[k].result >= p
      OBVIOUS
    <2>1. k = i \/ k \in (i + 1)..hi
      BY <1>3
    <2> QED BY <1>1, <2>1
  <1>10. ASSUME NEW a \in {i, i + 1} PROVE Splits(t, a)
    <2> SUFFICES ASSUME NEW k \in 1..Len(s), NEW m \in 1..Len(s), k < a, m >= a
                 PROVE  t[k].result <= t[m].result
      BY <1>1 DEF Splits
    <2>1. CASE k < lo
      <3>1. m >= lo
        BY <1>3
      <3> QED BY <1>1, <1>6, <2>1, <3>1 DEF Splits
    <2>2. CASE m > hi
      <3>1. k < hi + 1 /\ m >= hi + 1
        BY <1>3, <2>2
      <3> QED BY <1>1, <1>7, <3>1 DEF Splits
    <2>3. CASE k >= lo /\ m <= hi
      <3>1. k \in lo..i /\ m \in i..hi
        BY <1>3, <2>3
      <3>2. t[k].result <= p /\ t[m].result >= p
        BY <1>8, <1>9, <3>1
      <3>3. t[k].result \in Int /\ t[m].result \in Int
        BY <1>2
      <3>4. p \in Int
        BY <1>1
      <3> QED BY <3>2, <3>3, <3>4
    <2> QED BY <1>3, <2>1, <2>2, <2>3
  <1> QED BY <1>6, <1>7, <1>10

(* What the quickselect has after n rounds: the place of the median lies   *)
(* in lo..hi, which is one place or has lost one in every round.           *)
Selection == [s : Seq(Update), lo : Int, hi : Int]

SelectOf(q, updates, mid, n) ==
    /\ q \in Selection
    /\ Rearranged(q.s, updates)
    /\ 1 <= q.lo /\ q.lo <= mid /\ mid <= q.hi /\ q.hi <= Len(updates)
    /\ q.lo = q.hi \/ q.hi - q.lo < Len(updates) - n
    /\ Splits(q.s, q.lo) /\ Splits(q.s, q.hi + 1)

LEMMA SelectStep ==
    ASSUME NEW updates \in Seq(Update), NEW mid \in 1..Len(updates),
           NEW n \in 1..Len(updates), NEW q, SelectOf(q, updates, mid, n - 1)
    PROVE  SelectOf(NarrowedIfOpen(q, mid), updates, mid, n)
  <1> DEFINE s == q.s  lo == q.lo  hi == q.hi
  <1>1. /\ q \in Selection /\ s \in Seq(Update) /\ lo \in Int /\ hi \in Int
        /\ Rearranged(s, updates) /\ Len(s) = Len(updates)
        /\ Splits(s, lo) /\ Splits(s, hi + 1)
    BY DEF SelectOf, Rearranged, Selection
  <1>2. /\ 1 <= lo /\ lo <= mid /\ mid <= hi /\ hi <= Len(updates)
        /\ lo = hi \/ hi - lo < Len(updates) - (n - 1)
        /\ Len(updates) \in Nat /\ mid \in Int /\ n \in Int
    BY DEF SelectOf
  <1>3. CASE ~(lo < hi)
    <2>1. NarrowedIfOpen(q, mid) = q
      BY <1>3 DEF NarrowedIfOpen
    <2>2. lo = hi
      <3> HIDE DEF lo, hi
      <3> QED BY <1>1, <1>2, <1>3
    <2> QED BY <1>1, <1>2, <2>1, <2>2 DEF SelectOf
  <1>4. CASE lo < hi
    <2> DEFINE b == Partitioned(s, lo, hi)
               i == b.i
               t == Swapped(b.s, i, hi)
    <2>1. NarrowedIfOpen(q, mid) = Narrowed(q, mid)
      BY <1>4 DEF NarrowedIfOpen
    <2>2. hi - lo < Len(updates) - (n - 1)
      <3> HIDE DEF lo, hi
      <3> QED BY <1>1, <1>2, <1>4
    <2>3. Narrowed(q, mid) =
             CASE i = mid -> [s |-> t, lo |-> mid, hi |-> mid]
               [] i < mid -> [s |-> t, lo |-> i + 1, hi |-> hi]
               [] i > mid -> [s |-> t, lo |-> lo, hi |-> i - 1]
      BY DEF Narrowed
    <2> HIDE DEF s, lo, hi
    <2>4. lo \in 1..Len(s) /\ hi \in 1..Len(s) /\ lo <= hi
      BY <1>1, <1>2, <1>4
    <2>5. i \in Int /\ lo <= i /\ i <= hi
      BY <1>1, <2>4, PartedFacts
    <2>6. Parted(t, s, lo, hi, i, s[hi].result)
      BY <1>1, <2>4, PartedFacts
    <2> HIDE DEF i, t
    <2>7. i \in lo..hi
      BY <1>1, <2>5
    <2>8. Splits(t, lo) /\ Splits(t, hi + 1) /\ Splits(t, i) /\ Splits(t, i + 1)
      BY <1>1, <2>4, <2>6, <2>7, PartedSplits
    <2>9. Rearranged(t, updates) /\ t \in Seq(Update)
      <3>1. Rearranged(t, s)
        BY <2>6 DEF Parted
      <3>2. Rearranged(t, updates)
        BY <1>1, <3>1, RearrangedTwice
      <3> QED BY <3>2 DEF Rearranged
    <2>10. ASSUME NEW a \in Int, NEW c \in Int, 1 <= a, a <= mid, mid <= c, c <= Len(updates),
                  a = c \/ c - a < Len(updates) - n, Splits(t, a), Splits(t, c + 1)
           PROVE  SelectOf([s |-> t, lo |-> a, hi |-> c], updates, mid, n)
      <3> DEFINE r == [s |-> t, lo |-> a, hi |-> c]
      <3>1. r \in Selection /\ r.s = t /\ r.lo = a /\ r.hi = c
        BY <2>9 DEF Selection
      <3> HIDE DEF r
      <3>2. SelectOf(r, updates, mid, n)
        BY <2>9, <2>10, <3>1 DEF SelectOf
      <3> QED BY <3>2 DEF r
    <2>11. CASE i = mid
      <3>1. Narrowed(q, mid) = [s |-> t, lo |-> mid, hi |-> mid]
        <4>1. ~(i < mid) /\ ~(i > mid)
          BY <1>2, <2>11
        <4> QED BY <2>3, <2>11, <4>1
      <3>2. Splits(t, mid) /\ Splits(t, mid + 1)
        BY <2>8, <2>11
      <3>3. 1 <= mid /\ mid <= mid /\ mid <= Len(updates)
        BY <1>1, <1>2
      <3>4. SelectOf([s |-> t, lo |-> mid, hi |-> mid], updates, mid, n)
        BY <1>2, <2>10, <3>2, <3>3
      <3> QED BY <2>1, <3>1, <3>4
    <2>12. CASE i < mid
      <3>1. i # mid /\ ~(i > mid)
        BY <1>2, <2>5, <2>12
      <3>2. Narrowed(q, mid) = [s |-> t, lo |-> i + 1, hi |-> hi]
        BY <2>3, <2>12, <3>1
      <3>3. /\ i + 1 \in Int /\ 1 <= i + 1 /\ i + 1 <= mid
            /\ hi - (i + 1) < Len(updates) - n
        BY <1>1, <1>2, <2>2, <2>5, <2>12
      <3>4. SelectOf([s |-> t, lo |-> i + 1, hi |-> hi], updates, mid, n)
        BY <1>1, <1>2, <2>8, <2>10, <3>3
      <3> QED BY <2>1, <3>2, <3>4
    <2>13. CASE i > mid
      <3>1. i # mid /\ ~(i < mid)
        BY <1>2, <2>5, <2>13
      <3>2. Narrowed(q, mid) = [s |-> t, lo |-> lo, hi |-> i - 1]
        BY <2>3, <2>13, <3>1
      <3>3. /\ i - 1 \in Int /\ mid <= i - 1 /\ i - 1 <= Len(updates)
            /\ (i - 1) - lo < Len(updates) - n /\ (i - 1) + 1 = i
        BY <1>1, <1>2, <2>2, <2>5, <2>13
      <3>4. Splits(t, (i - 1) + 1)
        BY <2>8, <3>3
      <3>5. SelectOf([s |-> t, lo |-> lo, hi |-> i - 1], updates, mid, n)
        BY <1>1, <1>2, <2>8, <2>10, <3>3, <3>4
      <3> QED BY <2>1, <3>2, <3>5
    <2> QED BY <1>2, <2>5, <2>11, <2>12, <2>13
  <1> QED BY <1>3, <1>4

SelectStart(updates) == [s |-> updates, lo |-> 1, hi |-> Len(updates)]

LEMMA SelectStarts ==
    ASSUME NEW updates \in Seq(Update), NEW mid \in 1..Len(updates)
    PROVE  SelectOf(SelectStart(updates), updates, mid, 0)
  <1> DEFINE q == SelectStart(updates)
  <1>1. q \in Selection /\ q.s = updates /\ q.lo = 1 /\ q.hi = Len(updates)
    BY DEF SelectStart, Selection
  <1>2. Rearranged(updates, updates)
    BY DEF Rearranged
  <1>3. Splits(updates, 1) /\ Splits(updates, Len(updates) + 1)
    BY DEF Splits
  <1>4. /\ 1 <= 1 /\ 1 <= mid /\ mid <= Len(updates) /\ Len(updates) <= Len(updates)
        /\ Len(updates) - 1 < Len(updates) - 0
    OBVIOUS
  <1> HIDE DEF q
  <1>5. SelectOf(q, updates, mid, 0)
    BY <1>1, <1>2, <1>3, <1>4 DEF SelectOf
  <1> QED BY <1>5 DEF q

Middle(updates) == Len(updates) \div 2 + 1

IsSelect(g, updates) ==
    g = [n \in 0..Len(updates) |->
           IF n = 0 THEN SelectStart(updates) ELSE NarrowedIfOpen(g[n - 1], Middle(updates))]

LEMMA SelectExists ==
    ASSUME NEW updates \in Seq(Update), Middle(updates) \in 1..Len(updates)
    PROVE  \E g : IsSelect(g, updates) /\ median_result(updates) = g[Len(updates)].s[Middle(updates)]
  <1> DEFINE m == Len(updates)
             mid == Middle(updates)
             X == Selection
             start == SelectStart(updates)
             F == [n \in 1..m |-> [q \in X |->
                     IF SelectOf(q, updates, mid, n - 1) THEN NarrowedIfOpen(q, mid) ELSE q]]
  <1> HIDE DEF mid
  <1>1. m \in Nat /\ mid \in 1..Len(updates)
    BY DEF mid
  <1>2. F \in [1..m -> [X -> X]]
    <2>1. ASSUME NEW n \in 1..m, NEW q \in X, SelectOf(q, updates, mid, n - 1)
          PROVE  NarrowedIfOpen(q, mid) \in X
      <3>1. SelectOf(NarrowedIfOpen(q, mid), updates, mid, n)
        BY <1>1, <2>1, SelectStep
      <3> QED BY <3>1 DEF SelectOf
    <2> HIDE DEF X
    <2> QED BY <2>1
  <1>3. SelectOf(start, updates, mid, 0) /\ start \in X
    <2>1. SelectOf(start, updates, mid, 0)
      BY <1>1, SelectStarts
    <2> QED BY <2>1 DEF SelectOf
  <1>4. PICK g \in [0..m -> X] : Iterates(g, start, F, m)
    <2> HIDE DEF X, F, start, m
    <2> QED BY <1>1, <1>2, <1>3, IterationExists
  <1>5. g[0] = start
    BY <1>4 DEF Iterates
  <1> DEFINE P == {n \in 0..m : SelectOf(g[n], updates, mid, n)}
  <1>6. 0 \in P
    <2> HIDE DEF start
    <2> QED BY <1>1, <1>3, <1>5
  <1>7. ASSUME NEW n \in 1..m, n - 1 \in P
        PROVE  n \in P /\ g[n] = NarrowedIfOpen(g[n - 1], mid)
    <2>1. n - 1 \in 0..m /\ n \in 0..m
      BY <1>1
    <2>2. g[n - 1] \in X
      BY <1>4, <2>1
    <2>3. SelectOf(g[n - 1], updates, mid, n - 1)
      BY <1>7
    <2>4. g[n] = F[n][g[n - 1]]
      BY <1>4 DEF Iterates
    <2>5. F[n][g[n - 1]] = NarrowedIfOpen(g[n - 1], mid)
      <3> HIDE DEF X
      <3> QED BY <2>2, <2>3
    <2>6. SelectOf(NarrowedIfOpen(g[n - 1], mid), updates, mid, n)
      BY <1>1, <2>3, SelectStep
    <2> HIDE DEF X, F
    <2> QED BY <2>1, <2>4, <2>5, <2>6
  <1> HIDE DEF X, F, P
  <1>8. 0..m \subseteq P
    BY <1>1, <1>6, <1>7, RangeInduction
  <1>9. IsSelect(g, updates)
    <2>1. \A n \in 0..m : n # 0 => n \in 1..m /\ n - 1 \in 0..m
      BY <1>1
    <2>2. ASSUME NEW n \in 0..m
          PROVE  g[n] = IF n = 0 THEN SelectStart(updates) ELSE NarrowedIfOpen(g[n - 1], Middle(updates))
      BY <1>5, <1>7, <1>8, <2>1 DEF mid
    <2> QED BY <1>4, <2>2 DEF IsSelect
  <1>10. median_result(updates) = (CHOOSE h : IsSelect(h, updates))[m].s[Middle(updates)]
    BY DEF median_result, IsSelect, Middle, SelectStart
  <1> HIDE DEF m
  <1>11. IsSelect(CHOOSE h : IsSelect(h, updates), updates)
    BY <1>9
  <1> QED BY <1>10, <1>11 DEF m

(* The quickselect ends with the median at its place, no answer before it  *)
(* being greater and none after it smaller.                                *)
LEMMA MedianSelected ==
    ASSUME NEW updates \in Seq(Update), Middle(updates) \in 1..Len(updates)
    PROVE  \E t : /\ Rearranged(t, updates) /\ median_result(updates) = t[Middle(updates)]
                  /\ Splits(t, Middle(updates)) /\ Splits(t, Middle(updates) + 1)
  <1> DEFINE m == Len(updates)
             mid == Middle(updates)
  <1> HIDE DEF mid
  <1>1. m \in Nat /\ mid \in 1..Len(updates)
    BY DEF mid
  <1>2. PICK g : IsSelect(g, updates) /\ median_result(updates) = g[m].s[mid]
    BY SelectExists DEF mid
  <1> DEFINE P == {n \in 0..m : SelectOf(g[n], updates, mid, n)}
  <1>3. 0 \in P
    <2>1. g[0] = SelectStart(updates)
      BY <1>1, <1>2 DEF IsSelect
    <2>2. SelectOf(g[0], updates, mid, 0)
      BY <1>1, <2>1, SelectStarts
    <2> QED BY <1>1, <2>2
  <1>4. ASSUME NEW n \in 1..m, n - 1 \in P PROVE n \in P
    <2>1. g[n] = NarrowedIfOpen(g[n - 1], mid)
      BY <1>1, <1>2 DEF IsSelect, mid
    <2>2. SelectOf(g[n - 1], updates, mid, n - 1)
      BY <1>4
    <2>3. SelectOf(g[n], updates, mid, n)
      BY <1>1, <2>1, <2>2, SelectStep
    <2> QED BY <1>1, <2>3
  <1> HIDE DEF P
  <1>5. 0..m \subseteq P
    BY <1>1, <1>3, <1>4, RangeInduction
  <1>6. m \in P
    BY <1>1, <1>5
  <1>7. SelectOf(g[m], updates, mid, m)
    BY <1>6 DEF P
  <1> DEFINE lo == g[m].lo  hi == g[m].hi  t == g[m].s
  <1>8. /\ lo \in Int /\ hi \in Int /\ lo <= mid /\ mid <= hi
        /\ lo = hi \/ hi - lo < m - m
    BY <1>7 DEF SelectOf, Selection
  <1>9. Rearranged(t, updates) /\ Splits(t, lo) /\ Splits(t, hi + 1)
    BY <1>7 DEF SelectOf
  <1> HIDE DEF lo, hi, t
  <1>10. lo = mid /\ hi = mid
    BY <1>1, <1>8
  <1>11. Splits(t, mid) /\ Splits(t, mid + 1)
    BY <1>9, <1>10
  <1> QED BY <1>2, <1>9, <1>11 DEF t, mid

LEMMA MedianTyped ==
    ASSUME NEW updates \in Seq(Update), Len(updates) > 0
    PROVE  median_result(updates).result \in Int
  <1>1. Len(updates) \in Nat /\ Middle(updates) \in 1..Len(updates)
    BY DEF Middle
  <1>2. PICK t : Rearranged(t, updates) /\ median_result(updates) = t[Middle(updates)]
    BY <1>1, MedianSelected
  <1>3. t \in Seq(Update) /\ Len(t) = Len(updates) /\ \A n \in 1..Len(t) : t[n].result \in Int
    BY <1>2, UpdatesTyped DEF Rearranged
  <1> QED BY <1>1, <1>2, <1>3

LEMMA MedianIsOne ==
    ASSUME NEW updates \in Seq(Update), Len(updates) > 0
    PROVE  median_result(updates) \in ToSet(updates)
  <1>1. Len(updates) \in Nat /\ Middle(updates) \in 1..Len(updates)
    BY DEF Middle
  <1>2. PICK t : Rearranged(t, updates) /\ median_result(updates) = t[Middle(updates)]
    BY <1>1, MedianSelected
  <1>3. PICK k \in 1..Len(updates) : t[Middle(updates)] = updates[k]
    BY <1>1, <1>2 DEF Rearranged
  <1> QED BY <1>2, <1>3 DEF ToSet

(* The median has the rank of the upper of two middle answers.             *)
RankIs(values, v, rank) ==
    /\ Cardinality({i \in DOMAIN values : values[i] < v}) <= rank
    /\ Cardinality({i \in DOMAIN values : values[i] <= v}) > rank

LEMMA MedianRank ==
    ASSUME NEW updates \in Seq(Update), Len(updates) > 0
    PROVE  RankIs([i \in DOMAIN updates |-> updates[i].result],
                  median_result(updates).result, Len(updates) \div 2)
  <1> DEFINE m == Len(updates)
             half == m \div 2
             mid == Middle(updates)
             v == median_result(updates).result
             values == [i \in DOMAIN updates |-> updates[i].result]
             Less == {x \in Int : x < v}
             Most == {x \in Int : x <= v}
  <1>1. /\ m \in Nat /\ DOMAIN updates = 1..m
        /\ \A n \in 1..m : updates[n].result \in Int
    BY UpdatesTyped
  <1>2. half \in Nat /\ half + 1 \in 1..m
    BY <1>1
  <1>3. mid = half + 1 /\ Middle(updates) \in 1..Len(updates)
    BY <1>2 DEF Middle
  <1> HIDE DEF half, mid
  <1>4. PICK t : /\ Rearranged(t, updates) /\ median_result(updates) = t[mid]
                 /\ Splits(t, mid) /\ Splits(t, mid + 1)
    BY <1>3, MedianSelected DEF mid
  <1>5. /\ t \in Seq(Update) /\ Len(t) = m /\ \A n \in 1..m : t[n].result \in Int
    BY <1>4, UpdatesTyped DEF Rearranged
  <1>6. v = t[mid].result /\ v \in Int /\ mid \in 1..m
    BY <1>2, <1>3, <1>4, <1>5
  <1> HIDE DEF v
  <1>7. Having(t, Less) \subseteq 1..half
    <2> SUFFICES ASSUME NEW k \in 1..m, t[k].result < v, ~(k <= half) PROVE FALSE
      BY <1>2, <1>5 DEF Having
    <2>1. mid < mid + 1 /\ (k = mid \/ k >= mid + 1)
      BY <1>1, <1>2, <1>3
    <2>2. CASE k = mid
      BY <1>6, <2>2
    <2>3. CASE k >= mid + 1
      <3>1. v <= t[k].result
        BY <1>4, <1>5, <1>6, <2>1, <2>3 DEF Splits
      <3>2. t[k].result \in Int
        BY <1>5
      <3> QED BY <1>6, <3>1, <3>2
    <2> QED BY <2>1, <2>2, <2>3
  <1>8. 1..(half + 1) \subseteq Having(t, Most)
    <2> SUFFICES ASSUME NEW k \in 1..(half + 1) PROVE k \in 1..m /\ t[k].result <= v
      BY <1>5 DEF Having
    <2>1. k \in 1..m /\ (k = mid \/ k < mid) /\ mid >= mid
      BY <1>1, <1>2, <1>3
    <2>2. CASE k = mid
      <3>1. v <= v
        BY <1>6
      <3> QED BY <1>6, <2>1, <2>2, <3>1
    <2>3. CASE k < mid
      BY <1>4, <1>5, <1>6, <2>1, <2>3 DEF Splits
    <2> QED BY <2>1, <2>2, <2>3
  <1>9. /\ IsFiniteSet(1..half) /\ Cardinality(1..half) = half
        /\ IsFiniteSet(1..(half + 1)) /\ Cardinality(1..(half + 1)) = half + 1
        /\ IsFiniteSet(1..m)
    <2>1. /\ 1 \in Int /\ half \in Int /\ half + 1 \in Int /\ m \in Int
          /\ ~(1 > half) => half - 1 + 1 = half
          /\ 1 > half => half = 0
          /\ ~(1 > half + 1) /\ half + 1 - 1 + 1 = half + 1
      BY <1>1, <1>2
    <2> HIDE DEF m
    <2> QED BY <2>1, FS_Interval
  <1>10. IsFiniteSet(Having(t, Most))
    <2>1. Having(t, Most) \in SUBSET (1..m)
      BY <1>5 DEF Having
    <2> QED BY <1>9, <2>1, FS_Subset
  <1>11. /\ Cardinality(Having(t, Less)) <= half
         /\ Cardinality(Having(t, Most)) >= half + 1
    <2> HIDE DEF m, Less, Most
    <2>1. Cardinality(Having(t, Less)) <= half
      BY <1>7, <1>9, FS_Subset
    <2>2. Cardinality(1..(half + 1)) <= Cardinality(Having(t, Most))
      BY <1>8, <1>10, FS_Subset
    <2>3. Cardinality(Having(t, Most)) \in Nat
      BY <1>10, FS_CardinalityType
    <2> QED BY <1>2, <1>9, <2>1, <2>2, <2>3
  <1>12. /\ Cardinality(Having(t, Less)) = Cardinality(Having(updates, Less))
         /\ Cardinality(Having(t, Most)) = Cardinality(Having(updates, Most))
    BY <1>4 DEF Rearranged
  <1>13. /\ {i \in DOMAIN values : values[i] < v} = Having(updates, Less)
         /\ {i \in DOMAIN values : values[i] <= v} = Having(updates, Most)
    BY <1>1, <1>6 DEF Having
  <1> HIDE DEF Less, Most
  <1>14. Cardinality(Having(t, Most)) \in Nat /\ half \in Nat
    BY <1>2, <1>10, FS_CardinalityType
  <1>15. Cardinality(Having(updates, Most)) > half
    BY <1>11, <1>12, <1>14
  <1>16. Cardinality(Having(updates, Less)) <= half
    BY <1>11, <1>12
  <1> HIDE DEF values
  <1>17. RankIs(values, v, half)
    BY <1>13, <1>15, <1>16 DEF RankIs
  <1> QED BY <1>17 DEF values, v, half

LEMMA RankInTheMiddle ==
    ASSUME NEW values, NEW m \in Nat, Len(values) = m, DOMAIN values = 1..m,
           \A i \in 1..m : values[i] \in Int, NEW v \in Int, RankIs(values, v, m \div 2)
    PROVE  InTheMiddle(v, values)
  <1> DEFINE Less == {i \in DOMAIN values : values[i] < v}
             Most == {i \in DOMAIN values : values[i] <= v}
             Rest == {i \in DOMAIN values : values[i] >= v}
             half == m \div 2
  <1>1. IsFiniteSet(1..m) /\ Cardinality(1..m) = m
    <2>1. 1 \in Int /\ m \in Int /\ (1 > m => m = 0) /\ m - 1 + 1 = m
      OBVIOUS
    <2> QED BY <2>1, FS_Interval
  <1>2. Less \subseteq 1..m /\ Most \subseteq 1..m /\ Rest = (1..m) \ Less /\ (1..m) \cap Less = Less
    OBVIOUS
  <1>3. Cardinality(Less) <= half /\ Cardinality(Most) > half
    BY DEF RankIs
  <1> HIDE DEF Less, Most, Rest
  <1>4. Cardinality(Rest) = m - Cardinality(Less)
    <2> DEFINE All == 1..m
    <2>1. /\ IsFiniteSet(All) /\ Cardinality(All) = m
          /\ Rest = All \ Less /\ All \cap Less = Less
      BY <1>1, <1>2
    <2> HIDE DEF All
    <2>2. Cardinality(All \ Less) = Cardinality(All) - Cardinality(All \cap Less)
      BY <2>1, FS_Difference
    <2> QED BY <2>1, <2>2
  <1>5. Cardinality(Less) \in Nat /\ Cardinality(Most) \in Nat
    BY <1>1, <1>2, FS_Subset, FS_CardinalityType
  <1>6. 2 * Cardinality(Most) >= m /\ 2 * Cardinality(Rest) >= m
    BY <1>3, <1>4, <1>5
  <1> QED BY <1>6 DEF InTheMiddle, Most, Rest

LEMMA MedianStep ==
    ASSUME RingInOrder, Clocked, [Next]_vars, results' # results
    PROVE  MedianPublished
  <1> DEFINE valid == NextValid
             values == [i \in DOMAIN valid |-> valid[i].result]
             median == median_result(valid)
             m == Len(valid)
  <1>1. valid \in Seq(Update) /\ m \in Nat
    BY RingChanges
  <1> SUFFICES ASSUME Len(valid) >= min_sample_size
               PROVE  /\ InTheMiddle(current_result'.result, values)
                      /\ \E u \in ToSet(valid) : /\ u.result = current_result'.result
                                                 /\ u.timestamp = current_result'.timestamp
    BY DEF MedianPublished
  <1>2. m > 0 /\ current_result' = compute_current_result(valid)
    BY RingChanges
  <1>3. current_result'.result = median.result /\ current_result'.timestamp = median.timestamp
    BY <1>2 DEF compute_current_result
  <1> HIDE DEF valid
  <1>4. median \in ToSet(valid)
    BY <1>1, <1>2, MedianIsOne
  <1>5. RankIs(values, median.result, m \div 2)
    BY <1>1, <1>2, MedianRank
  <1>6. median.result \in Int
    BY <1>1, <1>2, MedianTyped
  <1>7. Len(values) = m /\ DOMAIN values = 1..m /\ \A i \in 1..m : values[i] \in Int
    BY <1>1, UpdatesTyped
  <1> HIDE DEF values, median, m
  <1>8. InTheMiddle(median.result, values)
    BY <1>1, <1>5, <1>6, <1>7, RankInTheMiddle
  <1> QED BY <1>3, <1>4, <1>8

(* The published result is always the answer, and the time, of one of the  *)
(* valid updates that no fewer than half of them are on either side of,    *)
(* whatever their number and order and however many are equal.             *)
THEOREM ResultIsAlwaysMedian == Spec => ResultIsMedian
  <1> DEFINE A == results' # results => MedianPublished
  <1>1. RingInOrder /\ Clocked /\ [Next]_vars => A
    BY MedianStep
  <1> HIDE DEF A
  <1>2. Spec => [][A]_vars
    BY <1>1, ClockedInit, ClockedNext, RingAlwaysInOrder, PTL DEF Spec
  <1> QED BY <1>2 DEF ResultIsMedian, A

----------------------------------------------------------------------------
(* The feed as a register.  What is published is the result and the time   *)
(* of the newest update behind it.                                         *)
Register == INSTANCE FeedRegister
    WITH Answers <- Results, enough <- min_sample_size,
         value <- current_result.result, time <- current_result.max_timestamp

LEMMA SameCardinality == \A S : Register!Cardinality(S) = Cardinality(S)
  BY DEF Register!Cardinality, Cardinality

LEMMA SameMiddle ==
    ASSUME NEW v, NEW answers, InTheMiddle(v, answers)
    PROVE  Register!InTheMiddle(v, answers)
  BY SameCardinality DEF InTheMiddle, Register!InTheMiddle

LEMMA ResultTyped ==
    ASSUME RingInOrder, Clocked, PublishedTime, [Next]_vars
    PROVE  /\ current_result'.max_timestamp \in Nat
           /\ current_result'.max_timestamp >= current_result.max_timestamp
  <1>1. PublishedTime' /\ current_result'.max_timestamp >= current_result.max_timestamp
    BY PublishedStep
  <1> QED BY <1>1 DEF PublishedTime

LEMMA RegisterStep ==
    ASSUME RingInOrder, Clocked, PublishedTime, [Next]_vars
    PROVE  [Register!Next]_(Register!vars)
  <1>1. CASE UNCHANGED <<min_sample_size, current_result>>
    BY <1>1 DEF Register!vars
  <1>2. ASSUME NEW o \in Oracles, NEW v \in Results, NEW t \in 1..MaxTime, SubmitResult(o, v, t)
        PROVE  [Register!Next]_(Register!vars)
    <2> DEFINE st == [results |-> results', curr_idx |-> curr_idx']
               valid == ValidUpdates(st)
               values == [i \in DOMAIN valid |-> valid[i].result]
    <2>1. /\ RingOk(st)
          /\ current_result' = IF Len(valid) < min_sample_size THEN current_result
                               ELSE compute_current_result(valid)
          /\ Len(valid) \in Nat /\ min_sample_size \in Nat /\ min_sample_size > 0
      BY <1>2, SubmitFacts
    <2>2. min_sample_size' = min_sample_size
      BY <1>2 DEF SubmitResult
    <2>3. CASE Len(valid) < min_sample_size
      BY <1>1, <2>1, <2>2, <2>3
    <2>4. CASE ~(Len(valid) < min_sample_size)
      <3>1. valid \in Seq(Update)
        BY <2>1, ValidFacts
      <3>2. current_result'.result = median_result(valid).result
        BY <2>1, <2>4 DEF compute_current_result
      <3> HIDE DEF valid
      <3> DEFINE m == Len(valid)
                 w == median_result(valid).result
      <3>3. /\ m \in Nat /\ m > 0 /\ m >= min_sample_size /\ DOMAIN valid = 1..m
            /\ \A i \in 1..m : valid[i] \in Update /\ valid[i].result \in Int
        BY <2>1, <2>4, <3>1, UpdatesTyped
      <3>4. \A i \in 1..m : valid[i].result \in Results
        BY <3>3 DEF Update
      <3>5. values \in Seq(Results) /\ Len(values) = m /\ DOMAIN values = 1..m
            /\ \A i \in 1..m : values[i] \in Int
        BY <3>3, <3>4
      <3>6. RankIs(values, w, m \div 2)
        BY <3>1, <3>3, MedianRank
      <3>7. w \in Int
        BY <3>1, <3>3, MedianTyped
      <3> HIDE DEF values, w, m
      <3>8. Register!InTheMiddle(w, values)
        BY <3>3, <3>5, <3>6, <3>7, RankInTheMiddle, SameMiddle
      <3>9. Register!Publish(values)
        BY <2>2, <3>2, <3>3, <3>5, <3>7, <3>8, ResultTyped DEF Register!Publish, w
      <3> QED BY <3>5, <3>9 DEF Register!Next
    <2> QED BY <2>3, <2>4
  <1>3. CASE UNCHANGED vars
    BY <1>1, <1>3 DEF vars
  <1>4. ASSUME NEW staleness \in Stalenesses, NEW size \in SampleSizes, SetConfigs(staleness, size)
        PROVE  [Register!Next]_(Register!vars)
    <2>1. min_sample_size' \in Nat \ {0} /\ current_result' = current_result
      BY <1>4, FeedUpdatesAssumption DEF SetConfigs
    <2> QED BY <2>1 DEF Register!Next, Register!Configure
  <1>5. CASE Tick
    BY <1>1, <1>5 DEF Tick
  <1> QED BY <1>2, <1>3, <1>4, <1>5 DEF Next

(* The feed is a register of what its oracles answer: a result that was    *)
(* ever published is in the middle of no fewer answers than the authority  *)
(* asked for at that moment, nothing but an update moves it, and it is     *)
(* never followed by an older one.                                         *)
THEOREM ImplementsRegister == Spec => Register!Spec
  <1>1. Init => PublishedTime
    BY DEF Init, PublishedTime
  <1>2. RingInOrder /\ Clocked /\ PublishedTime /\ [Next]_vars => PublishedTime'
    BY PublishedStep
  <1>3. Init => Register!Init
    BY FeedUpdatesAssumption DEF Init, Register!Init
  <1>4. RingInOrder /\ Clocked /\ PublishedTime /\ [Next]_vars => [Register!Next]_(Register!vars)
    BY RegisterStep
  <1> QED BY <1>1, <1>2, <1>3, <1>4, ClockedInit, ClockedNext, RingAlwaysInOrder, PTL
          DEF Spec, Register!Spec
=============================================================================
