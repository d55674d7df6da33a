------------------------- MODULE OracleQueueProofs -------------------------
(***************************************************************************)
(* Proofs about OracleQueue, for every number of queues, oracles and       *)
(* authorities, every expiration period and every set of batch sizes.      *)
(***************************************************************************)
EXTENDS OracleQueue, FiniteSetTheorems, TLAPS

(* Reducing an index modulo a positive length gives a valid index.         *)
LEMMA ModInRange ==
    ASSUME NEW i \in Nat, NEW n \in Nat, n > 0
    PROVE  i % n \in 0..(n - 1)
  BY SMT

(* vector::swap_remove drops exactly one row: what it returns is a         *)
(* sequence one shorter, whose entries are those of the other rows.        *)
LEMMA SwapRemoveType ==
    ASSUME NEW S, NEW s \in Seq(S), NEW i \in 1..Len(s)
    PROVE  /\ SwapRemove(s, i) \in Seq(S)
           /\ Len(SwapRemove(s, i)) = Len(s) - 1
           /\ \A j \in 1..(Len(s) - 1) :
                 SwapRemove(s, i)[j] = IF j = i THEN s[Len(s)] ELSE s[j]
  BY SMT DEF SwapRemove

LEMMA InitIInv == Init => IInv
  BY OracleQueueAssumption, SMT
     DEF Init, IInv, TypeOK, RowsMatchCounter, DistinctRows, CursorsInBounds, Existence,
         InSomeQueue, HasRow, Rows, PermissionKeys, PermissionStates

(* RowsMatchCounter for any assignment d of rows to the queues and n of    *)
(* counters to the oracles, so that the two halves of a heartbeat can be   *)
(* taken one after the other.                                              *)
Distinct(d) ==
    \A q, r \in Queues : \A i \in 1..Len(d[q]), j \in 1..Len(d[r]) :
        d[q][i] = d[r][j] => q = r /\ i = j
Present(d, o) == \E q \in Queues : \E i \in 1..Len(d[q]) : d[q][i] = o
Match(d, n) == Distinct(d) /\ \A o \in Oracles : n[o] = IF Present(d, o) THEN 1 ELSE 0

(* push_back with increment_num_rows keeps the rows and the counters in    *)
(* agreement, provided the oracle had no row.                              *)
LEMMA PushMatch ==
    ASSUME NEW d \in [Queues -> Seq(Oracles)], NEW n \in [Oracles -> 0..1], Match(d, n),
           NEW q \in Queues, NEW o \in Oracles, n[o] = 0
    PROVE  Match([d EXCEPT ![q] = Append(d[q], o)], [n EXCEPT ![o] = 1])
  <1> DEFINE e == [d EXCEPT ![q] = Append(d[q], o)]
             m == [n EXCEPT ![o] = 1]
             L == Len(d[q])
  <1>1. ~Present(d, o)
    BY DEF Match
  <1>2. /\ L \in Nat
        /\ Len(e[q]) = L + 1
        /\ e[q][L + 1] = o
        /\ \A i \in 1..L : e[q][i] = d[q][i]
        /\ \A r \in Queues \ {q} : e[r] = d[r]
    OBVIOUS
  <1>3. ASSUME NEW r \in Queues, NEW i \in 1..Len(e[r])
        PROVE  \/ r = q /\ i = L + 1 /\ e[r][i] = o
               \/ i \in 1..Len(d[r]) /\ e[r][i] = d[r][i] /\ e[r][i] # o
    <2>1. CASE r = q /\ i = L + 1
      BY <1>2, <2>1
    <2>2. CASE ~(r = q /\ i = L + 1)
      <3>1. i \in 1..Len(d[r]) /\ e[r][i] = d[r][i]
        BY <1>2, <2>2
      <3>2. d[r][i] # o
        BY <1>1, <3>1 DEF Present
      <3> QED BY <3>1, <3>2
    <2> QED BY <2>1, <2>2
  <1>4. Distinct(e)
    <2> SUFFICES ASSUME NEW r \in Queues, NEW t \in Queues,
                        NEW i \in 1..Len(e[r]), NEW j \in 1..Len(e[t]), e[r][i] = e[t][j]
                 PROVE  r = t /\ i = j
      BY DEF Distinct
    <2> HIDE DEF e
    <2>1. \/ r = q /\ i = L + 1 /\ e[r][i] = o
          \/ i \in 1..Len(d[r]) /\ e[r][i] = d[r][i] /\ e[r][i] # o
      BY <1>3
    <2>2. \/ t = q /\ j = L + 1 /\ e[t][j] = o
          \/ j \in 1..Len(d[t]) /\ e[t][j] = d[t][j] /\ e[t][j] # o
      BY <1>3
    <2> QED BY <2>1, <2>2 DEF Match, Distinct
  <1>5. ASSUME NEW p \in Oracles PROVE m[p] = IF Present(e, p) THEN 1 ELSE 0
    <2>1. CASE p = o
      <3>1. Present(e, o)
        BY <1>2 DEF Present
      <3> QED BY <2>1, <3>1
    <2>2. CASE p # o
      <3>1. Present(e, p) => Present(d, p)
        <4> HIDE DEF e
        <4> QED BY <1>3, <2>2 DEF Present
      <3>2. Present(d, p) => Present(e, p)
        <4> SUFFICES ASSUME NEW r \in Queues, NEW i \in 1..Len(d[r]), d[r][i] = p
                     PROVE  i \in 1..Len(e[r]) /\ e[r][i] = p
          BY DEF Present
        <4> QED BY <1>2
      <3>3. m[p] = n[p]
        BY <2>2
      <3> QED BY <3>1, <3>2, <3>3 DEF Match
    <2> QED BY <2>1, <2>2
  <1> QED BY <1>4, <1>5 DEF Match

(* swap_remove with decrement_num_rows keeps the rows and the counters in  *)
(* agreement.                                                              *)
LEMMA RemoveMatch ==
    ASSUME NEW d \in [Queues -> Seq(Oracles)], NEW n \in [Oracles -> 0..1], Match(d, n),
           NEW q \in Queues, NEW x \in 1..Len(d[q])
    PROVE  Match([d EXCEPT ![q] = SwapRemove(d[q], x)], [n EXCEPT ![d[q][x]] = @ - 1])
  <1> DEFINE e == [d EXCEPT ![q] = SwapRemove(d[q], x)]
             o == d[q][x]
             m == [n EXCEPT ![o] = @ - 1]
             L == Len(d[q])
             Old(r, i) == IF r = q /\ i = x THEN L ELSE i
  <1>1. o \in Oracles /\ L \in Nat /\ L > 0
    OBVIOUS
  <1>2. /\ Len(e[q]) = L - 1
        /\ \A i \in 1..(L - 1) : e[q][i] = IF i = x THEN d[q][L] ELSE d[q][i]
        /\ \A r \in Queues \ {q} : e[r] = d[r]
    BY SwapRemoveType
  <1>3. ASSUME NEW r \in Queues, NEW i \in 1..Len(e[r])
        PROVE  /\ Old(r, i) \in 1..Len(d[r])
               /\ e[r][i] = d[r][Old(r, i)]
               /\ ~(r = q /\ Old(r, i) = x)
    <2>1. CASE r = q
      BY <1>1, <1>2, <2>1
    <2>2. CASE r # q
      BY <1>2, <2>2
    <2> QED BY <2>1, <2>2
  <1>4. Distinct(e)
    <2> SUFFICES ASSUME NEW r \in Queues, NEW t \in Queues,
                        NEW i \in 1..Len(e[r]), NEW j \in 1..Len(e[t]), e[r][i] = e[t][j]
                 PROVE  r = t /\ i = j
      BY DEF Distinct
    <2>1. r = t /\ Old(r, i) = Old(t, j)
      <3>1. Old(r, i) \in 1..Len(d[r]) /\ Old(t, j) \in 1..Len(d[t])
        BY <1>3
      <3>2. d[r][Old(r, i)] = d[t][Old(t, j)]
        BY <1>3
      <3> HIDE DEF e, Old
      <3> QED BY <3>1, <3>2 DEF Match, Distinct
    <2>2. CASE r = q
      BY <1>1, <1>2, <2>1, <2>2
    <2>3. CASE r # q
      BY <2>1, <2>3
    <2> QED BY <2>2, <2>3
  <1>5. ~Present(e, o)
    <2> SUFFICES ASSUME NEW r \in Queues, NEW i \in 1..Len(e[r]), e[r][i] = o
                 PROVE  FALSE
      BY DEF Present
    <2>1. Old(r, i) \in 1..Len(d[r]) /\ d[r][Old(r, i)] = d[q][x]
      BY <1>3
    <2>2. r = q /\ Old(r, i) = x
      <3> HIDE DEF e, Old
      <3> QED BY <2>1 DEF Match, Distinct
    <2> QED BY <1>3, <2>2
  <1>6. ASSUME NEW p \in Oracles, p # o
        PROVE  Present(e, p) <=> Present(d, p)
    <2>1. Present(e, p) => Present(d, p)
      <3> HIDE DEF e, Old
      <3> QED BY <1>3 DEF Present
    <2>2. ASSUME NEW r \in Queues, NEW i \in 1..Len(d[r]), d[r][i] = p
          PROVE  Present(e, p)
      <3>1. CASE r # q
        BY <1>2, <2>2, <3>1 DEF Present
      <3>2. CASE r = q /\ i < L
        <4>1. i # x
          BY <1>6, <2>2, <3>2
        <4>2. i \in 1..Len(e[q]) /\ e[q][i] = p
          BY <1>1, <1>2, <2>2, <3>2, <4>1
        <4> QED BY <4>2 DEF Present
      <3>3. CASE r = q /\ i = L
        <4>1. x \in 1..Len(e[q])
          BY <1>1, <1>2, <1>6, <2>2, <3>3
        <4>2. e[q][x] = p
          BY <1>1, <1>2, <2>2, <3>3, <4>1
        <4> QED BY <4>1, <4>2 DEF Present
      <3> QED BY <1>1, <3>1, <3>2, <3>3
    <2>3. Present(d, p) => Present(e, p)
      BY <2>2 DEF Present
    <2> QED BY <2>1, <2>3
  <1>7. ASSUME NEW p \in Oracles PROVE m[p] = IF Present(e, p) THEN 1 ELSE 0
    <2>1. CASE p = o
      <3>1. Present(d, o)
        BY <1>1 DEF Present
      <3>2. n[o] = 1
        BY <1>1, <3>1 DEF Match
      <3> QED BY <1>1, <1>5, <2>1, <3>2
    <2>2. CASE p # o
      <3>1. m[p] = n[p]
        BY <2>2
      <3> QED BY <1>6, <2>2, <3>1 DEF Match
    <2> QED BY <2>1, <2>2
  <1> QED BY <1>4, <1>7 DEF Match

(* The rows of a queue after the push of a heartbeat: still sequences of   *)
(* oracles, and together with the other queues still without repetition.   *)
LEMMA PushedRowsFacts ==
    ASSUME IInv, NEW o \in Oracles, OracleExists(o), GcInBounds(o)
    PROVE  /\ queue_addr[o] \in Queues
           /\ PushedRows(o) \in Seq(Oracles)
           /\ gc_idx[queue_addr[o]] + 1 \in 1..Len(PushedRows(o))
           /\ curr_idx[queue_addr[o]] < Len(PushedRows(o))
           /\ GcOracle(o) \in Oracles
           /\ NextGcIdx(o) \in 0..(Len(PushedRows(o)) - 1)
           /\ CountedRows(o) \in [Oracles -> 0..1]
           /\ authority[queue_addr[o]] # None
  <1> DEFINE q == queue_addr[o]
  <1>1. q \in Queues /\ authority[q] # None
    BY DEF IInv, TypeOK, OracleExists, Existence
  <1>2. PushedRows(o) \in Seq(Oracles)
    BY <1>1 DEF IInv, TypeOK, PushedRows
  <1>3. gc_idx[q] \in Nat /\ curr_idx[q] \in Nat
    BY <1>1 DEF IInv, TypeOK
  <1>4. gc_idx[q] + 1 \in 1..Len(PushedRows(o))
    BY <1>2, <1>3 DEF GcInBounds
  <1>5. curr_idx[q] < Len(PushedRows(o))
    <2>1. CASE data[q] = <<>>
      BY <1>1, <1>2, <1>4, <2>1 DEF IInv, CursorsInBounds
    <2>2. CASE data[q] # <<>>
      <3>1. curr_idx[q] < Len(data[q])
        BY <1>1, <2>2 DEF IInv, CursorsInBounds
      <3>2. Len(PushedRows(o)) >= Len(data[q])
        BY <1>1 DEF IInv, TypeOK, PushedRows
      <3> QED BY <1>1, <1>2, <1>3, <3>1, <3>2 DEF IInv, TypeOK
    <2> QED BY <2>1, <2>2
  <1>6. GcOracle(o) \in Oracles
    BY <1>2, <1>4 DEF GcOracle
  <1>7. NextGcIdx(o) \in 0..(Len(PushedRows(o)) - 1)
    <2>1. Len(PushedRows(o)) \in Nat /\ Len(PushedRows(o)) > 0
      BY <1>2, <1>4
    <2>2. gc_idx[q] + 1 \in Nat
      BY <1>3
    <2> QED BY <2>1, <2>2, ModInRange DEF NextGcIdx
  <1>8. CountedRows(o) \in [Oracles -> 0..1]
    BY DEF IInv, TypeOK, CountedRows
  <1> QED BY <1>1, <1>2, <1>4, <1>5, <1>6, <1>7, <1>8

LEMMA MatchIsRowsMatchCounter ==
    /\ RowsMatchCounter <=> Match(data, num_rows)
    /\ RowsMatchCounter' <=> Match(data', num_rows')
  BY DEF RowsMatchCounter, DistinctRows, InSomeQueue, HasRow, Rows, Match, Distinct, Present

(* The first half of a heartbeat, the push of the oracle's own row.        *)
LEMMA PushHalf ==
    ASSUME IInv, NEW o \in Oracles, OracleExists(o), GcInBounds(o)
    PROVE  /\ [data EXCEPT ![queue_addr[o]] = PushedRows(o)] \in [Queues -> Seq(Oracles)]
           /\ Match([data EXCEPT ![queue_addr[o]] = PushedRows(o)], CountedRows(o))
  <1> DEFINE q == queue_addr[o]
  <1>1. q \in Queues /\ PushedRows(o) \in Seq(Oracles)
    BY PushedRowsFacts
  <1>2. data \in [Queues -> Seq(Oracles)] /\ num_rows \in [Oracles -> 0..1]
    BY DEF IInv, TypeOK
  <1>3. Match(data, num_rows)
    BY MatchIsRowsMatchCounter DEF IInv
  <1>4. CASE num_rows[o] = 0
    <2>1. PushedRows(o) = Append(data[q], o) /\ CountedRows(o) = [num_rows EXCEPT ![o] = 1]
      BY <1>2, <1>4 DEF PushedRows, CountedRows
    <2>2. Match([data EXCEPT ![q] = Append(data[q], o)], [num_rows EXCEPT ![o] = 1])
      BY <1>1, <1>2, <1>3, <1>4, PushMatch
    <2> QED BY <1>1, <1>2, <2>1, <2>2
  <1>5. CASE num_rows[o] # 0
    <2>1. PushedRows(o) = data[q] /\ CountedRows(o) = num_rows
      BY <1>2, <1>5 DEF PushedRows, CountedRows
    <2>2. [data EXCEPT ![q] = PushedRows(o)] = data
      BY <1>1, <1>2, <2>1
    <2> QED BY <1>2, <1>3, <2>1, <2>2
  <1> QED BY <1>4, <1>5

(* A heartbeat preserves the invariant.                                    *)
LEMMA HeartbeatIInv ==
    ASSUME IInv, NEW o \in Oracles, Heartbeat(o)
    PROVE  IInv'
  <1> DEFINE q == queue_addr[o]
             D == [data EXCEPT ![q] = PushedRows(o)]
             N == Len(PushedRows(o))
  <1>1. OracleExists(o) /\ GcInBounds(o)
    BY DEF Heartbeat
  <1>2. /\ q \in Queues
        /\ PushedRows(o) \in Seq(Oracles)
        /\ gc_idx[q] + 1 \in 1..N
        /\ curr_idx[q] < N
        /\ GcOracle(o) \in Oracles
        /\ NextGcIdx(o) \in 0..(N - 1)
        /\ CountedRows(o) \in [Oracles -> 0..1]
        /\ authority[q] # None
    BY <1>1, PushedRowsFacts
  <1>3. D \in [Queues -> Seq(Oracles)] /\ Match(D, CountedRows(o))
    BY <1>1, PushHalf
  <1>4. N \in Nat /\ N > 0 /\ curr_idx[q] \in Nat /\ gc_idx[q] \in Nat
    BY <1>2 DEF IInv, TypeOK
  <1>5. /\ authority' = authority /\ queue_addr' = queue_addr
        /\ permission' = permission /\ alloc' = alloc
        /\ age' = [age EXCEPT ![o] = 0]
    BY DEF Heartbeat
  <1>6. age' \in [Oracles -> 0..(ExpirationPeriod + 1)]
    BY <1>5, OracleQueueAssumption DEF IInv, TypeOK
  <1>7. ASSUME data' \in [Queues -> Seq(Oracles)],
               num_rows' \in [Oracles -> 0..1],
               curr_idx' \in [Queues -> Nat], gc_idx' \in [Queues -> Nat],
               Match(data', num_rows'),
               data'[q] # <<>>, curr_idx'[q] < Len(data'[q]), gc_idx'[q] < Len(data'[q]),
               \A r \in Queues \ {q} : /\ data'[r] = data[r]
                                       /\ curr_idx'[r] = curr_idx[r]
                                       /\ gc_idx'[r] = gc_idx[r],
               \A p \in Oracles : queue_addr[p] = None => num_rows'[p] = 0
        PROVE  IInv'
    <2>1. TypeOK'
      BY <1>5, <1>6, <1>7 DEF IInv, TypeOK
    <2>2. RowsMatchCounter'
      BY <1>7, MatchIsRowsMatchCounter
    <2>3. CursorsInBounds'
      BY <1>7 DEF IInv, CursorsInBounds
    <2>4. Existence'
      BY <1>2, <1>5, <1>7 DEF IInv, TypeOK, Existence
    <2> QED BY <2>1, <2>2, <2>3, <2>4 DEF IInv
  <1>8. ASSUME NEW p \in Oracles, queue_addr[p] = None
        PROVE  CountedRows(o)[p] = 0
    BY <1>1, <1>8 DEF IInv, TypeOK, Existence, OracleExists, CountedRows
  <1>9. CASE HeartbeatKeep(o)
    <2>1. data' = D /\ num_rows' = CountedRows(o) /\ curr_idx' = curr_idx
          /\ gc_idx' = [gc_idx EXCEPT ![q] = NextGcIdx(o)]
      BY <1>9 DEF HeartbeatKeep
    <2>2. data'[q] = PushedRows(o)
      BY <1>2, <2>1 DEF IInv, TypeOK
    <2>3. gc_idx' \in [Queues -> Nat] /\ gc_idx'[q] = NextGcIdx(o) /\ curr_idx' \in [Queues -> Nat]
      BY <1>2, <1>4, <2>1 DEF IInv, TypeOK
    <2>4. \A r \in Queues \ {q} : data'[r] = data[r] /\ curr_idx'[r] = curr_idx[r]
                                  /\ gc_idx'[r] = gc_idx[r]
      BY <2>1 DEF IInv, TypeOK
    <2>5. PushedRows(o) # <<>>
      BY <1>2, <1>4
    <2>6. curr_idx'[q] < Len(data'[q]) /\ gc_idx'[q] < Len(data'[q])
      BY <1>2, <1>4, <2>1, <2>2, <2>3
    <2> QED BY <1>2, <1>3, <1>7, <1>8, <2>1, <2>2, <2>3, <2>4, <2>5, <2>6
  <1>10. CASE HeartbeatBoot(o)
    <2>1. /\ CountedRows(o)[GcOracle(o)] > 0
          /\ N - 1 > 0
          /\ data' = [data EXCEPT ![q] = SwapRemove(PushedRows(o), GcRow(o))]
          /\ num_rows' = [CountedRows(o) EXCEPT ![GcOracle(o)] = @ - 1]
          /\ curr_idx' = [curr_idx EXCEPT ![q] = curr_idx[q] % (N - 1)]
          /\ gc_idx' = [gc_idx EXCEPT ![q] = NextGcIdx(o) % (N - 1)]
      BY <1>10 DEF HeartbeatBoot, CursorAfterGc
    <2>2. D[q] = PushedRows(o)
      BY <1>2 DEF IInv, TypeOK
    <2>3. GcRow(o) \in 1..N /\ GcOracle(o) = D[q][GcRow(o)]
      BY <1>2, <2>2 DEF GcRow, GcOracle
    <2>4. SwapRemove(PushedRows(o), GcRow(o)) \in Seq(Oracles)
          /\ Len(SwapRemove(PushedRows(o), GcRow(o))) = N - 1
      BY <1>2, <2>3, SwapRemoveType
    <2>5. data' = [D EXCEPT ![q] = SwapRemove(D[q], GcRow(o))]
      BY <1>2, <2>1, <2>2 DEF IInv, TypeOK
    <2>6. num_rows' = [CountedRows(o) EXCEPT ![D[q][GcRow(o)]] = @ - 1]
      BY <2>1, <2>3
    <2>7. Match(data', num_rows')
      <3>1. GcRow(o) \in 1..Len(D[q])
        BY <2>2, <2>3
      <3> HIDE DEF D
      <3> QED BY <1>2, <1>3, <2>5, <2>6, <3>1, RemoveMatch
    <2>8. data' \in [Queues -> Seq(Oracles)] /\ data'[q] = SwapRemove(PushedRows(o), GcRow(o))
          /\ num_rows' \in [Oracles -> 0..1]
      <3>1. num_rows' \in [Oracles -> 0..1]
        BY <1>2, <2>1
      <3> QED BY <1>2, <2>1, <2>4, <3>1 DEF IInv, TypeOK
    <2>9. N - 1 \in Nat /\ curr_idx[q] % (N - 1) \in 0..(N - 2) /\ NextGcIdx(o) % (N - 1) \in 0..(N - 2)
      <3>1. N - 1 \in Nat /\ N - 1 > 0 /\ NextGcIdx(o) \in Nat
        BY <1>2, <1>4, <2>1
      <3>2. curr_idx[q] % (N - 1) \in 0..((N - 1) - 1)
        BY <1>4, <3>1, ModInRange
      <3>3. NextGcIdx(o) % (N - 1) \in 0..((N - 1) - 1)
        BY <3>1, ModInRange
      <3> QED BY <1>4, <3>1, <3>2, <3>3
    <2>10. curr_idx' \in [Queues -> Nat] /\ gc_idx' \in [Queues -> Nat]
           /\ curr_idx'[q] = curr_idx[q] % (N - 1) /\ gc_idx'[q] = NextGcIdx(o) % (N - 1)
      <3> DEFINE c == curr_idx[q] % (N - 1)
                 g == NextGcIdx(o) % (N - 1)
      <3>1. curr_idx' = [curr_idx EXCEPT ![q] = c] /\ gc_idx' = [gc_idx EXCEPT ![q] = g]
        BY <2>1
      <3>2. c \in Nat /\ g \in Nat
        BY <2>9
      <3>3. curr_idx \in [Queues -> Nat] /\ gc_idx \in [Queues -> Nat] /\ q \in Queues
        BY <1>2 DEF IInv, TypeOK
      <3> SUFFICES /\ curr_idx' \in [Queues -> Nat] /\ gc_idx' \in [Queues -> Nat]
                   /\ curr_idx'[q] = c /\ gc_idx'[q] = g
        OBVIOUS
      <3> HIDE DEF c, g, q
      <3> QED BY <3>1, <3>2, <3>3
    <2>11. \A r \in Queues \ {q} : data'[r] = data[r] /\ curr_idx'[r] = curr_idx[r]
                                   /\ gc_idx'[r] = gc_idx[r]
      BY <2>1 DEF IInv, TypeOK
    <2>12. curr_idx'[q] < Len(data'[q]) /\ gc_idx'[q] < Len(data'[q])
      BY <1>4, <2>4, <2>8, <2>9, <2>10
    <2>13. data'[q] # <<>>
      BY <1>4, <2>1, <2>4, <2>8
    <2>14. \A p \in Oracles : queue_addr[p] = None => num_rows'[p] = 0
      BY <1>2, <1>8, <2>1
    <2> QED BY <1>7, <2>7, <2>8, <2>10, <2>11, <2>12, <2>13, <2>14
  <1> QED BY <1>9, <1>10 DEF Heartbeat

LEMMA StepIInv == IInv /\ [Next]_vars => IInv'
  <1> SUFFICES ASSUME IInv, [Next]_vars PROVE IInv'
    OBVIOUS
  <1>1. ASSUME NEW q \in Queues, NEW a \in Authorities, OracleQueueInit(q, a)
        PROVE  IInv'
    <2>1. data' = data
      BY <1>1 DEF OracleQueueInit, QueueExists, IInv, TypeOK, Existence
    <2>2. curr_idx' = curr_idx /\ gc_idx' = gc_idx
      BY <1>1 DEF OracleQueueInit, QueueExists, IInv, TypeOK, Existence, CursorsInBounds
    <2>3. RowsMatchCounter'
      BY <1>1, <2>1, MatchIsRowsMatchCounter DEF OracleQueueInit, oracleVars, IInv
    <2>4. TypeOK' /\ CursorsInBounds' /\ Existence'
      BY <1>1, <2>1, <2>2, OracleQueueAssumption
         DEF OracleQueueInit, oracleVars, IInv, TypeOK, CursorsInBounds, Existence
    <2> QED BY <2>3, <2>4 DEF IInv
  <1>2. ASSUME NEW q \in Queues, NEW a \in Authorities, OracleQueueSetConfigs(q, a)
        PROVE  IInv'
    <2>1. RowsMatchCounter'
      BY <1>2, MatchIsRowsMatchCounter DEF OracleQueueSetConfigs, oracleVars, IInv
    <2>2. TypeOK' /\ CursorsInBounds' /\ Existence'
      BY <1>2, OracleQueueAssumption
         DEF OracleQueueSetConfigs, QueueExists, oracleVars, IInv, TypeOK, CursorsInBounds, Existence
    <2> QED BY <2>1, <2>2 DEF IInv
  <1>3. ASSUME UNCHANGED <<queueVars, oracleVars, alloc>>,
               permission' \in [PermissionKeys -> PermissionStates]
        PROVE  IInv'
    <2>1. RowsMatchCounter'
      BY <1>3, MatchIsRowsMatchCounter DEF queueVars, oracleVars, IInv
    <2>2. TypeOK' /\ CursorsInBounds' /\ Existence'
      BY <1>3 DEF queueVars, oracleVars, IInv, TypeOK, CursorsInBounds, Existence
    <2> QED BY <2>1, <2>2 DEF IInv
  <1>4. ASSUME NEW k \in PermissionKeys, PermissionInit(k)
        PROVE  IInv'
    BY <1>3, <1>4 DEF PermissionInit, IInv, TypeOK, PermissionStates
  <1>5. ASSUME NEW k \in PermissionKeys, NEW enable \in BOOLEAN, PermissionSet(k, enable)
        PROVE  IInv'
    BY <1>3, <1>5 DEF PermissionSet, IInv, TypeOK, PermissionStates
  <1>6. ASSUME NEW o \in Oracles, NEW q \in Queues, OracleInit(o, q)
        PROVE  IInv'
    <2>1. num_rows' = num_rows
      BY <1>6 DEF OracleInit, OracleExists, IInv, TypeOK, Existence
    <2>2. RowsMatchCounter'
      BY <1>6, <2>1, MatchIsRowsMatchCounter DEF OracleInit, queueVars, IInv
    <2>3. TypeOK' /\ CursorsInBounds' /\ Existence'
      BY <1>6, <2>1, OracleQueueAssumption
         DEF OracleInit, QueueExists, queueVars, IInv, TypeOK, CursorsInBounds, Existence
    <2> QED BY <2>2, <2>3 DEF IInv
  <1>7. ASSUME NEW o \in Oracles, NEW q \in Queues, OracleSetConfigs(o, q)
        PROVE  IInv'
    <2>1. RowsMatchCounter'
      BY <1>7, MatchIsRowsMatchCounter DEF OracleSetConfigs, queueVars, IInv
    <2>2. TypeOK' /\ CursorsInBounds' /\ Existence'
      BY <1>7, OracleQueueAssumption
         DEF OracleSetConfigs, QueueExists, OracleExists, queueVars, IInv, TypeOK,
             CursorsInBounds, Existence
    <2> QED BY <2>1, <2>2 DEF IInv
  <1>8. ASSUME NEW o \in Oracles, Heartbeat(o)
        PROVE  IInv'
    BY <1>8, HeartbeatIInv
  <1>9. ASSUME NEW q \in Queues, NEW n \in BatchSizes, NextN(q, n)
        PROVE  IInv'
    <2> DEFINE L == Len(data[q])
               keys == [k \in 1..n |-> data[q][((curr_idx[q] + k - 1) % L) + 1]]
    <2>1. n \in Nat /\ n > 0 /\ L \in Nat /\ curr_idx[q] \in Nat /\ curr_idx[q] < L
          /\ data[q] \in Seq(Oracles)
      BY <1>9, OracleQueueAssumption DEF NextN, IInv, TypeOK
    <2>2. keys \in Seq(Oracles)
      <3>1. ASSUME NEW k \in 1..n PROVE ((curr_idx[q] + k - 1) % L) + 1 \in 1..L
        <4>1. curr_idx[q] + k - 1 \in Nat /\ L > 0
          BY <2>1
        <4>2. (curr_idx[q] + k - 1) % L \in 0..(L - 1)
          BY <2>1, <4>1, ModInRange
        <4> QED BY <2>1, <4>2
      <3> QED BY <2>1, <3>1
    <2>3. (curr_idx[q] + n) % L \in 0..(L - 1)
      BY <2>1, ModInRange
    <2>4. alloc' \in [Queues -> Seq(Oracles)]
      <3>1. alloc' = [alloc EXCEPT ![q] = keys]
        BY <1>9 DEF NextN
      <3> HIDE DEF keys
      <3> QED BY <2>2, <3>1 DEF IInv, TypeOK
    <2>5. curr_idx' \in [Queues -> Nat] /\ curr_idx'[q] < L
          /\ \A r \in Queues \ {q} : curr_idx'[r] = curr_idx[r]
      BY <1>9, <2>1, <2>3 DEF NextN, IInv, TypeOK
    <2>6. UNCHANGED <<authority, data, gc_idx, queue_addr, num_rows, age, permission>>
      BY <1>9 DEF NextN, oracleVars
    <2>7. data[q] # <<>>
      BY <2>1
    <2>8. RowsMatchCounter'
      BY <2>6, MatchIsRowsMatchCounter DEF IInv
    <2>9. TypeOK' /\ Existence'
      BY <2>4, <2>5, <2>6 DEF IInv, TypeOK, Existence
    <2>10. CursorsInBounds'
      BY <2>5, <2>6, <2>7 DEF IInv, CursorsInBounds
    <2> QED BY <2>8, <2>9, <2>10 DEF IInv
  <1>10. ASSUME Tick
         PROVE  IInv'
    <2>1. RowsMatchCounter'
      BY <1>10, MatchIsRowsMatchCounter DEF Tick, queueVars, IInv
    <2>2. TypeOK' /\ CursorsInBounds' /\ Existence'
      BY <1>10, OracleQueueAssumption
         DEF Tick, is_expired, queueVars, IInv, TypeOK, CursorsInBounds, Existence
    <2> QED BY <2>1, <2>2 DEF IInv
  <1>11. CASE UNCHANGED vars
    BY <1>3, <1>11 DEF vars, queueVars, oracleVars, IInv, TypeOK
  <1> QED
    BY <1>1, <1>2, <1>4, <1>5, <1>6, <1>7, <1>8, <1>9, <1>10, <1>11 DEF Next

(* The inductive invariant holds in every reachable state of the oracle    *)
(* queues.                                                                 *)
THEOREM OracleQueueInvariant == Spec => []IInv
  BY InitIInv, StepIInv, PTL DEF Spec

(* The state of the queues and oracles keeps its type.                     *)
THEOREM TypeCorrect == Spec => []TypeOK
  <1>1. IInv => TypeOK
    BY DEF IInv
  <1> QED BY <1>1, OracleQueueInvariant, PTL

(* The row counter of every oracle agrees with the rows of all queues, and *)
(* no oracle has two rows, whatever heartbeats, moves and collections have *)
(* happened.                                                               *)
THEOREM RowsMatchCounterAlways == Spec => []RowsMatchCounter
  <1>1. IInv => RowsMatchCounter
    BY DEF IInv
  <1> QED BY <1>1, OracleQueueInvariant, PTL

(* The cursors that next_n and the collector use unchecked always point at *)
(* a row of a non-empty queue.                                             *)
THEOREM CursorsAlwaysInBounds == Spec => []CursorsInBounds
  <1>1. IInv => CursorsInBounds
    BY DEF IInv
  <1> QED BY <1>1, OracleQueueInvariant, PTL

(* Being in some queue can be read off the oracle's counter.               *)
LEMMA CounterTellsPresence ==
    ASSUME RowsMatchCounter, NEW o \in Oracles
    PROVE  InSomeQueue(o) <=> num_rows[o] = 1
  BY DEF RowsMatchCounter

(* Only a heartbeat lowers a counter, and only that of an oracle that had  *)
(* been silent for longer than the period before the heartbeat.            *)
LEMMA CounterLowered ==
    ASSUME IInv, Next, NEW p \in Oracles, num_rows[p] = 1, num_rows'[p] = 0
    PROVE  is_expired(p)
  <1>1. num_rows' # num_rows
    OBVIOUS
  <1>2. PICK o \in Oracles : Heartbeat(o)
    <2>1. ASSUME NEW o \in Oracles, NEW q \in Queues, OracleInit(o, q)
          PROVE  num_rows' = num_rows
      BY <2>1 DEF OracleInit, OracleExists, IInv, TypeOK, Existence
    <2> QED BY <1>1, <2>1
            DEF Next, OracleQueueInit, OracleQueueSetConfigs, PermissionInit, PermissionSet,
                OracleSetConfigs, NextN, Tick, oracleVars
  <1>3. CountedRows(o)[p] = 1
    BY DEF CountedRows, IInv, TypeOK
  <1>4. HeartbeatBoot(o)
    BY <1>2, <1>3 DEF Heartbeat, HeartbeatKeep
  <1>5. CountedRows(o) \in [Oracles -> 0..1] /\ GcOracle(o) \in Oracles
    BY <1>2, PushedRowsFacts DEF Heartbeat
  <1>6. num_rows' = [CountedRows(o) EXCEPT ![GcOracle(o)] = @ - 1] /\ age'[GcOracle(o)] > ExpirationPeriod
    BY <1>4 DEF HeartbeatBoot
  <1>7. p = GcOracle(o)
    BY <1>3, <1>5, <1>6
  <1>8. age' = [age EXCEPT ![o] = 0]
    BY <1>2 DEF Heartbeat
  <1>9. p # o /\ age'[p] = age[p]
    BY <1>6, <1>7, <1>8, OracleQueueAssumption DEF IInv, TypeOK
  <1> QED BY <1>6, <1>7, <1>9 DEF is_expired

(* An oracle loses its row only after it has been silent for longer than   *)
(* the expiration period.                                                  *)
THEOREM OnlyExpiredAreBooted == Spec => BootsOnlyExpired
  <1> DEFINE A == \A o \in Oracles : InSomeQueue(o) /\ ~InSomeQueue(o)' => is_expired(o)
  <1>1. IInv /\ IInv' /\ [Next]_vars => [A]_vars
    <2> SUFFICES ASSUME IInv, IInv', Next, NEW o \in Oracles,
                        InSomeQueue(o), ~InSomeQueue(o)'
                 PROVE  is_expired(o)
      OBVIOUS
    <2>1. num_rows[o] = 1
      BY CounterTellsPresence DEF IInv
    <2>2. num_rows'[o] = 0
      BY DEF IInv, RowsMatchCounter
    <2> QED BY <2>1, <2>2, CounterLowered
  <1>2. Spec => [][A]_vars
    BY <1>1, OracleQueueInvariant, PTL DEF Spec
  <1> QED BY <1>2 DEF BootsOnlyExpired

(* Counting on from an index of a sequence, for as many steps as it is     *)
(* long, wraps at most once...                                             *)
LEMMA ModOnce ==
    ASSUME NEW L \in Nat, L > 0, NEW x \in 0..(2 * L - 1)
    PROVE  x % L = IF x < L THEN x ELSE x - L
  BY SMT

(* ...and so meets no index twice.                                         *)
LEMMA RowsInTurn ==
    ASSUME NEW L \in Nat, NEW c \in 0..(L - 1), NEW n \in 0..L,
           NEW i \in 1..n, NEW j \in 1..n, (c + i - 1) % L = (c + j - 1) % L
    PROVE  i = j
  <1>1. L > 0 /\ c + i - 1 \in 0..(2 * L - 1) /\ c + j - 1 \in 0..(2 * L - 1)
    BY SMT
  <1>2. (c + i - 1) % L = IF c + i - 1 < L THEN c + i - 1 ELSE c + i - 1 - L
    BY <1>1, ModOnce
  <1>3. (c + j - 1) % L = IF c + j - 1 < L THEN c + j - 1 ELSE c + j - 1 - L
    BY <1>1, ModOnce
  <1> QED BY <1>2, <1>3, SMT

(* A batch that next_n assigns has an oracle once: the indices of its rows *)
(* differ, and different rows have different oracles.                      *)
LEMMA NextNAssignsOnce ==
    ASSUME IInv, AssignedOnce, NEW q \in Queues, NEW n \in BatchSizes, NextN(q, n)
    PROVE  AssignedOnce'
  <1> DEFINE L == Len(data[q])
             Idx(k) == (curr_idx[q] + k - 1) % L
             keys == [k \in 1..n |-> data[q][Idx(k) + 1]]
  <1>1. /\ n \in Nat /\ n > 0 /\ L \in Nat /\ n <= L
        /\ curr_idx[q] \in 0..(L - 1) /\ data[q] \in Seq(Oracles)
    BY OracleQueueAssumption DEF NextN, BatchAvailable, IInv, TypeOK
  <1>2. alloc' = [alloc EXCEPT ![q] = keys] /\ alloc \in [Queues -> Seq(Oracles)]
    BY DEF NextN, IInv, TypeOK
  <1>3. ASSUME NEW k \in 1..n PROVE Idx(k) + 1 \in 1..L
    <2>1. curr_idx[q] + k - 1 \in Nat /\ L > 0
      BY <1>1
    <2>2. Idx(k) \in 0..(L - 1)
      BY <1>1, <2>1, ModInRange
    <2> QED BY <1>1, <2>2
  <1>4. ASSUME NEW i \in 1..n, NEW j \in 1..n, keys[i] = keys[j]
        PROVE  i = j
    <2>1. data[q][Idx(i) + 1] = data[q][Idx(j) + 1]
      BY <1>4
    <2>2. Idx(i) + 1 = Idx(j) + 1
      <3> HIDE DEF Idx
      <3> QED BY <1>3, <2>1 DEF IInv, RowsMatchCounter, DistinctRows, Rows
    <2>3. Idx(i) \in Int /\ Idx(j) \in Int
      BY <1>1, <1>3, ModInRange
    <2>4. Idx(i) = Idx(j)
      BY <2>2, <2>3
    <2>5. n \in 0..L
      BY <1>1
    <2> QED BY <1>1, <2>4, <2>5, RowsInTurn
  <1>5. DOMAIN keys = 1..n /\ Len(keys) = n
    BY <1>1
  <1> HIDE DEF keys
  <1> SUFFICES ASSUME NEW r \in Queues, NEW i \in 1..Len(alloc'[r]), NEW j \in 1..Len(alloc'[r]),
                      alloc'[r][i] = alloc'[r][j]
               PROVE  i = j
    BY DEF AssignedOnce
  <1>6. CASE r = q
    BY <1>2, <1>4, <1>5, <1>6
  <1>7. CASE r # q
    BY <1>2, <1>7 DEF AssignedOnce
  <1> QED BY <1>6, <1>7

(* The oracles assigned to one round are pairwise different, wherever the  *)
(* cursor stands, however the queue shrank and whatever the batch size.    *)
THEOREM AssignedOnceAlways == Spec => []AssignedOnce
  <1>1. Init => AssignedOnce
    BY DEF Init, AssignedOnce
  <1>2. IInv /\ AssignedOnce /\ [Next]_vars => AssignedOnce'
    <2> SUFFICES ASSUME IInv, AssignedOnce, [Next]_vars PROVE AssignedOnce'
      OBVIOUS
    <2>1. CASE \E q \in Queues, n \in BatchSizes : NextN(q, n)
      BY <2>1, NextNAssignsOnce
    <2>2. CASE UNCHANGED alloc
      BY <2>2 DEF AssignedOnce
    <2>3. UNCHANGED alloc \/ \E q \in Queues, n \in BatchSizes : NextN(q, n)
      BY DEF Next, vars, OracleQueueInit, OracleQueueSetConfigs, PermissionInit, PermissionSet,
             OracleInit, OracleSetConfigs, Heartbeat, Tick
    <2> QED BY <2>1, <2>2, <2>3
  <1> QED BY <1>1, <1>2, OracleQueueInvariant, PTL DEF Spec

----------------------------------------------------------------------------
(* The collector and a silent oracle.  Position counts rows from 0, as the *)
(* cursors do.  Between the cursor and a row there are the rows that the   *)
(* collector examines first; behind the cursor it comes round once more,   *)
(* past as many rows as there can be.                                      *)
Position(q, o) == (CHOOSE i \in Rows(q) : data[q][i] = o) - 1

DistanceFrom(g, p) == IF g <= p THEN p - g ELSE Cardinality(Oracles) + p - g

(* How many heartbeats the collector can still be kept from a row: a row   *)
(* may be moved behind the cursor, but only to an earlier place.           *)
HeartbeatsAt(p, g) == p * Cardinality(Oracles) + DistanceFrom(g, p)

HeartbeatsLeft(q, o) == HeartbeatsAt(Position(q, o), gc_idx[q])

LEMMA PositionFacts ==
    ASSUME DistinctRows, NEW q \in Queues, NEW o, NEW i \in Rows(q), data[q][i] = o
    PROVE  Position(q, o) = i - 1
  <1>1. \A j \in Rows(q) : data[q][j] = o => j = i
    BY DEF DistinctRows
  <1>2. (CHOOSE j \in Rows(q) : data[q][j] = o) = i
    BY <1>1
  <1> QED BY <1>2 DEF Position

(* A queue is never longer than there are oracles.                         *)
LEMMA RowsAtMostOracles ==
    ASSUME IsFiniteSet(Oracles), NEW d \in [Queues -> Seq(Oracles)], Distinct(d), NEW q \in Queues
    PROVE  Len(d[q]) <= Cardinality(Oracles) /\ Cardinality(Oracles) \in Nat
  <1> DEFINE L == Len(d[q])
  <1>1. L \in Nat /\ d[q] \in [1..L -> Oracles]
    OBVIOUS
  <1>2. \A i, j \in 1..L : d[q][i] = d[q][j] => i = j
    BY DEF Distinct
  <1>3. d[q] \in Injection(1..L, Oracles)
    BY <1>1, <1>2 DEF Injection, IsInjective
  <1>4. Cardinality(1..L) <= Cardinality(Oracles)
    BY <1>3, FS_Injection
  <1>5. Cardinality(1..L) = L
    BY <1>1, FS_Interval
  <1> QED BY <1>4, <1>5, FS_CardinalityType

(* A cursor that passes a row other than that of p comes nearer to p.      *)
LEMMA CursorNearer ==
    ASSUME Cardinality(Oracles) \in Nat, NEW L \in Nat, L <= Cardinality(Oracles),
           NEW p \in 0..(L - 1), NEW g \in 0..(L - 1), g # p
    PROVE  /\ DistanceFrom((g + 1) % L, p) < DistanceFrom(g, p)
           /\ (g + 1) % L \in 0..(L - 1)
  <1>1. (g + 1) % L = IF g + 1 < L THEN g + 1 ELSE 0
    BY SMT
  <1> QED BY <1>1, SMT DEF DistanceFrom

LEMMA DistanceBound ==
    ASSUME Cardinality(Oracles) \in Nat, NEW L \in Nat, L <= Cardinality(Oracles),
           NEW p \in 0..(L - 1), NEW g \in 0..(L - 1)
    PROVE  DistanceFrom(g, p) \in 0..(Cardinality(Oracles) - 1)
  BY SMT DEF DistanceFrom

(* The place weighs more than the distance.                                *)
LEMMA PlaceOutweighs ==
    ASSUME NEW N \in Nat, NEW p \in Nat, NEW r \in Nat, r < p,
           NEW d \in 0..(N - 1), NEW e \in 0..(N - 1)
    PROVE  r * N + e < p * N + d
  <1>1. PICK k \in Nat : p = r + 1 + k
    <2>1. p - r - 1 \in Nat /\ p = r + 1 + (p - r - 1)
      OBVIOUS
    <2> QED BY <2>1
  <1>2. p * N = r * N + N + k * N
    BY <1>1, SMT
  <1>3. r * N \in Nat /\ k * N \in Nat
    BY SMT
  <1> HIDE <1>1
  <1> QED BY <1>2, <1>3, SMT

(* When the row under the cursor is removed, the last row takes its place, *)
(* which is an earlier one; for any other row the cursor comes nearer.     *)
LEMMA NearerAfterRemoval ==
    ASSUME Cardinality(Oracles) \in Nat, NEW L \in Nat, L <= Cardinality(Oracles), L - 1 > 0,
           NEW p \in 0..(L - 1), NEW g \in 0..(L - 1), g # p
    PROVE  LET left == HeartbeatsAt(IF p = L - 1 THEN g ELSE p, ((g + 1) % L) % (L - 1))
           IN  left < HeartbeatsAt(p, g) /\ left \in Int
  <1> DEFINE N == Cardinality(Oracles)
             c == ((g + 1) % L) % (L - 1)
  <1>1. (g + 1) % L = IF g + 1 < L THEN g + 1 ELSE 0
    BY SMT
  <1>2. c = IF g + 1 < L - 1 THEN g + 1 ELSE 0
    <2>1. CASE g + 1 < L - 1
      BY <1>1, <2>1, SMT
    <2>2. CASE g + 1 = L - 1
      <3>1. (L - 1) % (L - 1) = 0
        BY SMT
      <3> QED BY <1>1, <2>2, <3>1
    <2>3. CASE g + 1 = L
      <3>1. 0 % (L - 1) = 0
        BY SMT
      <3> QED BY <1>1, <2>3, <3>1
    <2> QED BY <2>1, <2>2, <2>3
  <1>3. DistanceFrom(g, p) \in 0..(N - 1)
    BY DistanceBound
  <1>4. CASE p = L - 1
    <2>1. g \in 0..(L - 2) /\ c \in 0..(L - 2)
      BY <1>2, <1>4
    <2>2. DistanceFrom(c, g) \in 0..(N - 1)
      <3>1. L - 1 \in Nat /\ L - 1 <= N /\ g \in 0..((L - 1) - 1) /\ c \in 0..((L - 1) - 1)
        BY <2>1
      <3> QED BY <3>1, DistanceBound
    <2>3. g * N + DistanceFrom(c, g) < p * N + DistanceFrom(g, p)
      BY <1>3, <1>4, <2>1, <2>2, PlaceOutweighs
    <2>4. g * N \in Nat
      BY <2>1, SMT
    <2>5. g * N + DistanceFrom(c, g) \in Int
      BY <2>2, <2>4
    <2> QED BY <1>4, <2>3, <2>5 DEF HeartbeatsAt
  <1>5. CASE p # L - 1
    <2>1. DistanceFrom(c, p) < DistanceFrom(g, p)
      BY <1>2, <1>5, SMT DEF DistanceFrom
    <2>2. p * N \in Nat
      BY SMT
    <2>3. DistanceFrom(c, p) \in Int
      BY <1>2 DEF DistanceFrom
    <2> DEFINE d == DistanceFrom(c, p)
               e == DistanceFrom(g, p)
               m == p * N
    <2>4. m + d < m + e /\ m + d \in Int
      <3>1. d \in Int /\ e \in Int /\ m \in Nat /\ d < e
        BY <1>3, <2>1, <2>2, <2>3
      <3> HIDE DEF d, e, m
      <3> QED BY <3>1
    <2> QED BY <1>5, <2>4 DEF HeartbeatsAt
  <1> QED BY <1>4, <1>5

LEMMA NearerWhenKept ==
    ASSUME Cardinality(Oracles) \in Nat, NEW L \in Nat, L <= Cardinality(Oracles),
           NEW p \in 0..(L - 1), NEW g \in 0..(L - 1), g # p
    PROVE  HeartbeatsAt(p, (g + 1) % L) < HeartbeatsAt(p, g) /\ HeartbeatsAt(p, (g + 1) % L) \in Int
  <1> DEFINE d == DistanceFrom((g + 1) % L, p)
             e == DistanceFrom(g, p)
             m == p * Cardinality(Oracles)
  <1>1. d < e /\ (g + 1) % L \in 0..(L - 1)
    BY CursorNearer
  <1>2. d \in Int /\ e \in Int
    BY <1>1, DistanceBound
  <1>3. m \in Nat
    BY SMT
  <1>4. m + d < m + e /\ m + d \in Int
    <2> HIDE DEF d, e, m
    <2> QED BY <1>1, <1>2, <1>3
  <1> QED BY <1>4 DEF HeartbeatsAt

(* A heartbeat on the queue of a silent oracle brings the collector nearer *)
(* to it, unless it removes its row.                                       *)
LEMMA HeartbeatNearer ==
    ASSUME IsFiniteSet(Oracles), IInv, IInv', NEW h \in Oracles, Heartbeat(h),
           NEW q \in Queues, queue_addr[h] = q, NEW o \in Oracles,
           HasRow(q, o), HasRow(q, o)', is_expired(o)'
    PROVE  /\ HeartbeatsLeft(q, o)' < HeartbeatsLeft(q, o)
           /\ HeartbeatsLeft(q, o)' \in Int
  <1> DEFINE D == [data EXCEPT ![q] = PushedRows(h)]
             P == PushedRows(h)
             L == Len(P)
             g == gc_idx[q]
  <1>1. /\ q \in Queues /\ P \in Seq(Oracles) /\ g + 1 \in 1..L /\ g \in Nat
        /\ D[q] = P /\ data \in [Queues -> Seq(Oracles)] /\ gc_idx \in [Queues -> Nat]
    BY PushedRowsFacts DEF Heartbeat, IInv, TypeOK
  <1>2. D \in [Queues -> Seq(Oracles)] /\ Distinct(D)
    BY PushHalf DEF Heartbeat, Match
  <1>3. L \in Nat /\ L <= Cardinality(Oracles) /\ Cardinality(Oracles) \in Nat /\ g \in 0..(L - 1)
    <2>1. Len(D[q]) <= Cardinality(Oracles) /\ Cardinality(Oracles) \in Nat
      <3> HIDE DEF D
      <3> QED BY <1>1, <1>2, RowsAtMostOracles
    <2> QED BY <1>1, <2>1
  <1>4. PICK i \in Rows(q) : data[q][i] = o
    BY DEF HasRow
  <1> DEFINE p == i - 1
  <1>5. i \in 1..L /\ P[i] = o /\ p \in 0..(L - 1)
    <2>1. Len(data[q]) <= L /\ P[i] = data[q][i]
      BY <1>1, <1>4 DEF PushedRows, Rows
    <2> QED BY <1>1, <1>4, <2>1 DEF Rows
  <1>6. Position(q, o) = p
    BY <1>1, <1>4, PositionFacts DEF IInv, RowsMatchCounter
  <1>7. \A j \in 1..L : P[j] = o => j = i
    BY <1>1, <1>2, <1>5 DEF Distinct
  <1>8. \A j \in Rows(q)' : data'[q][j] = o => Position(q, o)' = j - 1
    <2> SUFFICES ASSUME NEW j \in 1..Len(data'[q]), data'[q][j] = o
                 PROVE  Position(q, o)' = j - 1
      BY DEF Rows
    <2>1. \A k \in 1..Len(data'[q]) : data'[q][k] = o => k = j
      BY <1>1 DEF IInv, RowsMatchCounter, DistinctRows, Rows
    <2>2. (CHOOSE k \in 1..Len(data'[q]) : data'[q][k] = o) = j
      BY <2>1
    <2> QED BY <2>2 DEF Position, Rows
  <1>9. CASE HeartbeatKeep(h)
    <2>1. data'[q] = P /\ gc_idx'[q] = (g + 1) % L
      BY <1>1, <1>9 DEF HeartbeatKeep, NextGcIdx
    <2>2. GcOracle(h) # o
      BY <1>9, <1>1, OracleQueueAssumption DEF HeartbeatKeep, is_expired, IInv, TypeOK
    <2>3. g # p
      BY <1>1, <1>5, <2>2 DEF GcOracle
    <2>4. Position(q, o)' = p
      BY <1>5, <1>8, <2>1 DEF Rows
    <2>5. HeartbeatsAt(p, (g + 1) % L) < HeartbeatsAt(p, g) /\ HeartbeatsAt(p, (g + 1) % L) \in Int
      <3> HIDE DEF p, g, L
      <3> QED BY <1>3, <1>5, <2>3, NearerWhenKept
    <2> QED BY <1>6, <2>1, <2>4, <2>5 DEF HeartbeatsLeft
  <1>10. CASE HeartbeatBoot(h)
    <2>1. /\ L - 1 > 0
          /\ data'[q] = SwapRemove(P, g + 1)
          /\ gc_idx'[q] = ((g + 1) % L) % (L - 1)
      <3>1. gc_idx' = [gc_idx EXCEPT ![q] = CursorAfterGc(NextGcIdx(h), L - 1)]
            /\ data' = [data EXCEPT ![q] = SwapRemove(P, GcRow(h))] /\ L - 1 > 0
        BY <1>10 DEF HeartbeatBoot
      <3>2. data'[q] = SwapRemove(P, GcRow(h)) /\ gc_idx'[q] = CursorAfterGc(NextGcIdx(h), L - 1)
        BY <1>1, <3>1
      <3> QED BY <3>1, <3>2 DEF GcRow, CursorAfterGc, NextGcIdx
    <2>2. /\ Len(data'[q]) = L - 1
          /\ \A j \in 1..(L - 1) : data'[q][j] = IF j = g + 1 THEN P[L] ELSE P[j]
      BY <1>1, <2>1, SwapRemoveType
    <2>3. g # p
      <3>1. PICK j \in 1..(L - 1) : data'[q][j] = o
        BY <2>2 DEF HasRow, Rows
      <3>2. CASE j = g + 1
        <4>1. P[L] = o
          BY <2>2, <3>1, <3>2
        <4>2. L = i
          BY <1>3, <1>7, <2>1, <4>1
        <4> QED BY <1>3, <3>1, <3>2, <4>2
      <3>3. CASE j # g + 1
        <4>1. j = i
          BY <1>3, <1>7, <2>2, <3>1, <3>3
        <4> QED BY <1>3, <3>3, <4>1
      <3> QED BY <3>2, <3>3
    <2>4. Position(q, o)' = IF p = L - 1 THEN g ELSE p
      <3>1. CASE p = L - 1
        <4>1. g + 1 \in 1..(L - 1)
          BY <1>3, <2>3, <3>1
        <4>2. data'[q][g + 1] = o
          BY <1>5, <2>2, <3>1, <4>1
        <4>3. Position(q, o)' = (g + 1) - 1
          BY <1>8, <2>2, <4>1, <4>2 DEF Rows
        <4> QED BY <1>3, <3>1, <4>3
      <3>2. CASE p # L - 1
        <4>1. i \in 1..(L - 1) /\ i # g + 1
          BY <1>3, <1>5, <2>3, <3>2
        <4>2. data'[q][i] = o
          BY <1>5, <2>2, <4>1
        <4> QED BY <1>8, <2>2, <3>2, <4>1, <4>2 DEF Rows
      <3> QED BY <3>1, <3>2
    <2>5. LET left == HeartbeatsAt(IF p = L - 1 THEN g ELSE p, ((g + 1) % L) % (L - 1))
          IN  left < HeartbeatsAt(p, g) /\ left \in Int
      <3> HIDE DEF p, g, L
      <3> QED BY <1>3, <1>5, <2>1, <2>3, NearerAfterRemoval
    <2> QED BY <1>6, <2>1, <2>4, <2>5 DEF HeartbeatsLeft
  <1> QED BY <1>9, <1>10 DEF Heartbeat

(* The collector comes to every silent oracle.  It may be kept from a row  *)
(* by fewer heartbeats than the square of the number of oracles, and each  *)
(* heartbeat on the queue that leaves the row, whether it pushes a row,    *)
(* removes another or moves this one, leaves strictly fewer; no step adds  *)
(* to them.  This is what SilentAreBooted rests on beside fairness.        *)
CollectorComes ==
    [][\A q \in Queues, o \in Oracles :
          HasRow(q, o) /\ HasRow(q, o)' /\ is_expired(o)' =>
              /\ HeartbeatsLeft(q, o) \in 0..(Cardinality(Oracles) * Cardinality(Oracles) - 1)
              /\ HeartbeatsLeft(q, o)' <= HeartbeatsLeft(q, o)
              /\ \A h \in Oracles : queue_addr[h] = q /\ Heartbeat(h) =>
                    HeartbeatsLeft(q, o)' < HeartbeatsLeft(q, o)]_vars

LEMMA HeartbeatsLeftBound ==
    ASSUME IsFiniteSet(Oracles), IInv, NEW q \in Queues, NEW o \in Oracles, HasRow(q, o)
    PROVE  HeartbeatsLeft(q, o) \in 0..(Cardinality(Oracles) * Cardinality(Oracles) - 1)
  <1> DEFINE N == Cardinality(Oracles)
             L == Len(data[q])
             g == gc_idx[q]
  <1>1. data \in [Queues -> Seq(Oracles)] /\ Distinct(data) /\ g \in Nat /\ L \in Nat
    BY MatchIsRowsMatchCounter DEF Match, IInv, TypeOK
  <1>2. L <= N /\ N \in Nat
    BY <1>1, RowsAtMostOracles
  <1>3. PICK i \in Rows(q) : data[q][i] = o
    BY DEF HasRow
  <1>4. Position(q, o) = i - 1
    BY <1>3, PositionFacts DEF IInv, RowsMatchCounter
  <1>5. i - 1 \in 0..(L - 1) /\ g \in 0..(L - 1)
    <2>1. data[q] # <<>>
      BY <1>1, <1>3 DEF Rows
    <2> QED BY <1>1, <1>3, <2>1 DEF IInv, CursorsInBounds, Rows
  <1> DEFINE p == i - 1
             d == DistanceFrom(g, p)
  <1>6. d \in 0..(N - 1)
    <2>1. L \in Nat /\ L <= N /\ N \in Nat /\ p \in 0..(L - 1) /\ g \in 0..(L - 1)
      BY <1>1, <1>2, <1>5
    <2>2. DistanceFrom(g, p) \in 0..(N - 1)
      <3> HIDE DEF p, g, L
      <3> QED BY <2>1, DistanceBound
    <2> QED BY <2>2
  <1>7. p * N + d < N * N + 0 /\ p * N \in Nat
    <2>1. p \in Nat /\ p < N /\ N \in Nat /\ 0 \in 0..(N - 1)
      BY <1>1, <1>2, <1>5
    <2>2. p * N \in Nat /\ N * N \in Nat
      <3> HIDE DEF N, p
      <3> QED BY <2>1
    <2>3. p * N + N <= N * N
      <3>1. PICK k \in Nat : N = p + 1 + k
        <4>1. N - p - 1 \in Nat /\ N = p + 1 + (N - p - 1)
          BY <2>1
        <4> QED BY <4>1
      <3>2. N * N = p * N + N + k * N /\ k * N \in Nat
        <4> HIDE DEF N, p
        <4> QED BY <2>1, <3>1, SMT
      <3> HIDE DEF N, p
      <3> QED BY <2>1, <2>2, <3>2
    <2> DEFINE m == p * N
               s == N * N
    <2>4. m \in Nat /\ s \in Nat /\ m + N <= s
      BY <2>2, <2>3
    <2>5. m + d < s + 0
      <3> HIDE DEF m, s, d, N
      <3> QED BY <1>6, <2>1, <2>4
    <2> QED BY <2>2, <2>5
  <1>8. HeartbeatsLeft(q, o) = p * N + d
    BY <1>4 DEF HeartbeatsLeft, HeartbeatsAt
  <1> DEFINE m == p * N
             s == N * N
  <1>9. s \in Nat
    <2> HIDE DEF N
    <2> QED BY <1>2
  <1>10. m + d \in 0..(s - 1)
    <2>1. m \in Nat /\ m + d < s + 0
      BY <1>7
    <2> HIDE DEF m, s, d
    <2> QED BY <1>2, <1>6, <1>9, <2>1
  <1> QED BY <1>8, <1>10

(* Only a heartbeat on a queue changes its rows or its collector's cursor. *)
LEMMA OthersLeaveTheQueue ==
    ASSUME IInv, [Next]_vars, NEW q \in Queues,
           \A h \in Oracles : ~(queue_addr[h] = q /\ Heartbeat(h))
    PROVE  data'[q] = data[q] /\ gc_idx'[q] = gc_idx[q]
  <1>1. ASSUME NEW r \in Queues, NEW a \in Authorities, OracleQueueInit(r, a)
        PROVE  data' = data /\ gc_idx' = gc_idx
    BY <1>1 DEF OracleQueueInit, QueueExists, IInv, TypeOK, Existence, CursorsInBounds
  <1>2. ASSUME NEW h \in Oracles, Heartbeat(h)
        PROVE  data'[q] = data[q] /\ gc_idx'[q] = gc_idx[q]
    <2>1. queue_addr[h] # q
      BY <1>2
    <2> QED BY <1>2, <2>1 DEF Heartbeat, HeartbeatKeep, HeartbeatBoot, IInv, TypeOK
  <1> QED BY <1>1, <1>2
          DEF Next, vars, OracleQueueSetConfigs, PermissionInit, PermissionSet, OracleInit,
              OracleSetConfigs, NextN, Tick, queueVars

THEOREM CollectorAlwaysComes ==
    ASSUME IsFiniteSet(Oracles)
    PROVE  Spec => CollectorComes
  <1> DEFINE A == \A q \in Queues, o \in Oracles :
                     HasRow(q, o) /\ HasRow(q, o)' /\ is_expired(o)' =>
                         /\ HeartbeatsLeft(q, o)
                                \in 0..(Cardinality(Oracles) * Cardinality(Oracles) - 1)
                         /\ HeartbeatsLeft(q, o)' <= HeartbeatsLeft(q, o)
                         /\ \A h \in Oracles : queue_addr[h] = q /\ Heartbeat(h) =>
                               HeartbeatsLeft(q, o)' < HeartbeatsLeft(q, o)
  <1>1. IInv /\ IInv' /\ [Next]_vars => [A]_vars
    <2> SUFFICES ASSUME IInv, IInv', [Next]_vars, NEW q \in Queues, NEW o \in Oracles,
                        HasRow(q, o), HasRow(q, o)', is_expired(o)'
                 PROVE  /\ HeartbeatsLeft(q, o)
                               \in 0..(Cardinality(Oracles) * Cardinality(Oracles) - 1)
                        /\ HeartbeatsLeft(q, o)' <= HeartbeatsLeft(q, o)
                        /\ \A h \in Oracles : queue_addr[h] = q /\ Heartbeat(h) =>
                              HeartbeatsLeft(q, o)' < HeartbeatsLeft(q, o)
      OBVIOUS
    <2>1. HeartbeatsLeft(q, o) \in 0..(Cardinality(Oracles) * Cardinality(Oracles) - 1)
      BY HeartbeatsLeftBound
    <2>2. Cardinality(Oracles) * Cardinality(Oracles) \in Int
      BY FS_CardinalityType
    <2>3. \A h \in Oracles : queue_addr[h] = q /\ Heartbeat(h) =>
              HeartbeatsLeft(q, o)' < HeartbeatsLeft(q, o) /\ HeartbeatsLeft(q, o)' \in Int
      BY HeartbeatNearer
    <2>4. CASE \E h \in Oracles : queue_addr[h] = q /\ Heartbeat(h)
      BY <2>1, <2>2, <2>3, <2>4
    <2>5. CASE \A h \in Oracles : ~(queue_addr[h] = q /\ Heartbeat(h))
      <3>1. data'[q] = data[q] /\ gc_idx'[q] = gc_idx[q]
        BY <2>5, OthersLeaveTheQueue
      <3>2. HeartbeatsLeft(q, o)' = HeartbeatsLeft(q, o)
        BY <3>1 DEF HeartbeatsLeft, Position, Rows
      <3> QED BY <2>1, <2>3, <3>2
    <2> QED BY <2>1, <2>3, <2>4, <2>5
  <1> HIDE DEF A
  <1>2. Spec => [][A]_vars
    BY <1>1, OracleQueueInvariant, PTL DEF Spec
  <1> QED BY <1>2 DEF CollectorComes, A
=============================================================================
