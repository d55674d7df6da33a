---------------------------- MODULE CrankProofs -----------------------------
(***************************************************************************)
(* Proofs about the heaps of CrankHeap and the cranks that keep their rows *)
(* in them, for every number of feeds, cranks and rows.  The loops of push *)
(* and pop are functions defined by recursion on the number of passes:     *)
(* what they leave is proved by induction, which is stated for the set of  *)
(* the numbers that have a property.                                       *)
(***************************************************************************)
EXTENDS Crank, MCCrankHeap, FiniteSetTheorems, WellFoundedInduction, TLAPS

LEMMA NatSetInduction ==
    ASSUME NEW P, 0 \in P, \A n \in Nat : n \in P => n + 1 \in P
    PROVE  Nat \subseteq P
  <1> SUFFICES ASSUME NEW m \in Nat, m \notin P PROVE FALSE
    OBVIOUS
  <1> DEFINE W == {0..n : n \in Nat \ P}
  <1>1. W \subseteq FiniteSubsetsOf(Nat) /\ W # {}
    <2>1. \A n \in Nat : 0..n \in SUBSET Nat /\ IsFiniteSet(0..n)
      BY FS_Interval
    <2>2. 0..m \in W
      OBVIOUS
    <2> QED BY <2>1, <2>2 DEF FiniteSubsetsOf
  <1>2. PICK w \in W : \A v \in W : <<v, w>> \notin StrictSubsetOrdering(Nat)
    <2> HIDE DEF W
    <2> QED BY <1>1, FS_StrictSubsetOrderingWellFounded, WFMin
  <1>3. PICK x \in Nat \ P : w = 0..x
    OBVIOUS
  <1>4. x - 1 \in Nat \ P
    OBVIOUS
  <1>5. /\ 0..(x - 1) \in W
        /\ 0..(x - 1) \subseteq 0..x /\ x \in 0..x /\ x \notin 0..(x - 1)
    BY <1>4
  <1>6. <<0..(x - 1), w>> \in StrictSubsetOrdering(Nat)
    BY <1>3, <1>5 DEF StrictSubsetOrdering
  <1> QED BY <1>2, <1>5, <1>6

----------------------------------------------------------------------------
(* The loops.  What holds of the start, and from one pass to the next,     *)
(* holds of the state after as many passes as the heap has rows.           *)
First(h, i) == {[heap |-> h, current |-> i]}

Risen(t) == {RisePass(s) : s \in t}

Sunk(t) == {SinkPass(s) : s \in t}

AfterRises(g, h, i, m) ==
    g = [n \in 0..m |-> IF n = 0 THEN First(h, i) ELSE Risen(g[n - 1])]

AfterSinks(g, h, i, m) ==
    g = [n \in 0..m |-> IF n = 0 THEN First(h, i) ELSE Sunk(g[n - 1])]

LEMMA RisesExist ==
    ASSUME NEW h, NEW i, NEW m \in Nat
    PROVE  \E g : AfterRises(g, h, i, m)
  <1> DEFINE P == {k \in Nat : \E g : AfterRises(g, h, i, k)}
  <1>1. 0 \in P
    <2>1. AfterRises([n \in 0..0 |-> First(h, i)], h, i, 0)
      BY DEF AfterRises
    <2> QED BY <2>1
  <1>2. ASSUME NEW k \in Nat, k \in P PROVE k + 1 \in P
    <2>1. PICK g : AfterRises(g, h, i, k)
      BY <1>2
    <2> DEFINE f == [n \in 0..(k + 1) |-> IF n = 0 THEN First(h, i) ELSE Risen(g[n - 1])]
    <2>2. \A n \in 0..k : f[n] = g[n]
      BY <2>1 DEF AfterRises
    <2>3. \A n \in 0..(k + 1) : n # 0 => n - 1 \in 0..k
      OBVIOUS
    <2>4. ASSUME NEW n \in 0..(k + 1)
          PROVE  f[n] = IF n = 0 THEN First(h, i) ELSE Risen(f[n - 1])
      <3>1. CASE n = 0
        BY <3>1
      <3>2. CASE n # 0
        <4>1. f[n - 1] = g[n - 1]
          BY <2>2, <2>3, <3>2
        <4>2. f[n] = Risen(g[n - 1])
          BY <3>2
        <4> HIDE DEF f
        <4> QED BY <3>2, <4>1, <4>2
      <3> QED BY <3>1, <3>2
    <2>5. AfterRises(f, h, i, k + 1)
      BY <2>4 DEF AfterRises
    <2> QED BY <2>5
  <1> HIDE DEF P
  <1>3. m \in P
    BY <1>1, <1>2, NatSetInduction
  <1> QED BY <1>3 DEF P

LEMMA SinksExist ==
    ASSUME NEW h, NEW i, NEW m \in Nat
    PROVE  \E g : AfterSinks(g, h, i, m)
  <1> DEFINE P == {k \in Nat : \E g : AfterSinks(g, h, i, k)}
  <1>1. 0 \in P
    <2>1. AfterSinks([n \in 0..0 |-> First(h, i)], h, i, 0)
      BY DEF AfterSinks
    <2> QED BY <2>1
  <1>2. ASSUME NEW k \in Nat, k \in P PROVE k + 1 \in P
    <2>1. PICK g : AfterSinks(g, h, i, k)
      BY <1>2
    <2> DEFINE f == [n \in 0..(k + 1) |-> IF n = 0 THEN First(h, i) ELSE Sunk(g[n - 1])]
    <2>2. \A n \in 0..k : f[n] = g[n]
      BY <2>1 DEF AfterSinks
    <2>3. \A n \in 0..(k + 1) : n # 0 => n - 1 \in 0..k
      OBVIOUS
    <2>4. ASSUME NEW n \in 0..(k + 1)
          PROVE  f[n] = IF n = 0 THEN First(h, i) ELSE Sunk(f[n - 1])
      <3>1. CASE n = 0
        BY <3>1
      <3>2. CASE n # 0
        <4>1. f[n - 1] = g[n - 1]
          BY <2>2, <2>3, <3>2
        <4>2. f[n] = Sunk(g[n - 1])
          BY <3>2
        <4> HIDE DEF f
        <4> QED BY <3>2, <4>1, <4>2
      <3> QED BY <3>1, <3>2
    <2>5. AfterSinks(f, h, i, k + 1)
      BY <2>4 DEF AfterSinks
    <2> QED BY <2>5
  <1> HIDE DEF P
  <1>3. m \in P
    BY <1>1, <1>2, NatSetInduction
  <1> QED BY <1>3 DEF P

LEMMA SiftUpDef ==
    ASSUME NEW h, NEW i
    PROVE  SiftUp(h, i) = (CHOOSE s \in (CHOOSE g : AfterRises(g, h, i, Len(h)))[Len(h)] : TRUE).heap
  BY DEF SiftUp, AfterRises, First, Risen

LEMMA SiftUpInduction ==
    ASSUME NEW h, NEW i, Len(h) \in Nat,
           NEW P, <<0, [heap |-> h, current |-> i]>> \in P,
           \A n \in Nat : \A s : <<n, s>> \in P => <<n + 1, RisePass(s)>> \in P
    PROVE  \E s : <<Len(h), s>> \in P /\ SiftUp(h, i) = s.heap
  <1>1. PICK g : AfterRises(g, h, i, Len(h))
                 /\ SiftUp(h, i) = (CHOOSE s \in g[Len(h)] : TRUE).heap
    BY RisesExist, SiftUpDef
  <1> DEFINE Reached(n) == \E s : g[n] = {s} /\ <<n, s>> \in P
             Q == {n \in Nat : n <= Len(h) => Reached(n)}
  <1>2. Reached(0)
    <2>1. g[0] = {[heap |-> h, current |-> i]}
      BY <1>1 DEF AfterRises, First
    <2> QED BY <2>1
  <1>3. ASSUME NEW n \in Nat, Reached(n), n + 1 <= Len(h) PROVE Reached(n + 1)
    <2>1. PICK s : g[n] = {s} /\ <<n, s>> \in P
      BY <1>3
    <2>2. g[n + 1] = Risen(g[n])
      <3>1. n + 1 \in 0..Len(h) /\ n + 1 # 0 /\ (n + 1) - 1 = n
        BY <1>3
      <3> QED BY <1>1, <3>1 DEF AfterRises
    <2>3. g[n + 1] = {RisePass(s)}
      BY <2>1, <2>2 DEF Risen
    <2> QED BY <2>1, <2>3
  <1> HIDE DEF Reached
  <1>4. 0 \in Q /\ \A n \in Nat : n \in Q => n + 1 \in Q
    BY <1>2, <1>3
  <1>5. PICK s : g[Len(h)] = {s} /\ <<Len(h), s>> \in P
    <2>1. Len(h) \in Q
      <3> HIDE DEF Q
      <3> QED BY <1>4, NatSetInduction
    <2>2. Reached(Len(h))
      BY <2>1
    <2> QED BY <2>2 DEF Reached
  <1>6. (CHOOSE r \in g[Len(h)] : TRUE) = s
    BY <1>5
  <1> QED BY <1>1, <1>5, <1>6

LEMMA SiftDownDef ==
    ASSUME NEW h, NEW i
    PROVE  SiftDown(h, i) = (CHOOSE s \in (CHOOSE g : AfterSinks(g, h, i, Len(h)))[Len(h)] : TRUE).heap
  BY DEF SiftDown, AfterSinks, First, Sunk

LEMMA SiftDownInduction ==
    ASSUME NEW h, NEW i, Len(h) \in Nat,
           NEW P, <<0, [heap |-> h, current |-> i]>> \in P,
           \A n \in Nat : \A s : <<n, s>> \in P => <<n + 1, SinkPass(s)>> \in P
    PROVE  \E s : <<Len(h), s>> \in P /\ SiftDown(h, i) = s.heap
  <1>1. PICK g : AfterSinks(g, h, i, Len(h))
                 /\ SiftDown(h, i) = (CHOOSE s \in g[Len(h)] : TRUE).heap
    BY SinksExist, SiftDownDef
  <1> DEFINE Reached(n) == \E s : g[n] = {s} /\ <<n, s>> \in P
             Q == {n \in Nat : n <= Len(h) => Reached(n)}
  <1>2. Reached(0)
    <2>1. g[0] = {[heap |-> h, current |-> i]}
      BY <1>1 DEF AfterSinks, First
    <2> QED BY <2>1
  <1>3. ASSUME NEW n \in Nat, Reached(n), n + 1 <= Len(h) PROVE Reached(n + 1)
    <2>1. PICK s : g[n] = {s} /\ <<n, s>> \in P
      BY <1>3
    <2>2. g[n + 1] = Sunk(g[n])
      <3>1. n + 1 \in 0..Len(h) /\ n + 1 # 0 /\ (n + 1) - 1 = n
        BY <1>3
      <3> QED BY <1>1, <3>1 DEF AfterSinks
    <2>3. g[n + 1] = {SinkPass(s)}
      BY <2>1, <2>2 DEF Sunk
    <2> QED BY <2>1, <2>3
  <1> HIDE DEF Reached
  <1>4. 0 \in Q /\ \A n \in Nat : n \in Q => n + 1 \in Q
    BY <1>2, <1>3
  <1>5. PICK s : g[Len(h)] = {s} /\ <<Len(h), s>> \in P
    <2>1. Len(h) \in Q
      <3> HIDE DEF Q
      <3> QED BY <1>4, NatSetInduction
    <2>2. Reached(Len(h))
      BY <2>1
    <2> QED BY <2>2 DEF Reached
  <1>6. (CHOOSE r \in g[Len(h)] : TRUE) = s
    BY <1>5
  <1> QED BY <1>1, <1>5, <1>6

----------------------------------------------------------------------------
(* Swaps, and what they leave: the rows, each as often as it was there.    *)
At(h, t) == {i \in Indices(h) : TimeAt(h, i) = t}

Shuffled(g, h) ==
    /\ Len(g) = Len(h)
    /\ ToSet(g) = ToSet(h)
    /\ IsInjective(h) => IsInjective(g)
    /\ \A t : Cardinality(At(g, t)) = Cardinality(At(h, t))

LEMMA HeapFacts ==
    ASSUME NEW R, NEW h \in Seq(R)
    PROVE  /\ Len(h) \in Nat /\ DOMAIN h = 1..Len(h)
           /\ \A i \in Indices(h) : i \in Nat /\ i < Len(h) /\ i + 1 \in DOMAIN h /\ RowAt(h, i) \in R
           /\ \A k \in DOMAIN h : k - 1 \in Indices(h) /\ h[k] = RowAt(h, k - 1)
           /\ \A i \in Nat : i < Len(h) => i \in Indices(h)
  BY DEF Indices, RowAt

LEMMA SwapFacts ==
    ASSUME NEW R, NEW h \in Seq(R), NEW i \in Indices(h), NEW j \in Indices(h)
    PROVE  LET g == SwapRows(h, i, j)
           IN  /\ g \in Seq(R) /\ Len(g) = Len(h) /\ Indices(g) = Indices(h)
               /\ RowAt(g, i) = RowAt(h, j) /\ RowAt(g, j) = RowAt(h, i)
               /\ \A k \in Indices(h) : k # i /\ k # j => RowAt(g, k) = RowAt(h, k)
  <1> DEFINE g == SwapRows(h, i, j)
  <1>1. /\ i \in Int /\ j \in Int /\ i + 1 \in 1..Len(h) /\ j + 1 \in 1..Len(h)
        /\ Len(h) \in Nat
    BY HeapFacts
  <1>2. g = [h EXCEPT ![i + 1] = h[j + 1], ![j + 1] = h[i + 1]]
    BY DEF SwapRows, RowAt
  <1> HIDE DEF g
  <1>3. g \in Seq(R) /\ Len(g) = Len(h)
    BY <1>1, <1>2
  <1>4. g[i + 1] = h[j + 1] /\ g[j + 1] = h[i + 1]
    BY <1>1, <1>2
  <1>5. \A k \in Int : k + 1 \in 1..Len(h) /\ k # i /\ k # j => g[k + 1] = h[k + 1]
    BY <1>1, <1>2
  <1>6. \A k \in Indices(h) : k \in Int /\ k + 1 \in 1..Len(h)
    BY HeapFacts
  <1> QED BY <1>3, <1>4, <1>5, <1>6 DEF g, RowAt, Indices

LEMMA MovedOne ==
    ASSUME NEW A, IsFiniteSet(A), NEW i \in A, NEW j, j \notin A
    PROVE  Cardinality((A \ {i}) \cup {j}) = Cardinality(A)
  <1>1. /\ IsFiniteSet(A \ {i}) /\ Cardinality(A \ {i}) = Cardinality(A) - 1
        /\ Cardinality(A) \in Nat
    BY FS_RemoveElement, FS_CardinalityType
  <1>2. Cardinality((A \ {i}) \cup {j}) = Cardinality(A \ {i}) + 1
    BY <1>1, FS_AddElement
  <1> QED BY <1>1, <1>2

LEMMA AtIsFinite ==
    ASSUME NEW R, NEW h \in Seq(R), NEW t
    PROVE  IsFiniteSet(At(h, t)) /\ Cardinality(At(h, t)) \in Nat
  <1>1. Len(h) - 1 \in Int /\ 0 \in Int
    BY HeapFacts
  <1>2. IsFiniteSet(Indices(h))
    BY <1>1, FS_Interval DEF Indices
  <1>3. At(h, t) \subseteq Indices(h)
    BY DEF At
  <1> QED BY <1>2, <1>3, FS_Subset, FS_CardinalityType

LEMMA RowsAsSets ==
    ASSUME NEW R, NEW h \in Seq(R)
    PROVE  /\ ToSet(h) = {RowAt(h, k) : k \in Indices(h)}
           /\ IsInjective(h) <=>
                \A k, l \in Indices(h) : RowAt(h, k) = RowAt(h, l) => k = l
  <1>1. /\ \A k \in Indices(h) : k \in Nat /\ k + 1 \in DOMAIN h /\ RowAt(h, k) = h[k + 1]
        /\ \A k \in DOMAIN h : k \in Nat /\ k - 1 \in Indices(h) /\ h[k] = RowAt(h, k - 1)
    BY HeapFacts DEF RowAt
  <1>2. ToSet(h) = {RowAt(h, k) : k \in Indices(h)}
    BY <1>1 DEF ToSet
  <1>3. ASSUME IsInjective(h), NEW k \in Indices(h), NEW l \in Indices(h),
               RowAt(h, k) = RowAt(h, l)
        PROVE  k = l
    <2>1. k + 1 = l + 1
      BY <1>1, <1>3 DEF IsInjective
    <2> QED BY <1>1, <2>1
  <1>4. ASSUME \A k, l \in Indices(h) : RowAt(h, k) = RowAt(h, l) => k = l,
               NEW k \in DOMAIN h, NEW l \in DOMAIN h, h[k] = h[l]
        PROVE  k = l
    <2>1. k - 1 = l - 1
      BY <1>1, <1>4
    <2> QED BY <1>1, <2>1
  <1> QED BY <1>2, <1>3, <1>4 DEF IsInjective

LEMMA SwapShuffles ==
    ASSUME NEW R, NEW h \in Seq(R), NEW i \in Indices(h), NEW j \in Indices(h)
    PROVE  SwapRows(h, i, j) \in Seq(R) /\ Shuffled(SwapRows(h, i, j), h)
  <1> DEFINE g == SwapRows(h, i, j)
  <1>1. /\ g \in Seq(R) /\ Len(g) = Len(h) /\ Indices(g) = Indices(h)
        /\ RowAt(g, i) = RowAt(h, j) /\ RowAt(g, j) = RowAt(h, i)
        /\ \A k \in Indices(h) : k # i /\ k # j => RowAt(g, k) = RowAt(h, k)
    BY SwapFacts
  <1> HIDE DEF g
  <1>2. /\ \A f \in Seq(R) : ToSet(f) = {RowAt(f, k) : k \in Indices(f)}
        /\ \A f \in Seq(R) : IsInjective(f) <=>
              \A k, l \in Indices(f) : RowAt(f, k) = RowAt(f, l) => k = l
    BY RowsAsSets
  <1>3. ToSet(g) = ToSet(h)
    <2>1. \A k \in Indices(h) : \E l \in Indices(h) : RowAt(g, k) = RowAt(h, l)
      BY <1>1
    <2>2. \A k \in Indices(h) : \E l \in Indices(h) : RowAt(h, k) = RowAt(g, l)
      BY <1>1
    <2>3. /\ ToSet(g) = {RowAt(g, k) : k \in Indices(h)}
          /\ ToSet(h) = {RowAt(h, k) : k \in Indices(h)}
      BY <1>1, <1>2
    <2> QED BY <2>1, <2>2, <2>3
  <1>4. IsInjective(h) => IsInjective(g)
    <2> SUFFICES ASSUME IsInjective(h), NEW k \in Indices(h), NEW l \in Indices(h),
                        RowAt(g, k) = RowAt(g, l)
                 PROVE  k = l
      BY <1>1, <1>2
    <2>1. \A m, n \in Indices(h) : RowAt(h, m) = RowAt(h, n) => m = n
      BY <1>2
    <2> QED BY <1>1, <2>1
  <1>5. ASSUME NEW t PROVE Cardinality(At(g, t)) = Cardinality(At(h, t))
    <2>1. /\ At(g, t) = {k \in Indices(h) : RowAt(g, k).timestamp = t}
          /\ At(h, t) = {k \in Indices(h) : RowAt(h, k).timestamp = t}
      BY <1>1 DEF At, TimeAt
    <2>2. IsFiniteSet(At(h, t))
      BY AtIsFinite
    <2>3. CASE (i \in At(h, t)) = (j \in At(h, t))
      <3>1. At(g, t) = At(h, t)
        BY <1>1, <2>1, <2>3
      <3> QED BY <3>1
    <2>4. CASE i \in At(h, t) /\ j \notin At(h, t)
      <3>1. At(g, t) = (At(h, t) \ {i}) \cup {j}
        BY <1>1, <2>1, <2>4
      <3> QED BY <2>2, <2>4, <3>1, MovedOne
    <2>5. CASE j \in At(h, t) /\ i \notin At(h, t)
      <3>1. At(g, t) = (At(h, t) \ {j}) \cup {i}
        BY <1>1, <2>1, <2>5
      <3> QED BY <2>2, <2>5, <3>1, MovedOne
    <2> QED BY <2>3, <2>4, <2>5
  <1> QED BY <1>1, <1>3, <1>4, <1>5 DEF Shuffled, g

----------------------------------------------------------------------------
(* One pass of a loop.                                                     *)
Timed(R) == \A r \in R : r.timestamp \in Int

States(R) == [heap : Seq(R), current : Nat]

LEMMA ParentFacts ==
    ASSUME NEW i \in Nat
    PROVE  /\ parent(i) \in Nat
           /\ i # 0 => parent(i) < i /\ (i = 2 * parent(i) + 1 \/ i = 2 * parent(i) + 2)
  BY DEF parent

LEMMA ParentOf ==
    ASSUME NEW c \in Nat
    PROVE  parent(2 * c + 1) = c /\ parent(2 * c + 2) = c
  BY DEF parent

LEMMA TimesAreInts ==
    ASSUME NEW R, Timed(R), NEW h \in Seq(R), NEW i \in Indices(h)
    PROVE  TimeAt(h, i) \in Int /\ i \in Nat /\ i < Len(h)
  BY HeapFacts DEF Timed, TimeAt

LEMMA ShuffledTwice ==
    ASSUME NEW f, NEW g, NEW h, Shuffled(f, g), Shuffled(g, h)
    PROVE  Shuffled(f, h)
  BY DEF Shuffled

LEMMA RisePassShuffles ==
    ASSUME NEW R, NEW s \in States(R), s.current \in Indices(s.heap)
    PROVE  LET t == RisePass(s)
           IN  /\ t \in States(R) /\ t.current \in Indices(t.heap)
               /\ Shuffled(t.heap, s.heap)
  <1> DEFINE c == s.current  p == parent(c)
  <1>1. s.heap \in Seq(R) /\ c \in Nat /\ c < Len(s.heap) /\ Len(s.heap) \in Nat
    BY HeapFacts DEF States
  <1>2. CASE RisePass(s) = s
    BY <1>2 DEF Shuffled
  <1>3. CASE c # 0 /\ RisePass(s) = [heap |-> SwapRows(s.heap, c, p), current |-> p]
    <2>1. p \in Nat /\ p < c
      BY <1>1, <1>3, ParentFacts
    <2>2. p \in Indices(s.heap)
      BY <1>1, <2>1, HeapFacts
    <2> DEFINE g == SwapRows(s.heap, c, p)
    <2>3. g \in Seq(R) /\ Shuffled(g, s.heap)
      BY <1>1, <2>2, SwapShuffles
    <2>4. Indices(g) = Indices(s.heap)
      BY <2>3 DEF Shuffled, Indices
    <2> HIDE DEF g, p
    <2>5. RisePass(s).heap = g /\ RisePass(s).current = p /\ RisePass(s) = [heap |-> g, current |-> p]
      BY <1>3 DEF g
    <2> QED BY <2>1, <2>2, <2>3, <2>4, <2>5 DEF States
  <1> QED BY <1>2, <1>3 DEF RisePass

LEMMA SinkPassShuffles ==
    ASSUME NEW R, NEW s \in States(R)
    PROVE  LET t == SinkPass(s)
           IN  t \in States(R) /\ Shuffled(t.heap, s.heap)
  <1> DEFINE c == s.current  d == ChildToCompare(s.heap, c)
  <1>1. s.heap \in Seq(R) /\ c \in Nat /\ Len(s.heap) \in Nat
    BY HeapFacts DEF States
  <1>2. CASE SinkPass(s) = s
    BY <1>2 DEF Shuffled
  <1>3. CASE d < Len(s.heap) /\ SinkPass(s) = [heap |-> SwapRows(s.heap, c, d), current |-> d]
    <2>1. d \in Nat /\ c < d
      BY <1>1 DEF ChildToCompare, left_child, right_child
    <2>2. d \in Indices(s.heap) /\ c \in Indices(s.heap)
      BY <1>1, <1>3, <2>1, HeapFacts
    <2> DEFINE g == SwapRows(s.heap, c, d)
    <2>3. g \in Seq(R) /\ Shuffled(g, s.heap)
      BY <1>1, <2>2, SwapShuffles
    <2> HIDE DEF g, d
    <2>4. SinkPass(s).heap = g /\ SinkPass(s) = [heap |-> g, current |-> d]
      BY <1>3 DEF g
    <2> QED BY <2>1, <2>3, <2>4 DEF States
  <1>4. d \in Nat
    BY <1>1 DEF ChildToCompare, left_child, right_child
  <1> QED BY <1>1, <1>2, <1>3, <1>4 DEF SinkPass

LEMMA SiftUpShuffles ==
    ASSUME NEW R, NEW h \in Seq(R), NEW i \in Indices(h)
    PROVE  SiftUp(h, i) \in Seq(R) /\ Shuffled(SiftUp(h, i), h)
  <1> DEFINE Good(s) == /\ s \in States(R) /\ s.current \in Indices(s.heap)
                        /\ Shuffled(s.heap, h)
             P == {q \in Nat \X States(R) : Good(q[2])}
             first == [heap |-> h, current |-> i]
  <1>1. Len(h) \in Nat /\ i \in Nat
    BY HeapFacts
  <1>2. Good(first)
    BY <1>1 DEF States, Shuffled
  <1>3. ASSUME NEW s, Good(s) PROVE Good(RisePass(s))
    BY <1>3, RisePassShuffles, ShuffledTwice
  <1>4. \A s : Good(s) => s \in States(R)
    OBVIOUS
  <1> HIDE DEF Good, first
  <1>5. <<0, first>> \in P
    BY <1>2, <1>4
  <1>6. \A n \in Nat : \A s : <<n, s>> \in P => <<n + 1, RisePass(s)>> \in P
    BY <1>3, <1>4
  <1>7. \A n, s : <<n, s>> \in P => Good(s)
    OBVIOUS
  <1> HIDE DEF P
  <1>8. PICK s : <<Len(h), s>> \in P /\ SiftUp(h, i) = s.heap
    BY <1>1, <1>5, <1>6, SiftUpInduction DEF first
  <1> QED BY <1>7, <1>8 DEF Good, States

LEMMA SiftDownShuffles ==
    ASSUME NEW R, NEW h \in Seq(R), NEW i \in Nat
    PROVE  SiftDown(h, i) \in Seq(R) /\ Shuffled(SiftDown(h, i), h)
  <1> DEFINE Good(s) == s \in States(R) /\ Shuffled(s.heap, h)
             P == {q \in Nat \X States(R) : Good(q[2])}
             first == [heap |-> h, current |-> i]
  <1>1. Len(h) \in Nat
    BY HeapFacts
  <1>2. Good(first)
    BY <1>1 DEF States, Shuffled
  <1>3. ASSUME NEW s, Good(s) PROVE Good(SinkPass(s))
    BY <1>3, SinkPassShuffles, ShuffledTwice
  <1>4. \A s : Good(s) => s \in States(R)
    OBVIOUS
  <1> HIDE DEF Good, first
  <1>5. <<0, first>> \in P
    BY <1>2, <1>4
  <1>6. \A n \in Nat : \A s : <<n, s>> \in P => <<n + 1, SinkPass(s)>> \in P
    BY <1>3, <1>4
  <1>7. \A n, s : <<n, s>> \in P => Good(s)
    OBVIOUS
  <1> HIDE DEF P
  <1>8. PICK s : <<Len(h), s>> \in P /\ SiftDown(h, i) = s.heap
    BY <1>1, <1>5, <1>6, SiftDownInduction DEF first
  <1> QED BY <1>7, <1>8 DEF Good, States

----------------------------------------------------------------------------
(* The order of the heap, as far as a loop has restored it: wherever it    *)
(* is not at work a row is no earlier than its parent, and the children of *)
(* the row at work are no earlier than that row's parent.                  *)
OrderedAbove(g, c) ==
    /\ \A k \in Indices(g) : k # c => TimeAt(g, parent(k)) <= TimeAt(g, k)
    /\ \A k \in Indices(g) : k # 0 /\ c # 0 /\ parent(k) = c => TimeAt(g, parent(c)) <= TimeAt(g, k)

Risen0(s) == s.current = 0 \/ TimeAt(s.heap, parent(s.current)) <= TimeAt(s.heap, s.current)

LEMMA RisePassOrders ==
    ASSUME NEW R, Timed(R), NEW s \in States(R), s.current \in Indices(s.heap),
           OrderedAbove(s.heap, s.current)
    PROVE  /\ OrderedAbove(RisePass(s).heap, RisePass(s).current)
           /\ \/ Risen0(s) /\ RisePass(s) = s
              \/ RisePass(s).current < s.current
  <1> DEFINE h == s.heap  c == s.current  p == parent(c)  g == SwapRows(h, c, p)
  <1>1. h \in Seq(R) /\ c \in Nat /\ c < Len(h) /\ Len(h) \in Nat /\ c \in Indices(h)
    BY HeapFacts DEF States
  <1>2. p \in Nat /\ p <= c /\ (c # 0 => p < c)
    BY <1>1, ParentFacts DEF parent
  <1>3. p \in Indices(h)
    BY <1>1, <1>2, HeapFacts
  <1>4. TimeAt(h, c) \in Int /\ TimeAt(h, p) \in Int
    BY <1>1, <1>3, TimesAreInts
  <1>5. CASE ~(c # 0 /\ TimeAt(h, c) < TimeAt(h, p))
    <2>1. RisePass(s) = s
      BY <1>5 DEF RisePass
    <2>2. Risen0(s)
      BY <1>4, <1>5 DEF Risen0
    <2> QED BY <2>1, <2>2
  <1>6. CASE c # 0 /\ TimeAt(h, c) < TimeAt(h, p)
    <2>1. RisePass(s).heap = g /\ RisePass(s).current = p
      BY <1>6 DEF RisePass
    <2>2. /\ g \in Seq(R) /\ Indices(g) = Indices(h)
          /\ RowAt(g, c) = RowAt(h, p) /\ RowAt(g, p) = RowAt(h, c)
          /\ \A k \in Indices(h) : k # c /\ k # p => RowAt(g, k) = RowAt(h, k)
      BY <1>1, <1>3, SwapFacts
    <2> HIDE DEF g
    <2>3. /\ TimeAt(g, c) = TimeAt(h, p) /\ TimeAt(g, p) = TimeAt(h, c)
          /\ \A k \in Indices(h) : k # c /\ k # p => TimeAt(g, k) = TimeAt(h, k)
      BY <2>2 DEF TimeAt
    <2>4. \A k \in Indices(h) : /\ k \in Nat /\ TimeAt(h, k) \in Int
                                /\ parent(k) \in Indices(h) /\ parent(k) \in Nat
                                /\ k # 0 => parent(k) < k
      <3> SUFFICES ASSUME NEW k \in Indices(h)
                   PROVE  /\ k \in Nat /\ TimeAt(h, k) \in Int
                          /\ parent(k) \in Indices(h) /\ parent(k) \in Nat
                          /\ k # 0 => parent(k) < k
        OBVIOUS
      <3>1. k \in Nat /\ k < Len(h) /\ TimeAt(h, k) \in Int
        BY <1>1, TimesAreInts
      <3>2. parent(k) \in Nat /\ (k # 0 => parent(k) < k) /\ parent(k) <= k
        BY <3>1, ParentFacts DEF parent
      <3> QED BY <1>1, <3>1, <3>2, HeapFacts
    <2>5. /\ \A k \in Indices(h) : k # c => TimeAt(h, parent(k)) <= TimeAt(h, k)
          /\ \A k \in Indices(h) : k # 0 /\ parent(k) = c => TimeAt(h, p) <= TimeAt(h, k)
      BY <1>6 DEF OrderedAbove
    <2> HIDE DEF p, h, c
    <2>6. ASSUME NEW k \in Indices(h), k # p
          PROVE  TimeAt(g, parent(k)) <= TimeAt(g, k)
      <3>1. CASE k = c
        BY <1>4, <1>6, <2>3, <2>4, <3>1 DEF p
      <3>2. CASE k # c /\ parent(k) = c /\ k # 0
        BY <1>2, <1>3, <1>4, <1>6, <2>3, <2>4, <2>5, <2>6, <3>2
      <3>3. CASE k # c /\ parent(k) = p
        BY <1>2, <1>3, <1>4, <1>6, <2>3, <2>4, <2>5, <2>6, <3>3
      <3>4. CASE k # c /\ parent(k) # c /\ parent(k) # p
        BY <2>3, <2>4, <2>5, <2>6, <3>4
      <3>5. k # c /\ parent(k) = c => k # 0
        BY <1>2, <1>6 DEF p, parent
      <3> QED BY <3>1, <3>2, <3>3, <3>4, <3>5
    <2>7. ASSUME NEW k \in Indices(h), k # 0, p # 0, parent(k) = p
          PROVE  TimeAt(g, parent(p)) <= TimeAt(g, k)
      <3>1. parent(p) \in Indices(h) /\ parent(p) < p /\ TimeAt(h, parent(p)) <= TimeAt(h, p)
        BY <1>2, <1>3, <1>6, <2>4, <2>5, <2>7
      <3>2. TimeAt(g, parent(p)) = TimeAt(h, parent(p)) /\ TimeAt(h, parent(p)) \in Int
        <4>1. parent(p) \in Nat /\ p \in Nat /\ c \in Nat /\ p <= c
          BY <1>1, <1>2, <1>3, <2>4
        <4>2. parent(p) # c /\ parent(p) # p
          BY <3>1, <4>1
        <4> QED BY <2>3, <2>4, <3>1, <4>2
      <3>3. CASE k = c
        BY <2>3, <3>1, <3>2, <3>3
      <3>4. CASE k # c
        <4>1. k # p /\ TimeAt(g, k) = TimeAt(h, k)
          BY <2>3, <2>4, <2>7, <3>4
        <4>2. TimeAt(h, p) <= TimeAt(h, k)
          BY <2>5, <2>7, <3>4
        <4> QED BY <1>4, <2>4, <3>1, <3>2, <4>1, <4>2
      <3> QED BY <3>3, <3>4
    <2> QED BY <1>2, <1>6, <2>1, <2>2, <2>6, <2>7 DEF OrderedAbove, c
  <1> QED BY <1>5, <1>6

LEMMA SiftUpOrders ==
    ASSUME NEW R, Timed(R), NEW h \in Seq(R), NEW i \in Indices(h), OrderedAbove(h, i)
    PROVE  InHeapOrder(SiftUp(h, i))
  <1> DEFINE Good(n, s) == /\ s \in States(R) /\ s.current \in Indices(s.heap)
                           /\ OrderedAbove(s.heap, s.current)
                           /\ Risen0(s) \/ s.current + n <= i
             P == {q \in Nat \X States(R) : Good(q[1], q[2])}
             first == [heap |-> h, current |-> i]
  <1>1. Len(h) \in Nat /\ i \in Nat /\ i < Len(h)
    BY HeapFacts
  <1>2. Good(0, first)
    BY <1>1 DEF States
  <1>3. ASSUME NEW n \in Nat, NEW s, Good(n, s) PROVE Good(n + 1, RisePass(s))
    <2>1. /\ RisePass(s) \in States(R)
          /\ RisePass(s).current \in Indices(RisePass(s).heap)
      BY <1>3, RisePassShuffles
    <2>2. /\ OrderedAbove(RisePass(s).heap, RisePass(s).current)
          /\ \/ Risen0(s) /\ RisePass(s) = s
             \/ RisePass(s).current < s.current
      BY <1>3, RisePassOrders
    <2>3. CASE Risen0(s) /\ RisePass(s) = s
      BY <1>3, <2>1, <2>2, <2>3
    <2>4. CASE ~Risen0(s) /\ RisePass(s).current < s.current
      <3>1. s.current \in Nat /\ RisePass(s).current \in Nat /\ s.current + n <= i
        BY <1>3, <2>1, <2>4 DEF States
      <3>2. RisePass(s).current + (n + 1) <= i
        BY <1>1, <2>4, <3>1
      <3> QED BY <2>1, <2>2, <3>2
    <2>5. CASE Risen0(s) /\ RisePass(s).current < s.current
      <3>1. RisePass(s) = s
        <4>1. s.heap \in Seq(R) /\ s.current \in Nat
          BY <1>3 DEF States
        <4>2. s.current # 0 => parent(s.current) \in Indices(s.heap)
          BY <1>3, <4>1, ParentFacts, HeapFacts
        <4>3. s.current # 0 => TimeAt(s.heap, s.current) \in Int
                               /\ TimeAt(s.heap, parent(s.current)) \in Int
          BY <1>3, <4>1, <4>2, TimesAreInts
        <4> QED BY <2>5, <4>1, <4>3 DEF RisePass, Risen0
      <3> QED BY <1>3, <2>1, <2>2, <2>5, <3>1
    <2> QED BY <2>2, <2>3, <2>4, <2>5
  <1>4. \A n, s : Good(n, s) => s \in States(R)
    OBVIOUS
  <1> HIDE DEF Good, first
  <1>5. <<0, first>> \in P
    BY <1>2, <1>4
  <1>6. \A n \in Nat : \A s : <<n, s>> \in P => <<n + 1, RisePass(s)>> \in P
    BY <1>3, <1>4
  <1>7. \A n, s : <<n, s>> \in P => Good(n, s)
    OBVIOUS
  <1> HIDE DEF P
  <1>8. PICK s : <<Len(h), s>> \in P /\ SiftUp(h, i) = s.heap
    BY <1>1, <1>5, <1>6, SiftUpInduction DEF first
  <1>9. /\ s \in States(R) /\ s.current \in Indices(s.heap) /\ OrderedAbove(s.heap, s.current)
        /\ Risen0(s) \/ s.current + Len(h) <= i
    BY <1>7, <1>8 DEF Good
  <1>10. s.heap \in Seq(R) /\ s.current \in Nat
    BY <1>9 DEF States
  <1>11. Risen0(s)
    BY <1>1, <1>9, <1>10
  <1>12. s.current = 0 => TimeAt(s.heap, parent(s.current)) <= TimeAt(s.heap, s.current)
    BY <1>9, <1>10, TimesAreInts DEF parent
  <1> QED BY <1>8, <1>9, <1>11, <1>12 DEF InHeapOrder, OrderedAbove, Risen0

OrderedBelow(g, c) ==
    /\ \A k \in Indices(g) : k # 0 /\ parent(k) # c => TimeAt(g, parent(k)) <= TimeAt(g, k)
    /\ \A k \in Indices(g) : k # 0 /\ c # 0 /\ parent(k) = c => TimeAt(g, parent(c)) <= TimeAt(g, k)

Sunk0(s) ==
    LET d == ChildToCompare(s.heap, s.current)
    IN  d >= Len(s.heap) \/ TimeAt(s.heap, s.current) < TimeAt(s.heap, d)

LEMMA ParentsAreRows ==
    ASSUME NEW R, Timed(R), NEW h \in Seq(R)
    PROVE  \A k \in Indices(h) : /\ k \in Nat /\ k < Len(h) /\ TimeAt(h, k) \in Int
                                 /\ parent(k) \in Indices(h) /\ parent(k) \in Nat
                                 /\ k # 0 => parent(k) < k
  <1> SUFFICES ASSUME NEW k \in Indices(h)
               PROVE  /\ k \in Nat /\ k < Len(h) /\ TimeAt(h, k) \in Int
                      /\ parent(k) \in Indices(h) /\ parent(k) \in Nat
                      /\ k # 0 => parent(k) < k
    OBVIOUS
  <1>1. k \in Nat /\ k < Len(h) /\ TimeAt(h, k) \in Int /\ Len(h) \in Nat
    BY HeapFacts, TimesAreInts
  <1>2. parent(k) \in Nat /\ (k # 0 => parent(k) < k) /\ parent(k) <= k
    BY <1>1, ParentFacts DEF parent
  <1> QED BY <1>1, <1>2, HeapFacts

(* The child to compare is the earlier of the two, if there is a child.    *)
LEMMA ChildFacts ==
    ASSUME NEW R, Timed(R), NEW h \in Seq(R), NEW c \in Nat
    PROVE  LET d == ChildToCompare(h, c)
           IN  /\ d \in Nat /\ c < d /\ parent(d) = c /\ d # 0
               /\ d < Len(h) => d \in Indices(h)
               /\ \A k \in Indices(h) : k # 0 /\ parent(k) = c =>
                     d < Len(h) /\ TimeAt(h, d) <= TimeAt(h, k)
  <1> DEFINE d == ChildToCompare(h, c)  l == left_child(c)  r == right_child(c)
  <1>1. l \in Nat /\ r \in Nat /\ l = 2 * c + 1 /\ r = 2 * c + 2 /\ Len(h) \in Nat
    BY HeapFacts DEF left_child, right_child
  <1>2. d = l \/ d = r
    BY DEF ChildToCompare
  <1>3. d \in Nat /\ c < d /\ d # 0 /\ parent(d) = c
    <2>1. d = 2 * c + 1 \/ d = 2 * c + 2
      BY <1>1, <1>2
    <2>2. parent(2 * c + 1) = c /\ parent(2 * c + 2) = c
      BY ParentOf
    <2> HIDE DEF d
    <2> QED BY <2>1, <2>2
  <1>4. d < Len(h) => d \in Indices(h)
    BY <1>3, HeapFacts
  <1>5. ASSUME NEW k \in Indices(h), k # 0, parent(k) = c
        PROVE  d < Len(h) /\ TimeAt(h, d) <= TimeAt(h, k)
    <2>0. k \in Nat /\ k < Len(h) /\ TimeAt(h, k) \in Int
      BY ParentsAreRows
    <2>1. k \in Nat /\ k < Len(h) /\ (k = l \/ k = r) /\ TimeAt(h, k) \in Int
      <3>1. k = 2 * parent(k) + 1 \/ k = 2 * parent(k) + 2
        BY <1>5, <2>0, ParentFacts
      <3> QED BY <1>1, <1>5, <2>0, <3>1
    <2>2. l \in Indices(h) /\ TimeAt(h, l) \in Int
      <3>1. l < Len(h)
        BY <1>1, <2>1
      <3> QED BY <1>1, <3>1, HeapFacts, TimesAreInts
    <2>3. CASE r >= Len(h)
      <3>1. d = l /\ k = l
        BY <1>1, <2>1, <2>3 DEF ChildToCompare
      <3> QED BY <2>1, <3>1
    <2>4. CASE r < Len(h)
      <3>1. r \in Indices(h) /\ TimeAt(h, r) \in Int
        BY <1>1, <2>4, HeapFacts, TimesAreInts
      <3>2. d = IF TimeAt(h, r) > TimeAt(h, l) THEN l ELSE r
        BY <1>1, <2>4 DEF ChildToCompare
      <3> HIDE DEF d, l, r
      <3> QED BY <1>1, <2>1, <2>2, <2>4, <3>1, <3>2
    <2> QED BY <1>1, <2>3, <2>4
  <1> QED BY <1>3, <1>4, <1>5

LEMMA SinkPassOrders ==
    ASSUME NEW R, Timed(R), NEW s \in States(R), OrderedBelow(s.heap, s.current)
    PROVE  /\ OrderedBelow(SinkPass(s).heap, SinkPass(s).current)
           /\ \/ Sunk0(s) /\ SinkPass(s) = s
              \/ ~Sunk0(s) /\ SinkPass(s).current > s.current
  <1> DEFINE h == s.heap  c == s.current  d == ChildToCompare(h, c)  g == SwapRows(h, c, d)
  <1>1. h \in Seq(R) /\ c \in Nat /\ Len(h) \in Nat
    BY HeapFacts DEF States
  <1>2. /\ d \in Nat /\ c < d /\ parent(d) = c /\ d # 0
        /\ d < Len(h) => d \in Indices(h)
        /\ \A k \in Indices(h) : k # 0 /\ parent(k) = c => TimeAt(h, d) <= TimeAt(h, k)
    BY <1>1, ChildFacts
  <1>3. CASE Sunk0(s)
    BY <1>3 DEF SinkPass, Sunk0
  <1>4. CASE ~Sunk0(s)
    <2>1. /\ SinkPass(s).heap = g /\ SinkPass(s).current = d
          /\ d < Len(h) /\ ~(TimeAt(h, c) < TimeAt(h, d))
      BY <1>1, <1>2, <1>4 DEF SinkPass, Sunk0
    <2>2. d \in Indices(h) /\ c \in Indices(h)
      BY <1>1, <1>2, <2>1, HeapFacts
    <2>3. /\ g \in Seq(R) /\ Indices(g) = Indices(h)
          /\ RowAt(g, c) = RowAt(h, d) /\ RowAt(g, d) = RowAt(h, c)
          /\ \A k \in Indices(h) : k # c /\ k # d => RowAt(g, k) = RowAt(h, k)
      BY <1>1, <2>2, SwapFacts
    <2> HIDE DEF g
    <2>4. /\ TimeAt(g, c) = TimeAt(h, d) /\ TimeAt(g, d) = TimeAt(h, c)
          /\ \A k \in Indices(h) : k # c /\ k # d => TimeAt(g, k) = TimeAt(h, k)
      BY <2>3 DEF TimeAt
    <2>5. \A k \in Indices(h) : /\ k \in Nat /\ TimeAt(h, k) \in Int
                                /\ parent(k) \in Indices(h) /\ parent(k) \in Nat
                                /\ k # 0 => parent(k) < k
      BY <1>1, ParentsAreRows
    <2>6. /\ \A k \in Indices(h) : k # 0 /\ parent(k) # c => TimeAt(h, parent(k)) <= TimeAt(h, k)
          /\ \A k \in Indices(h) : k # 0 /\ c # 0 /\ parent(k) = c =>
                TimeAt(h, parent(c)) <= TimeAt(h, k)
      BY DEF OrderedBelow
    <2>7. TimeAt(h, d) <= TimeAt(h, c)
      BY <2>1, <2>2, <2>5
    <2> HIDE DEF d, h, c
    <2>8. ASSUME NEW k \in Indices(h), k # 0, parent(k) # d
          PROVE  TimeAt(g, parent(k)) <= TimeAt(g, k)
      <3>1. CASE k = d
        BY <1>2, <2>4, <2>7, <3>1
      <3>2. CASE k = c
        <4>1. TimeAt(h, parent(c)) <= TimeAt(h, d)
          BY <1>2, <2>2, <2>6, <2>8, <3>2
        <4>2. parent(c) # c /\ parent(c) # d /\ parent(c) \in Indices(h)
          BY <1>1, <1>2, <2>2, <2>5, <2>8, <3>2
        <4> QED BY <2>4, <3>2, <4>1, <4>2
      <3>3. CASE k # d /\ k # c /\ parent(k) = c
        BY <1>2, <2>4, <2>8, <3>3
      <3>4. CASE k # d /\ k # c /\ parent(k) # c
        BY <2>4, <2>5, <2>6, <2>8, <3>4
      <3> QED BY <3>1, <3>2, <3>3, <3>4
    <2>9. ASSUME NEW k \in Indices(h), k # 0, parent(k) = d
          PROVE  TimeAt(g, parent(d)) <= TimeAt(g, k)
      <3>1. k # c /\ k # d /\ parent(k) # c
        <4>1. k \in Nat /\ d < k
          BY <2>5, <2>9
        <4> QED BY <1>1, <1>2, <2>9, <4>1
      <3>2. TimeAt(h, d) <= TimeAt(h, k)
        BY <2>6, <2>9, <3>1
      <3> QED BY <1>2, <2>4, <3>1, <3>2
    <2>10. OrderedBelow(g, d)
      BY <2>3, <2>8, <2>9 DEF OrderedBelow
    <2> QED BY <1>1, <1>2, <1>4, <2>1, <2>10 DEF c
  <1> QED BY <1>3, <1>4

LEMMA SunkIsOrdered ==
    ASSUME NEW R, Timed(R), NEW s \in States(R), OrderedBelow(s.heap, s.current), Sunk0(s)
    PROVE  InHeapOrder(s.heap)
  <1> DEFINE h == s.heap  c == s.current  d == ChildToCompare(h, c)
  <1>1. h \in Seq(R) /\ c \in Nat /\ Len(h) \in Nat
    BY HeapFacts DEF States
  <1>2. /\ d \in Nat /\ c < d /\ (d < Len(h) => d \in Indices(h))
        /\ \A k \in Indices(h) : k # 0 /\ parent(k) = c =>
              d < Len(h) /\ TimeAt(h, d) <= TimeAt(h, k)
    BY <1>1, ChildFacts
  <1>3. \A k \in Indices(h) : /\ k \in Nat /\ TimeAt(h, k) \in Int
                              /\ parent(k) \in Indices(h)
    BY <1>1, ParentsAreRows
  <1> SUFFICES ASSUME NEW k \in Indices(h) PROVE TimeAt(h, parent(k)) <= TimeAt(h, k)
    BY DEF InHeapOrder
  <1>4. CASE k = 0
    BY <1>3, <1>4 DEF parent
  <1>5. CASE k # 0 /\ parent(k) # c
    BY <1>5 DEF OrderedBelow
  <1>6. CASE k # 0 /\ parent(k) = c
    <2>1. d < Len(h) /\ TimeAt(h, d) <= TimeAt(h, k) /\ d \in Indices(h)
      BY <1>2, <1>6
    <2>2. TimeAt(h, c) < TimeAt(h, d)
      BY <1>1, <1>2, <2>1 DEF Sunk0
    <2>3. c \in Indices(h)
      BY <1>3, <1>6
    <2> HIDE DEF h, c, d
    <2> QED BY <1>3, <1>6, <2>1, <2>2, <2>3
  <1> QED BY <1>4, <1>5, <1>6

LEMMA SiftDownOrders ==
    ASSUME NEW R, Timed(R), NEW h \in Seq(R), NEW i \in Nat, OrderedBelow(h, i)
    PROVE  InHeapOrder(SiftDown(h, i))
  <1> DEFINE Good(n, s) == /\ s \in States(R) /\ Len(s.heap) = Len(h)
                           /\ OrderedBelow(s.heap, s.current)
                           /\ Sunk0(s) \/ s.current >= i + n
             P == {q \in Nat \X States(R) : Good(q[1], q[2])}
             first == [heap |-> h, current |-> i]
  <1>1. Len(h) \in Nat
    BY HeapFacts
  <1>2. Good(0, first)
    BY <1>1 DEF States
  <1>3. ASSUME NEW n \in Nat, NEW s, Good(n, s) PROVE Good(n + 1, SinkPass(s))
    <2>1. SinkPass(s) \in States(R) /\ Len(SinkPass(s).heap) = Len(h)
      BY <1>3, SinkPassShuffles DEF Shuffled
    <2>2. /\ OrderedBelow(SinkPass(s).heap, SinkPass(s).current)
          /\ \/ Sunk0(s) /\ SinkPass(s) = s
             \/ ~Sunk0(s) /\ SinkPass(s).current > s.current
      BY <1>3, SinkPassOrders
    <2>3. CASE Sunk0(s) /\ SinkPass(s) = s
      BY <1>3, <2>1, <2>2, <2>3
    <2>4. CASE ~Sunk0(s) /\ SinkPass(s).current > s.current
      <3>1. s.current \in Nat /\ SinkPass(s).current \in Nat /\ s.current >= i + n
        BY <1>3, <2>1, <2>4 DEF States
      <3>2. SinkPass(s).current >= i + (n + 1)
        BY <2>4, <3>1
      <3> QED BY <2>1, <2>2, <3>2
    <2> QED BY <2>2, <2>3, <2>4
  <1>4. \A n, s : Good(n, s) => s \in States(R)
    OBVIOUS
  <1> HIDE DEF Good, first
  <1>5. <<0, first>> \in P
    BY <1>2, <1>4
  <1>6. \A n \in Nat : \A s : <<n, s>> \in P => <<n + 1, SinkPass(s)>> \in P
    BY <1>3, <1>4
  <1>7. \A n, s : <<n, s>> \in P => Good(n, s)
    OBVIOUS
  <1> HIDE DEF P
  <1>8. PICK s : <<Len(h), s>> \in P /\ SiftDown(h, i) = s.heap
    BY <1>1, <1>5, <1>6, SiftDownInduction DEF first
  <1>9. /\ s \in States(R) /\ Len(s.heap) = Len(h) /\ OrderedBelow(s.heap, s.current)
        /\ Sunk0(s) \/ s.current >= i + Len(h)
    BY <1>7, <1>8 DEF Good
  <1>10. Sunk0(s)
    <2>1. s.heap \in Seq(R) /\ s.current \in Nat
      BY <1>9 DEF States
    <2>2. ChildToCompare(s.heap, s.current) \in Nat /\ s.current < ChildToCompare(s.heap, s.current)
      BY <2>1, ChildFacts
    <2>3. s.current >= i + Len(h) => ChildToCompare(s.heap, s.current) >= Len(s.heap)
      BY <1>1, <1>9, <2>1, <2>2
    <2> QED BY <1>9, <2>3 DEF Sunk0
  <1> QED BY <1>8, <1>9, <1>10, SunkIsOrdered

----------------------------------------------------------------------------
(* A push: the row is added, and the order of the heap kept.               *)
LEMMA AppendFacts ==
    ASSUME NEW R, NEW h \in Seq(R), NEW r \in R
    PROVE  LET f == Append(h, r)
           IN  /\ f \in Seq(R) /\ Len(f) = Len(h) + 1
               /\ Indices(f) = Indices(h) \cup {Len(h)} /\ Len(h) \notin Indices(h)
               /\ RowAt(f, Len(h)) = r
               /\ \A k \in Indices(h) : RowAt(f, k) = RowAt(h, k)
  <1> DEFINE f == Append(h, r)
  <1>1. /\ f \in Seq(R) /\ Len(f) = Len(h) + 1 /\ Len(h) \in Nat
        /\ f[Len(h) + 1] = r
        /\ \A k \in 1..Len(h) : f[k] = h[k]
    BY HeapFacts
  <1> HIDE DEF f
  <1>2. \A k \in Indices(h) : k + 1 \in 1..Len(h)
    BY <1>1 DEF Indices
  <1> QED BY <1>1, <1>2 DEF Indices, RowAt, f

One(t, u) == IF t = u THEN 1 ELSE 0

LEMMA PushFacts ==
    ASSUME NEW R, NEW h \in Seq(R), NEW r \in R
    PROVE  LET g == PushRow(h, r)
           IN  /\ g \in Seq(R) /\ Len(g) = Len(h) + 1
               /\ ToSet(g) = ToSet(h) \cup {r}
               /\ IsInjective(h) /\ r \notin ToSet(h) => IsInjective(g)
               /\ \A t : Cardinality(At(g, t)) = Cardinality(At(h, t)) + One(t, r.timestamp)
  <1> DEFINE f == Append(h, r)  g == PushRow(h, r)
  <1>1. /\ f \in Seq(R) /\ Len(f) = Len(h) + 1
        /\ Indices(f) = Indices(h) \cup {Len(h)} /\ Len(h) \notin Indices(h)
        /\ RowAt(f, Len(h)) = r
        /\ \A k \in Indices(h) : RowAt(f, k) = RowAt(h, k)
    BY AppendFacts
  <1>2. g = SiftUp(f, Len(h))
    BY DEF PushRow
  <1> HIDE DEF f, g
  <1>3. g \in Seq(R) /\ Shuffled(g, f)
    BY <1>1, <1>2, SiftUpShuffles
  <1>4. /\ ToSet(f) = {RowAt(f, k) : k \in Indices(f)}
        /\ ToSet(h) = {RowAt(h, k) : k \in Indices(h)}
        /\ IsInjective(f) <=> \A k, l \in Indices(f) : RowAt(f, k) = RowAt(f, l) => k = l
        /\ IsInjective(h) <=> \A k, l \in Indices(h) : RowAt(h, k) = RowAt(h, l) => k = l
    BY <1>1, RowsAsSets
  <1>5. ToSet(f) = ToSet(h) \cup {r}
    BY <1>1, <1>4
  <1>6. IsInjective(h) /\ r \notin ToSet(h) => IsInjective(f)
    BY <1>1, <1>4
  <1>7. ASSUME NEW t PROVE Cardinality(At(f, t)) = Cardinality(At(h, t)) + One(t, r.timestamp)
    <2>1. /\ At(f, t) = {k \in Indices(f) : RowAt(f, k).timestamp = t}
          /\ At(h, t) = {k \in Indices(h) : RowAt(h, k).timestamp = t}
      BY DEF At, TimeAt
    <2>2. IsFiniteSet(At(h, t)) /\ Cardinality(At(h, t)) \in Nat
      BY AtIsFinite
    <2>3. CASE t = r.timestamp
      <3>1. At(f, t) = At(h, t) \cup {Len(h)} /\ Len(h) \notin At(h, t)
        BY <1>1, <2>1, <2>3
      <3> QED BY <2>2, <2>3, <3>1, FS_AddElement DEF One
    <2>4. CASE t # r.timestamp
      <3>1. At(f, t) = At(h, t)
        BY <1>1, <2>1, <2>4
      <3> QED BY <2>2, <2>4, <3>1 DEF One
    <2> QED BY <2>3, <2>4
  <1> QED BY <1>1, <1>3, <1>5, <1>6, <1>7 DEF Shuffled, g

LEMMA PushNewRow ==
    ASSUME NEW R, NEW h \in Seq(R), IsInjective(h), NEW r \in R, r \notin ToSet(h)
    PROVE  /\ PushRow(h, r) \in Seq(R) /\ IsInjective(PushRow(h, r))
           /\ ToSet(PushRow(h, r)) = ToSet(h) \cup {r}
  BY PushFacts

LEMMA PushOrders ==
    ASSUME NEW R, Timed(R), NEW h \in Seq(R), NEW r \in R, InHeapOrder(h)
    PROVE  InHeapOrder(PushRow(h, r))
  <1> DEFINE f == Append(h, r)
  <1>1. /\ f \in Seq(R) /\ Indices(f) = Indices(h) \cup {Len(h)} /\ Len(h) \notin Indices(h)
        /\ \A k \in Indices(h) : RowAt(f, k) = RowAt(h, k)
    BY AppendFacts
  <1> HIDE DEF f
  <1>2. /\ \A k \in Indices(h) : parent(k) \in Indices(h) /\ parent(k) \in Nat
                                 /\ parent(k) < Len(h)
        /\ \A k \in Indices(h) : parent(k) # Len(h)
    BY <1>1, ParentsAreRows
  <1>3. Len(h) \in Nat /\ (Len(h) # 0 => parent(Len(h)) # Len(h))
    BY HeapFacts, ParentFacts
  <1>4. OrderedAbove(f, Len(h))
    BY <1>1, <1>2, <1>3 DEF OrderedAbove, InHeapOrder, TimeAt
  <1> QED BY <1>1, <1>4, SiftUpOrders DEF PushRow, f

(* A pop: the row is removed, and no other.  A pop of the head keeps the   *)
(* order of the heap.                                                      *)
Left(h, i) == Front(SwapRows(h, i, Len(h) - 1))

LEMMA LeftFacts ==
    ASSUME NEW R, NEW h \in Seq(R), NEW i \in Indices(h)
    PROVE  LET f == Left(h, i)  last == Len(h) - 1
           IN  /\ f \in Seq(R) /\ Len(f) = last
               /\ last \in Indices(h) /\ Indices(f) = Indices(h) \ {last}
               /\ \A k \in Indices(f) : RowAt(f, k) = IF k = i THEN RowAt(h, last) ELSE RowAt(h, k)
  <1> DEFINE last == Len(h) - 1  g == SwapRows(h, i, last)
  <1>1. /\ Len(h) \in Nat /\ i \in Nat /\ i < Len(h) /\ last \in Nat
        /\ last \in Indices(h)
    BY HeapFacts
  <1>2. /\ g \in Seq(R) /\ Len(g) = Len(h) /\ Indices(g) = Indices(h)
        /\ RowAt(g, i) = RowAt(h, last)
        /\ \A k \in Indices(h) : k # i /\ k # last => RowAt(g, k) = RowAt(h, k)
    BY <1>1, SwapFacts
  <1> DEFINE f == SubSeq(g, 1, last)
  <1>3. Left(h, i) = f
    BY <1>2 DEF Left, Front
  <1> HIDE DEF g
  <1>4. f \in Seq(R) /\ Len(f) = last /\ \A k \in 1..last : f[k] = g[k]
    BY <1>1, <1>2
  <1> HIDE DEF f
  <1>5. Indices(f) = Indices(h) \ {last}
    BY <1>1, <1>4 DEF Indices
  <1>6. \A k \in Indices(f) : RowAt(f, k) = RowAt(g, k)
    <2> SUFFICES ASSUME NEW k \in Indices(f) PROVE RowAt(f, k) = RowAt(g, k)
      OBVIOUS
    <2>1. k + 1 \in 1..last
      BY <1>1, <1>4 DEF Indices
    <2> QED BY <1>4, <2>1 DEF RowAt
  <1> QED BY <1>1, <1>2, <1>3, <1>4, <1>5, <1>6

LEMMA PopFacts ==
    ASSUME NEW R, NEW h \in Seq(R), NEW i \in Indices(h)
    PROVE  LET g == PopRow(h, i)
           IN  /\ g \in Seq(R) /\ Len(g) = Len(h) - 1
               /\ IsInjective(h) => IsInjective(g) /\ ToSet(g) = ToSet(h) \ {RowAt(h, i)}
               /\ \A t : Cardinality(At(g, t)) = Cardinality(At(h, t)) - One(t, TimeAt(h, i))
  <1> DEFINE f == Left(h, i)  g == PopRow(h, i)  last == Len(h) - 1
  <1>1. /\ f \in Seq(R) /\ Len(f) = last
        /\ last \in Indices(h) /\ Indices(f) = Indices(h) \ {last}
        /\ \A k \in Indices(f) : RowAt(f, k) = IF k = i THEN RowAt(h, last) ELSE RowAt(h, k)
    BY LeftFacts
  <1>2. g = SiftDown(f, i) /\ i \in Nat
    BY HeapFacts DEF PopRow, Left
  <1> HIDE DEF f, g, last
  <1>3. g \in Seq(R) /\ Shuffled(g, f)
    BY <1>1, <1>2, SiftDownShuffles
  <1>4. /\ ToSet(f) = {RowAt(f, k) : k \in Indices(f)}
        /\ ToSet(h) = {RowAt(h, k) : k \in Indices(h)}
        /\ IsInjective(f) <=> \A k, l \in Indices(f) : RowAt(f, k) = RowAt(f, l) => k = l
        /\ IsInjective(h) <=> \A k, l \in Indices(h) : RowAt(h, k) = RowAt(h, l) => k = l
    BY <1>1, RowsAsSets
  <1>5. ASSUME IsInjective(h) PROVE IsInjective(f) /\ ToSet(f) = ToSet(h) \ {RowAt(h, i)}
    <2>1. IsInjective(f)
      BY <1>1, <1>4, <1>5
    <2>2. \A k \in Indices(f) : RowAt(f, k) \in ToSet(h) /\ RowAt(f, k) # RowAt(h, i)
      BY <1>1, <1>4, <1>5
    <2>3. \A k \in Indices(h) : k # i => \E l \in Indices(f) : RowAt(h, k) = RowAt(f, l)
      <3> SUFFICES ASSUME NEW k \in Indices(h), k # i
                   PROVE  \E l \in Indices(f) : RowAt(h, k) = RowAt(f, l)
        OBVIOUS
      <3>1. CASE k = last
        <4>1. i \in Indices(f) /\ RowAt(f, i) = RowAt(h, k)
          BY <1>1, <3>1
        <4> QED BY <4>1
      <3>2. CASE k # last
        <4>1. k \in Indices(f) /\ RowAt(f, k) = RowAt(h, k)
          BY <1>1, <3>2
        <4> QED BY <4>1
      <3> QED BY <3>1, <3>2
    <2> QED BY <1>4, <2>1, <2>2, <2>3
  <1>6. ASSUME NEW t PROVE Cardinality(At(f, t)) = Cardinality(At(h, t)) - One(t, TimeAt(h, i))
    <2>1. /\ At(f, t) = {k \in Indices(f) : RowAt(f, k).timestamp = t}
          /\ At(h, t) = {k \in Indices(h) : RowAt(h, k).timestamp = t}
          /\ TimeAt(h, i) = RowAt(h, i).timestamp
      BY DEF At, TimeAt
    <2>2. IsFiniteSet(At(h, t)) /\ Cardinality(At(h, t)) \in Nat
      BY AtIsFinite
    <2>3. CASE t = TimeAt(h, i)
      <3>1. i \in At(h, t) /\ Cardinality(At(h, t) \ {i}) = Cardinality(At(h, t)) - 1
            /\ IsFiniteSet(At(h, t) \ {i})
        BY <2>1, <2>2, <2>3, FS_RemoveElement
      <3>2. CASE last = i \/ last \notin At(h, t)
        <4>1. At(f, t) = At(h, t) \ {i}
          BY <1>1, <2>1, <2>3, <3>2
        <4> QED BY <2>2, <2>3, <3>1, <4>1 DEF One
      <3>3. CASE last # i /\ last \in At(h, t)
        <4>1. At(f, t) = At(h, t) \ {last}
          BY <1>1, <2>1, <2>3, <3>3
        <4>2. Cardinality(At(h, t) \ {last}) = Cardinality(At(h, t)) - 1
          BY <2>2, <3>3, FS_RemoveElement
        <4> QED BY <2>2, <2>3, <4>1, <4>2 DEF One
      <3> QED BY <3>2, <3>3
    <2>4. CASE t # TimeAt(h, i)
      <3>1. i \notin At(h, t)
        BY <2>1, <2>4
      <3>2. CASE last \in At(h, t)
        <4>1. At(f, t) = (At(h, t) \ {last}) \cup {i} /\ i \in Indices(f)
          BY <1>1, <2>1, <2>4, <3>2
        <4> QED BY <2>2, <2>4, <3>1, <3>2, <4>1, MovedOne DEF One
      <3>3. CASE last \notin At(h, t)
        <4>1. At(f, t) = At(h, t)
          BY <1>1, <2>1, <2>4, <3>3
        <4> QED BY <2>2, <2>4, <4>1 DEF One
      <3> QED BY <3>2, <3>3
    <2> QED BY <2>3, <2>4
  <1> QED BY <1>1, <1>3, <1>5, <1>6 DEF Shuffled, g, last

LEMMA PopOrders ==
    ASSUME NEW R, Timed(R), NEW h \in Seq(R), 0 \in Indices(h), InHeapOrder(h)
    PROVE  InHeapOrder(PopRow(h, 0))
  <1> DEFINE f == Left(h, 0)  last == Len(h) - 1
  <1>1. /\ f \in Seq(R)
        /\ Indices(f) = Indices(h) \ {last}
        /\ \A k \in Indices(f) : RowAt(f, k) = IF k = 0 THEN RowAt(h, last) ELSE RowAt(h, k)
    BY LeftFacts
  <1> HIDE DEF f, last
  <1>2. \A k \in Indices(f) : parent(k) \in Indices(f)
    BY <1>1, ParentsAreRows
  <1>3. OrderedBelow(f, 0)
    BY <1>1, <1>2 DEF OrderedBelow, InHeapOrder, TimeAt
  <1> QED BY <1>1, <1>3, SiftDownOrders DEF PopRow, Left, f

(* In a heap in order no row is earlier than the head: its parents are not, *)
(* up to the head.                                                         *)
LEMMA HeadIsEarliest ==
    ASSUME NEW R, Timed(R), NEW h \in Seq(R), InHeapOrder(h), NEW j \in Indices(h)
    PROVE  0 \in Indices(h) /\ TimeAt(h, 0) <= TimeAt(h, j)
  <1>1. j \in Nat /\ j < Len(h) /\ Len(h) \in Nat /\ 0 \in Indices(h)
    <2>1. j \in Nat /\ j < Len(h) /\ Len(h) \in Nat
      BY HeapFacts
    <2> QED BY <2>1, HeapFacts
  <1>2. \A k \in Indices(h) :
           /\ k \in Nat /\ TimeAt(h, k) \in Int
           /\ parent(k) \in Indices(h) /\ parent(k) \in Nat
           /\ k # 0 => parent(k) < k
    BY ParentsAreRows
  <1> DEFINE P == {n \in Nat : \A k \in Indices(h) : k <= n => TimeAt(h, 0) <= TimeAt(h, k)}
  <1>3. 0 \in P
    <2> SUFFICES ASSUME NEW k \in Indices(h), k <= 0 PROVE TimeAt(h, 0) <= TimeAt(h, k)
      OBVIOUS
    <2>1. k \in Nat /\ TimeAt(h, k) \in Int
      BY <1>2
    <2>2. k = 0
      BY <2>1
    <2> QED BY <2>1, <2>2
  <1>4. ASSUME NEW n \in Nat, n \in P PROVE n + 1 \in P
    <2> SUFFICES ASSUME NEW k \in Indices(h), k <= n + 1 PROVE TimeAt(h, 0) <= TimeAt(h, k)
      OBVIOUS
    <2>1. CASE k <= n
      BY <1>4, <2>1
    <2>2. CASE k = n + 1
      <3>1. parent(k) \in Indices(h) /\ parent(k) <= n
        <4>1. k \in Nat /\ k # 0
          BY <1>2, <2>2
        <4>2. parent(k) \in Indices(h) /\ parent(k) \in Nat /\ parent(k) < k
          BY <1>2, <4>1
        <4> QED BY <2>2, <4>2
      <3>2. TimeAt(h, 0) <= TimeAt(h, parent(k))
        BY <1>4, <3>1
      <3>3. TimeAt(h, parent(k)) <= TimeAt(h, k)
        BY DEF InHeapOrder
      <3>4. TimeAt(h, 0) \in Int /\ TimeAt(h, parent(k)) \in Int /\ TimeAt(h, k) \in Int
        BY <1>1, <1>2, <3>1
      <3> QED BY <3>2, <3>3, <3>4
    <2>3. k \in Nat
      BY <1>2
    <2> QED BY <2>1, <2>2, <2>3
  <1> HIDE DEF P
  <1>5. Nat \subseteq P
    BY <1>3, <1>4, NatSetInduction
  <1>6. j \in P /\ j <= j
    BY <1>1, <1>5
  <1> QED BY <1>1, <1>6 DEF P

----------------------------------------------------------------------------
(* The heap that pushes and pops drive, in MCCrankHeap.                    *)
LEMMA CountIsOfPlaces == \A h, t : Count(h, t) = Cardinality(At(h, t))
  BY DEF Count, At

RowsTimed == [timestamp : Int]

HeapInv ==
    /\ row_heap \in Seq(RowsTimed)
    /\ onlyHeads \in BOOLEAN
    /\ onlyHeads => InHeapOrder(row_heap)

LEMMA HeapStarts == HeapInit => HeapInv
  BY DEF HeapInit, HeapInv, InHeapOrder, Indices

LEMMA HeapPush ==
    ASSUME HeapInv, NEW t \in 0..MaxRowTime, Push(t)
    PROVE  /\ HeapInv' /\ returned' = {} /\ Len(row_heap') = Len(row_heap) + 1
           /\ \A u : Count(row_heap', u) >= Count(row_heap, u)
  <1> DEFINE r == [timestamp |-> t]
  <1>1. r \in RowsTimed /\ Timed(RowsTimed)
    BY DEF RowsTimed, Timed
  <1>2. /\ row_heap' = PushRow(row_heap, r) /\ returned' = {} /\ onlyHeads' = onlyHeads
    BY DEF Push
  <1>3. /\ row_heap' \in Seq(RowsTimed) /\ Len(row_heap') = Len(row_heap) + 1
        /\ \A u : Cardinality(At(row_heap', u)) = Cardinality(At(row_heap, u)) + One(u, r.timestamp)
    BY <1>1, <1>2, PushFacts DEF HeapInv
  <1>4. onlyHeads' => InHeapOrder(row_heap')
    BY <1>1, <1>2, PushOrders DEF HeapInv
  <1>5. ASSUME NEW u PROVE Count(row_heap', u) >= Count(row_heap, u)
    <2>1. Count(row_heap', u) = Count(row_heap, u) + One(u, r.timestamp)
      BY <1>3, CountIsOfPlaces
    <2>2. Count(row_heap, u) \in Nat
      BY AtIsFinite, CountIsOfPlaces DEF HeapInv
    <2> QED BY <2>1, <2>2 DEF One
  <1>6. HeapInv'
    BY <1>2, <1>3, <1>4 DEF HeapInv, InHeapOrder, Indices, TimeAt, RowAt
  <1> QED BY <1>2, <1>3, <1>5, <1>6

LEMMA HeapPop ==
    ASSUME HeapInv, NEW i \in 0..(MaxRows - 1), Pop(i)
    PROVE  /\ HeapInv' /\ returned' # {}
           /\ \A u : Count(row_heap', u)
                     = Count(row_heap, u) - (IF u \in returned' THEN 1 ELSE 0)
  <1>1. /\ i \in Nat /\ i < Len(row_heap) /\ row_heap' = PopRow(row_heap, i)
        /\ returned' = {TimeAt(row_heap, i)} /\ onlyHeads' = (onlyHeads /\ i = 0)
    BY DEF Pop
  <1>2. row_heap \in Seq(RowsTimed) /\ i \in Indices(row_heap) /\ Timed(RowsTimed)
    BY <1>1, HeapFacts DEF HeapInv, RowsTimed, Timed
  <1>3. /\ row_heap' \in Seq(RowsTimed)
        /\ \A u : Cardinality(At(row_heap', u))
                  = Cardinality(At(row_heap, u)) - One(u, TimeAt(row_heap, i))
    BY <1>1, <1>2, PopFacts
  <1>4. onlyHeads' => InHeapOrder(row_heap')
    BY <1>1, <1>2, PopOrders DEF HeapInv
  <1>5. ASSUME NEW u
        PROVE  Count(row_heap', u)
               = Count(row_heap, u) - (IF u \in returned' THEN 1 ELSE 0)
    <2>1. Count(row_heap', u) = Count(row_heap, u) - One(u, TimeAt(row_heap, i))
      BY <1>3, CountIsOfPlaces
    <2> QED BY <1>1, <2>1 DEF One
  <1>6. HeapInv'
    <2>1. onlyHeads' \in BOOLEAN
      BY <1>1 DEF HeapInv
    <2> QED BY <1>3, <1>4, <2>1 DEF HeapInv, InHeapOrder, Indices, TimeAt, RowAt
  <1> QED BY <1>1, <1>5, <1>6

LEMMA HeapSteps == HeapInv /\ [HeapNext]_heapVars => HeapInv'
  <1> SUFFICES ASSUME HeapInv, [HeapNext]_heapVars PROVE HeapInv'
    OBVIOUS
  <1>1. CASE HeapNext
    BY <1>1, HeapPush, HeapPop DEF HeapNext
  <1>2. CASE UNCHANGED heapVars
    BY <1>2 DEF heapVars, HeapInv, InHeapOrder, Indices, TimeAt, RowAt
  <1> QED BY <1>1, <1>2

THEOREM HeapInvariant == HeapSpec => []HeapInv
  BY HeapStarts, HeapSteps, PTL DEF HeapSpec

(* While callers pop the head, no row of the heap is earlier than its      *)
(* parent: for every number of rows and all their timestamps.              *)
THEOREM HeapAlwaysOrdered == HeapSpec => []HeapOrdered
  <1>1. HeapInv => HeapOrdered
    BY DEF HeapInv, HeapOrdered
  <1> QED BY <1>1, HeapInvariant, PTL

(* So, while callers pop the head, a pop returns a row that is due first.  *)
EarliestPopped ==
    [][returned' # {} /\ onlyHeads' =>
          \A t \in returned' : \A j \in Indices(row_heap) : t <= TimeAt(row_heap, j)]_heapVars

THEOREM EarliestAlwaysPopped == HeapSpec => EarliestPopped
  <1> DEFINE A == returned' # {} /\ onlyHeads' =>
                     \A t \in returned' : \A j \in Indices(row_heap) : t <= TimeAt(row_heap, j)
  <1>1. HeapInv /\ [HeapNext]_heapVars => [A]_heapVars
    <2> SUFFICES ASSUME HeapInv, HeapNext PROVE A
      OBVIOUS
    <2>1. ASSUME NEW t \in 0..MaxRowTime, Push(t) PROVE A
      BY <2>1 DEF Push
    <2>2. ASSUME NEW i \in 0..(MaxRows - 1), Pop(i) PROVE A
      <3> SUFFICES ASSUME onlyHeads', NEW j \in Indices(row_heap)
                   PROVE  TimeAt(row_heap, i) <= TimeAt(row_heap, j)
        BY <2>2 DEF Pop
      <3>1. onlyHeads /\ i = 0
        BY <2>2 DEF Pop
      <3>2. row_heap \in Seq(RowsTimed) /\ InHeapOrder(row_heap) /\ Timed(RowsTimed)
        BY <3>1 DEF HeapInv, Timed, RowsTimed
      <3> QED BY <3>1, <3>2, HeadIsEarliest
    <2> QED BY <2>1, <2>2 DEF HeapNext
  <1> HIDE DEF A
  <1>2. HeapSpec => [][A]_heapVars
    BY <1>1, HeapInvariant, PTL DEF HeapSpec
  <1> QED BY <1>2 DEF EarliestPopped, A

(* A pop, at any index of a heap in any order, removes the row it returns  *)
(* and no other; a push adds a row and removes none.                       *)
THEOREM RowsAlwaysConserved == HeapSpec => RowsConserved
  <1> DEFINE A == IF returned' # {}
                  THEN \A t \in 0..MaxRowTime :
                          Count(row_heap', t)
                          = Count(row_heap, t) - (IF t \in returned' THEN 1 ELSE 0)
                  ELSE /\ Len(row_heap') = Len(row_heap) + 1
                       /\ \A t \in 0..MaxRowTime :
                             Count(row_heap', t) >= Count(row_heap, t)
  <1>1. HeapInv /\ [HeapNext]_heapVars => [A]_heapVars
    <2> SUFFICES ASSUME HeapInv, HeapNext PROVE A
      OBVIOUS
    <2>1. CASE \E t \in 0..MaxRowTime : Push(t)
      BY <2>1, HeapPush
    <2>2. CASE \E i \in 0..(MaxRows - 1) : Pop(i)
      BY <2>2, HeapPop
    <2> QED BY <2>1, <2>2 DEF HeapNext
  <1>2. HeapSpec => [][A]_heapVars
    BY <1>1, HeapInvariant, PTL DEF HeapSpec
  <1> QED BY <1>2 DEF RowsConserved

----------------------------------------------------------------------------
(* The cranks implement the schedule of FeedSchedule: its invariant holds  *)
(* of the sets of rows in the heaps, and no heap has a row twice.          *)
Sched == INSTANCE FeedScheduleProofs WITH
            rows <- [c \in Cranks |-> ToSet(heap[c])],
            jitter <- jitter_modifier

HeapsOK ==
    /\ heap \in [Cranks -> Seq(Sched!Row)]
    /\ \A c \in Cranks : IsInjective(heap[c])

CrankInv == HeapsOK /\ Sched!IInv

LEMMA CrankInit == Init => Sched!Init /\ HeapsOK
  <1> SUFFICES ASSUME Init PROVE Sched!Init /\ HeapsOK
    OBVIOUS
  <1>1. Sched!FeedInit
    BY DEF Init, FeedInit, Sched!FeedInit, AllowedDelays, Sched!AllowedDelays
  <1>2. \A c \in Cranks : ToSet(heap[c]) = {}
    BY DEF Init, ToSet
  <1>3. [c \in Cranks |-> ToSet(heap[c])] = [c \in Cranks |-> {}]
    BY <1>2
  <1>4. HeapsOK
    BY DEF Init, HeapsOK, IsInjective
  <1> QED BY <1>1, <1>3, <1>4 DEF Init, Sched!Init

LEMMA SameFeedOperators ==
    /\ \A a, c, b : PushFeed(a, c, b) => Sched!PushFeed(a, c, b)
    /\ \A a, o, t, j : TurnFeed(a, o, t, j) => Sched!TurnFeed(a, o, t, j)
    /\ \A a : SimulationOutcomes(a) = Sched!SimulationOutcomes(a)
    /\ \A o : Rescheduled(o) <=> Sched!Rescheduled(o)
    /\ \A j : NextJitter(j) = Sched!NextJitter(j)
    /\ Outcomes = Sched!Outcomes
    /\ FeedNext => Sched!FeedNext
  <1>1. \A a, c, b : PushFeed(a, c, b) => Sched!PushFeed(a, c, b)
    BY DEF PushFeed, PushRowGuard, feedRoundVars,
           Sched!PushFeed, Sched!PushRowGuard, Sched!feedRoundVars
  <1>2. /\ \A a : SimulationOutcomes(a) = Sched!SimulationOutcomes(a)
        /\ Outcomes = Sched!Outcomes
    BY DEF SimulationOutcomes, Sched!SimulationOutcomes, can_open_round, Sched!can_open_round,
           RefusalsOf, Sched!RefusalsOf, Outcomes, Sched!Outcomes, Lacks, Sched!Lacks
  <1>3. \A a, j : ActuateOpenRound(a, j) <=> Sched!ActuateOpenRound(a, j)
    BY DEF ActuateOpenRound, NextUpdateTime, SettlementEnds, Lacks,
           Sched!ActuateOpenRound, Sched!NextUpdateTime, Sched!SettlementEnds, Sched!Lacks
  <1>4. \A a, o, t, j : TurnFeed(a, o, t, j) => Sched!TurnFeed(a, o, t, j)
    BY <1>3 DEF TurnFeed, RowCountAfterTurn, UncountsRow, OpensOnCrank, NextUpdateTime, feedRoundVars, feedConfigVars,
           Sched!TurnFeed, Sched!RowCountAfterTurn, Sched!UncountsRow, Sched!OpensOnCrank,
           Sched!NextUpdateTime, Sched!feedRoundVars, Sched!feedConfigVars
  <1>5. /\ \A o : Rescheduled(o) <=> Sched!Rescheduled(o)
        /\ \A j : NextJitter(j) = Sched!NextJitter(j)
    BY DEF Rescheduled, Sched!Rescheduled, NextJitter, Sched!NextJitter
  <1>6. \A a, j : OpenRound(a, j) <=> Sched!OpenRound(a, j)
    BY <1>2, <1>3 DEF OpenRound, Sched!OpenRound, feedConfigVars, Sched!feedConfigVars
  <1>7. FeedNext => Sched!FeedNext
    BY <1>6 DEF FeedNext, Sched!FeedNext, SetConfigs, Sched!SetConfigs, Tick, Sched!Tick,
           feedConfigVars, Sched!feedConfigVars, feedRoundVars, Sched!feedRoundVars,
           AllowedDelays, Sched!AllowedDelays, RecordChanges, Sched!RecordChanges
  <1> QED BY <1>1, <1>2, <1>4, <1>5, <1>7

LEMMA InHeap ==
    ASSUME CrankInv, NEW c \in Cranks
    PROVE  /\ heap[c] \in Seq(Sched!Row) /\ IsInjective(heap[c])
           /\ \A r \in ToSet(heap[c]) : r \in Sched!Row
           /\ \A r, s \in ToSet(heap[c]) : r.aggregator_addr = s.aggregator_addr => r = s
           /\ \A r \in ToSet(heap[c]) : crank_row_count[r.aggregator_addr] = 1
  <1>1. heap[c] \in Seq(Sched!Row) /\ IsInjective(heap[c])
    BY DEF CrankInv, HeapsOK
  <1>2. \A r \in ToSet(heap[c]) : r \in Sched!Row /\ r.aggregator_addr \in Feeds
    <2>1. \A k \in Indices(heap[c]) : RowAt(heap[c], k) \in Sched!Row
      BY <1>1, HeapFacts
    <2>2. ToSet(heap[c]) = {RowAt(heap[c], k) : k \in Indices(heap[c])}
      BY <1>1, RowsAsSets
    <2> QED BY <2>1, <2>2 DEF Sched!Row
  <1>3. \A r \in ToSet(heap[c]) : r \in Sched!RowsOf(c, r.aggregator_addr)
    BY DEF Sched!RowsOf
  <1> QED BY <1>1, <1>2, <1>3 DEF CrankInv, Sched!IInv, Sched!OneRowPerFeed

LEMMA CrankPushStep ==
    ASSUME CrankInv, NEW c \in Cranks, NEW a \in Feeds, NEW b \in BOOLEAN, CrankPush(c, a, b)
    PROVE  Sched!CrankPush(c, a, b) /\ HeapsOK'
  <1> DEFINE r == CrankRow(a, now)
  <1>1. r \in Sched!Row /\ r.aggregator_addr = a
    BY DEF CrankInv, Sched!IInv, Sched!TypeOK, Sched!FeedTypeOK, Sched!Row, CrankRow
  <1>2. crank_row_count[a] = 0
    BY DEF CrankPush, PushFeed, PushRowGuard
  <1>3. r \notin ToSet(heap[c])
    BY <1>1, <1>2, InHeap
  <1>4. heap \in [Cranks -> Seq(Sched!Row)] /\ heap' = [heap EXCEPT ![c] = PushRow(heap[c], r)]
    BY DEF CrankPush, CrankInv, HeapsOK
  <1> HIDE DEF r
  <1>5. /\ PushRow(heap[c], r) \in Seq(Sched!Row) /\ IsInjective(PushRow(heap[c], r))
        /\ ToSet(PushRow(heap[c], r)) = ToSet(heap[c]) \cup {r}
    BY <1>1, <1>3, InHeap, PushNewRow
  <1>6. HeapsOK'
    BY <1>4, <1>5, InHeap DEF HeapsOK
  <1>7. [d \in Cranks |-> ToSet(heap'[d])]
        = [[d \in Cranks |-> ToSet(heap[d])] EXCEPT ![c] = @ \cup {[aggregator_addr |-> a, timestamp |-> now]}]
    BY <1>4, <1>5 DEF r, CrankRow
  <1> QED BY <1>6, <1>7, SameFeedOperators DEF CrankPush, Sched!CrankPush

LEMMA CrankPopStep ==
    ASSUME CrankInv, NEW c \in Cranks, NEW i, NEW o \in Outcomes, CrankPop(c, i, o)
    PROVE  /\ \E row \in ToSet(heap[c]) : Sched!CrankPop(c, row, o)
           /\ HeapsOK'
  <1> DEFINE h    == heap[c]
             row  == RowAt(h, i)
             a    == row.aggregator_addr
             back == CrankRow(a, next_allowed'[a])
             left == PopRow(h, i)
             new  == RowsAfterTurn(c, i, o)
  <1>0. Sched!FeedRoundsAssumption
    BY FeedRoundsAssumption DEF Sched!FeedRoundsAssumption
  <1>1. /\ h \in Seq(Sched!Row) /\ IsInjective(h)
        /\ \A r \in ToSet(h) : r \in Sched!Row
        /\ \A r, s \in ToSet(h) : r.aggregator_addr = s.aggregator_addr => r = s
        /\ \A r \in ToSet(h) : crank_row_count[r.aggregator_addr] = 1
    BY InHeap
  <1>2. /\ i \in Indices(h) /\ now > row.timestamp /\ o \in SimulationOutcomes(a)
        /\ TurnFeed(a, o, row.timestamp, jitter_modifier[c])
        /\ heap' = [heap EXCEPT ![c] = new]
        /\ jitter_modifier' = [jitter_modifier EXCEPT ![c] = NextJitter(@)]
    BY DEF CrankPop, TimeAt
  <1>3. row \in ToSet(h) /\ row \in Sched!Row /\ a \in Feeds /\ crank_row_count[a] = 1
    <2>1. row \in ToSet(h)
      BY <1>1, <1>2, RowsAsSets
    <2> QED BY <1>1, <2>1 DEF Sched!Row
  <1>4. back \in Sched!Row /\ back.aggregator_addr = a
    <2>1. jitter_modifier[c] \in Nat
      <3>1. jitter_modifier[c] \in 0..(JitterModulus - 1)
        BY DEF CrankInv, Sched!IInv, Sched!TypeOK
      <3> QED BY <3>1, FeedRoundsAssumption
    <2>2. Sched!TurnFeed(a, o, row.timestamp, jitter_modifier[c])
      BY <1>2, SameFeedOperators
    <2>3. Sched!FeedTypeOK /\ Sched!DelayKept
      BY DEF CrankInv, Sched!IInv, Sched!TypeOK
    <2>4. Sched!FeedTypeOK'
      <3> HIDE DEF a, row
      <3> QED BY <1>0, <1>3, <2>1, <2>2, <2>3, Sched!TurnKeeps
    <2>5. next_allowed'[a] \in Nat
      BY <1>3, <2>4 DEF Sched!FeedTypeOK
    <2> QED BY <1>3, <2>5 DEF Sched!Row, CrankRow
  <1>5. /\ left \in Seq(Sched!Row) /\ IsInjective(left) /\ ToSet(left) = ToSet(h) \ {row}
    BY <1>1, <1>2, PopFacts
  <1>6. back \notin ToSet(left)
    BY <1>1, <1>3, <1>4, <1>5
  <1>7. /\ new \in Seq(Sched!Row) /\ IsInjective(new)
        /\ ToSet(new) = (ToSet(h) \ {row}) \cup IF Rescheduled(o) THEN {back} ELSE {}
    <2>1. new = IF Rescheduled(o) THEN PushRow(left, back) ELSE left
      BY DEF RowsAfterTurn
    <2> HIDE DEF new, back, left, row, h
    <2>2. CASE Rescheduled(o)
      <3>1. \A r \in Sched!Row : r \notin ToSet(left) =>
               /\ PushRow(left, r) \in Seq(Sched!Row) /\ IsInjective(PushRow(left, r))
               /\ ToSet(PushRow(left, r)) = ToSet(left) \cup {r}
        BY <1>5, PushNewRow
      <3> QED BY <1>4, <1>5, <1>6, <2>1, <2>2, <3>1
    <2>3. CASE ~Rescheduled(o)
      BY <1>5, <2>1, <2>3
    <2> QED BY <2>2, <2>3
  <1>8. heap \in [Cranks -> Seq(Sched!Row)]
    BY DEF CrankInv, HeapsOK
  <1> HIDE DEF new, left
  <1>9. HeapsOK'
    BY <1>2, <1>7, <1>8, InHeap DEF HeapsOK
  <1>10. [d \in Cranks |-> ToSet(heap'[d])]
         = [[d \in Cranks |-> ToSet(heap[d])] EXCEPT ![c] = (@ \ {row}) \cup
              IF Rescheduled(o) THEN {[aggregator_addr |-> a, timestamp |-> next_allowed'[a]]} ELSE {}]
    BY <1>2, <1>7, <1>8 DEF back, CrankRow
  <1>11. Sched!CrankPop(c, row, o)
    BY <1>2, <1>10, SameFeedOperators DEF Sched!CrankPop
  <1> QED BY <1>3, <1>9, <1>11

LEMMA CrankSteps ==
    ASSUME CrankInv, [Next]_vars
    PROVE  [Sched!Next]_(Sched!vars) /\ CrankInv'
  <1>0. Sched!FeedRoundsAssumption
    BY FeedRoundsAssumption DEF Sched!FeedRoundsAssumption
  <1>1. [Sched!Next]_(Sched!vars) /\ HeapsOK'
    <2>1. CASE \E c \in Cranks, a \in Feeds, b \in BOOLEAN : CrankPush(c, a, b)
      BY <2>1, CrankPushStep DEF Sched!Next, Sched!CrankNext
    <2>2. CASE \E c \in Cranks, i \in PopIdxs, o \in Outcomes : CrankPop(c, i, o)
      <3>1. PICK c \in Cranks, i \in PopIdxs, o \in Outcomes : CrankPop(c, i, o)
        BY <2>2
      <3>2. /\ \E row \in ToSet(heap[c]) : Sched!CrankPop(c, row, o)
            /\ HeapsOK'
        BY <3>1, CrankPopStep
      <3>3. Sched!CrankNext
        BY <3>2, SameFeedOperators DEF Sched!CrankNext
      <3> QED BY <3>2, <3>3 DEF Sched!Next
    <2>3. CASE FeedNext /\ UNCHANGED <<heap, jitter_modifier>>
      <3>1. Sched!FeedNext /\ UNCHANGED <<[c \in Cranks |-> ToSet(heap[c])], jitter_modifier>>
        BY <2>3, SameFeedOperators
      <3>2. HeapsOK'
        BY <2>3 DEF HeapsOK, CrankInv, IsInjective
      <3> QED BY <3>1, <3>2 DEF Sched!Next
    <2>4. CASE UNCHANGED vars
      <3>1. UNCHANGED Sched!vars
        BY <2>4 DEF vars, feedVars, Sched!vars, Sched!feedVars
      <3>2. HeapsOK'
        BY <2>4 DEF vars, HeapsOK, CrankInv, IsInjective
      <3> QED BY <3>1, <3>2
    <2> QED BY <2>1, <2>2, <2>3, <2>4 DEF Next, CrankNext
  <1>2. Sched!IInv'
    <2>1. Sched!IInv /\ [Sched!Next]_(Sched!vars) => Sched!IInv'
      BY <1>0, Sched!NextIInv
    <2> QED BY <1>1, <2>1 DEF CrankInv
  <1> QED BY <1>1, <1>2 DEF CrankInv

LEMMA CrankStarts == Init => CrankInv
  <1>1. Sched!FeedRoundsAssumption
    BY FeedRoundsAssumption DEF Sched!FeedRoundsAssumption
  <1>2. Sched!Init => Sched!IInv
    BY <1>1, Sched!InitIInv
  <1> QED BY CrankInit, <1>2 DEF CrankInv

(* The rows in the heaps are rows of feeds, each there once, and the sets  *)
(* of them satisfy the invariant of the schedule.                          *)
THEOREM CrankInvariant == Spec => []CrankInv
  <1>1. CrankInv /\ [Next]_vars => CrankInv'
    BY CrankSteps
  <1> QED BY <1>1, CrankStarts, PTL DEF Spec

(* FeedSchedule as FeedScheduleProofs extends it, and as Crank names it.   *)
LEMMA SameSchedule == Sched!Next => Abs!Next
  <1>1. \A a, c, b : Sched!PushFeed(a, c, b) => Abs!PushFeed(a, c, b)
    BY DEF Sched!PushFeed, Sched!PushRowGuard, Sched!feedRoundVars,
           Abs!PushFeed, Abs!PushRowGuard, Abs!feedRoundVars
  <1>2. /\ \A a : Sched!SimulationOutcomes(a) = Abs!SimulationOutcomes(a)
        /\ Sched!Outcomes = Abs!Outcomes
    BY DEF Sched!SimulationOutcomes, Abs!SimulationOutcomes, Sched!can_open_round, Abs!can_open_round,
           Sched!RefusalsOf, Abs!RefusalsOf, Sched!Outcomes, Abs!Outcomes, Sched!Lacks, Abs!Lacks
  <1>3. \A a, j : Sched!ActuateOpenRound(a, j) <=> Abs!ActuateOpenRound(a, j)
    BY DEF Sched!ActuateOpenRound, Sched!NextUpdateTime, Sched!SettlementEnds, Sched!Lacks,
           Abs!ActuateOpenRound, Abs!NextUpdateTime, Abs!SettlementEnds, Abs!Lacks
  <1>4. \A a, o, t, j : Sched!TurnFeed(a, o, t, j) => Abs!TurnFeed(a, o, t, j)
    BY <1>3 DEF Sched!TurnFeed, Sched!RowCountAfterTurn, Sched!UncountsRow, Sched!OpensOnCrank,
           Sched!NextUpdateTime, Sched!feedRoundVars, Sched!feedConfigVars,
           Abs!TurnFeed, Abs!RowCountAfterTurn, Abs!UncountsRow, Abs!OpensOnCrank,
           Abs!NextUpdateTime, Abs!feedRoundVars, Abs!feedConfigVars
  <1>5. \A c, a, b : Sched!CrankPush(c, a, b) => Abs!CrankPush(c, a, b)
    BY <1>1 DEF Sched!CrankPush, Abs!CrankPush
  <1>6. \A c, r, o : Sched!CrankPop(c, r, o) => Abs!CrankPop(c, r, o)
    BY <1>2, <1>4 DEF Sched!CrankPop, Abs!CrankPop, Sched!Rescheduled, Abs!Rescheduled,
           Sched!NextJitter, Abs!NextJitter
  <1>7. \A a, j : Sched!OpenRound(a, j) <=> Abs!OpenRound(a, j)
    BY <1>2, <1>3 DEF Sched!OpenRound, Abs!OpenRound, Sched!feedConfigVars, Abs!feedConfigVars
  <1>8. Sched!FeedNext => Abs!FeedNext
    BY <1>7 DEF Sched!FeedNext, Abs!FeedNext, Sched!SetConfigs, Abs!SetConfigs, Sched!Tick, Abs!Tick,
           Sched!feedConfigVars, Abs!feedConfigVars, Sched!feedRoundVars, Abs!feedRoundVars,
           Sched!AllowedDelays, Abs!AllowedDelays, Sched!RecordChanges, Abs!RecordChanges
  <1>9. Sched!CrankNext => Abs!CrankNext
    BY <1>2, <1>5, <1>6 DEF Sched!CrankNext, Abs!CrankNext
  <1> QED BY <1>8, <1>9 DEF Sched!Next, Abs!Next

(* What the code does with its heaps is what FeedSchedule says of sets of  *)
(* rows: no sift loses or doubles the row of a feed.                       *)
THEOREM HeapsImplementSchedule == Spec => ImplementsSchedule
  <1>1. CrankInv /\ [Next]_vars => [Sched!Next]_(Sched!vars)
    BY CrankSteps
  <1>2. Spec => Sched!Init /\ [][Sched!Next]_(Sched!vars)
    BY <1>1, CrankInit, CrankInvariant, PTL DEF Spec
  <1>3. Sched!Init => Abs!Init
    BY DEF Sched!Init, Abs!Init, Sched!FeedInit, Abs!FeedInit, Sched!AllowedDelays, Abs!AllowedDelays
  <1>4. [Sched!Next]_(Sched!vars) => [Abs!Next]_(Abs!vars)
    BY SameSchedule DEF Sched!vars, Abs!vars, Sched!feedVars, Abs!feedVars
  <1> QED BY <1>2, <1>3, <1>4, PTL DEF ImplementsSchedule, Abs!Spec

(* No feed ever has two rows in the heaps, nor rows in two of them.        *)
THEOREM HeapsKeepOneRow == Spec => []Abs!OneRowPerFeed
  <1>1. CrankInv => Abs!OneRowPerFeed
    BY DEF CrankInv, Sched!IInv, Sched!OneRowPerFeed, Abs!OneRowPerFeed, Sched!RowsOf, Abs!RowsOf
  <1> QED BY <1>1, CrankInvariant, PTL

(* A due row of a heap is not overtaken without end: the sifts that move   *)
(* it about the heap leave it as near to its turn as FeedSchedule says.    *)
THEOREM HeapsBringForward == Spec => Sched!TurnsBringForward
  <1>1. Sched!FeedRoundsAssumption
    BY FeedRoundsAssumption DEF Sched!FeedRoundsAssumption
  <1>2. CrankInv /\ [Next]_vars => [Sched!Next]_(Sched!vars)
    BY CrankSteps
  <1>3. Spec => Sched!Spec
    BY <1>2, CrankInit, CrankInvariant, PTL DEF Spec, Sched!Spec
  <1>4. Sched!Spec => Sched!TurnsBringForward
    BY <1>1, Sched!TurnsAlwaysBringForward
  <1> QED BY <1>3, <1>4, PTL
=============================================================================
