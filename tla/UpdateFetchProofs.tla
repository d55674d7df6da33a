------------------------- MODULE UpdateFetchProofs --------------------------
(***************************************************************************)
(* Proofs about calls that share the caches, for any number of calls,      *)
(* workers and feeds, and any distribution of the keys over shards.        *)
(***************************************************************************)
EXTENDS UpdateFetch, FiniteSetTheorems, WellFoundedInduction, TLAPS

Typed ==
    /\ workers \in Nat \ {0}
    /\ account \in [Feeds -> Configs]
    /\ pull_feed_cache \in [Feeds -> Configs \cup {Unset}]
    /\ pc \in [Calls -> OnWorker \cup Suspended \cup Over]
    /\ request \in [Calls -> Seq(Feeds)]
    /\ consensus \in [Calls -> BOOLEAN]
    /\ feed_datas \in [Calls -> Seq(Configs)]
    /\ num_signatures \in [Calls -> Nat \cup {None}]

(* A call that is at a feed has one left that it has not read.             *)
Placed(c) ==
    /\ Len(feed_datas[c]) <= Len(request[c])
    /\ pc[c] = "idle" => feed_datas[c] = <<>> /\ ~consensus[c]
    /\ pc[c] \in {"wantFeed", "loadFeed"} => Len(feed_datas[c]) < Len(request[c])
    /\ pc[c] = "slothash" /\ ~consensus[c] => Len(feed_datas[c]) < Len(request[c])

(* What a call has read of a feed is what the cache holds.                 *)
Cached(c) ==
    \A k \in 1..Len(feed_datas[c]) : feed_datas[c][k] = pull_feed_cache[request[c][k]]

(* The lock of a shard: one call holds it, and the cell it initialises is  *)
(* not initialised by another.                                             *)
Locked(c) ==
    pc[c] = "loadFeed" =>
        /\ pull_feed_cache[Feed(c)] = Unset
        /\ \A d \in Calls : pc[d] = "loadFeed" /\ FeedShard[Feed(d)] = FeedShard[Feed(c)] => d = c

Enough(c) ==
    consensus[c] =>
        /\ num_signatures[c] \in Nat
        /\ \A k \in 1..Len(feed_datas[c]) : num_signatures[c] >= LowerBound(feed_datas[c][k])

IInv == Typed /\ \A c \in Calls : Placed(c) /\ Cached(c) /\ Locked(c) /\ Enough(c)

(* A feed's configuration is a record with a natural sample size, and no   *)
(* null value.                                                             *)
LEMMA ConfigFacts ==
    ASSUME NEW data \in Configs
    PROVE  data.min_sample_size \in Nat /\ LowerBound(data) \in Nat /\ data # Unset
BY UpdateFetchAssumption DEF Config, LowerBound

LEMMA InitIInv == Init => IInv
<1> SUFFICES ASSUME Init PROVE IInv
  OBVIOUS
<1>1. Typed
  BY UpdateFetchAssumption DEF Init, Typed, Over
<1>2. ASSUME NEW c \in Calls PROVE Placed(c) /\ Cached(c) /\ Locked(c) /\ Enough(c)
  BY DEF Init, Placed, Cached, Locked, Enough
<1> QED
  BY <1>1, <1>2 DEF IInv

(* A step that only moves a call, to a place where it holds no feed shard. *)
LEMMA Moving ==
    ASSUME IInv, NEW c \in Calls, NEW place \in OnWorker \cup Suspended \cup Over,
           GoesTo(c, place), place \notin {"idle", "loadFeed"},
           place \in {"wantFeed"} => Len(feed_datas[c]) < Len(request[c]),
           place = "slothash" => consensus[c],
           UNCHANGED <<workers, account, pull_feed_cache, request, consensus, feed_datas,
                       num_signatures>>
    PROVE  IInv'
<1> USE DEF IInv
<1>1. Typed'
  BY DEF Typed, GoesTo
<1>2. \A d \in Calls : d # c => pc'[d] = pc[d]
  BY DEF Typed, GoesTo
<1>3. pc'[c] = place
  BY DEF Typed, GoesTo
<1>4. ASSUME NEW d \in Calls PROVE (Placed(d) /\ Cached(d) /\ Enough(d))'
  <2>1. Placed(d) /\ Cached(d) /\ Enough(d)
    OBVIOUS
  <2>2. Placed(d)'
    BY <1>2, <1>3, <2>1 DEF Placed
  <2> QED
    BY <2>1, <2>2 DEF Cached, Enough
<1>5. ASSUME NEW d \in Calls PROVE Locked(d)'
  <2> SUFFICES ASSUME pc'[d] = "loadFeed"
               PROVE  /\ pull_feed_cache[Feed(d)] = Unset
                      /\ \A e \in Calls : pc'[e] = "loadFeed" /\ FeedShard[Feed(e)] = FeedShard[Feed(d)]
                                             => e = d
    BY DEF Locked, Feed
  <2>1. pc[d] = "loadFeed" /\ Locked(d)
    BY <1>2, <1>3
  <2> QED
    BY <1>2, <1>3, <2>1 DEF Locked
<1> QED
  BY <1>1, <1>4, <1>5

(* A call takes the configuration that the cache holds or now gets.        *)
LEMMA Taking ==
    ASSUME IInv, NEW c \in Calls, pc[c] \in {"wantFeed", "loadFeed"}, NEW data \in Configs,
           TakeFeed(c, data),
           pull_feed_cache' = [pull_feed_cache EXCEPT ![Feed(c)] = data],
           pull_feed_cache[Feed(c)] \in {Unset, data},
           pull_feed_cache[Feed(c)] = Unset => pc[c] = "loadFeed",
           UNCHANGED <<workers, account, request, consensus>>
    PROVE  IInv'
<1> USE DEF IInv
<1> DEFINE n == Len(feed_datas[c])
<1>0. /\ feed_datas[c] \in Seq(Configs) /\ request[c] \in Seq(Feeds) /\ n \in Nat
      /\ n < Len(request[c]) /\ Feed(c) = request[c][n + 1] /\ Feed(c) \in Feeds
  <2>1. feed_datas[c] \in Seq(Configs) /\ request[c] \in Seq(Feeds)
    BY DEF Typed
  <2>2. n \in Nat /\ n < Len(request[c])
    BY <2>1 DEF Placed
  <2> QED
    BY <2>1, <2>2 DEF Feed
<1>1. /\ feed_datas'[c] = Append(feed_datas[c], data)
      /\ \A d \in Calls : d # c => feed_datas'[d] = feed_datas[d] /\ pc'[d] = pc[d]
                                   /\ num_signatures'[d] = num_signatures[d]
      /\ num_signatures'[c] = SignaturesWith(c, data)
      /\ pc'[c] = "wantJobs"
  BY DEF Typed, TakeFeed, GoesTo
<1>2. /\ SignaturesWith(c, data) \in Nat
      /\ consensus[c] => /\ num_signatures[c] \in Nat
                         /\ SignaturesWith(c, data) >= num_signatures[c]
                         /\ SignaturesWith(c, data) >= LowerBound(data)
  <2>1. /\ num_signatures[c] \in Nat \cup {None}
        /\ consensus[c] => num_signatures[c] \in Nat
    BY DEF Typed, Enough
  <2>2. LowerBound(data) \in Nat
    BY ConfigFacts
  <2>3. None \notin Nat
    BY UpdateFetchAssumption
  <2> QED
    BY <2>1, <2>2, <2>3 DEF SignaturesWith
<1>3. Typed'
  <2>1. Append(feed_datas[c], data) \in Seq(Configs)
    BY <1>0
  <2>2. feed_datas' \in [Calls -> Seq(Configs)]
    BY <2>1 DEF Typed, TakeFeed
  <2>3. num_signatures' \in [Calls -> Nat \cup {None}]
    BY <1>2 DEF Typed, TakeFeed
  <2>4. pc' \in [Calls -> OnWorker \cup Suspended \cup Over]
    BY DEF Typed, TakeFeed, GoesTo, OnWorker
  <2> QED
    BY <2>2, <2>3, <2>4, <1>0 DEF Typed
<1>4. \A f \in Feeds : pull_feed_cache[f] # Unset => pull_feed_cache'[f] = pull_feed_cache[f]
  BY <1>0 DEF Typed
<1>5. pull_feed_cache'[Feed(c)] = data
  BY <1>0 DEF Typed
<1>6. ASSUME NEW d \in Calls PROVE Placed(d)'
  <2>1. CASE d = c
    BY <1>0, <1>1, <2>1 DEF Placed
  <2>2. CASE d # c
    BY <1>1, <2>2 DEF Placed
  <2> QED
    BY <2>1, <2>2
<1>7. ASSUME NEW d \in Calls PROVE Cached(d)'
  <2> SUFFICES ASSUME NEW k \in 1..Len(feed_datas'[d])
               PROVE  feed_datas'[d][k] = pull_feed_cache'[request[d][k]]
    BY DEF Cached
  <2>1. CASE d = c /\ k = n + 1
    BY <1>0, <1>1, <1>5, <2>1
  <2>2. CASE ~(d = c /\ k = n + 1)
    <3>1. k \in 1..Len(feed_datas[d]) /\ feed_datas'[d][k] = feed_datas[d][k]
      BY <1>0, <1>1, <2>2
    <3>2. feed_datas[d] \in Seq(Configs) /\ request[d] \in Seq(Feeds)
          /\ Len(feed_datas[d]) <= Len(request[d])
      BY DEF Typed, Placed
    <3>3. feed_datas[d][k] \in Configs /\ request[d][k] \in Feeds
      BY <3>1, <3>2
    <3>4. pull_feed_cache[request[d][k]] = feed_datas[d][k]
      BY <3>1 DEF Cached
    <3> QED
      BY <1>4, <3>1, <3>3, <3>4, ConfigFacts
  <2> QED
    BY <2>1, <2>2
<1>8. ASSUME NEW d \in Calls PROVE Locked(d)'
  <2> SUFFICES ASSUME pc'[d] = "loadFeed"
               PROVE  /\ pull_feed_cache'[Feed(d)'] = Unset
                      /\ \A e \in Calls : pc'[e] = "loadFeed" /\ FeedShard[Feed(e)'] = FeedShard[Feed(d)']
                                             => e = d
    BY DEF Locked
  <2>1. d # c /\ pc[d] = "loadFeed" /\ Locked(d)
    BY <1>1
  <2>2. \A e \in Calls : pc'[e] = "loadFeed" => pc[e] = "loadFeed" /\ Feed(e)' = Feed(e)
    BY <1>1 DEF Feed
  <2>3. Feed(d) # Feed(c)
    BY <2>1 DEF Locked
  <2>4. Feed(d) \in Feeds
    <3>1. feed_datas[d] \in Seq(Configs) /\ request[d] \in Seq(Feeds)
          /\ Len(feed_datas[d]) < Len(request[d])
      BY <2>1 DEF Typed, Placed
    <3> QED
      BY <3>1 DEF Feed
  <2>5. pull_feed_cache'[Feed(d)] = Unset
    BY <2>1, <2>3, <2>4, <1>0 DEF Locked, Typed
  <2> QED
    BY <2>1, <2>2, <2>5 DEF Locked
<1>9. ASSUME NEW d \in Calls PROVE Enough(d)'
  <2>0. consensus[d] => num_signatures'[d] \in Nat
    BY <1>1, <1>2 DEF Enough
  <2> SUFFICES ASSUME consensus[d], NEW k \in 1..Len(feed_datas'[d])
               PROVE  num_signatures'[d] >= LowerBound(feed_datas'[d][k])
    BY <2>0 DEF Enough
  <2>1. CASE d # c
    BY <1>1, <2>1 DEF Enough
  <2>2. CASE d = c /\ k = n + 1
    BY <1>0, <1>1, <1>2, <2>2
  <2>3. CASE d = c /\ k # n + 1
    <3>1. k \in 1..n /\ feed_datas'[c][k] = feed_datas[c][k] /\ feed_datas[c][k] \in Configs
      BY <1>0, <1>1, <2>3
    <3>2. num_signatures[c] >= LowerBound(feed_datas[c][k])
      BY <2>3, <3>1 DEF Enough
    <3>3. num_signatures[c] \in Nat /\ LowerBound(feed_datas[c][k]) \in Nat
      BY <1>2, <2>3, <3>1, ConfigFacts
    <3> QED
      BY <1>1, <1>2, <2>3, <3>1, <3>2, <3>3
  <2> QED
    BY <2>1, <2>2, <2>3
<1> QED
  BY <1>3, <1>6, <1>7, <1>8, <1>9

(* Starting a call, and finding a feed that has to be loaded.  *)
LEMMA Starting ==
    ASSUME IInv, NEW c \in Calls, NEW req \in Requests, NEW n \in NumSignatures \cup {None},
           StartSingle(c, req, n) \/ StartConsensus(c, req, n)
    PROVE  IInv'
<1> USE DEF IInv
<1>0. req \in Seq(Feeds) /\ Len(req) > 0 /\ n \in Nat \cup {None} /\ feed_datas[c] = <<>>
  <2>1. req \in Seq(Feeds) /\ req # <<>> /\ n \in Nat \cup {None}
    BY UpdateFetchAssumption
  <2>2. pc[c] = "idle"
    BY DEF StartSingle, StartConsensus
  <2> QED
    BY <2>1, <2>2 DEF Placed
<1>1. /\ \A d \in Calls : d # c => pc'[d] = pc[d] /\ request'[d] = request[d]
                                   /\ consensus'[d] = consensus[d]
                                   /\ num_signatures'[d] = num_signatures[d]
      /\ request'[c] = req
      /\ \/ pc'[c] = "slothash" /\ consensus'[c] = consensus[c]
         \/ pc'[c] = "wantFeed" /\ consensus'[c] = TRUE /\ num_signatures'[c] \in Nat
      /\ pc[c] = "idle" /\ feed_datas' = feed_datas /\ pull_feed_cache' = pull_feed_cache
  BY <1>0 DEF Typed, StartSingle, StartConsensus, GoesTo, cacheVars
<1>2. Typed'
  <2>1. CASE StartSingle(c, req, n)
    BY <2>1, <1>0 DEF Typed, StartSingle, GoesTo, Suspended, poolVars, chainVars, cacheVars
  <2>2. CASE StartConsensus(c, req, n)
    BY <2>2, <1>0 DEF Typed, StartConsensus, GoesTo, OnWorker, poolVars, chainVars, cacheVars
  <2> QED
    BY <2>1, <2>2
<1>3. ASSUME NEW d \in Calls PROVE (Placed(d) /\ Cached(d) /\ Enough(d))'
  <2>1. CASE d = c
    BY <1>0, <1>1, <2>1 DEF Placed, Cached, Enough
  <2>2. CASE d # c
    BY <1>1, <2>2 DEF Placed, Cached, Enough
  <2> QED
    BY <2>1, <2>2
<1>4. ASSUME NEW d \in Calls PROVE Locked(d)'
  <2>1. \A e \in Calls : pc'[e] = "loadFeed" => pc[e] = "loadFeed" /\ Feed(e)' = Feed(e)
    BY <1>1 DEF Feed
  <2> QED
    BY <1>1, <2>1 DEF Locked
<1> QED
  BY <1>2, <1>3, <1>4

LEMMA Locking ==
    ASSUME IInv, NEW c \in Calls, pc[c] = "wantFeed", FeedHolders(FeedShard[Feed(c)]) = {},
           pull_feed_cache[Feed(c)] = Unset, GoesTo(c, "loadFeed"),
           UNCHANGED <<workers, account, pull_feed_cache, request, consensus, feed_datas,
                       num_signatures>>
    PROVE  IInv'
<1> USE DEF IInv
<1>1. Typed'
  BY DEF Typed, GoesTo, Suspended
<1>2. pc'[c] = "loadFeed" /\ \A d \in Calls : d # c => pc'[d] = pc[d]
  BY DEF Typed, GoesTo
<1>3. ASSUME NEW d \in Calls PROVE (Placed(d) /\ Cached(d) /\ Enough(d))'
  BY <1>2 DEF Placed, Cached, Enough
<1>4. \A d \in Calls : Feed(d)' = Feed(d)
  BY DEF Feed
<1>5. \A d \in Calls : pc[d] = "loadFeed" => FeedShard[Feed(d)] # FeedShard[Feed(c)]
  BY DEF FeedHolders
<1>6. ASSUME NEW d \in Calls PROVE Locked(d)'
  BY <1>2, <1>4, <1>5 DEF Locked
<1> QED
  BY <1>1, <1>3, <1>6

LEMMA NextIInv == IInv /\ [Next]_vars => IInv'
<1> SUFFICES ASSUME IInv, [Next]_vars PROVE IInv'
  OBVIOUS
<1> USE DEF IInv
<1>1. ASSUME NEW c \in Calls, NEW req \in Requests, NEW n \in NumSignatures \cup {None},
             StartSingle(c, req, n) \/ StartConsensus(c, req, n)
      PROVE  IInv'
  BY <1>1, Starting
<1>2. ASSUME NEW c \in Calls, EnterFeed(c) PROVE IInv'
  <2>1. CASE pull_feed_cache[Feed(c)] = Unset
    BY <1>2, <2>1, Locking
       DEF EnterFeed, poolVars, chainVars, cacheVars
  <2>2. CASE pull_feed_cache[Feed(c)] # Unset
    <3> DEFINE data == pull_feed_cache[Feed(c)]
    <3>1. Feed(c) \in Feeds
      <4>1. feed_datas[c] \in Seq(Configs) /\ request[c] \in Seq(Feeds)
            /\ Len(feed_datas[c]) < Len(request[c])
        BY <1>2 DEF Typed, Placed, EnterFeed
      <4> QED
        BY <4>1 DEF Feed
    <3>2. data \in Configs
      BY <2>2, <3>1 DEF Typed
    <3>3. pull_feed_cache' = [pull_feed_cache EXCEPT ![Feed(c)] = data]
      BY <1>2, <3>1 DEF EnterFeed, cacheVars, Typed
    <3> QED
      BY <1>2, <2>2, <3>2, <3>3, Taking DEF EnterFeed, poolVars, chainVars
  <2> QED
    BY <2>1, <2>2
<1>3. ASSUME NEW c \in Calls, FeedLoaded(c) PROVE IInv'
  <2>1. Feed(c) \in Feeds
    <3>1. feed_datas[c] \in Seq(Configs) /\ request[c] \in Seq(Feeds)
          /\ Len(feed_datas[c]) < Len(request[c])
      BY <1>3 DEF Typed, Placed, FeedLoaded
    <3> QED
      BY <3>1 DEF Feed
  <2>2. account[Feed(c)] \in Configs
    BY <2>1 DEF Typed
  <2>3. pull_feed_cache[Feed(c)] = Unset
    BY <1>3 DEF FeedLoaded, Locked
  <2> QED
    BY <1>3, <2>2, <2>3, Taking DEF FeedLoaded, poolVars, chainVars
<1>4. ASSUME NEW c \in Calls PROVE /\ AfterJobs(c) \in {"wantFeed", "slothash", "gateway"}
                                   /\ AfterJobs(c) = "wantFeed" => Len(feed_datas[c]) < Len(request[c])
                                   /\ AfterJobs(c) = "slothash" => consensus[c]
  BY DEF AfterJobs
<1>5. ASSUME NEW c \in Calls, EnterJobs(c) PROVE IInv'
  <2>1. CASE GoesTo(c, AfterJobs(c))
    BY <1>4, <1>5, <2>1, Moving DEF EnterJobs, poolVars, chainVars, cacheVars, callVars, OnWorker, Suspended
  <2>2. CASE GoesTo(c, "loadJobs")
    BY <1>5, <2>2, Moving DEF EnterJobs, poolVars, chainVars, cacheVars, callVars, Suspended
  <2> QED
    BY <1>5, <2>1, <2>2 DEF EnterJobs
<1>6. ASSUME NEW c \in Calls, JobsLoaded(c) PROVE IInv'
  BY <1>4, <1>6, Moving DEF JobsLoaded, poolVars, chainVars, callVars, OnWorker, Suspended
<1>7. ASSUME NEW c \in Calls, SlotFetched(c) PROVE IInv'
  <2>1. CASE consensus[c]
    BY <1>7, <2>1, Moving DEF SlotFetched, poolVars, chainVars, cacheVars, callVars, Suspended
  <2>2. CASE ~consensus[c]
    <3>1. Len(feed_datas[c]) < Len(request[c])
      BY <1>7, <2>2 DEF SlotFetched, Placed
    <3> QED
      BY <1>7, <2>2, <3>1, Moving DEF SlotFetched, poolVars, chainVars, cacheVars, callVars, OnWorker
  <2> QED
    BY <2>1, <2>2
<1>8. ASSUME NEW c \in Calls, NEW hashes, Answered(c, hashes) PROVE IInv'
  BY <1>8, Moving DEF Answered, poolVars, chainVars, cacheVars, Suspended
<1>9. ASSUME NEW c \in Calls, LutsFetched(c) PROVE IInv'
  BY <1>9, Moving DEF LutsFetched, poolVars, chainVars, cacheVars, callVars, Over
<1>10. ASSUME NEW c \in Calls, Fail(c) PROVE IInv'
  BY <1>10, Moving DEF Fail, poolVars, chainVars, cacheVars, callVars, Over
<1>11. ASSUME NEW f \in Feeds, NEW config \in Configs, Reconfigure(f, config) PROVE IInv'
  <2>1. Typed'
    BY <1>11 DEF Reconfigure, Typed, poolVars, cacheVars, callVars
  <2> QED
    BY <1>11, <2>1 DEF Reconfigure, cacheVars, callVars, Placed, Cached, Locked, Enough, Feed
<1>12. CASE UNCHANGED vars
  BY <1>12 DEF vars, poolVars, chainVars, cacheVars, callVars, Typed, Placed, Cached, Locked, Enough, Feed
<1> QED
  BY <1>1, <1>2, <1>3, <1>5, <1>6, <1>7, <1>8, <1>9, <1>10, <1>11, <1>12 DEF Next, Progress

LEMMA IInvAlways == Spec => []IInv
BY InitIInv, NextIInv, PTL DEF Spec

(* A consensus call asks for enough signatures for every feed it has read. *)
THEOREM EnoughSignaturesAlways == Spec => []EnoughSignatures
<1>1. IInv => EnoughSignatures
  <2> SUFFICES ASSUME IInv, NEW c \in Calls, consensus[c], NEW k \in DOMAIN feed_datas[c]
               PROVE  num_signatures[c] >= LowerBound(feed_datas[c][k])
    BY DEF EnoughSignatures
  <2>1. DOMAIN feed_datas[c] = 1..Len(feed_datas[c])
    BY DEF IInv, Typed
  <2> QED
    BY <2>1 DEF IInv, Enough
<1> QED
  BY <1>1, IInvAlways, PTL

(* Whatever calls read of one feed is the same, since a cell is written by *)
(* one call only: the one that holds its shard and found it empty.         *)
THEOREM OneSnapshotAlways == Spec => []OneSnapshot
<1>1. IInv => OneSnapshot
  <2> SUFFICES ASSUME IInv, NEW c \in Calls, NEW d \in Calls,
                      NEW j \in DOMAIN feed_datas[c], NEW k \in DOMAIN feed_datas[d],
                      request[c][j] = request[d][k]
               PROVE  feed_datas[c][j] = feed_datas[d][k]
    BY DEF OneSnapshot
  <2>1. DOMAIN feed_datas[c] = 1..Len(feed_datas[c]) /\ DOMAIN feed_datas[d] = 1..Len(feed_datas[d])
    BY DEF IInv, Typed
  <2> QED
    BY <2>1 DEF IInv, Cached
<1> QED
  BY <1>1, IInvAlways, PTL

----------------------------------------------------------------------------
(* A call names feeds only once it has read all that it was asked for, and *)
(* reads none after that.                                                  *)
FirstWith(c, hash, named) ==
    \/ named = Default /\ \A j \in 1..Len(request[c]) : feed_datas[c][j].feed_hash # hash
    \/ \E j \in 1..Len(request[c]) :
          /\ named = request[c][j] /\ feed_datas[c][j].feed_hash = hash
          /\ \A i \in 1..(j - 1) : feed_datas[c][i].feed_hash # hash

Named(c) ==
    consensus[c] =>
        /\ DOMAIN feed_pubkeys[c] = DOMAIN answered[c]
        /\ \A k \in DOMAIN answered[c] : FirstWith(c, answered[c][k], feed_pubkeys[c][k])

AllRead(c) == Len(feed_datas[c]) = Len(request[c])

Ordered(c) ==
    /\ pc[c] = "gateway" => AllRead(c)
    /\ pc[c] = "slothash" /\ consensus[c] => AllRead(c)
    /\ feed_pubkeys[c] # <<>> => AllRead(c)
    /\ pc[c] \notin {"luts", "returned", "failed"} => feed_pubkeys[c] = <<>> /\ answered[c] = <<>>

NameInv ==
    /\ answered = [c \in Calls |-> answered[c]]
    /\ feed_pubkeys = [c \in Calls |-> feed_pubkeys[c]]
    /\ \A c \in Calls : Ordered(c) /\ Named(c)

LEMMA LeastIndex ==
    ASSUME NEW I \in SUBSET Nat, I # {}
    PROVE  \E i \in I : \A j \in I : i <= j
<1>1. PICK i \in I : \A j \in I : ~(<<j, i>> \in OpToRel(<, Nat))
  BY NatLessThanWellFounded, WFMin
<1>2. \A j \in I : ~(j < i)
  BY <1>1 DEF OpToRel
<1> QED
  BY <1>2

(* The first feed of the request with the hash.                            *)
LEMMA NamedByHashFacts ==
    ASSUME IInv, NEW c \in Calls, Len(feed_datas[c]) = Len(request[c]),
           NEW hashes, NEW k \in DOMAIN hashes
    PROVE  FirstWith(c, hashes[k], NamedByHash(c, hashes, k))
<1> DEFINE n == Len(request[c])
           I == {i \in 1..n : feed_datas[c][i].feed_hash = hashes[k]}
           place == IF I # {} THEN Min(I) ELSE 0
<1>1. n \in Nat /\ Len(feed_datas[c]) = n
  BY DEF IInv, Typed
<1>2. NamedByHash(c, hashes, k) = IF place = 0 THEN Default ELSE request[c][place]
  BY DEF NamedByHash, SelectInSeq
<1> HIDE DEF n
<1>3. CASE I = {}
  BY <1>2, <1>3 DEF n, FirstWith
<1>4. CASE I # {}
  <2>1. PICK j \in I : \A i \in I : j <= i
    <3>1. I \subseteq Nat
      BY <1>1
    <3> HIDE DEF I
    <3> QED
      BY <1>4, <3>1, LeastIndex
  <2>2. j \in 1..n /\ feed_datas[c][j].feed_hash = hashes[k]
    OBVIOUS
  <2>3. Min(I) = j
    <3> HIDE DEF I
    <3>1. I \subseteq 1..n
      BY DEF I
    <3>2. \A x \in I : (\A y \in I : x <= y) => x = j
      BY <1>1, <2>1, <3>1
    <3> QED
      BY <2>1, <3>2 DEF Min
  <2>4. \A i \in 1..(j - 1) : feed_datas[c][i].feed_hash # hashes[k]
    BY <1>1, <2>1, <2>2
  <2>5. place = j /\ j # 0
    BY <1>1, <1>4, <2>2, <2>3
  <2> HIDE DEF place, I
  <2>6. NamedByHash(c, hashes, k) = request[c][j]
    BY <1>2, <2>5
  <2> QED
    BY <2>2, <2>4, <2>6 DEF n, FirstWith
<1> QED
  BY <1>3, <1>4

LEMMA NamesAnswered ==
    ASSUME IInv, NameInv, NEW c \in Calls, NEW hashes, Answered(c, hashes)
    PROVE  NameInv'
<1> DEFINE names == IF consensus[c] THEN [k \in DOMAIN hashes |-> NamedByHash(c, hashes, k)]
                    ELSE request[c]
<1>1. /\ pc[c] = "gateway" /\ AllRead(c)
      /\ feed_pubkeys' = [feed_pubkeys EXCEPT ![c] = names]
      /\ answered' = [answered EXCEPT ![c] = hashes]
      /\ pc' = [pc EXCEPT ![c] = "luts"]
      /\ UNCHANGED <<request, consensus, feed_datas>>
      /\ pc = [d \in Calls |-> pc[d]]
  BY DEF Answered, GoesTo, NameInv, Ordered, IInv, Typed
<1>2. /\ pc'[c] = "luts" /\ feed_pubkeys'[c] = names /\ answered'[c] = hashes
      /\ \A d \in Calls : d # c => /\ pc'[d] = pc[d] /\ answered'[d] = answered[d]
                                    /\ feed_pubkeys'[d] = feed_pubkeys[d]
  <2> HIDE DEF names
  <2> QED
    BY <1>1 DEF NameInv
<1>3. ASSUME NEW d \in Calls PROVE Ordered(d)' /\ Named(d)'
  <2>1. CASE d = c
    <3>1. Ordered(c)'
      <4> HIDE DEF names
      <4> QED
        BY <1>1, <1>2 DEF Ordered, AllRead
    <3>2. ASSUME consensus[c] PROVE Named(c)'
      <4>1. \A k \in DOMAIN hashes : FirstWith(c, hashes[k], NamedByHash(c, hashes, k))
        BY <1>1, NamedByHashFacts DEF AllRead
      <4>2. names = [k \in DOMAIN hashes |-> NamedByHash(c, hashes, k)]
        BY <3>2
      <4>3. DOMAIN names = DOMAIN hashes
        BY <4>2
      <4>4. ASSUME NEW k \in DOMAIN hashes PROVE FirstWith(c, hashes[k], names[k])
        BY <4>1, <4>2
      <4> HIDE DEF names
      <4> QED
        BY <1>1, <1>2, <4>3, <4>4 DEF Named, FirstWith
    <3>3. ~consensus[c] => Named(c)'
      BY <1>1 DEF Named
    <3> QED
      BY <2>1, <3>1, <3>2, <3>3
  <2>2. CASE d # c
    <3>1. /\ pc'[d] = pc[d] /\ answered'[d] = answered[d] /\ feed_pubkeys'[d] = feed_pubkeys[d]
          /\ UNCHANGED <<request, consensus, feed_datas>>
      BY <1>1, <1>2, <2>2
    <3>2. Ordered(d)'
      BY <3>1 DEF NameInv, Ordered, AllRead
    <3>3. Named(d)'
      BY <3>1 DEF NameInv, Named, FirstWith
    <3> QED
      BY <3>2, <3>3
  <2> QED
    BY <2>1, <2>2
<1>4. answered' = [d \in Calls |-> answered'[d]] /\ feed_pubkeys' = [d \in Calls |-> feed_pubkeys'[d]]
  <2> HIDE DEF names
  <2> QED
    BY <1>1 DEF NameInv
<1> QED
  BY <1>3, <1>4 DEF NameInv

(* Any other step of a call, which names nothing.                          *)
LEMMA NamesNothing ==
    ASSUME IInv, NameInv, NEW c \in Calls, UNCHANGED <<answered, feed_pubkeys>>,
           \A d \in Calls : d # c => /\ pc'[d] = pc[d] /\ request'[d] = request[d]
                                     /\ consensus'[d] = consensus[d]
                                     /\ feed_datas'[d] = feed_datas[d],
           pc[c] \notin {"luts", "returned", "failed"} \/ UNCHANGED <<request, consensus, feed_datas>>,
           pc[c] \notin {"luts", "returned", "failed"} \/ pc'[c] \in {"luts", "returned", "failed"},
           pc'[c] = "gateway" => AllRead(c)',
           pc'[c] = "slothash" /\ consensus'[c] => AllRead(c)'
    PROVE  NameInv'
<1>1. ASSUME NEW d \in Calls PROVE Ordered(d)' /\ Named(d)'
  <2>1. CASE d = c
    <3>1. CASE pc[c] \notin {"luts", "returned", "failed"}
      <4>1. feed_pubkeys[c] = <<>> /\ answered[c] = <<>>
        BY <3>1 DEF NameInv, Ordered
      <4> QED
        BY <2>1, <4>1 DEF Ordered, Named
    <3>2. CASE pc[c] \in {"luts", "returned", "failed"}
      <4>1. UNCHANGED <<request, consensus, feed_datas>> /\ pc'[c] \in {"luts", "returned", "failed"}
        BY <3>2
      <4> QED
        BY <2>1, <4>1 DEF NameInv, Ordered, Named, FirstWith, AllRead
    <3> QED
      BY <3>1, <3>2
  <2>2. CASE d # c
    <3>1. /\ pc'[d] = pc[d] /\ request'[d] = request[d] /\ consensus'[d] = consensus[d]
          /\ feed_datas'[d] = feed_datas[d]
          /\ answered' = answered /\ feed_pubkeys' = feed_pubkeys
      BY <2>2
    <3>2. Ordered(d) /\ Named(d)
      BY DEF NameInv
    <3>3. Ordered(d)'
      BY <3>1, <3>2 DEF Ordered, AllRead
    <3>4. Named(d)'
      BY <3>1, <3>2 DEF Named, FirstWith
    <3> QED
      BY <3>3, <3>4
  <2> QED
    BY <2>1, <2>2
<1> QED
  BY <1>1 DEF NameInv

LEMMA NameInit == Init => NameInv
BY DEF Init, NameInv, Ordered, Named, AllRead

LEMMA NameNext ==
    ASSUME IInv, NameInv, [Next]_vars
    PROVE  NameInv'
<1>0. /\ pc = [d \in Calls |-> pc[d]] /\ request = [d \in Calls |-> request[d]]
      /\ consensus = [d \in Calls |-> consensus[d]]
      /\ feed_datas = [d \in Calls |-> feed_datas[d]]
      /\ num_signatures = [d \in Calls |-> num_signatures[d]]
      /\ \A d \in Calls : request[d] \in Seq(Feeds) /\ feed_datas[d] \in Seq(Configs)
      /\ \A d \in Calls : Len(request[d]) \in Nat /\ Len(feed_datas[d]) \in Nat
      /\ \A d \in Calls : Placed(d) /\ Ordered(d)
  BY DEF IInv, Typed, NameInv
<1>1. ASSUME NEW c \in Calls, NEW req \in Requests, NEW n \in NumSignatures \cup {None},
             StartSingle(c, req, n)
      PROVE  NameInv'
  <2>1. /\ pc[c] = "idle" /\ Len(req) = 1 /\ request' = [request EXCEPT ![c] = req]
        /\ pc' = [pc EXCEPT ![c] = "slothash"] /\ consensus' = consensus
        /\ feed_datas' = feed_datas /\ answered' = answered /\ feed_pubkeys' = feed_pubkeys
        /\ ~consensus[c]
    BY <1>0, <1>1 DEF StartSingle, GoesTo, Placed
  <2> QED
    BY <1>0, <2>1, NamesNothing
<1>2. ASSUME NEW c \in Calls, NEW req \in Requests, NEW n \in NumSignatures \cup {None},
             StartConsensus(c, req, n)
      PROVE  NameInv'
  <2>1. /\ pc[c] = "idle" /\ request' = [request EXCEPT ![c] = req]
        /\ pc' = [pc EXCEPT ![c] = "wantFeed"] /\ consensus' = [consensus EXCEPT ![c] = TRUE]
        /\ feed_datas' = feed_datas /\ answered' = answered /\ feed_pubkeys' = feed_pubkeys
    BY <1>2 DEF StartConsensus, GoesTo
  <2> QED
    BY <1>0, <2>1, NamesNothing
(* A call that takes a feed, or moves on with what it has.                 *)
<1>3. ASSUME NEW c \in Calls, pc[c] \in {"wantFeed", "loadFeed"}, NEW data, TakeFeed(c, data),
             UNCHANGED <<request, consensus, answered, feed_pubkeys>>
      PROVE  NameInv'
  <2>1. /\ pc' = [pc EXCEPT ![c] = "wantJobs"]
        /\ feed_datas' = [feed_datas EXCEPT ![c] = Append(@, data)]
    BY <1>3 DEF TakeFeed, GoesTo
  <2> QED
    BY <1>0, <1>3, <2>1, NamesNothing DEF Ordered
<1>4. ASSUME NEW c \in Calls, NEW place, GoesTo(c, place), place # "idle",
             pc[c] # "idle", pc[c] \notin {"luts", "returned", "failed"} \/ place \in {"returned", "failed"},
             place = "gateway" => AllRead(c),
             place = "slothash" /\ consensus[c] => AllRead(c),
             UNCHANGED <<request, consensus, feed_datas, answered, feed_pubkeys>>
      PROVE  NameInv'
  <2>1. pc' = [pc EXCEPT ![c] = place]
    BY <1>4 DEF GoesTo
  <2> QED
    BY <1>0, <1>4, <2>1, NamesNothing DEF Ordered, AllRead
<1>5. ASSUME NEW c \in Calls, EnterFeed(c) PROVE NameInv'
  <2>1. CASE pull_feed_cache[Feed(c)] # Unset
    BY <1>3, <1>5, <2>1 DEF EnterFeed
  <2>2. CASE pull_feed_cache[Feed(c)] = Unset
    BY <1>4, <1>5, <2>2 DEF EnterFeed
  <2> QED
    BY <2>1, <2>2
<1>6. ASSUME NEW c \in Calls, FeedLoaded(c) PROVE NameInv'
  BY <1>3, <1>6 DEF FeedLoaded
<1>7. ASSUME NEW c \in Calls
      PROVE  AfterJobs(c) \in {"wantFeed", "slothash", "gateway"}
             /\ (AfterJobs(c) # "wantFeed" => AllRead(c))
  <2>1. Len(feed_datas[c]) \in Nat /\ Len(request[c]) \in Nat
    BY <1>0
  <2>2. CASE Len(feed_datas[c]) < Len(request[c])
    BY <2>2 DEF AfterJobs
  <2>3. CASE ~(Len(feed_datas[c]) < Len(request[c]))
    <3>1. AfterJobs(c) = IF consensus[c] THEN "slothash" ELSE "gateway"
      BY <2>3 DEF AfterJobs
    <3> QED
      BY <1>0, <2>1, <2>3, <3>1 DEF AllRead, Placed
  <2> QED
    BY <2>2, <2>3
<1>8. ASSUME NEW c \in Calls, EnterJobs(c) PROVE NameInv'
  BY <1>4, <1>7, <1>8 DEF EnterJobs, callVars
<1>9. ASSUME NEW c \in Calls, JobsLoaded(c) PROVE NameInv'
  BY <1>4, <1>7, <1>9 DEF JobsLoaded, callVars
<1>10. ASSUME NEW c \in Calls, SlotFetched(c) PROVE NameInv'
  <2>1. consensus[c] => AllRead(c)
    BY <1>0, <1>10 DEF SlotFetched, Ordered
  <2> QED
    BY <1>4, <1>10, <2>1 DEF SlotFetched, callVars
<1>11. ASSUME NEW c \in Calls, NEW hashes, Answered(c, hashes)
       PROVE  NameInv'
  BY <1>11, NamesAnswered
<1>12. ASSUME NEW c \in Calls, LutsFetched(c) PROVE NameInv'
  BY <1>4, <1>12 DEF LutsFetched, callVars
<1>13. ASSUME NEW c \in Calls, Fail(c) PROVE NameInv'
  BY <1>4, <1>13 DEF Fail, Suspended, callVars
<1>14. ASSUME UNCHANGED <<pc, callVars>> PROVE NameInv'
  BY <1>14 DEF callVars, NameInv, Ordered, Named, FirstWith, AllRead
<1>15. ASSUME NEW f \in Feeds, NEW config \in Configs, Reconfigure(f, config) PROVE NameInv'
  BY <1>14, <1>15 DEF Reconfigure
<1>16. CASE UNCHANGED vars
  BY <1>14, <1>16 DEF vars
<1> QED
  BY <1>1, <1>2, <1>5, <1>6, <1>8, <1>9, <1>10, <1>11, <1>12, <1>13, <1>15, <1>16
     DEF Next, Progress

(* Beside each value of a consensus call's instruction stands a feed of    *)
(* its request whose jobs have the value's hash, or no feed if there is    *)
(* none, whatever the gateway answers and however many feeds have the same *)
(* jobs; a feed that goes without an answer for its jobs comes after one   *)
(* that has the same.                                                      *)
THEOREM NamesAnsweredFeedsAlways == Spec => []NamesAnsweredFeeds
<1>1. IInv /\ NameInv => NamesAnsweredFeeds
  <2> SUFFICES ASSUME IInv, NameInv, NEW c \in Calls, consensus[c], feed_pubkeys[c] # <<>>
               PROVE
        /\ \A k \in DOMAIN answered[c] :
              LET computedFor == {f \in ToSet(request[c]) : HashOf(f) = answered[c][k]}
              IN  IF computedFor = {} THEN feed_pubkeys[c][k] = Default
                  ELSE feed_pubkeys[c][k] \in computedFor
        /\ \A j \in DOMAIN request[c] :
              /\ \E k \in DOMAIN answered[c] : answered[c][k] = HashOf(request[c][j])
              /\ \A k \in DOMAIN feed_pubkeys[c] : feed_pubkeys[c][k] # request[c][j]
              => \E i \in 1..(j - 1) : HashOf(request[c][i]) = HashOf(request[c][j])
    BY DEF NamesAnsweredFeeds
  <2> DEFINE n == Len(request[c])
             names == feed_pubkeys[c]
             hashes == answered[c]
  <2>1. /\ Len(feed_datas[c]) = n /\ n \in Nat /\ DOMAIN request[c] = 1..n
        /\ ToSet(request[c]) = {request[c][j] : j \in 1..n}
    <3>1. request[c] \in Seq(Feeds)
      BY DEF IInv, Typed
    <3>2. Len(feed_datas[c]) = n
      BY DEF NameInv, Ordered, AllRead
    <3>3. DOMAIN request[c] = 1..n /\ n \in Nat
      BY <3>1
    <3> QED
      BY <3>2, <3>3 DEF ToSet
  <2>2. \A j \in 1..n : HashOf(request[c][j]) = feed_datas[c][j].feed_hash
    BY <2>1 DEF IInv, Cached, HashOf
  <2>3. DOMAIN names = DOMAIN hashes /\ \A k \in DOMAIN hashes : FirstWith(c, hashes[k], names[k])
    BY DEF NameInv, Named
  <2>4. ASSUME NEW k \in DOMAIN hashes
        PROVE  \/ names[k] = Default /\ \A j \in 1..n : HashOf(request[c][j]) # hashes[k]
               \/ \E j \in 1..n : /\ names[k] = request[c][j] /\ HashOf(request[c][j]) = hashes[k]
                                  /\ \A i \in 1..(j - 1) : HashOf(request[c][i]) # hashes[k]
    <3>1. FirstWith(c, hashes[k], names[k])
      BY <2>3
    <3>2. \A j \in 1..n : \A i \in 1..(j - 1) : i \in 1..n
      BY <2>1
    <3> QED
      BY <2>2, <3>1, <3>2 DEF FirstWith
  <2> HIDE DEF n, names, hashes
  <2>5. ASSUME NEW k \in DOMAIN hashes
        PROVE  LET computedFor == {f \in ToSet(request[c]) : HashOf(f) = hashes[k]}
               IN  IF computedFor = {} THEN names[k] = Default ELSE names[k] \in computedFor
    BY <2>1, <2>4
  <2>6. ASSUME NEW j \in 1..n, NEW k \in DOMAIN hashes, hashes[k] = HashOf(request[c][j]),
               names[k] # request[c][j]
        PROVE  \E i \in 1..(j - 1) : HashOf(request[c][i]) = HashOf(request[c][j])
    <3>1. PICK i \in 1..n : /\ names[k] = request[c][i] /\ HashOf(request[c][i]) = hashes[k]
                            /\ \A h \in 1..(i - 1) : HashOf(request[c][h]) # hashes[k]
      BY <2>4, <2>6
    <3>2. i # j /\ ~(j \in 1..(i - 1))
      BY <2>6, <3>1
    <3>3. i \in 1..(j - 1)
      BY <2>1, <3>2
    <3> QED
      BY <2>6, <3>1, <3>3
  <2> QED
    BY <2>1, <2>3, <2>5, <2>6 DEF n, names, hashes
<1> QED
  BY <1>1, NameInit, NameNext, IInvAlways, PTL DEF Spec

----------------------------------------------------------------------------
(* How far a call is from its end: four places for every feed it has not   *)
(* read, and those that come after the feeds or, in a single call, before  *)
(* its one.                                                                *)
Unread(c) == Len(request[c]) - Len(feed_datas[c])

AfterFeeds(c) == IF consensus[c] THEN 3 ELSE 2

PlacesLeft(c) ==
    CASE pc[c] = "wantFeed" -> AfterFeeds(c)
      [] pc[c] = "loadFeed" -> AfterFeeds(c) - 1
      [] pc[c] = "wantJobs" -> AfterFeeds(c) + 2
      [] pc[c] = "loadJobs" -> AfterFeeds(c) + 1
      [] pc[c] = "slothash" -> 3
      [] pc[c] = "gateway"  -> 2
      [] pc[c] = "luts"     -> 1
      [] OTHER              -> 0

StepsLeft(c) == 4 * Unread(c) + PlacesLeft(c)

LEMMA PlacesLeftFacts ==
    ASSUME NEW c \in Calls, IInv
    PROVE  /\ PlacesLeft(c) \in 0..5
           /\ pc[c] \in Over => PlacesLeft(c) = 0
           /\ pc[c] \notin Over => PlacesLeft(c) > 0
           /\ Unread(c) \in 0..Len(request[c])
<1>1. /\ pc[c] \in OnWorker \cup Suspended \cup Over /\ AfterFeeds(c) \in {2, 3}
      /\ Len(feed_datas[c]) \in Nat /\ Len(request[c]) \in Nat
      /\ Len(feed_datas[c]) <= Len(request[c])
  BY DEF IInv, Typed, Placed, AfterFeeds
<1>2. Unread(c) \in 0..Len(request[c])
  <2> DEFINE m == Len(feed_datas[c])
             n == Len(request[c])
  <2>1. m \in Nat /\ n \in Nat /\ m <= n
    BY <1>1
  <2>2. n - m \in 0..n
    <3> HIDE DEF m, n
    <3> QED
      BY <2>1
  <2> QED
    BY <2>2 DEF Unread
<1>3. PlacesLeft(c) \in 0..5
  BY <1>1 DEF PlacesLeft
<1>4. CASE pc[c] \in Over
  BY <1>2, <1>3, <1>4 DEF PlacesLeft, Over
<1>5. CASE pc[c] \in OnWorker \cup Suspended
  <2>1. PlacesLeft(c) > 0
    BY <1>1, <1>5 DEF PlacesLeft, OnWorker, Suspended
  <2>2. pc[c] \notin Over
    BY <1>5 DEF OnWorker, Suspended, Over
  <2> QED
    BY <1>2, <1>3, <2>1, <2>2
<1> QED
  BY <1>1, <1>4, <1>5

(* A move of a call to another place.                                      *)
LEMMA MovesOn ==
    ASSUME IInv, NEW c \in Calls, NEW place, GoesTo(c, place),
           UNCHANGED <<request, consensus, feed_datas>>
    PROVE  pc'[c] = place /\ Unread(c)' = Unread(c) /\ AfterFeeds(c)' = AfterFeeds(c)
BY DEF IInv, Typed, GoesTo, Unread, AfterFeeds

(* A call that takes up a feed has one less to read.                       *)
LEMMA ReadsOn ==
    ASSUME IInv, NEW c \in Calls, NEW data, TakeFeed(c, data), pc[c] \in {"wantFeed", "loadFeed"},
           UNCHANGED <<request, consensus>>
    PROVE  StepsLeft(c)' < StepsLeft(c)
<1>1. /\ Len(feed_datas[c]) \in Nat /\ Len(request[c]) \in Nat /\ feed_datas[c] \in Seq(Configs)
      /\ AfterFeeds(c) \in {2, 3} /\ AfterFeeds(c)' = AfterFeeds(c)
  BY DEF IInv, Typed, AfterFeeds
<1>2. pc'[c] = "wantJobs" /\ feed_datas'[c] = Append(feed_datas[c], data)
  BY DEF IInv, Typed, TakeFeed, GoesTo
<1>3. Len(feed_datas'[c]) = Len(feed_datas[c]) + 1
  BY <1>1, <1>2
<1>4. Unread(c)' = Unread(c) - 1 /\ Unread(c) \in Int
  BY <1>1, <1>3 DEF Unread
<1>5. PlacesLeft(c)' = AfterFeeds(c) + 2
  BY <1>1, <1>2 DEF PlacesLeft
<1>6. PlacesLeft(c) >= AfterFeeds(c) - 1 /\ PlacesLeft(c) \in Int
  BY <1>1 DEF PlacesLeft
<1> QED
  BY <1>1, <1>4, <1>5, <1>6 DEF StepsLeft

LEMMA EveryStepCounts ==
    ASSUME IInv, NEW c \in Calls, Progress(c) \/ Fail(c)
    PROVE  StepsLeft(c)' < StepsLeft(c)
<1>1. AfterFeeds(c) \in {2, 3} /\ Unread(c) \in Int /\ PlacesLeft(c) \in 0..5
  <2>1. Len(request[c]) \in Nat
    BY DEF IInv, Typed
  <2> QED
    BY <2>1, PlacesLeftFacts DEF AfterFeeds
<1>2. ASSUME Unread(c)' = Unread(c), PlacesLeft(c)' < PlacesLeft(c), PlacesLeft(c)' \in Int
      PROVE  StepsLeft(c)' < StepsLeft(c)
  BY <1>1, <1>2 DEF StepsLeft
<1>3. CASE EnterFeed(c)
  <2>1. CASE pull_feed_cache[Feed(c)] = Unset
    <3>1. pc'[c] = "loadFeed" /\ Unread(c)' = Unread(c) /\ AfterFeeds(c)' = AfterFeeds(c)
      BY <1>3, <2>1, MovesOn DEF EnterFeed
    <3>2. PlacesLeft(c)' = AfterFeeds(c) - 1 /\ PlacesLeft(c) = AfterFeeds(c)
      BY <1>3, <3>1 DEF EnterFeed, PlacesLeft
    <3> QED
      BY <1>1, <1>2, <3>1, <3>2
  <2>2. CASE pull_feed_cache[Feed(c)] # Unset
    BY <1>3, <2>2, ReadsOn DEF EnterFeed
  <2> QED
    BY <2>1, <2>2
<1>4. CASE FeedLoaded(c)
  BY <1>4, ReadsOn DEF FeedLoaded
<1>5. ASSUME pc[c] \in {"wantJobs", "loadJobs"}, GoesTo(c, AfterJobs(c)),
             UNCHANGED <<request, consensus, feed_datas>>
      PROVE  StepsLeft(c)' < StepsLeft(c)
  <2>1. pc'[c] = AfterJobs(c) /\ Unread(c)' = Unread(c) /\ AfterFeeds(c)' = AfterFeeds(c)
    BY <1>5, MovesOn
  <2>2. PlacesLeft(c)' <= AfterFeeds(c) /\ PlacesLeft(c)' \in Int
    BY <1>1, <2>1 DEF PlacesLeft, AfterJobs, AfterFeeds
  <2>3. PlacesLeft(c) >= AfterFeeds(c) + 1
    BY <1>1, <1>5 DEF PlacesLeft
  <2> QED
    BY <1>1, <1>2, <2>1, <2>2, <2>3
<1>6. CASE EnterJobs(c)
  <2>1. CASE GoesTo(c, AfterJobs(c))
    BY <1>5, <1>6, <2>1 DEF EnterJobs, callVars
  <2>2. CASE GoesTo(c, "loadJobs")
    <3>1. pc'[c] = "loadJobs" /\ Unread(c)' = Unread(c) /\ AfterFeeds(c)' = AfterFeeds(c)
      BY <1>6, <2>2, MovesOn DEF EnterJobs, callVars
    <3>2. PlacesLeft(c)' = AfterFeeds(c) + 1 /\ PlacesLeft(c) = AfterFeeds(c) + 2
      BY <1>6, <3>1 DEF EnterJobs, PlacesLeft
    <3> QED
      BY <1>1, <1>2, <3>1, <3>2
  <2> QED
    BY <1>6, <2>1, <2>2 DEF EnterJobs
<1>7. CASE JobsLoaded(c)
  BY <1>5, <1>7 DEF JobsLoaded, callVars
<1>8. CASE SlotFetched(c)
  <2> DEFINE place == IF consensus[c] THEN "gateway" ELSE "wantFeed"
  <2>1. pc'[c] = place /\ Unread(c)' = Unread(c) /\ AfterFeeds(c)' = AfterFeeds(c)
    BY <1>8, MovesOn DEF SlotFetched, callVars
  <2>2. PlacesLeft(c)' = 2
    BY <2>1 DEF PlacesLeft, AfterFeeds
  <2>3. PlacesLeft(c) = 3
    BY <1>8 DEF SlotFetched, PlacesLeft
  <2> QED
    BY <1>2, <2>1, <2>2, <2>3
<1>9. ASSUME NEW hashes, Answered(c, hashes) PROVE StepsLeft(c)' < StepsLeft(c)
  <2>1. pc'[c] = "luts" /\ Unread(c)' = Unread(c)
    BY <1>9, MovesOn DEF Answered
  <2>2. PlacesLeft(c)' = 1 /\ PlacesLeft(c) = 2
    BY <1>9, <2>1 DEF Answered, PlacesLeft
  <2> QED
    BY <1>2, <2>1, <2>2
<1>10. CASE LutsFetched(c)
  <2>1. pc'[c] = "returned" /\ Unread(c)' = Unread(c)
    BY <1>10, MovesOn DEF LutsFetched, callVars
  <2>2. PlacesLeft(c)' = 0 /\ PlacesLeft(c) = 1
    BY <1>10, <2>1 DEF LutsFetched, PlacesLeft
  <2> QED
    BY <1>2, <2>1, <2>2
<1>11. CASE Fail(c)
  <2>1. pc'[c] = "failed" /\ Unread(c)' = Unread(c)
    BY <1>11, MovesOn DEF Fail, callVars
  <2>2. PlacesLeft(c)' = 0
    BY <2>1 DEF PlacesLeft
  <2>3. PlacesLeft(c) > 0
    <3>1. pc[c] \notin Over
      BY <1>11 DEF Fail, Suspended, Over
    <3> QED
      BY <3>1, PlacesLeftFacts
  <2> QED
    BY <1>1, <1>2, <2>1, <2>2, <2>3
<1> QED
  BY <1>3, <1>4, <1>6, <1>7, <1>8, <1>9, <1>10, <1>11 DEF Progress

(* A call that runs is left where it is by whatever others do.             *)
LEMMA OthersLeaveTheCall ==
    ASSUME IInv, [Next]_vars, NEW c \in Calls, pc[c] \notin Over, ~Progress(c), ~Fail(c)
    PROVE  StepsLeft(c)' = StepsLeft(c) /\ pc'[c] = pc[c]
<1>1. ASSUME pc'[c] = pc[c], request'[c] = request[c], consensus'[c] = consensus[c],
             feed_datas'[c] = feed_datas[c]
      PROVE  StepsLeft(c)' = StepsLeft(c) /\ pc'[c] = pc[c]
  BY <1>1 DEF StepsLeft, Unread, PlacesLeft, AfterFeeds
<1>2. ASSUME NEW d \in Calls, d # c, Progress(d) \/ Fail(d)
      PROVE  /\ pc'[c] = pc[c] /\ request'[c] = request[c] /\ consensus'[c] = consensus[c]
             /\ feed_datas'[c] = feed_datas[c]
  BY <1>2 DEF IInv, Typed, Progress, EnterFeed, FeedLoaded, EnterJobs, JobsLoaded, SlotFetched,
              Answered, LutsFetched, Fail, GoesTo, TakeFeed, callVars
<1>3. ASSUME NEW d \in Calls, NEW req \in Requests, NEW n \in NumSignatures \cup {None},
             StartSingle(d, req, n) \/ StartConsensus(d, req, n)
      PROVE  /\ pc'[c] = pc[c] /\ request'[c] = request[c] /\ consensus'[c] = consensus[c]
             /\ feed_datas'[c] = feed_datas[c]
  <2>1. d # c
    BY <1>3 DEF StartSingle, StartConsensus, Over
  <2> QED
    BY <1>3, <2>1 DEF IInv, Typed, StartSingle, StartConsensus, GoesTo
<1>4. CASE UNCHANGED vars \/ \E f \in Feeds, config \in Configs : Reconfigure(f, config)
  BY <1>1, <1>4 DEF vars, callVars, Reconfigure
<1> QED
  BY <1>1, <1>2, <1>3, <1>4 DEF Next

(* A call cannot go round for ever: each of its steps, also one that takes *)
(* a key another call has loaded, leaves it strictly fewer, of a number    *)
(* that the length of its request bounds, and no other call adds to them.  *)
(* This is what EveryCallEnds rests on beside fairness.                    *)
CallsRunOut ==
    [][\A c \in Calls : pc[c] \notin Over =>
          /\ StepsLeft(c) \in 1..(4 * Len(request[c]) + 5)
          /\ \/ (Progress(c) \/ Fail(c)) /\ StepsLeft(c)' < StepsLeft(c)
             \/ StepsLeft(c)' = StepsLeft(c) /\ pc'[c] = pc[c]]_vars

THEOREM CallsAlwaysRunOut == Spec => CallsRunOut
<1> DEFINE A == \A c \in Calls : pc[c] \notin Over =>
                   /\ StepsLeft(c) \in 1..(4 * Len(request[c]) + 5)
                   /\ \/ (Progress(c) \/ Fail(c)) /\ StepsLeft(c)' < StepsLeft(c)
                      \/ StepsLeft(c)' = StepsLeft(c) /\ pc'[c] = pc[c]
<1>1. IInv /\ [Next]_vars => [A]_vars
  <2> SUFFICES ASSUME IInv, [Next]_vars, NEW c \in Calls, pc[c] \notin Over
               PROVE  /\ StepsLeft(c) \in 1..(4 * Len(request[c]) + 5)
                      /\ \/ (Progress(c) \/ Fail(c)) /\ StepsLeft(c)' < StepsLeft(c)
                         \/ StepsLeft(c)' = StepsLeft(c) /\ pc'[c] = pc[c]
    OBVIOUS
  <2>1. StepsLeft(c) \in 1..(4 * Len(request[c]) + 5)
    <3>1. Len(request[c]) \in Nat
      BY DEF IInv, Typed
    <3> QED
      BY <3>1, PlacesLeftFacts DEF StepsLeft
  <2>2. CASE Progress(c) \/ Fail(c)
    BY <2>1, <2>2, EveryStepCounts
  <2>3. CASE ~(Progress(c) \/ Fail(c))
    BY <2>1, <2>3, OthersLeaveTheCall
  <2> QED
    BY <2>2, <2>3
<1> HIDE DEF A
<1>2. Spec => [][A]_vars
  BY <1>1, IInvAlways, PTL DEF Spec
<1> QED
  BY <1>2 DEF CallsRunOut, A

----------------------------------------------------------------------------
(* A call that may take its next step: it is on a worker and not blocked,  *)
(* or its task may have a worker.                                          *)
GoesOn(c) ==
    \/ pc[c] \in OnWorker /\ ~Blocked(c)
    \/ pc[c] \in Suspended /\ MayRun(c)

(* No more tasks are on workers than there are workers, each with one call.*)
OneAtATime ==
    /\ Cardinality(BusyTasks) <= workers
    /\ \A c, d \in Calls : pc[c] \in OnWorker /\ pc[d] \in OnWorker /\ task[c] = task[d] => c = d

BlockedTasks == {task[c] : c \in {d \in Calls : Blocked(d)}}

(* A step of a call needs what GoesOn says, whatever it is.                *)
LEMMA OnlyThoseGoOn ==
    ASSUME NEW c \in Calls, Progress(c) \/ Fail(c)
    PROVE  GoesOn(c)
BY DEF GoesOn, Progress, EnterFeed, FeedLoaded, EnterJobs, JobsLoaded, SlotFetched, Answered,
       LutsFetched, Fail, OnWorker, Suspended, Blocked, ShardHolders

LEMMA BusyFacts ==
    ASSUME IInv
    PROVE  /\ IsFiniteSet(BusyTasks) /\ Cardinality(BusyTasks) \in Nat
           /\ IsFiniteSet(BlockedTasks) /\ Cardinality(BlockedTasks) \in Nat
           /\ BlockedTasks \subseteq BusyTasks
           /\ Cardinality(BlockedTasks) <= Cardinality(BusyTasks)
           /\ workers \in Nat /\ workers > 0
<1> DEFINE busy == {c \in Calls : pc[c] \in OnWorker}
           blocked == {c \in Calls : Blocked(c)}
<1>1. blocked \subseteq busy
  BY DEF Blocked, ShardHolders, OnWorker
<1>2. IsFiniteSet(busy)
  BY UpdateFetchAssumption, FS_Subset
<1>3. IsFiniteSet(BusyTasks)
  <2> DEFINE taskOf == [c \in busy |-> task[c]]
  <2>1. BusyTasks = {task[c] : c \in busy}
    BY DEF BusyTasks
  <2>2. taskOf \in Surjection(busy, BusyTasks)
    <3> HIDE DEF busy
    <3> QED
      BY <2>1 DEF Surjection
  <2> HIDE DEF busy, taskOf
  <2> QED
    BY <1>2, <2>2, FS_Surjection
<1>4. BlockedTasks \subseteq BusyTasks
  BY <1>1 DEF BlockedTasks, BusyTasks
<1>5. IsFiniteSet(BlockedTasks) /\ Cardinality(BlockedTasks) <= Cardinality(BusyTasks)
  BY <1>3, <1>4, FS_Subset
<1>6. Cardinality(BlockedTasks) \in Nat /\ Cardinality(BusyTasks) \in Nat
  BY <1>3, <1>5, FS_CardinalityType
<1> QED
  BY <1>3, <1>4, <1>5, <1>6 DEF IInv, Typed

(* One call moves; it was on a worker before, or might have one.           *)
LEMMA BusyNext ==
    ASSUME IInv, OneAtATime, [Next]_vars
    PROVE  OneAtATime'
<1>0. workers' = workers /\ task' = task
  BY DEF Next, vars, poolVars, StartSingle, StartConsensus, Progress, EnterFeed, FeedLoaded, EnterJobs,
         JobsLoaded, SlotFetched, Answered, LutsFetched, Fail, Reconfigure
<1>1. ASSUME NEW c \in Calls, \A d \in Calls : d # c => pc'[d] = pc[d],
             pc[c] \in OnWorker \/ MayRun(c)
      PROVE  OneAtATime'
  <2>1. BusyTasks' \subseteq BusyTasks \cup {task[c]}
    BY <1>0, <1>1 DEF BusyTasks
  <2>2. IsFiniteSet(BusyTasks) /\ Cardinality(BusyTasks) \in Nat /\ workers \in Nat
    BY BusyFacts
  <2>3. /\ IsFiniteSet(BusyTasks \cup {task[c]})
        /\ Cardinality(BusyTasks \cup {task[c]})
            = IF task[c] \in BusyTasks THEN Cardinality(BusyTasks) ELSE Cardinality(BusyTasks) + 1
    BY <2>2, FS_AddElement
  <2>4. Cardinality(BusyTasks') <= Cardinality(BusyTasks \cup {task[c]}) /\ Cardinality(BusyTasks') \in Nat
    <3>1. IsFiniteSet(BusyTasks')
      BY <2>1, <2>3, FS_Subset
    <3> QED
      BY <2>1, <2>3, <3>1, FS_Subset, FS_CardinalityType
  <2>5. pc[c] \in OnWorker => task[c] \in BusyTasks
    BY DEF BusyTasks
  <2>6. Cardinality(BusyTasks') <= workers
    BY <1>1, <2>2, <2>3, <2>4, <2>5 DEF OneAtATime, MayRun
  <2>7. ASSUME NEW d \in Calls, NEW e \in Calls, pc'[d] \in OnWorker, pc'[e] \in OnWorker,
               task[d] = task[e]
        PROVE  d = e
    <3>1. \A x \in Calls : pc[x] \in OnWorker => task[x] \in BusyTasks
      BY DEF BusyTasks
    <3> QED
      BY <1>1, <2>7, <3>1 DEF OneAtATime, MayRun
  <2> QED
    BY <1>0, <2>6, <2>7 DEF OneAtATime
<1>2. ASSUME NEW c \in Calls, Progress(c) \/ Fail(c)
      PROVE  OneAtATime'
  <2>1. pc[c] \in OnWorker \/ MayRun(c)
    BY <1>2, OnlyThoseGoOn DEF GoesOn
  <2>2. \A d \in Calls : d # c => pc'[d] = pc[d]
    BY <1>2 DEF IInv, Typed, Progress, EnterFeed, FeedLoaded, EnterJobs, JobsLoaded, SlotFetched,
                Answered, LutsFetched, Fail, GoesTo, TakeFeed
  <2> QED
    BY <1>1, <2>1, <2>2
<1>3. ASSUME NEW c \in Calls, NEW req \in Requests, NEW n \in NumSignatures \cup {None},
             StartSingle(c, req, n) \/ StartConsensus(c, req, n)
      PROVE  OneAtATime'
  BY <1>1, <1>3 DEF IInv, Typed, StartSingle, StartConsensus, GoesTo
<1>4. CASE UNCHANGED vars \/ \E f \in Feeds, config \in Configs : Reconfigure(f, config)
  BY <1>0, <1>4 DEF vars, Reconfigure, OneAtATime, BusyTasks
<1> QED
  BY <1>2, <1>3, <1>4 DEF Next

LEMMA BusyInit == Init => OneAtATime
<1> SUFFICES ASSUME Init PROVE OneAtATime
  OBVIOUS
<1>1. {c \in Calls : pc[c] \in OnWorker} = {}
  BY DEF Init, OnWorker
<1>2. BusyTasks = {}
  BY <1>1 DEF BusyTasks
<1>3. workers \in Nat
  BY UpdateFetchAssumption DEF Init
<1> QED
  BY <1>1, <1>2, <1>3, FS_EmptySet DEF OneAtATime

(* Short of calls that hold each other up, or of all workers blocked, some *)
(* call under way may take its next step at once: if none may, all of them *)
(* are held up.                                                            *)
StuckOnlyIfHeldUp == (\A c \in UnderWay : ~GoesOn(c)) => \A c \in UnderWay : HeldUp(c)

THEOREM StuckOnlyIfHeldUpAlways == Spec => []StuckOnlyIfHeldUp
<1>1. IInv => StuckOnlyIfHeldUp
  <2> SUFFICES ASSUME IInv, \A c \in UnderWay : ~GoesOn(c), ~AllBlocked
               PROVE  Knot(UnderWay)
    BY DEF StuckOnlyIfHeldUp, HeldUp
  <2>1. \A c \in Calls : pc[c] \in OnWorker \cup Suspended <=> c \in UnderWay
    BY DEF UnderWay, OnWorker, Suspended, Over, IInv, Typed
  <2>2. \A c \in Calls : pc[c] \in OnWorker => Blocked(c)
    BY <2>1 DEF GoesOn
  <2>3. Cardinality(BusyTasks) < workers
    <3>1. BusyTasks \subseteq BlockedTasks
      BY <2>2 DEF BusyTasks, BlockedTasks
    <3>2. BusyTasks = BlockedTasks
      BY <3>1, BusyFacts
    <3> QED
      BY <3>2, BusyFacts DEF AllBlocked, BlockedTasks
  <2>4. ASSUME NEW c \in UnderWay, pc[c] \in OnWorker
        PROVE  Blocked(c) /\ ShardHolders(c) \subseteq UnderWay
    <3>1. Blocked(c)
      BY <2>2, <2>4 DEF UnderWay
    <3>2. \A h \in ShardHolders(c) : h \in Calls /\ pc[h] \in {"loadFeed", "loadJobs"}
      BY DEF ShardHolders, FeedHolders, JobHolders
    <3> QED
      BY <3>1, <3>2 DEF UnderWay, Over
  <2>5. ASSUME NEW c \in UnderWay, pc[c] \in Suspended
        PROVE  \E d \in UnderWay : Blocked(d) /\ task[d] = task[c]
    <3>1. task[c] \in BusyTasks
      BY <2>3, <2>5 DEF GoesOn, MayRun
    <3>2. PICK d \in Calls : pc[d] \in OnWorker /\ task[d] = task[c]
      BY <3>1 DEF BusyTasks
    <3> QED
      BY <2>1, <2>2, <3>2
  <2> QED
    BY <2>1, <2>4, <2>5 DEF Knot, UnderWay
<1> QED
  BY <1>1, IInvAlways, PTL

----------------------------------------------------------------------------
(* What a step leaves of the calls that do not take it, and of who holds   *)
(* a shard that is already locked.                                         *)
LEMMA OthersStay ==
    ASSUME IInv, [Next]_vars, NEW c \in Calls, ~GoesOn(c), c \in UnderWay
    PROVE  /\ pc'[c] = pc[c] /\ request'[c] = request[c] /\ feed_datas'[c] = feed_datas[c]
           /\ task' = task
<1>1. ~Progress(c) /\ ~Fail(c)
  BY OnlyThoseGoOn
<1>2. task' = task
  BY DEF Next, vars, poolVars, StartSingle, StartConsensus, Progress, EnterFeed, FeedLoaded, EnterJobs,
         JobsLoaded, SlotFetched, Answered, LutsFetched, Fail, Reconfigure
<1>3. ASSUME NEW d \in Calls, d # c, Progress(d) \/ Fail(d)
      PROVE  pc'[c] = pc[c] /\ request'[c] = request[c] /\ feed_datas'[c] = feed_datas[c]
  BY <1>3 DEF IInv, Typed, Progress, EnterFeed, FeedLoaded, EnterJobs, JobsLoaded, SlotFetched,
              Answered, LutsFetched, Fail, GoesTo, TakeFeed, callVars
<1>4. ASSUME NEW d \in Calls, NEW req \in Requests, NEW n \in NumSignatures \cup {None},
             StartSingle(d, req, n) \/ StartConsensus(d, req, n)
      PROVE  pc'[c] = pc[c] /\ request'[c] = request[c] /\ feed_datas'[c] = feed_datas[c]
  <2>1. d # c
    BY <1>4 DEF StartSingle, StartConsensus, Over, UnderWay
  <2> QED
    BY <1>4, <2>1 DEF IInv, Typed, StartSingle, StartConsensus, GoesTo
<1>5. CASE UNCHANGED vars \/ \E f \in Feeds, config \in Configs : Reconfigure(f, config)
  BY <1>2, <1>5 DEF vars, callVars, Reconfigure
<1> QED
  BY <1>1, <1>2, <1>3, <1>4, <1>5 DEF Next

(* A call comes to hold a shard only if nobody holds it.                   *)
LEMMA HoldersCome ==
    ASSUME IInv, [Next]_vars, NEW c \in Calls
    PROVE  /\ pc'[c] = "loadFeed" =>
                \/ pc[c] = "loadFeed" /\ Feed(c)' = Feed(c)
                \/ Feed(c)' = Feed(c) /\ FeedHolders(FeedShard[Feed(c)]) = {}
           /\ pc'[c] = "loadJobs" =>
                \/ pc[c] = "loadJobs" /\ Data(c)' = Data(c)
                \/ Data(c)' = Data(c) /\ JobHolders(JobShard[Data(c).feed_hash]) = {}
<1>1. ASSUME pc'[c] = pc[c], request'[c] = request[c], feed_datas'[c] = feed_datas[c]
      PROVE  /\ pc'[c] = "loadFeed" => pc[c] = "loadFeed" /\ Feed(c)' = Feed(c)
             /\ pc'[c] = "loadJobs" => pc[c] = "loadJobs" /\ Data(c)' = Data(c)
  BY <1>1 DEF Feed, Data
<1>2. ASSUME NEW d \in Calls, d # c, Progress(d) \/ Fail(d)
      PROVE  pc'[c] = pc[c] /\ request'[c] = request[c] /\ feed_datas'[c] = feed_datas[c]
  BY <1>2 DEF IInv, Typed, Progress, EnterFeed, FeedLoaded, EnterJobs, JobsLoaded, SlotFetched,
              Answered, LutsFetched, Fail, GoesTo, TakeFeed, callVars
<1>3. ASSUME NEW d \in Calls, d # c, NEW req \in Requests, NEW n \in NumSignatures \cup {None},
             StartSingle(d, req, n) \/ StartConsensus(d, req, n)
      PROVE  pc'[c] = pc[c] /\ request'[c] = request[c] /\ feed_datas'[c] = feed_datas[c]
  BY <1>3 DEF IInv, Typed, StartSingle, StartConsensus, GoesTo
<1>4. CASE UNCHANGED vars \/ \E f \in Feeds, config \in Configs : Reconfigure(f, config)
  BY <1>1, <1>4 DEF vars, callVars, Reconfigure
<1>5. CASE \/ FeedLoaded(c) \/ JobsLoaded(c) \/ SlotFetched(c) \/ LutsFetched(c) \/ Fail(c)
           \/ \E hashes : Answered(c, hashes)
           \/ \E req \in Requests, n \in NumSignatures \cup {None} :
                 StartSingle(c, req, n) \/ StartConsensus(c, req, n)
  <2>1. pc'[c] \notin {"loadFeed", "loadJobs"}
    BY <1>5 DEF IInv, Typed, FeedLoaded, JobsLoaded, SlotFetched, Answered, LutsFetched, Fail,
                StartSingle, StartConsensus, GoesTo, TakeFeed, AfterJobs
  <2> QED
    BY <2>1
<1>6. CASE EnterFeed(c)
  <2>1. pc'[c] \in {"loadFeed", "wantJobs"} /\ FeedHolders(FeedShard[Feed(c)]) = {}
    BY <1>6 DEF IInv, Typed, EnterFeed, GoesTo, TakeFeed
  <2>2. pc'[c] = "loadFeed" => request' = request /\ feed_datas' = feed_datas
    BY <1>6 DEF IInv, Typed, EnterFeed, GoesTo, TakeFeed
  <2> QED
    BY <2>1, <2>2 DEF Feed
<1>7. CASE EnterJobs(c)
  <2>1. /\ JobHolders(JobShard[Data(c).feed_hash]) = {} /\ feed_datas' = feed_datas
        /\ pc'[c] # "loadFeed"
    BY <1>7 DEF IInv, Typed, EnterJobs, GoesTo, AfterJobs, callVars
  <2> QED
    BY <2>1 DEF Data
<1> QED
  BY <1>1, <1>2, <1>3, <1>4, <1>5, <1>6, <1>7 DEF Next, Progress

LEMMA KnotsStay ==
    ASSUME IInv, OneAtATime, [Next]_vars, NEW K \in SUBSET UnderWay, Knot(K)
    PROVE  Knot(K)' /\ \A c \in K : pc'[c] = pc[c]
<1>1. ASSUME NEW c \in K PROVE c \in Calls /\ ~GoesOn(c)
  <2>1. c \in Calls
    BY DEF UnderWay
  <2>2. CASE Blocked(c)
    BY <2>1, <2>2 DEF GoesOn, Blocked, ShardHolders, Suspended
  <2>3. CASE pc[c] \in Suspended /\ \E d \in K : Blocked(d) /\ task[d] = task[c]
    <3>1. PICK d \in K : Blocked(d) /\ task[d] = task[c]
      BY <2>3
    <3>2. task[c] \in BusyTasks
      BY <3>1 DEF BusyTasks, UnderWay, Blocked, ShardHolders, OnWorker
    <3> QED
      BY <2>1, <2>3, <3>2 DEF GoesOn, MayRun, OnWorker, Suspended
  <2> QED
    BY <2>1, <2>2, <2>3 DEF Knot
<1>2. \A c \in K : /\ pc'[c] = pc[c] /\ request'[c] = request[c] /\ feed_datas'[c] = feed_datas[c]
                  /\ task' = task /\ Feed(c)' = Feed(c) /\ Data(c)' = Data(c)
  BY <1>1, OthersStay DEF Feed, Data
<1>3. ASSUME NEW c \in K, Blocked(c), ShardHolders(c) \subseteq K
      PROVE  ShardHolders(c)' = ShardHolders(c)
  <2>1. CASE pc[c] = "wantFeed"
    <3> DEFINE s == FeedShard[Feed(c)]
    <3>1. ShardHolders(c) = FeedHolders(s) /\ ShardHolders(c)' = FeedHolders(s)' /\ FeedHolders(s) # {}
      BY <1>2, <1>3, <2>1 DEF ShardHolders, Blocked, FeedHolders
    <3>2. \A d \in FeedHolders(s) : d \in FeedHolders(s)'
      BY <1>2, <1>3, <3>1 DEF FeedHolders
    <3>3. ASSUME NEW d \in Calls, pc'[d] = "loadFeed", FeedShard[Feed(d)'] = s
          PROVE  d \in FeedHolders(s)
      <4>1. Feed(d)' = Feed(d) /\ (pc[d] = "loadFeed" \/ FeedHolders(FeedShard[Feed(d)]) = {})
        BY <3>3, HoldersCome
      <4> HIDE DEF s
      <4> QED
        BY <3>1, <3>3, <4>1 DEF FeedHolders
    <3>4. FeedHolders(s)' \subseteq FeedHolders(s)
      BY <1>2, <3>3 DEF FeedHolders
    <3> QED
      BY <3>1, <3>2, <3>4
  <2>2. CASE pc[c] = "wantJobs"
    <3> DEFINE s == JobShard[Data(c).feed_hash]
    <3>1. ShardHolders(c) = JobHolders(s) /\ ShardHolders(c)' = JobHolders(s)' /\ JobHolders(s) # {}
      BY <1>2, <1>3, <2>2 DEF ShardHolders, Blocked, JobHolders
    <3>2. \A d \in JobHolders(s) : d \in JobHolders(s)'
      BY <1>2, <1>3, <3>1 DEF JobHolders
    <3>3. ASSUME NEW d \in Calls, pc'[d] = "loadJobs", JobShard[Data(d)'.feed_hash] = s
          PROVE  d \in JobHolders(s)
      <4>1. Data(d)' = Data(d) /\ (pc[d] = "loadJobs" \/ JobHolders(JobShard[Data(d).feed_hash]) = {})
        BY <3>3, HoldersCome
      <4> HIDE DEF s
      <4> QED
        BY <3>1, <3>3, <4>1 DEF JobHolders
    <3>4. JobHolders(s)' \subseteq JobHolders(s)
      BY <1>2, <3>3 DEF JobHolders
    <3> QED
      BY <3>1, <3>2, <3>4
  <2> QED
    BY <1>3, <2>1, <2>2 DEF Blocked, ShardHolders
<1>4. ASSUME NEW c \in K, Blocked(c) PROVE Blocked(c)' /\ ShardHolders(c)' \subseteq K
  <2>1. ShardHolders(c) \subseteq K
    BY <1>4 DEF Knot, Blocked, ShardHolders, Suspended
  <2> QED
    BY <1>3, <1>4, <2>1 DEF Blocked
<1>5. ASSUME NEW c \in K, ~Blocked(c)
      PROVE  pc'[c] \in Suspended /\ \E d \in K : Blocked(d)' /\ task'[d] = task'[c]
  <2>1. pc[c] \in Suspended
    BY <1>5 DEF Knot
  <2>2. PICK d \in K : Blocked(d) /\ task[d] = task[c]
    BY <1>5 DEF Knot
  <2> QED
    BY <1>2, <1>4, <2>1, <2>2
<1>6. Knot(K)'
  BY <1>4, <1>5 DEF Knot
<1> QED
  BY <1>2, <1>6

LEMMA AllBlockedStays ==
    ASSUME IInv, OneAtATime, [Next]_vars, AllBlocked
    PROVE  AllBlocked' /\ UNCHANGED pc
<1>1. Cardinality(BlockedTasks) = Cardinality(BusyTasks) /\ Cardinality(BusyTasks) = workers
  BY BusyFacts DEF AllBlocked, OneAtATime, BlockedTasks
<1>2. BlockedTasks = BusyTasks
  BY <1>1, BusyFacts, FS_Subset
<1>3. \A c \in Calls : ~MayRun(c)
  BY <1>1, BusyFacts DEF MayRun
<1>4. ASSUME NEW c \in Calls, pc[c] \in OnWorker PROVE Blocked(c)
  <2>1. task[c] \in BlockedTasks
    BY <1>2, <1>4 DEF BusyTasks
  <2>2. PICK d \in Calls : Blocked(d) /\ task[d] = task[c]
    BY <2>1 DEF BlockedTasks
  <2>3. pc[d] \in OnWorker
    BY <2>2 DEF Blocked, ShardHolders, OnWorker
  <2> QED
    BY <1>4, <2>2, <2>3 DEF OneAtATime
<1>5. \A c \in Calls : ~Progress(c) /\ ~Fail(c)
  BY <1>3, <1>4, OnlyThoseGoOn DEF GoesOn
<1>6. UNCHANGED <<poolVars, cacheVars, pc, callVars>>
  BY <1>3, <1>5 DEF Next, StartSingle, StartConsensus, Reconfigure, vars
<1>7. AllBlocked'
  BY <1>6 DEF AllBlocked, Blocked, ShardHolders, FeedHolders, JobHolders, Feed, Data, poolVars, callVars
<1> QED
  BY <1>6, <1>7

(* Calls that hold each other up stay so: they take no step any more, not  *)
(* even one whose reply comes or whose time runs out, since all of that    *)
(* needs the worker that is blocked; whatever other calls and feeds do.    *)
THEOREM HeldUpAlwaysForEver == Spec => HeldUpForEver
<1> DEFINE A == \A c \in Calls : HeldUp(c) => HeldUp(c)' /\ pc'[c] = pc[c]
<1>1. IInv /\ OneAtATime /\ [Next]_vars => [A]_vars
  <2> SUFFICES ASSUME IInv, OneAtATime, [Next]_vars, NEW c \in Calls, HeldUp(c)
               PROVE  HeldUp(c)' /\ pc'[c] = pc[c]
    OBVIOUS
  <2>1. CASE AllBlocked
    <3>1. AllBlocked' /\ pc' = pc
      BY <2>1, AllBlockedStays
    <3> QED
      BY <3>1 DEF HeldUp, UnderWay
  <2>2. ASSUME NEW K \in SUBSET UnderWay, c \in K, Knot(K) PROVE HeldUp(c)' /\ pc'[c] = pc[c]
    <3>1. Knot(K)' /\ \A d \in K : pc'[d] = pc[d]
      BY <2>2, KnotsStay
    <3>2. K \subseteq UnderWay'
      BY <3>1 DEF UnderWay
    <3> QED
      BY <2>2, <3>1, <3>2 DEF HeldUp
  <2> QED
    BY <2>1, <2>2 DEF HeldUp
<1> HIDE DEF A
<1>2. Spec => [][A]_vars
  BY <1>1, BusyInit, BusyNext, IInvAlways, PTL DEF Spec
<1> QED
  BY <1>2 DEF HeldUpForEver, A
=============================================================================
