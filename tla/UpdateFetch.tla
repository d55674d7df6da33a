---------------------------- MODULE UpdateFetch -----------------------------
(***************************************************************************)
(* Concurrent calls of PullFeed::fetch_update_ix and                       *)
(* fetch_update_consensus_ix that share one SbContext.                     *)
(*                                                                         *)
(* The caches of feeds and of jobs are DashMaps of OnceCells.  The guard   *)
(* that entry(..) returns is a temporary of the statement that also awaits *)
(* get_or_try_init: a call that loads a key keeps the shard of the key     *)
(* locked while it is suspended.  A call that finds a shard locked does    *)
(* not suspend, it blocks the thread of the runtime it runs on.  So there  *)
(* are calls that run on a worker (wantFeed, wantJobs), and calls that are *)
(* suspended at an await and need a free worker to go on.  Callers may     *)
(* join calls in one task; a task runs on one worker, so that a call that  *)
(* blocks keeps the others of its task from going on.                      *)
(***************************************************************************)
EXTENDS Integers, FiniteSets, SequencesExt

CONSTANTS
    Calls,
    Feeds,
    Requests,       \* lists of feeds that callers ask for
    NumSignatures,  \* values of the parameter num_signatures, beside None
    None,
    Configs,        \* what a feed's account may hold
    FeedShard,      \* feed -> shard of pull_feed_cache
    JobShard,       \* feed hash -> shard of job_cache
    WorkerCounts,   \* sizes of the runtime's pool
    Taskings,       \* how calls may be joined: functions from calls to tasks
    Answers,        \* hashes that a gateway may answer with, in its order
    Unset,
    Default,        \* Pubkey::default()
    MaxReconfigs    \* bound: changes of feed accounts

VARIABLES
    workers,         \* the size of the pool
    task,            \* call -> the task that awaits it
    account,         \* the feeds' accounts on chain
    reconfigs,       \* how often they changed
    pull_feed_cache, \* feed -> config, or Unset before the cell is initialised
    job_cache,       \* hashes whose cell is initialised
    pc,              \* call -> where it is
    request,         \* call -> its feeds, from params
    consensus,       \* call -> it is fetch_update_consensus_ix
    feed_datas,      \* call -> what it read of its feeds so far
    num_signatures,  \* call -> signatures to ask for
    answered,        \* call -> hashes that the gateway's median responses carry
    feed_pubkeys     \* call -> feeds that its instruction names

poolVars  == <<workers, task>>
cacheVars == <<pull_feed_cache, job_cache>>
chainVars == <<account, reconfigs>>
callVars  == <<request, consensus, feed_datas, num_signatures, answered, feed_pubkeys>>
vars      == <<poolVars, chainVars, cacheVars, pc, callVars>>

Hashes == DOMAIN JobShard
Config == [feed_hash : Hashes, min_sample_size : Nat]

ASSUME UpdateFetchAssumption ==
    /\ IsFiniteSet(Calls)
    /\ Requests \subseteq Seq(Feeds) \ {<<>>}
    /\ NumSignatures \subseteq Nat
    /\ None \notin Nat
    /\ Configs \subseteq Config
    /\ DOMAIN FeedShard = Feeds
    /\ WorkerCounts \subseteq Nat \ {0}
    /\ \A tasking \in Taskings : tasking = [c \in Calls |-> tasking[c]]
    /\ Default \notin Feeds
    /\ Answers \subseteq Seq(Hashes) \ {<<>>}
    /\ Unset \notin Config
    /\ MaxReconfigs \in Nat

(* On a worker; at an await; neither.  *)
OnWorker  == {"wantFeed", "wantJobs"}
Suspended == {"loadFeed", "loadJobs", "slothash", "gateway", "luts"}
Over      == {"idle", "returned", "failed"}

Init ==
    /\ workers \in WorkerCounts
    /\ task \in Taskings
    /\ account \in [Feeds -> Configs]
    /\ reconfigs = 0
    /\ pull_feed_cache = [f \in Feeds |-> Unset]
    /\ job_cache = {}
    /\ pc = [c \in Calls |-> "idle"]
    /\ request = [c \in Calls |-> <<>>]
    /\ consensus = [c \in Calls |-> FALSE]
    /\ feed_datas = [c \in Calls |-> <<>>]
    /\ num_signatures = [c \in Calls |-> 0]
    /\ answered = [c \in Calls |-> <<>>]
    /\ feed_pubkeys = [c \in Calls |-> <<>>]

----------------------------------------------------------------------------
(* The feed a call is at, its data, and who holds which shard.             *)
Feed(c) == request[c][Len(feed_datas[c]) + 1]
Data(c) == Last(feed_datas[c])

HoldersLeftByFailures(s) ==                                       \* mutant
    {c \in Calls : /\ pc[c] \in {"loadFeed", "failed"}
                   /\ Len(feed_datas[c]) < Len(request[c])
                   /\ FeedShard[Feed(c)] = s}

FeedHolders(s) == {c \in Calls : pc[c] = "loadFeed" /\ FeedShard[Feed(c)] = s}
JobHolders(s)  == {c \in Calls : pc[c] = "loadJobs" /\ JobShard[Data(c).feed_hash] = s}

(* The tasks that occupy a worker.  A task takes up one of its calls at a  *)
(* time, and needs a worker for it.                                        *)
BusyTasks == {task[c] : c \in {d \in Calls : pc[d] \in OnWorker}}

AnyWorkerFree(c) == Cardinality(BusyTasks) < workers               \* mutant

MayRun(c) == task[c] \notin BusyTasks /\ Cardinality(BusyTasks) < workers

GoesTo(c, place) == pc' = [pc EXCEPT ![c] = place]

(* A third more than the feed's least sample, rounded up.  *)
LowerBound(data) == data.min_sample_size + (data.min_sample_size + 2) \div 3

(* A single feed uses the caller's number as it is, if there is one; the   *)
(* consensus call raises it to what each feed needs.                       *)
SignaturesOfLast(c, data) ==                                      \* mutant
    IF consensus[c] THEN LowerBound(data) ELSE num_signatures[c]

SignaturesWith(c, data) ==
    IF \/ num_signatures[c] = None
       \/ consensus[c] /\ num_signatures[c] < LowerBound(data)
    THEN LowerBound(data)
    ELSE num_signatures[c]

TakeFeed(c, data) ==
    /\ feed_datas' = [feed_datas EXCEPT ![c] = Append(@, data)]
    /\ num_signatures' = [num_signatures EXCEPT ![c] = SignaturesWith(c, data)]
    /\ GoesTo(c, "wantJobs")

(* Jobs of the last feed taken: on to the next one, or to what comes after *)
(* the loop.                                                               *)
AfterJobs(c) ==
    IF Len(feed_datas[c]) < Len(request[c]) THEN "wantFeed"
    ELSE IF consensus[c] THEN "slothash" ELSE "gateway"

----------------------------------------------------------------------------
StartSingle(c, req, n) ==
    /\ pc[c] = "idle" /\ MayRun(c)
    /\ Len(req) = 1
    /\ request' = [request EXCEPT ![c] = req]
    /\ num_signatures' = [num_signatures EXCEPT ![c] = n]
    /\ GoesTo(c, "slothash")
    /\ UNCHANGED <<poolVars, chainVars, cacheVars, consensus, feed_datas, answered, feed_pubkeys>>

StartConsensus(c, req, n) ==
    /\ pc[c] = "idle" /\ MayRun(c)
    /\ request' = [request EXCEPT ![c] = req]
    /\ num_signatures' = [num_signatures EXCEPT ![c] = IF n = None THEN 1 ELSE n]
    /\ consensus' = [consensus EXCEPT ![c] = TRUE]
    /\ GoesTo(c, "wantFeed")
    /\ UNCHANGED <<poolVars, chainVars, cacheVars, feed_datas, answered, feed_pubkeys>>

(* pull_feed_cache.entry: blocks while the shard is locked, also for a key *)
(* that is there; suspends with the shard locked when the key has to be    *)
(* loaded.                                                                 *)
EnterFeedUncached(c) ==                                           \* mutant
    /\ pc[c] = "wantFeed"
    /\ FeedHolders(FeedShard[Feed(c)]) = {}
    /\ GoesTo(c, "loadFeed")
    /\ UNCHANGED <<poolVars, chainVars, cacheVars, callVars>>

EnterFeed(c) ==
    /\ pc[c] = "wantFeed"
    /\ FeedHolders(FeedShard[Feed(c)]) = {}
    /\ IF pull_feed_cache[Feed(c)] # Unset
       THEN TakeFeed(c, pull_feed_cache[Feed(c)])
       ELSE GoesTo(c, "loadFeed") /\ UNCHANGED <<feed_datas, num_signatures>>
    /\ UNCHANGED <<poolVars, chainVars, cacheVars, request, consensus, answered, feed_pubkeys>>

FeedLoaded(c) ==
    /\ pc[c] = "loadFeed" /\ MayRun(c)
    /\ pull_feed_cache' = [pull_feed_cache EXCEPT ![Feed(c)] = account[Feed(c)]]
    /\ TakeFeed(c, account[Feed(c)])
    /\ UNCHANGED <<poolVars, chainVars, job_cache, request, consensus, answered, feed_pubkeys>>

EnterJobs(c) ==
    /\ pc[c] = "wantJobs"
    /\ JobHolders(JobShard[Data(c).feed_hash]) = {}
    /\ GoesTo(c, IF Data(c).feed_hash \in job_cache THEN AfterJobs(c) ELSE "loadJobs")
    /\ UNCHANGED <<poolVars, chainVars, cacheVars, callVars>>

JobsLoaded(c) ==
    /\ pc[c] = "loadJobs" /\ MayRun(c)
    /\ job_cache' = job_cache \cup {Data(c).feed_hash}
    /\ GoesTo(c, AfterJobs(c))
    /\ UNCHANGED <<poolVars, chainVars, pull_feed_cache, callVars>>

SlotFetched(c) ==
    /\ pc[c] = "slothash" /\ MayRun(c)
    /\ GoesTo(c, IF consensus[c] THEN "gateway" ELSE "wantFeed")
    /\ UNCHANGED <<poolVars, chainVars, cacheVars, callVars>>

(* The feed that a median response is taken to be about: the first one of  *)
(* the request with the hash of the response, if there is one.             *)
NamedByPlace(c, hashes, k) == request[c][k]                       \* mutant

NamedByHash(c, hashes, k) ==
    LET place == SelectInSeq(feed_datas[c], LAMBDA data : data.feed_hash = hashes[k])
    IN  IF place = 0 THEN Default ELSE request[c][place]

(* The gateway's median responses carry the hashes of the jobs that it ran *)
(* for a consensus call.  It may leave feeds out, answer in another order, *)
(* or with hashes that are not in the request.  What it sends to a single  *)
(* call is taken to be about the call's feed.                              *)
Answered(c, hashes) ==
    /\ pc[c] = "gateway" /\ MayRun(c)
    /\ ~consensus[c] => hashes = <<>>
    /\ answered' = [answered EXCEPT ![c] = hashes]
    /\ feed_pubkeys' = [feed_pubkeys EXCEPT ![c] =
           IF consensus[c] THEN [k \in DOMAIN hashes |-> NamedByHash(c, hashes, k)]
           ELSE request[c]]
    /\ GoesTo(c, "luts")
    /\ UNCHANGED <<poolVars, chainVars, cacheVars, request, consensus, feed_datas, num_signatures>>

LutsFetched(c) ==
    /\ pc[c] = "luts" /\ MayRun(c)
    /\ GoesTo(c, "returned")
    /\ UNCHANGED <<poolVars, chainVars, cacheVars, callVars>>

(* Any await may end in an error that the call returns or panics with: a   *)
(* missing account, a bad status, a time-out, no successful response,      *)
(* signatures over different messages.  That unlocks the shard and leaves  *)
(* the cell uninitialised.                                                 *)
Fail(c) ==
    /\ pc[c] \in Suspended /\ MayRun(c)
    /\ GoesTo(c, "failed")
    /\ UNCHANGED <<poolVars, chainVars, cacheVars, callVars>>

(* The feed's authority changes its account.  *)
Reconfigure(f, config) ==
    /\ reconfigs < MaxReconfigs
    /\ account' = [account EXCEPT ![f] = config]
    /\ reconfigs' = reconfigs + 1
    /\ UNCHANGED <<poolVars, cacheVars, pc, callVars>>

Progress(c) ==
    \/ EnterFeed(c) \/ FeedLoaded(c)
    \/ EnterJobs(c) \/ JobsLoaded(c)
    \/ SlotFetched(c)
    \/ \E hashes \in Answers \cup {<<>>} : Answered(c, hashes)
    \/ LutsFetched(c)

Next ==
    \/ \E c \in Calls, req \in Requests, n \in NumSignatures \cup {None} :
          StartSingle(c, req, n) \/ StartConsensus(c, req, n)
    \/ \E c \in Calls : Progress(c) \/ Fail(c)
    \/ \E f \in Feeds, config \in Configs : Reconfigure(f, config)

Spec == Init /\ [][Next]_vars

(* Replies come or time out, and a worker that is free takes up each task  *)
(* with a call whose reply has come.                                                   *)
FairSpec == Spec /\ \A c \in Calls : WF_vars(Progress(c) \/ Fail(c))

----------------------------------------------------------------------------
TypeOK ==
    /\ workers \in WorkerCounts
    /\ task \in Taskings
    /\ account \in [Feeds -> Configs]
    /\ reconfigs \in 0..MaxReconfigs
    /\ pull_feed_cache \in [Feeds -> Configs \cup {Unset}]
    /\ job_cache \subseteq Hashes
    /\ pc \in [Calls -> OnWorker \cup Suspended \cup Over]
    /\ request \in [Calls -> Requests \cup {<<>>}]
    /\ consensus \in [Calls -> BOOLEAN]
    /\ feed_datas \in [Calls -> Seq(Configs)]
    /\ num_signatures \in [Calls -> Nat \cup {None}]
    /\ answered \in [Calls -> Seq(Hashes)]
    /\ feed_pubkeys \in [Calls -> Seq(Feeds \cup {Default})]

(* What a consensus call asks for is enough for every feed it has read, in *)
(* whatever order small and large ones come, and whatever the caller says. *)
EnoughSignatures ==
    \A c \in Calls : consensus[c] =>
        \A k \in DOMAIN feed_datas[c] : num_signatures[c] >= LowerBound(feed_datas[c][k])

(* All calls of a process use one configuration of a feed, the first that  *)
(* one of them loaded, whatever changes on chain and whichever loads fail  *)
(* or overlap: two instructions for a feed never disagree about it.        *)
OneSnapshot ==
    \A c, d \in Calls : \A j \in DOMAIN feed_datas[c], k \in DOMAIN feed_datas[d] :
        request[c][j] = request[d][k] => feed_datas[c][j] = feed_datas[d][k]

(* Beside every value that a consensus call submits stands a feed of its   *)
(* request whose jobs, as all calls know them, have the hash of the value, *)
(* and Pubkey::default() if there is none: answers may be missing, be of   *)
(* other jobs, or come in any order.  A feed whose hash was answered goes  *)
(* without a value only if an earlier one of the request has the same.     *)
HashOf(f) == pull_feed_cache[f].feed_hash

NamesAnsweredFeeds ==
    \A c \in Calls : consensus[c] /\ feed_pubkeys[c] # <<>> =>
        /\ \A k \in DOMAIN answered[c] :
              LET computedFor == {f \in ToSet(request[c]) : HashOf(f) = answered[c][k]}
              IN  IF computedFor = {} THEN feed_pubkeys[c][k] = Default
                  ELSE feed_pubkeys[c][k] \in computedFor
        /\ \A j \in DOMAIN request[c] :
              /\ \E k \in DOMAIN answered[c] : answered[c][k] = HashOf(request[c][j])
              /\ \A k \in DOMAIN feed_pubkeys[c] : feed_pubkeys[c][k] # request[c][j]
              => \E i \in 1..(j - 1) : HashOf(request[c][i]) = HashOf(request[c][j])

(* Who waits for whom: a call that blocks at a shard for the calls that    *)
(* hold it, and a suspended one for a call of its task that blocks.        *)
ShardHolders(c) ==
    CASE pc[c] = "wantFeed" -> FeedHolders(FeedShard[Feed(c)])
      [] pc[c] = "wantJobs" -> JobHolders(JobShard[Data(c).feed_hash])
      [] OTHER -> {}

Blocked(c) == ShardHolders(c) # {}

(* Calls that wait only for each other, as two joined calls do when one    *)
(* wants the shard that the other holds; and calls that wait for a worker  *)
(* when every worker is blocked.                                           *)
Knot(K) ==
    \A c \in K :
        \/ Blocked(c) /\ ShardHolders(c) \subseteq K
        \/ pc[c] \in Suspended /\ \E d \in K : Blocked(d) /\ task[d] = task[c]

AllBlocked == Cardinality({task[c] : c \in {d \in Calls : Blocked(d)}}) >= workers

UnderWay == {c \in Calls : pc[c] \notin Over}

HeldUp(c) == c \in UnderWay /\ (AllBlocked \/ \E K \in SUBSET UnderWay : c \in K /\ Knot(K))

(* Nothing frees calls that hold each other up, neither a reply nor its    *)
(* time-out: to take those up needs the worker that is blocked.            *)
HeldUpForEver ==
    [][\A c \in Calls : HeldUp(c) => HeldUp(c)' /\ pc'[c] = pc[c]]_vars

(* There is no other way for a call not to end: every one returns or fails *)
(* unless it waits for calls that wait for each other, or all workers are  *)
(* blocked.                                                                *)
EveryCallEnds == \A c \in Calls : pc[c] \notin Over ~> pc[c] \in Over \/ HeldUp(c)
=============================================================================
