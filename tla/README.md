# Verification of the Switchboard SDK

TLA+ models of the protocol logic in this repository, TLC configurations that
check them on small instances, and TLAPS proofs of what holds for every value of
the constants.

    tlc -workers 2 -config MCCrank.cfg MCCrank     one run
    tlapm OracleQueueProofs.tla                    one module of proofs

## 1. The system

Switchboard feeds bring data on chain. The repository holds two contracts for
Aptos whose whole code is here, and the libraries and clients of a Solana
program and of EVM contracts that live elsewhere.

| Component | Source | State | Model |
|---|---|---|---|
| Oracle queue, oracles | `aptos_v2 schemas/oracle_queue.move, oracle.move`, heartbeat, init, configs | rows of a queue, two cursors; row counter and heartbeat time of an oracle | `OracleQueue` |
| Permissions | `schemas/permission.move` | a bit set per (authority, queue, grantee) | heartbeat bit in `OracleQueue`, queue bit as a refusal in `FeedRounds` |
| Crank | `schemas/crank.move`, push and pop actions | binary heap of (feed, time), jitter | `CrankHeap`, `Crank`, abstractly `FeedSchedule` |
| Schedule of a feed | `schemas/aggregator.move` | next allowed time, crank row count | `FeedRounds` |
| Rounds of a feed | `schemas/aggregator.move`, open_round, save_result | current round, latest confirmed round | `AggregatorRound` |
| Leases, oracle wallets | `schemas/escrow.move`, lease and wallet actions, settlement in open_round | balances | `RoundPayouts` |
| on_demand feeds | `on_demand schemas/aggregator.move`, submit_result | ring of updates, current result | `FeedUpdates` |
| on_demand oracles | `schemas/oracle.move`, attest, override | keys, expiration, attestations | `OracleAttestation` |
| on_demand queues, batches, bytes | `schemas/queue.move`, `update_action.move`, `utils` | fees, authorities, lists | not modelled: section 7 |
| Event client (Rust) | `switchboard-on-demand/src/client/event_client.rs` | a subscription, retries and delay, handlers and channels | `EventClient` |
| Fetching of updates (Rust) | `switchboard-on-demand-client/src/pull_feed.rs, gateway.rs, crossbar.rs` | caches of feeds and jobs shared by concurrent calls | `UpdateFetch` |
| Lookup tables (Rust) | `switchboard-on-demand-client/src/lut.rs, lut_owner.rs, pull_feed.rs` | a cache of tables per owner, against tables on chain | `LookupTables` |
| Transaction builder (Rust) | `switchboard-on-demand/src/client/transaction_builder.rs` | instructions, signers, payer, tables | `TransactionBuilder` |
| Solana accounts (Rust) | `switchboard-on-demand/src/on_demand` | views of accounts written elsewhere | not modelled: section 7 |
| Solana SDK (TypeScript) | `solana/javascript/on-demand` | clients of the same program | not modelled: section 7 |
| EVM messages, sail, generated jobs, scripts | see `PROJECT.json` | none | not modelled |

How they interact in aptos_v2. An oracle's heartbeat pushes its row into its
queue once and examines one row for garbage collection. A feed asks the queue for
the next `batch_size` oracles whenever a round is opened. A round is opened by
anybody directly, or by a crank turn that pops a row, simulates the opening,
opens the round or not, and puts the row back or not. Oracles of the round send
answers or errors; when enough have answered the round is copied to the latest
one. A relay of signed answers publishes without a round and wipes the open one.
Opening a round settles the one before: rewards go from the feed's lease to the
oracles' wallets, fines the other way.

In on_demand there are no rounds: anybody submits an answer that an enabled
oracle signed, and each one recomputes the result from the newest fresh answer of
each oracle. Oracles are enabled by attestations of guardians, or by override.

The Rust libraries run off chain. Every call of `fetch_update_ix` and of its
consensus variant that shares an `SbContext` shares three caches: of feeds, of
jobs and of lookup tables. A call awaits RPC nodes and gateways in between, so
calls interleave at each await, on as many threads as the runtime has. What they
return is put in a `TransactionBuilder` beside the cached tables, and the
transaction lands some slots later, when the tables may have changed. The event
client is a task of its own beside the node that serves its subscription and
the receivers of its channels.

On Aptos every entry function is an atomic transaction. Nothing runs concurrently within
one, but anybody may call any of them between any two others, with any
arguments, and off-chain parties may stop, repeat or delay. That is where this
code is hard:

- two records that must agree are written by different functions: the row
  counter and the rows of a queue, the crank row count and the heap, the counters
  and the vectors of a round;
- a configuration changes while something that was read from it is under way: an
  open round, a scheduled row, a queue that an oracle has rows in;
- an index survives a `swap_remove`: two cursors, a heap;
- answers come late, twice, to the round after, or after a relay;
- balances run dry half way through a settlement;
- fixed-width arithmetic aborts, and an abort blocks whatever needs that call;
- a lock is held across an await while those who want it block their threads;
- a cache is filled once and used after what it holds has changed on chain;
- one task forwards events to many channels, any of which may be full or gone.

`PROJECT.json` lists these hazards at their lines with the properties that cover
them.

### What makes each component correct

- Queue: a row per live oracle and no other, cursors inside, distinct oracles in
  a round, silent oracles leave and only those.
- Crank: one row per feed, earliest row first, no row lost, every due row gets its
  turn, rounds spaced by the least delay.
- Round: counters agree with answers, what is published is the median of enough
  answers of one round, never replaced by an older one.
- Payouts: no coin made or lost, whoever agreed is paid in order while the lease lasts, fines
  only for silence or deviation.
- on_demand feed: the newest fresh answer of each oracle counts, the result is their
  median, time does not go back, no update is refused without need.
- on_demand oracle: enough guardians enable it.
- Event client: nothing a served subscription notified is lost, doubled or put out of
  order for a receiver; it gives up only when its limit says, and else subscribes again.
- Fetching: enough signatures for each feed, values beside their feeds, one
  configuration of a feed per process, no call kept for ever but by calls that wait for each other.
- Tables and transactions: an account that is looked up is the one that was meant
  or the chain refuses; a table goes to another owner than its own only past one that
  was not found; what is built can be signed.

## 2. Modules

| Module | Models | Composition |
|---|---|---|
| `OracleQueue` | one action per entry function: init, configs, permission, heartbeat (push, examine, collect), `NextN`, time | |
| `OracleQueueProofs` | seven theorems | extends `OracleQueue` |
| `FeedRounds` | the part of a feed a crank turn reads and writes, `OpenRound`, `SetConfigs`, time | |
| `FeedSchedule` | abstract specification of cranks: sets of rows, any row may be turned | extends `FeedRounds` |
| `FeedScheduleProofs` | eight theorems | extends `FeedSchedule` |
| `CrankHeap` | `push` and `pop` of the heap, on rows with a timestamp; a loop is a function of the number of its passes | |
| `Crank` | the crank actions on heaps; refines `FeedSchedule` | extends `FeedRounds`, `CrankHeap`, instances `FeedSchedule` |
| `CrankProofs` | eight theorems, on one heap and on the refinement | extends `Crank`, `MCCrankHeap`, instances `FeedScheduleProofs` |
| `AggregatorRound` | open_round, save_result, errors, relays, configs | |
| `RoundPayouts` | rounds with lease, wallets, settlement | extends `AggregatorRound` |
| `RoundProofs` | twelve theorems, on rounds and on their payouts | extends `RoundPayouts`, instances `FeedRegister` |
| `FeedUpdates` | ring, choice of updates, quickselect, Welford's mean | |
| `FeedUpdatesProofs` | eight theorems | extends `FeedUpdates`, instances `FeedRegister` |
| `FeedRegister` | abstract specification of a feed of either contract: a value in the middle of enough answers, and its time | |
| `OracleAttestation` | oracle init, attest, override, configs | |
| `EventClient` | the builders and the loop of `start_pubsub` as one task; node, logs and receivers as its environment | |
| `EventClientProofs` | three theorems | extends `EventClient` |
| `UpdateFetch` | both fetching calls step by step from await to await, caches with locked shards, tasks and the pool of threads, changes on chain | |
| `UpdateFetchProofs` | six theorems | extends `UpdateFetch` |
| `LookupTables` | status and lookup of a table, its life on chain, loading and caching of tables per owner | |
| `TransactionBuilder` | the six conversions of a builder with the order of their checks; a v0 transaction and what it loads when it lands | extends `LookupTables` |
| `TransactionBuilderProofs` | four theorems about both | extends `TransactionBuilder` |

Correspondence. A variable has the name of the field it models; a field of a
resource is a function of its address, and a resource that does not exist is
`None`, or is outside the domain. A failed assertion, an arithmetic abort or an
out-of-range index is a guard, since an aborted transaction changes nothing. A
function that returns without effect is a step that changes nothing. Vectors are
sequences; indices keep the values of the code, from 0, in variables that the code
keeps. Operators marked `\* mutant` are plausible errors of the operator after
them; nothing in a specification uses them.

Abstractions that matter:

- `OracleQueue` keeps the seconds since a heartbeat, saturated past the period, not
  the time of it: the code only compares that difference with the period.
- `FeedRounds` does not keep what a lease holds, what a permission says and the size of the queue: a
  simulation may have any outcome that some state of those gives, in the order the code checks. Whether
  the records exist is kept (`lacking`), for a feed's escrow, its permission and the wallet of an oracle of
  its round: a turn that looks for one that is missing aborts, and the row stays.
- `CrankHeap` keeps rows as records; the same heap is used by `MCCrankHeap` alone.
- Answers are small naturals in `AggregatorRound`, integers in `FeedUpdates`; mean
  and deviation are rounded to whole numbers, in the direction the code rounds
  its last digit. Overflow is kept where it can be reached: `MaxU128` in
  `FeedUpdates`.
- In `EventClient` delays are multiples of 500 ms and a log is a list of lines, each
  of which says whether it decodes, to which event type, and whether the event parses. The builders are
  actions before `Start`, which consumes the client: nothing else can reach it afterwards.
  Which receivers keep taking what is sent to them (`diligent`) is chosen at the start.
- In `UpdateFetch` a shard of a `DashMap` is held by the calls whose place in the code
  is between taking the guard and dropping it, so it is derived and not kept; one shard per cache
  in the run is the worst distribution of keys. `task` says which calls one task runs, one of them at a
  time as `join!` does. Gateways answer with any hashes, of the request or not; a value whose hash no feed of the
  request has is submitted beside `Default`, the `Pubkey::default()` of the code.
- In `LookupTables` the chain's own program is external: creation, extension,
  deactivation and closing follow the rules that `lut.rs` reads from and its comments state.
- Blockhashes and sizes of transactions are left out of `TransactionBuilder`.
- Signatures are the key that is recovered. In `OracleAttestation` the keys of 32
  and of 64 bytes are disjoint sets.

## 3. Runs

In every passing run TLC exhausts the state space.

| Run | Instance | Shows |
|---|---|---|
| `oracle_queue` | 2 queues between which 2 oracles move, one of them faithful, batches of 1 and 2, period 1 | counters agree with rows; cursors stay inside; a round's oracles differ; only expired oracles are booted; silent ones are booted (fairness) |
| `feed_schedule` | 1 feed, 2 cranks, delays 1 to 3 with least delay 2, all refusals, time 5 | one row per feed, which the row count agrees with unless it was evicted; spacing of rounds; a feed leaves a crank only in a turn whose simulation had an outcome that is a cause |
| `crank_heap` | every heap of up to 6 rows, with any times 0..2, and any index popped | heap order while only heads are popped; the bag of rows changes by the row pushed or popped |
| `crank` | 3 feeds, each of which may lack another record, 1 crank, time 2 | heaps implement `FeedSchedule`; due rows are turned or the turn of the head aborts (fairness) |
| `aggregator_round` | 3 oracles, batches (2 of which 1 must answer) and (3, 2), 2 published rounds, relays of up to 2 updates | counters, median, age of the published round, answers stay, enough answers |
| `round_payouts` | 2 oracles, batches of 2 that both must answer and of 1, lease and wallets of up to 12 coins in loads of 3, `save_reward` greater than what the lease is checked for, 2 published rounds | coins are conserved and no escrow overdrawn, agreement is paid in order until the lease is used up, fines have a cause, the only answer behind a result is not fined |
| `feed_updates` | 3 oracles, ring of 3, answers -3, 0, 4, staleness 0 or 1, sample of 2 | valid updates, median, mean, time, refusals |
| `event_client` | 2 event types, 2 channels with room for one event each, whose receivers keep taking or stop or go away; 5 lines, limits 0, 1, 3 and none | nothing skipped, the task gives up and waits as it should; it subscribes again, and all events reach a receiver that keeps taking unless a full channel of another is never emptied (fairness) |
| `update_fetch` | 2 calls of either kind for 1 or 2 feeds, in tasks of their own or joined in one, 1 or 2 threads, one shard per cache, answers in or out of order or to nothing asked, no, 0 or 3 signatures asked for, 1 change on chain | signatures, naming of feeds, one snapshot; calls that hold each other up stay so, and every other call ends (fairness) |
| `transaction` | 2 owners, 2 tables, 1 recent slot, slots to 3, 2 builders, 2 fetching calls | lookups land as written; no address serves lookups again; tables move to other owners only past missing ones |
| `aggregator_round_min` | 1 oracle | *violated*: see section 6 |
| `oracle_attestation` | 2 oracles, a queue with a guardian queue | *violated* |

The type invariants (`TypeOK`, `RoundTypeOK`) hold in the same instances and are parts of the
inductive invariants of section 5 where those need them; the runs spend their properties on the rest.

Each property of a passing run has a mutant of a mapped definition in
`PROJECT.json` under which the same run finds it violated.

Why the bounds suffice for what is asked of them:

- Two rows put the removed row of `swap_remove` before and at each cursor and at the
  last place; batches of 1 and 2 move the assignment cursor out of step with the rows.
  Two queues are all that a move involves. The four safety properties of the run are
  proved for any number of rows, oracles and queues; of `SilentAreBooted` that is
  proved which makes fairness enough (`CollectorComes`).
- Six rows make a heap of three levels whose last one is part full, with cousins:
  popping an index in one subtree moves a row of the other there.
- `feed_schedule` has time for three rounds at the least delay and for a change of
  each configuration in between; both cranks and both jitters are in it.
- A settlement reads one round and writes balances. The bounds of `round_payouts`
  hold two settlements, the second from balances that the first has moved.
- A batch of 2 that is settled when the batch is 1, and a `save_reward` above
  `save_confirmation_reward`, are the cases in which the lease is checked for less than it pays. A batch of 2
  that both must answer leaves rounds with one answer and without a result, settled by an earlier one.
- The ring is full after three updates and the run exhausts what follows, so that it
  wraps to every position. Sixteen in the code is three here; nothing depends on it being
  more than the number of oracles. With `MaxU128 = 24`, the extremes -3 and 4
  cannot be fresh together, and 0 and 4 can.
- Five lines are two logs of a transaction, one of them the longest, or more short ones: the
  bounded channels fill, each waits for the other, the stream backs up, and connections close with lines left in it. Limits of 0 and 1 are the edges of the count, 3 lets it grow, and
  `MaxFailures` of 6 takes the delay past its longest.
- Two calls and one or two threads, each call a task or both in one, are all the kinds of
  crowding: fewer threads than tasks, or as many, and a task that waits for itself. What is proved of it is
  for any number.
- One recent slot makes the cool-down of tables as short as it can be; slots up to
  3 leave room to create, deactivate, close and try to create anew. With one address in a table
  the run extends an empty table only, and what extension does to a cached table that has addresses is
  left to the theorem. The proofs are for any length.
- Clocks are bounded by `MaxTime`, slots by `MaxSlot`, tables by `MaxTables` and
  `MaxAddresses`, changes of accounts by `MaxReconfigs`, lines by `MaxLines`, failures
  without a limit by `MaxFailures`, rounds by `MaxId`, coins by `MaxFunded`,
  relays by `MaxRelayed`, rows of `crank_heap` by `MaxRows`
  and their times by `MaxRowTime`. Guards with these
  bounds are the only ones that are not the code's.

`CHECK_DEADLOCK FALSE` is used where the system may stop: the bounded clock ends and
every feed may have been refused its row for good (`crank`), the client has given up or
panicked (`event_client`), all calls have ended or block each other (`update_fetch`), a
transaction without lookups has been built (`transaction`).

## 4. Fairness

- `OracleQueue`: weak fairness of the heartbeat of `Faithful` oracles. An oracle
  process sends heartbeats on a timer for as long as it runs; no other party is
  assumed to act, and the property concerns a queue only while one faithful
  oracle has its row and its permission there.
- `Crank`: weak fairness of popping the head and of the clock. Turners are paid
  for the rounds they open, and anybody may turn. They name a coin for which the
  queue exists, or the turn fails: so `TurnHead` leaves out `QueueNotFound`. A turn that aborts, at a
  record that does not exist, is no step, and `DueRowsAreTurned` says that nothing else keeps a due row waiting.
- `OracleAttestation`: weak fairness of each attestation that a guardian can
  make with its key. The property assumes guardians that stay enabled and attest.

- `EventClient`: weak fairness of the steps of the task, which is never cancelled and
  only waits for timers, sends and replies; strong fairness of a subscription that
  succeeds, for a node that is asked for ever serves some time, as the retries presume; weak
  fairness of `Receive` for the channels in `diligent`, any set of them. A bounded channel whose receiver
  neither takes nor goes away holds back every other event once it is full, which `AllServed` names as the
  only thing that does.
- `UpdateFetch`: weak fairness, per call, of its next step or its failure: replies
  come or time out, and the runtime takes up a call whose reply has come when a thread is
  free and its task runs no other call. `EveryCallEnds` says that a call ends unless it is held up
  (`HeldUp`): all threads are blocked, or some calls wait only for each other. The second needs no shortage of
  threads: of two calls joined in one task, one that blocks the thread on a shard that the other holds across
  an await keeps the task from ever taking up the other.

Nothing else is fair: users open rounds, change configurations and send answers
if they like.

## 5. Proofs

All theorems are for any set of queues, oracles, feeds, cranks, authorities and
values, and assume only what the `ASSUME` of the module says of the constants
(that a period is natural, that a null value is none of the others, that the least
delay is positive, that `0 < min_oracle_results <= batch_size`, that there are
finitely many oracles where their wallets are summed), with one hypothesis
more in one theorem: that there are finitely many oracles in `CollectorAlwaysComes`, since it counts them.

Liveness itself is out of the prover's reach. Where it could be done, what liveness
rests on is proved as an action property: a natural number that bounds how many
steps are left until the event, that no step raises and that each step of the kind
that fairness promises lowers. What is left to TLC is that such steps go on
being taken.

What loops compute is proved too. A loop of the code is a function defined by
recursion on the number of its passes, bounded by what bounds the loop. A proof
about one has two parts: that the function exists (`IterationExists` and its
likes build it pass by pass), and that what holds at the start and is kept by a
pass holds at the end. Induction is used in the form of a statement about a set: a
set that contains 0, and with each number the next, contains all of them
(`NatSetInduction`, from the least element of a non-empty set of naturals). For sums over
sets it is the same with finite sets.

**OracleQueue.** `IInv` is type correctness, `RowsMatchCounter`, `CursorsInBounds`
and `Existence`. `RowsMatchCounter` alone is not inductive: a heartbeat indexes
the rows with a cursor, and if the cursor is outside the removal takes another
row than the one examined. `CursorsInBounds` in turn needs that a queue that does
not exist has no rows (`Existence`), or creating it would reset the cursors of a
queue that has some. The heartbeat is taken in two halves, push and removal, with
a lemma for each about any assignment of rows and counters. `AssignedOnce` needs of it that the rows of a queue differ and the cursor is inside:
then row `k` of a batch is the cursor plus `k`, less the length at most once, and no two agree while the
batch is not longer than the queue.

`CollectorComes` counts what keeps the collector from a silent oracle's row
(`HeartbeatsLeft`): how far the cursor is from it on its way round, and the place of the row, weighed with
the number of oracles. A heartbeat that examines another row and leaves it brings
the cursor one nearer. One that removes a row may move this one, which `swap_remove` takes
from the end to the place that was freed, behind the cursor: that may cost a whole round, but
its place is then an earlier one, and outweighs it. So a row is never carried before
the collector for ever, which no bound on the distance alone would show. Theorems: type
correctness, `RowsMatchCounter`, `CursorsInBounds`, `AssignedOnce`, and the action
properties `BootsOnlyExpired` and `CollectorComes`.

**FeedSchedule.** `IInv` is type correctness, `OneRowPerFeed` and `DelayKept`. A
push is guarded by the count only, so that rows are unique follows from the
count, and that the count is 1 while there is a row follows from the uniqueness
(a turn lowers it when it drops *the* row). The spacing of rounds is an action
property from `DelayKept`, which bounds the next allowed time from below, and
`can_open_round`. `TurnsBringForward` measures how far a due row is from its turn
(`TurnsBefore`), by the rows that are due before it and those of them whose mark is not the time their feed
is due: the turn of such a row puts it back behind this one, or once more
before it with its mark corrected, or drops it. It is stated for any row ahead, not for the head of a heap, since
a pop at another index breaks the order of the heap; and for feeds that have started, since one that has not
is put back where it was. `LeavesForCause` speaks of the step that drops a row: it is a turn of that row, of a feed
that is due, with one of the three outcomes that stand for a cause. `CountedOrEvicted` adds that the row count agrees
with the rows except for a feed that was evicted, whose count stays 1 without a row for ever; it follows a row
and its count through every outcome. Theorems: type correctness, `OneRowPerFeed`, `DelayKept`,
`RoundsSpaced`, `LeavesForCause`, `CountedOrEvicted`, `TurnsBringForward`.

**Crank.** Of one heap: a pass swaps two rows, which keeps the number of rows of
each timestamp, the set of rows and that no row is there twice (`Shuffled`). While a loop runs
the order is broken in one place, and what keeps it from spreading is that the
children of the row at work are not earlier than that row's parent
(`OrderedAbove`, `OrderedBelow`); a loop ends within as many passes as there are rows because
the index falls, or rises. That the head is earliest of all is an induction over the indices.
Of the cranks: the mapping takes a heap to the set of its rows. A heap may not hold a row twice, or a pop
would leave what the set loses; that is not a fact of heaps but of the schedule, `OneRowPerFeed`, so the
invariant of the schedule and that of the heaps are proved together: each action of
`Crank` is shown to be the action of `FeedSchedule` of the same name on the sets, with lemmas for push and pop,
and `FeedScheduleProofs` is instanced for what those keep. Theorems: `HeapOrdered`,
`RowsConserved`, `EarliestPopped` (a pop of the head returns a row that is due first), `ImplementsSchedule`,
and with it `OneRowPerFeed` and `TurnsBringForward` of heaps. The order of the heap is needed for none of the refinement.

**AggregatorRound.** `IInv` is `Typed` (which fields a round has and their types),
`AnswersCounted` and `Timeline` (a round that may still be answered is the latest
one or the one after it, and was not opened before it; a round that a relay
overtook has no keys left). `AnswersCounted` states the lengths of the vectors too,
since a configuration may change the batch between opening and answer; the
cardinalities are handled by one lemma on marking an index that was not marked. `LatestNeverOlder` is an
action property that needs `Timeline`. `LatestIsMedian` needs that the statistics of a round are
taken again with every answer once it has enough, also after it was published, and that a relay's are
taken of its fresh updates: the values they are taken of are those of the answers, as many as
there are answers, in the order of the vector.

`FeedRegister` is what both contracts promise: `value` moves only to one in the middle of
`enough` answers, at a time not before its last. `AggregatorRound` implements it with `min_oracle_results`, the result of
the latest round and the time of its confirmation. Beside the properties above this needs what `median` computes. That an answer of each
rank exists is an induction over values, from 0: the first value that more
answers than the rank do not exceed. The mean of the two middle ones, rounded down, is between them. That both contracts implement the
register is proved and not run: it takes any sequence of answers, which TLC cannot enumerate. Theorems: `AnswersCounted`,
`ConfirmedByEnough`, `LatestNeverOlder`, `AnswersStay`, `LatestIsMedian`, `RoundsImplementRegister`.

**RoundPayouts.** `PayoutsInv` adds to that invariant that balances are natural, that
no oracle sits twice in a batch, and conservation. A settlement is a function of how
many oracles of the round have been settled; each payment and each fine moves what it takes, so that the sum of lease and wallets is
kept (one lemma on a sum of which one term changes). `FinedForCause` and `PaidInOrder` follow an oracle through
the settlement: since it sits once, the wallet that it leaves is that before and what it is paid, or
less what is fined; fines only add to the lease.

The lease is checked for `max_round_cost`, the reward and `save_confirmation_reward` for each of the batch
and once more (`aggregator_open_round_action.move:69` and `:123`). What is paid is `save_reward` to
each oracle (`:248`) and `open_round_reward` to the caller, and the check
counts neither. Nothing in the code relates the three, so a lease that passes the check can run dry. `PaidInOrder` therefore
says what is left: each who agreed is paid what it is due, or all that those before it left, and nobody is paid
more than is due. The run has `SaveReward = 2` against 1, in which it does run dry. `LoneAnswerPaid`, that the only answer behind
a result is not fined, is checked and not proved. A step of
the composition is one of `AggregatorRound` or leaves its variables alone, so it implements `FeedRegister` too. Theorems:
`CoinsConserved`, `FinedForCause`, `PaidInOrder`, `PayoutsImplementRegister`.

**FeedUpdates.** `RingInOrder`: read from the place behind the index around to the
index, timestamps do not decrease, and the index is on the last update until the
ring is full. Either alone is not inductive: an index elsewhere would make the
next update break the order, and without the order the update replaced need not be
the oldest. The rest is about operators on such a ring. The search goes back from the index, so it meets
updates in the order of time, backwards: those behind the first stale one are all stale, and the first update of an oracle is
its newest (`ValidAreNewest`). Its first is the newest of the ring, whose time no update lowers; when a result is
published that is its greatest time (`MaxTimestampNeverBack`). The quickselect permutes: the number of
answers in any set stays as it was (`Rearranged`), the place of the median lies in `lo..hi`, no answer before `lo` exceeds one
from `lo` on, nor one up to `hi` one beyond it (`Splits`), and each round takes a place off `lo..hi`; so in the end as many
answers are below the result as its rank says (`ResultIsMedian`). A step of the mean goes
towards the next answer and, truncated towards zero, not beyond (`MeanWithinRange`); so each term of the sum of squares is
at most the square of the spread, and the first term is none. From that: an overflow refuses an update only
if `(n - 1) * spread^2`, or `n` times an answer, exceeds `MaxU128` (`UpdatesAcceptedUnlessSpread`). A smaller
bound on the squares would not hold: of the answers 0, 1, 1, ... the mean stays 0, each difference being too small for a
step, and the sum of squares becomes `n - 1`, where that of the true mean stays below 1. The feed implements `FeedRegister` with `min_sample_size`, the result and
the greatest time behind it: `ResultIsMedian` gives the middle and `MaxTimestampNeverBack` the order in time. Theorems: `RingInOrder`, `RingKeepsNewest`,
`ValidAreNewest`, `ResultIsMedian`, `MeanWithinRange`, `MaxTimestampNeverBack`, `UpdatesAcceptedUnlessSpread`, `ImplementsRegister`.

**EventClient.** The invariant relates the counter and the delay to the history of
failures in every state of the task; the wait that follows a failure and the test
that ends the task read them at different places. What is proved there of the number of attempts is the
code's `n`, of which `GivesUp` keeps what the documentation allows too (section 6). `NothingSkipped` is a second one, `FlowInv`: what a channel's receiver has taken, what waits in the
channel and what of the stream is for it are together what was notified for it. It is inductive once
it is said beside it that nothing was notified while the handlers may still change. Theorems: `GivesUp`,
`DelayFollowsFailures`, `NothingSkipped`.

**UpdateFetch.** `IInv` says of each call that what it has read is what the cache
holds now, that a call that loads a feed is the only one in that feed's shard and finds the
cell empty, and that what it asks for is enough for what it has read. Two loads of
one feed exclude each other by the shard, and the cell is written once: that is why
calls agree. `NamesAnsweredFeeds` follows a call: it names
feeds only after it has read all of its request, and reads none after that, so the first feed it finds with the hash
of a value is the first of the request with that hash, and it finds none, and names `Default`, only if there is none. How a call ends
is three theorems. `CallsRunOut`: the steps it has
left are counted by the feeds it has yet to read, four for each, and its place in the code; each
step lowers them and no other call's does anything to them. `StuckOnlyIfHeldUp`: a call that is suspended may go on if a
thread is free and its task has none, and one that has a thread unless it is blocked; if no call may go on, either all threads
are blocked or the calls under way wait only for each other. `HeldUpForEver`: then none of those takes any step, since even a time-out is noticed by a
thread of the task; for that a task never has more than one call on a thread, and there are never more busy
threads than the pool has (`OneAtATime`, the invariant it needs beside). Theorems: `EnoughSignatures`, `OneSnapshot`,
`NamesAnsweredFeeds`, `CallsRunOut`, `StuckOnlyIfHeldUp`, `HeldUpForEver`.

**TransactionBuilder.** `IInv` follows a place in a table from the cache into the transaction and
to the chain: the place holds the address that was read, or the table is gone and its
address is dead, since the slot in it is no longer recent. That a table is gone only
then needs that it was deactivated after that slot and that the recent slots are the newest
ones (`Aged`, and a lemma on the newest elements of a finite set). `OwnInv`, beside it, says that the tables a
call looks for are of owners it found missing, each at its owner's place. `MovedUpOverMissing` is then about ranks: the table at a place
of those found has at most the rank it has among those missing, so zipping takes it to its own place or to one before,
and if all up to that place were found the two ranks there agree. `SignableIsBuilt` needs no invariant of the
tables: the checks of a conversion are a sequence of outcomes, of which the first that fails counts, and
the theorem says of each of the six sequences when none fails. What can be signed (`Signable`) is defined by the keys
held, that of the payer included, and not by the checks: whatever is built can be signed, and of what can be signed
that is refused in which no instruction names the payer. It is about one call, so no run has it. Theorems:
`LandsAsWritten`, `NeverReactivated`, `MovedUpOverMissing`, `SignableIsBuilt`.

Only model-checked, of the passing runs: the five liveness properties (`SilentAreBooted`,
`DueRowsAreTurned`, `Resubscribes`, `AllServed`, `EveryCallEnds`), which the prover does not reach. For three of them
the measure that fairness runs down is proved: `CollectorComes`, `TurnsBringForward`, `CallsRunOut` with
`StuckOnlyIfHeldUp`. Every safety property of a passing run but `LoneAnswerPaid` is a theorem. The properties of the two runs that are
violated are false, and `OracleAttestation` has no theorem.

## 6. Where the code and its comments differ

- `aggregator_round_min`: a relay whose first update is stale publishes a minimum
  of 0, where the comment of `min_response` promises the least response.
- `oracle_attestation`: an attestation is never counted. The key recovered from the
  signature has 64 bytes and is compared with `oracle_key`, which has 32. Behind
  that check are two more differences, named in the finding: an absolute expiration
  time used as a length, and two arguments of `enable_oracle` in the other order.
  So oracles are enabled by override only, which the deployment scripts use; the
  part of `Attest` behind the check is in the model, and no state reaches it.

Noted while reading. No run shows these as violated; a property that comes near one says what the code and
the comment have in common, or excepts the case by name. In the Move packages:

- a pop that finds a feed without permission drops its row and leaves its row count
  at 1 (`CountedOrEvicted`), so that nobody can push it again, which `crank_push_action.move:27` says
  anybody can;
- a feed without a permission record or an escrow for its queue, or whose last round was answered by an oracle without a
  wallet, makes the turn of its row abort; at the head of a crank it blocks every pop of index 0
  (`DueRowsAreTurned` excepts it);
- `aggregator_open_round_action.move:69` checks the lease for rewards that are not those it pays (section 5);
- the only oracle that answered a round is judged by the result of an earlier round if its answer was not enough to
  confirm the round, where the comment at `aggregator_open_round_action.move:244` says it is paid. The code looks at the number of oracles
  and not of answers. `LoneAnswerPaid` claims the comment for confirmed rounds only;
- `extract_and_run` (`update_action.move:106`) never advances its index;
- the comment of `median_result` (`aggregator.move:472`) speaks of the lower of two
  middle items and the code takes the upper; `ResultIsMedian` asks only for an answer with no fewer than half on either side,
  which both are. `max_result` starts at zero.

In the Rust libraries:

- `event_client.rs:127` calls `max_retries` the number of times to retry, and `:128` says that without it the
  client retries continuously. A limit of `n` allows `n` attempts and so `n - 1` retries, and a limit of 0 ends the client when a
  connection closes. A socket that cannot be opened panics (line 237), with a limit or without, and is never
  retried. `GivesUp` allows `n` and `n + 1` attempts; `Resubscribes` supposes that no socket fails to open. An event without fields, whose
  data is the eight bytes of its discriminator, is not delivered.
- Loading a key of a cache holds its shard across the await (`pull_feed.rs:389`): as
  many other calls as the runtime has threads, in one shard, block for ever; so do two calls
  of one shard that are joined in one task, on any number of threads (`HeldUp`).
  Nothing in the caches expires, so a feed that is reconfigured keeps its old
  configuration for the life of the context. Two feeds of a request with the same hash both
  name the first, and a value of a hash that no feed of the request has is submitted for `Pubkey::default()` (`:514`). A consensus instruction uses the queue of its last feed.
- Tables are zipped with the owners that were asked for (`pull_feed.rs:99`) though
  those without a table are skipped; the gap shifts the rest (`MovedUpOverMissing`). `fetch_oracles` in
  `on_demand/accounts/queue.rs` zips in the same way.
- The example at `transaction_builder.rs:182` builds a legacy transaction from a payer
  that is a key only, which `to_legacy_tx` refuses with `SolanaPayerSignerMissing`. A payer that no instruction names as signer
  is not asked to sign even if its key is held, and ends
  in `SolanaSignError`, or in a panic for a v0 transaction (`SignableIsBuilt`). The comment of `ixs()` wants the price of
  compute units first; it is second. The two variants with a blockhash give precedence to different hashes.

## 7. Not modelled, and why

- Authorities (one comparison of a signer per call), names, metadata, events, and
  fields that no code reads.
- on_demand: fees, which go straight to the recipient; the list of fee coins;
  the batch of `update_action`, a sequence of modelled calls in one transaction;
  parsing and hashing.
- aptos_v2: jobs, which only off-chain programs read; the compound actions, which
  call modelled ones in turn; reading a feed for a charge.
- The Solana program and the EVM contracts are not in the repository. The account
  types of the Rust crates read what that program writes, one account at a time and without state of their
  own; what the fields promise is decided there.
- Solana Rust: layouts of instructions, parsing and serialization, the single requests
  of gateways and crossbars, blockhashes. The setters of the builder each store a field.
- The TypeScript SDK does what the Rust client does, in one thread, with the same requests; its randomness
  accounts only encode calls of the program.
- Generated code (`oracle_job.rs`, `oracle_job.serde.rs`, nearly 20,000 lines) and vendored code (two
  patched copies of `ahash`, nearly 10,000) make up most of the Rust in the repository; neither
  holds logic of this system. About 6,300 lines of Rust are the project's own, of which the modules
  take the concurrent and the stateful part; the two Move packages are modelled almost whole.
- Wrappers of cryptographic libraries and devices.

## 8. Plan

Done, the most important behaviour first: queue, schedule and crank, rounds,
payouts, on_demand feeds, attestation, event client, fetching, tables and
transactions; and the proofs above.

Left to prove:

1. Of `OracleAttestation`, that an oracle is enabled by an override or by enough
   different guardians and nothing else, once a run checks it.
2. Measures like `CollectorComes` for `Resubscribes` and `AllServed` of the event client.

Left to model: the signs, scales and square root of `math.move`, as operators
against reference definitions; a feed that changes its queue between the opening and
the settlement of a round.
