---------------------------- MODULE OracleQueue ----------------------------
(***************************************************************************)
(* The oracle queues of the round-based contract (aptos_v2): the oracles,  *)
(* the rows they occupy in the queues, the heartbeat that inserts a row    *)
(* and garbage-collects one, and the round-robin assignment of oracles to  *)
(* a round.                                                                *)
(*                                                                         *)
(* Every action is one entry function of the contract: a transaction is    *)
(* atomic and an abort undoes it, so an abort is an action that is not     *)
(* enabled.  The vectors of the code are indexed from 0 and the sequences  *)
(* of this module from 1: curr_idx and gc_idx keep the code's values.      *)
(*                                                                         *)
(* The clock is kept relative: age[o] is the number of seconds since the   *)
(* last heartbeat of o, saturated one past the expiration period.  The     *)
(* code only ever compares that difference with the period, so nothing is  *)
(* lost and time needs no bound.                                           *)
(***************************************************************************)
EXTENDS Integers, Sequences

CONSTANTS
    Queues,            \* addresses that may hold an OracleQueue
    Oracles,           \* addresses that may hold an Oracle
    Authorities,       \* accounts that may be the authority of a queue
    None,              \* "no resource at this address"
    ExpirationPeriod,  \* the 180 seconds of oracle_heartbeat_action
    BatchSizes,        \* batch sizes of the aggregators that open rounds
    Movers,            \* oracles whose authority may change their queue
    Faithful           \* oracles that keep sending heartbeats (liveness only)

ASSUME OracleQueueAssumption ==
    /\ None \notin Queues
    /\ None \notin Authorities
    /\ ExpirationPeriod \in Nat
    /\ BatchSizes \subseteq Nat \ {0}
    /\ Movers \subseteq Oracles
    /\ Faithful \subseteq Oracles

VARIABLES
    authority,    \* OracleQueueConfig.authority; None: the queue does not exist
    data,         \* OracleQueueData.data
    curr_idx,     \* OracleQueueData.curr_idx
    gc_idx,       \* OracleQueueData.gc_idx
    queue_addr,   \* OracleConfig.queue_addr; None: the oracle does not exist
    num_rows,     \* OracleData.num_rows
    age,          \* seconds since OracleData.last_heartbeat, saturated
    permission,   \* the PERMIT_ORACLE_HEARTBEAT bit of each permission record
    alloc         \* the oracle keys next_n last returned for a queue

queueVars  == <<authority, data, curr_idx, gc_idx>>
oracleVars == <<queue_addr, num_rows, age>>
vars == <<authority, data, curr_idx, gc_idx, queue_addr, num_rows, age,
          permission, alloc>>

----------------------------------------------------------------------------
(* The permission record of an oracle is keyed by the queue's authority,   *)
(* the queue and the oracle.                                               *)
PermissionKeys == Authorities \X Queues \X Oracles
PermissionStates == {"absent", "unset", "set"}

QueueExists(q)  == authority[q] # None
OracleExists(o) == queue_addr[o] # None

Rows(q) == 1..Len(data[q])
HasRow(q, o) == \E i \in Rows(q) : data[q][i] = o
InSomeQueue(o) == \E q \in Queues : HasRow(q, o)

is_expired(o) == age[o] > ExpirationPeriod

(* vector::swap_remove, with a 1-based index.                              *)
SwapRemove(s, i) ==
    [j \in 1..(Len(s) - 1) |-> IF j = i THEN s[Len(s)] ELSE s[j]]

----------------------------------------------------------------------------
Init ==
    /\ authority  = [q \in Queues |-> None]
    /\ data       = [q \in Queues |-> <<>>]
    /\ curr_idx   = [q \in Queues |-> 0]
    /\ gc_idx     = [q \in Queues |-> 0]
    /\ queue_addr = [o \in Oracles |-> None]
    /\ num_rows   = [o \in Oracles |-> 0]
    /\ age        = [o \in Oracles |-> ExpirationPeriod + 1]
    /\ permission = [k \in PermissionKeys |-> "absent"]
    /\ alloc      = [q \in Queues |-> <<>>]

OracleQueueInit(q, a) ==
    /\ ~QueueExists(q)
    /\ authority' = [authority EXCEPT ![q] = a]
    /\ data' = [data EXCEPT ![q] = <<>>]
    /\ curr_idx' = [curr_idx EXCEPT ![q] = 0]
    /\ gc_idx' = [gc_idx EXCEPT ![q] = 0]
    /\ UNCHANGED <<oracleVars, permission, alloc>>

(* Only the authority matters here: it is part of every permission key.    *)
OracleQueueSetConfigs(q, a) ==
    /\ QueueExists(q)
    /\ authority' = [authority EXCEPT ![q] = a]
    /\ UNCHANGED <<data, curr_idx, gc_idx, oracleVars, permission, alloc>>

PermissionInit(k) ==
    /\ permission[k] = "absent"
    /\ permission' = [permission EXCEPT ![k] = "unset"]
    /\ UNCHANGED <<queueVars, oracleVars, alloc>>

PermissionSet(k, enable) ==
    /\ permission[k] # "absent"
    /\ permission' = [permission EXCEPT ![k] = IF enable THEN "set" ELSE "unset"]
    /\ UNCHANGED <<queueVars, oracleVars, alloc>>

OracleInit(o, q) ==
    /\ QueueExists(q)
    /\ ~OracleExists(o)
    /\ queue_addr' = [queue_addr EXCEPT ![o] = q]
    /\ num_rows' = [num_rows EXCEPT ![o] = 0]
    /\ age' = [age EXCEPT ![o] = ExpirationPeriod + 1]
    /\ UNCHANGED <<queueVars, permission, alloc>>

(* The queue is replaced; num_rows and the rows of the old queue are not   *)
(* touched.                                                                *)
OracleSetConfigs(o, q) ==
    /\ QueueExists(q)
    /\ OracleExists(o)
    /\ queue_addr' = [queue_addr EXCEPT ![o] = q]
    /\ UNCHANGED <<queueVars, num_rows, age, permission, alloc>>

----------------------------------------------------------------------------
(* The heartbeat of an oracle.  It refreshes the oracle, gives it a row    *)
(* when it has none, advances the collector's cursor and boots the oracle  *)
(* under the cursor when that one has expired.                             *)

HeartbeatPermitted(o) ==
    permission[<<authority[queue_addr[o]], queue_addr[o], o>>] = "set"

PushedRowsUnchecked(o) == Append(data[queue_addr[o]], o)       \* mutant

PushedRows(o) ==
    IF num_rows[o] = 0 THEN Append(data[queue_addr[o]], o) ELSE data[queue_addr[o]]

CountedRows(o) == [num_rows EXCEPT ![o] = IF @ = 0 THEN 1 ELSE @]

(* next_garbage_collection_oracle: the row under the cursor, and the       *)
(* cursor's next value.  The borrow aborts when the cursor is outside.     *)
GcInBounds(o) == gc_idx[queue_addr[o]] < Len(PushedRows(o))
GcOracle(o) == PushedRows(o)[gc_idx[queue_addr[o]] + 1]

NextGcIdxStuck(o) == gc_idx[queue_addr[o]]                     \* mutant

NextGcIdx(o) == (gc_idx[queue_addr[o]] + 1) % Len(PushedRows(o))

GcRowAdvanced(o) == NextGcIdx(o) + 1                           \* mutant

(* The row handed to garbage_collect: the index read before the cursor     *)
(* advanced.                                                               *)
GcRow(o) == gc_idx[queue_addr[o]] + 1

CursorKept(idx, new_len) == idx                                \* mutant

(* garbage_collect reduces both cursors modulo the new length.             *)
CursorAfterGc(idx, new_len) == idx % new_len

HeartbeatKeep(o) ==
    /\ age'[GcOracle(o)] <= ExpirationPeriod
    /\ data' = [data EXCEPT ![queue_addr[o]] = PushedRows(o)]
    /\ num_rows' = CountedRows(o)
    /\ gc_idx' = [gc_idx EXCEPT ![queue_addr[o]] = NextGcIdx(o)]
    /\ UNCHANGED curr_idx

(* The decrement of num_rows aborts below zero, and the reduction of the   *)
(* cursors aborts when the queue would be left empty.                      *)
HeartbeatBoot(o) ==
    LET q       == queue_addr[o]
        new_len == Len(PushedRows(o)) - 1
    IN  /\ age'[GcOracle(o)] > ExpirationPeriod
        /\ CountedRows(o)[GcOracle(o)] > 0
        /\ new_len > 0
        /\ data' = [data EXCEPT ![q] = SwapRemove(PushedRows(o), GcRow(o))]
        /\ num_rows' = [CountedRows(o) EXCEPT ![GcOracle(o)] = @ - 1]
        /\ curr_idx' = [curr_idx EXCEPT ![q] = CursorAfterGc(@, new_len)]
        /\ gc_idx' = [gc_idx EXCEPT ![q] = CursorAfterGc(NextGcIdx(o), new_len)]

Heartbeat(o) ==
    /\ OracleExists(o)
    /\ HeartbeatPermitted(o)
    /\ GcInBounds(o)
    /\ age' = [age EXCEPT ![o] = 0]
    /\ HeartbeatKeep(o) \/ HeartbeatBoot(o)
    /\ UNCHANGED <<authority, queue_addr, permission, alloc>>

----------------------------------------------------------------------------
(* next_n, which open_round calls after it has checked data_len against    *)
(* the batch size.                                                         *)
BatchUnchecked(q, n) == data[q] # <<>>                         \* mutant

BatchAvailable(q, n) == Len(data[q]) >= n

NextN(q, n) ==
    /\ QueueExists(q)
    /\ BatchAvailable(q, n)
    /\ curr_idx[q] < Len(data[q])
    /\ alloc' = [alloc EXCEPT ![q] =
                    [k \in 1..n |-> data[q][((curr_idx[q] + k - 1) % Len(data[q])) + 1]]]
    /\ curr_idx' = [curr_idx EXCEPT ![q] = (@ + n) % Len(data[q])]
    /\ UNCHANGED <<authority, data, gc_idx, oracleVars, permission>>

(* A second passes.                                                        *)
Tick ==
    /\ age' = [o \in Oracles |-> IF is_expired(o) THEN age[o] ELSE age[o] + 1]
    /\ UNCHANGED <<queueVars, queue_addr, num_rows, permission, alloc>>

Next ==
    \/ \E q \in Queues, a \in Authorities :
          OracleQueueInit(q, a) \/ OracleQueueSetConfigs(q, a)
    \/ \E k \in PermissionKeys :
          PermissionInit(k) \/ \E enable \in BOOLEAN : PermissionSet(k, enable)
    \/ \E o \in Oracles, q \in Queues :
          OracleInit(o, q) \/ (o \in Movers /\ OracleSetConfigs(o, q))
    \/ \E o \in Oracles : Heartbeat(o)
    \/ \E q \in Queues, n \in BatchSizes : NextN(q, n)
    \/ Tick

Spec == Init /\ [][Next]_vars

(* An oracle process sends heartbeats for as long as it runs; nothing else *)
(* in the system is obliged to act.                                        *)
FairSpec == Spec /\ \A h \in Faithful : WF_vars(Heartbeat(h))

----------------------------------------------------------------------------
TypeOK ==
    /\ authority  \in [Queues -> Authorities \cup {None}]
    /\ data       \in [Queues -> Seq(Oracles)]
    /\ curr_idx   \in [Queues -> Nat]
    /\ gc_idx     \in [Queues -> Nat]
    /\ queue_addr \in [Oracles -> Queues \cup {None}]
    /\ num_rows   \in [Oracles -> 0..1]
    /\ age        \in [Oracles -> 0..(ExpirationPeriod + 1)]
    /\ permission \in [PermissionKeys -> PermissionStates]
    /\ alloc      \in [Queues -> Seq(Oracles)]

(* No oracle occupies two rows, in one queue or in two.                    *)
DistinctRows ==
    \A q, r \in Queues : \A i \in Rows(q), j \in Rows(r) :
        data[q][i] = data[r][j] => q = r /\ i = j

(* The counter kept in the oracle agrees with the rows kept in the queues, *)
(* even after the oracle has moved to another queue: the heartbeat trusts  *)
(* the counter when it decides whether to push (heartbeat_action 25-28),   *)
(* and a wrong counter would enlist an oracle twice or never again.        *)
RowsMatchCounter ==
    /\ DistinctRows
    /\ \A o \in Oracles : num_rows[o] = IF InSomeQueue(o) THEN 1 ELSE 0

(* Both cursors of a non-empty queue point at a row, whatever was removed  *)
(* below them: next_n and next_garbage_collection_oracle index the vector  *)
(* with them unchecked and would abort every later round or heartbeat.     *)
CursorsInBounds ==
    \A q \in Queues :
        IF data[q] = <<>>
        THEN curr_idx[q] = 0 /\ gc_idx[q] = 0
        ELSE curr_idx[q] < Len(data[q]) /\ gc_idx[q] < Len(data[q])

(* Only what exists is referred to: a queue has rows, and an oracle names  *)
(* a queue and holds a row, only once they have been created.              *)
Existence ==
    /\ \A q \in Queues : authority[q] = None => data[q] = <<>>
    /\ \A o \in Oracles :
          IF queue_addr[o] = None THEN num_rows[o] = 0
          ELSE authority[queue_addr[o]] # None

(* The inductive invariant behind RowsMatchCounter and CursorsInBounds.    *)
IInv == TypeOK /\ RowsMatchCounter /\ CursorsInBounds /\ Existence

(* The oracles next_n assigns to one round are pairwise different, so that *)
(* every index of the round can be filled by somebody who has not already  *)
(* answered.                                                               *)
AssignedOnce ==
    \A q \in Queues : \A i, j \in 1..Len(alloc[q]) :
        alloc[q][i] = alloc[q][j] => i = j

(* A step removes an oracle from the queues only when the oracle has been  *)
(* silent for longer than the expiration period: garbage_collect gets an   *)
(* index, not an oracle, and must remove the row that was examined.        *)
BootsOnlyExpired ==
    [][\A o \in Oracles : InSomeQueue(o) /\ ~InSomeQueue(o)' => is_expired(o)]_vars

(* While one faithful oracle keeps its row and its permission on a queue,  *)
(* every oracle that has gone silent there is booted or comes back: the    *)
(* collector looks at one row per heartbeat, and swap_remove moves rows    *)
(* behind its cursor, yet no silent oracle escapes it for ever.            *)
Beating(h, q) == queue_addr[h] = q /\ HasRow(q, h) /\ HeartbeatPermitted(h)

SilentAreBooted ==
    \A q \in Queues, h \in Faithful, o \in Oracles :
        HasRow(q, o) /\ is_expired(o) /\ Beating(h, q)
            ~> ~HasRow(q, o) \/ ~is_expired(o) \/ ~Beating(h, q)
=============================================================================
