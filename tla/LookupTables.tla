---------------------------- MODULE LookupTables ----------------------------
(***************************************************************************)
(* Address lookup tables, as the library reads them (lut.rs), and the      *)
(* cache of tables that a client keeps per owner (fetch_and_cache_luts and *)
(* load_lookup_tables).  An owner is an oracle, a feed or a queue; its     *)
(* account names the slot of its table, and the address of the table is    *)
(* derived from both.  The program that creates, extends, deactivates and  *)
(* closes tables is not in the repository.                                 *)
(***************************************************************************)
EXTENDS Integers, Sequences, FiniteSets

CONSTANTS
    Owners,
    Calls,         \* calls of fetch_and_cache_luts at one time
    Addresses,     \* what tables hold
    None,          \* no account; no deactivation slot; nothing cached
    MAX_ENTRIES,   \* slots in the SlotHashes sysvar
    MaxSlot,       \* bound: the last slot
    MaxAddresses,  \* bound: addresses in a table
    MaxTables      \* bound: tables that exist at one time

VARIABLES
    slot,          \* the current slot
    slot_hashes,   \* slots of the SlotHashes sysvar
    table,         \* table address -> LookupTableMeta and addresses
    lut_slot,      \* owner -> the slot that its account names
    lut_cache,     \* owner -> AddressLookupTableAccount: a table address and addresses
    fetching       \* call -> the request for tables under way

chainVars == <<slot, slot_hashes, table, lut_slot>>
cacheVars == <<lut_cache, fetching>>
lutVars   == <<chainVars, cacheVars>>

Slots     == 0..MaxSlot
TableKeys == [owner : Owners, slot : Slots]

(* The account of a table: its LookupTableMeta and its addresses.          *)
AddressLookupTable ==
    [deactivation_slot : Nat \cup {None}, last_extended_slot : Nat,
     last_extended_slot_start_index : Nat, addresses : Seq(Addresses)]

NoFetch == [keys |-> <<>>, missing |-> {}, lut_key |-> <<>>]

ASSUME LookupTablesAssumption ==
    /\ MAX_ENTRIES \in Nat \ {0}
    /\ MaxSlot \in Nat \ {0}
    /\ MaxAddresses \in Nat
    /\ None \notin Int
    /\ None \notin AddressLookupTable
    /\ None \notin [key : TableKeys, addresses : Seq(Addresses)]

LutInit ==
    /\ slot = 1
    /\ slot_hashes = {0}
    /\ table = [k \in TableKeys |-> None]
    /\ lut_slot = [o \in Owners |-> None]
    /\ lut_cache = [o \in Owners |-> None]
    /\ fetching = [c \in Calls |-> NoFetch]

----------------------------------------------------------------------------
(* LookupTableMeta::status.  A table that was deactivated in the current   *)
(* slot, which is not yet among the recent ones, or in a recent one, is    *)
(* deactivating and still serves lookups.                                  *)
StatusWithoutCurrent(meta) ==                                     \* mutant
    CASE meta.deactivation_slot = None -> "Activated"
      [] meta.deactivation_slot \in slot_hashes -> "Deactivating"
      [] OTHER -> "Deactivated"

status(meta) ==
    CASE meta.deactivation_slot = None -> "Activated"
      [] meta.deactivation_slot = slot -> "Deactivating"
      [] meta.deactivation_slot \in slot_hashes -> "Deactivating"
      [] OTHER -> "Deactivated"

is_active(meta) == status(meta) # "Deactivated"

(* Addresses added in the current slot cannot be looked up yet.  *)
active_addresses_len(meta) ==
    IF slot > meta.last_extended_slot
    THEN Len(meta.addresses)
    ELSE meta.last_extended_slot_start_index

(* AddressLookupTable::lookup of one index, from 1; None is an error.      *)
lookup(meta, index) ==
    IF is_active(meta) /\ index <= active_addresses_len(meta) THEN meta.addresses[index] ELSE None

----------------------------------------------------------------------------
(* The chain.  A block is made in every slot or in some; the hash of a     *)
(* slot is known from the next one on, and the newest are kept.            *)
Newest(n, S) == {s \in S : Cardinality({t \in S : t > s}) < n}

AdvanceSlot(s) ==
    /\ s > slot /\ s <= MaxSlot
    /\ slot' = s
    /\ slot_hashes' = Newest(MAX_ENTRIES, slot_hashes \cup {slot})
    /\ UNCHANGED <<table, lut_slot, cacheVars>>

(* A table is created at an address derived from its owner and a recent    *)
(* slot, which the owner's account then names.                             *)
CreateTable(o, s) ==
    LET k == [owner |-> o, slot |-> s]
    IN  /\ s \in slot_hashes
        /\ table[k] = None
        /\ Cardinality({t \in TableKeys : table[t] # None}) < MaxTables
        /\ table' = [table EXCEPT ![k] =
               [deactivation_slot |-> None, last_extended_slot |-> 0,
                last_extended_slot_start_index |-> 0, addresses |-> <<>>]]
        /\ lut_slot' = [lut_slot EXCEPT ![o] = s]
        /\ UNCHANGED <<slot, slot_hashes, cacheVars>>

ExtendTable(k, a) ==
    /\ table[k] # None
    /\ table[k].deactivation_slot = None
    /\ Len(table[k].addresses) < MaxAddresses
    /\ table' = [table EXCEPT
           ![k].addresses = Append(@, a),
           ![k].last_extended_slot = slot,
           ![k].last_extended_slot_start_index =
               IF table[k].last_extended_slot = slot THEN @ ELSE Len(table[k].addresses)]
    /\ UNCHANGED <<slot, slot_hashes, lut_slot, cacheVars>>

DeactivateTable(k) ==
    /\ table[k] # None
    /\ table[k].deactivation_slot = None
    /\ table' = [table EXCEPT ![k].deactivation_slot = slot]
    /\ UNCHANGED <<slot, slot_hashes, lut_slot, cacheVars>>

CloseTable(k) ==
    /\ table[k] # None
    /\ ~is_active(table[k])
    /\ table' = [table EXCEPT ![k] = None]
    /\ UNCHANGED <<slot, slot_hashes, lut_slot, cacheVars>>

----------------------------------------------------------------------------
(* fetch_and_cache_luts: a call asks for the owners that are not cached.   *)
(* First load_lookup_tables reads the owners' accounts, and skips those    *)
(* that do not exist; then it reads the tables that the others name.       *)
LoadOwners(c, oracle_keys) ==
    LET missing == {i \in DOMAIN oracle_keys : lut_cache[oracle_keys[i]] = None}
        known   == {i \in missing : lut_slot[oracle_keys[i]] # None}
    IN  /\ fetching[c] = NoFetch
        /\ missing # {}
        /\ fetching' = [fetching EXCEPT ![c] =
               [keys    |-> oracle_keys,
                missing |-> missing,
                lut_key |-> [i \in known |-> [owner |-> oracle_keys[i],
                                              slot  |-> lut_slot[oracle_keys[i]]]]]]
        /\ UNCHANGED <<chainVars, lut_cache>>

(* The tables that exist, in the order of the owners...                    *)
Found(c) == {i \in DOMAIN fetching[c].lut_key : table[fetching[c].lut_key[i]] # None}

Snapshot(k) == [key |-> k, addresses |-> table[k].addresses]

(* ...are zipped with the owners that were asked for.                      *)
Rank(I, i) == Cardinality({j \in I : j <= i})

PairedReversed(c, m, f) ==                                        \* mutant
    Rank(fetching[c].missing, m) = Cardinality({j \in Found(c) : j >= f})

Paired(c, m, f) == Rank(fetching[c].missing, m) = Rank(Found(c), f)

GoesTo(c, o, f) == \E m \in fetching[c].missing : fetching[c].keys[m] = o /\ Paired(c, m, f)

CacheTables(c) ==
    LET Cached == {o \in Owners : \E f \in Found(c) : GoesTo(c, o, f)}
    IN  /\ fetching[c] # NoFetch
        /\ lut_cache' = [o \in Owners |->
               IF o \in Cached
               THEN Snapshot(fetching[c].lut_key[CHOOSE f \in Found(c) : GoesTo(c, o, f)])
               ELSE lut_cache[o]]
        /\ fetching' = [fetching EXCEPT ![c] = NoFetch]
        /\ UNCHANGED chainVars

(* An RPC error ends the call; what was cached before it stays.            *)
FetchFails(c) ==
    /\ fetching[c] # NoFetch
    /\ fetching' = [fetching EXCEPT ![c] = NoFetch]
    /\ UNCHANGED <<chainVars, lut_cache>>

ChainNext ==
    \/ \E s \in {slot + 1, slot + 2} : AdvanceSlot(s)
    \/ \E o \in Owners, s \in Slots : CreateTable(o, s)
    \/ \E k \in TableKeys, a \in Addresses : ExtendTable(k, a)
    \/ \E k \in TableKeys : DeactivateTable(k)
    \/ \E k \in TableKeys : CloseTable(k)

CacheNext ==
    \E c \in Calls :
        \/ \E o, p \in Owners : LoadOwners(c, IF o = p THEN <<o>> ELSE <<o, p>>)
        \/ CacheTables(c)
        \/ FetchFails(c)

----------------------------------------------------------------------------
Active(k) == table[k] # None /\ is_active(table[k])

Cached(k) == \E o \in Owners : lut_cache[o] # None /\ lut_cache[o].key = k

(* The comment of status: the cool-down keeps a table from being created   *)
(* again at the same address.  The address of a cached table that no       *)
(* longer serves lookups never serves any again, though the table may be   *)
(* closed and its owner given new ones.                                    *)
NeverReactivated ==
    [][\A k \in TableKeys : Cached(k) /\ ~Active(k) => ~Active(k)']_lutVars

(* The tables that exist move up over the owners whose table does not, and *)
(* nowhere else: an owner gets the table of another only from behind it in *)
(* the same call, and only if the table of an owner before it, or its own, *)
(* was not found.  A call whose tables all exist gives each to its owner,  *)
(* also while another call caches tables of the same owners.               *)
MovedUpOverMissing ==
    [][\A o \in Owners :
          lut_cache'[o] # lut_cache[o] /\ lut_cache'[o].key.owner # o =>
             \E c \in Calls : \E lost, own, other \in fetching[c].missing :
                /\ lost <= own /\ own < other
                /\ lost \notin Found(c) /\ other \in Found(c)
                /\ fetching[c].keys[own] = o
                /\ lut_cache'[o].key = fetching[c].lut_key[other]]_lutVars
=============================================================================
