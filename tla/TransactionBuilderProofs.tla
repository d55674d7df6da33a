---------------------- MODULE TransactionBuilderProofs ----------------------
(***************************************************************************)
(* Proofs about the lookup tables and the transactions that use them, for  *)
(* any owners, tables, calls and requests, and any length of SlotHashes.   *)
(***************************************************************************)
EXTENDS TransactionBuilder, FiniteSetTheorems, WellFoundedInduction, TLAPS

Typed ==
    /\ slot \in Nat
    /\ slot_hashes \subseteq Nat
    /\ IsFiniteSet(slot_hashes)
    /\ \A s \in slot_hashes : s < slot
    /\ table \in [TableKeys -> AddressLookupTable \cup {None}]
    /\ \A k \in TableKeys : table[k] # None => table[k] \in AddressLookupTable
    /\ lut_slot \in [Owners -> Slots \cup {None}]

(* A table is younger than the slot in its address, and is deactivated     *)
(* after that.  As long as the slot in its address is recent, so is the    *)
(* slot in which it was deactivated.                                       *)
Aged(k) ==
    table[k] # None =>
        /\ k.slot < slot
        /\ table[k].deactivation_slot # None =>
              /\ k.slot < table[k].deactivation_slot
              /\ table[k].deactivation_slot <= slot
              /\ table[k].deactivation_slot < slot /\ k.slot \in slot_hashes
                    => table[k].deactivation_slot \in slot_hashes

(* No table can be created at k any more.                                  *)
Dead(k) == k.slot < slot /\ k.slot \notin slot_hashes

(* A place that held the address a holds it as long as there is a table.   *)
Holds(k, i, a) ==
    IF table[k] = None THEN Dead(k)
    ELSE i \in DOMAIN table[k].addresses /\ table[k].addresses[i] = a

CacheHolds(o) ==
    lut_cache[o] # None =>
        /\ lut_cache[o].key \in TableKeys
        /\ table[lut_cache[o].key] = None => Dead(lut_cache[o].key)
        /\ \A i \in DOMAIN lut_cache[o].addresses :
              Holds(lut_cache[o].key, i, lut_cache[o].addresses[i])

Fetches(c) ==
    \A f \in DOMAIN fetching[c].lut_key : fetching[c].lut_key[f] \in TableKeys

BuiltHolds ==
    built # None =>
        \A a \in DOMAIN built.lookups :
            /\ built.lookups[a].key \in TableKeys
            /\ Holds(built.lookups[a].key, built.lookups[a].index, a)

ChainInv == Typed /\ \A k \in TableKeys : Aged(k)

IInv ==
    /\ ChainInv
    /\ lut_cache = [o \in Owners |-> lut_cache[o]]
    /\ fetching = [c \in Calls |-> fetching[c]]
    /\ \A o \in Owners : CacheHolds(o)
    /\ \A c \in Calls : Fetches(c)
    /\ BuiltHolds

(* What a step may do to the table at k: a table keeps its addresses until *)
(* it is closed, is closed for ever, and does not serve lookups again.     *)
Evolves(k) ==
    /\ table[k] = None /\ Dead(k) => table'[k] = None /\ Dead(k)'
    /\ table[k] # None =>
          IF table'[k] = None THEN Dead(k)'
          ELSE \A i \in DOMAIN table[k].addresses :
                  /\ i \in DOMAIN table'[k].addresses
                  /\ table'[k].addresses[i] = table[k].addresses[i]
    /\ table[k] # None /\ ~is_active(table[k]) => table'[k] = None \/ ~is_active(table[k])'

----------------------------------------------------------------------------
(* The newest slots: when one is kept, so is every later one.              *)
LEMMA NewestIsUpwardClosed ==
    ASSUME NEW S \in SUBSET Nat, IsFiniteSet(S), NEW n \in Nat,
           NEW s \in Newest(n, S), NEW t \in S, s < t
    PROVE  t \in Newest(n, S)
<1> DEFINE A == {u \in S : u > s}
<1> DEFINE B == {u \in S : u > t}
<1>0. s \in Nat /\ t \in Nat
  BY DEF Newest
<1>1. ASSUME NEW u \in S, u > t PROVE u > s
  BY <1>0, <1>1
<1>a. IsFiniteSet(A)
  BY FS_Subset
<1>b. B \subseteq A
  BY <1>1
<1>2. Cardinality(B) <= Cardinality(A) /\ Cardinality(A) \in Nat /\ Cardinality(B) \in Nat
  BY <1>a, <1>b, FS_Subset, FS_CardinalityType
<1>3. Cardinality(A) < n
  BY DEF Newest
<1> HIDE DEF A, B
<1>4. Cardinality(B) < n
  BY <1>2, <1>3
<1> QED
  BY <1>4 DEF Newest, B

LEMMA ActiveFacts ==
    ASSUME NEW k
    PROVE  is_active(table[k]) <=> \/ table[k].deactivation_slot = None
                                   \/ table[k].deactivation_slot = slot
                                   \/ table[k].deactivation_slot \in slot_hashes
BY DEF is_active, status

LEMMA ActiveFactsNext ==
    ASSUME NEW k
    PROVE  is_active(table[k])' <=> \/ table'[k].deactivation_slot = None
                                    \/ table'[k].deactivation_slot = slot'
                                    \/ table'[k].deactivation_slot \in slot_hashes'
BY DEF is_active, status

----------------------------------------------------------------------------
LEMMA AdvanceSlotStep ==
    ASSUME ChainInv, NEW s \in {slot + 1, slot + 2}, AdvanceSlot(s)
    PROVE  ChainInv' /\ \A k \in TableKeys : Evolves(k)
<1> USE DEF ChainInv
<1> DEFINE H == slot_hashes \cup {slot}
<1>1. IsFiniteSet(H) /\ H \subseteq Nat /\ slot' \in Nat /\ slot < slot' /\ slot \in Nat
  BY FS_AddElement DEF AdvanceSlot, Typed
<1>2. slot_hashes' = Newest(MAX_ENTRIES, H) /\ table' = table /\ lut_slot' = lut_slot
  BY DEF AdvanceSlot
<1>3. slot_hashes' \subseteq H
  BY <1>2 DEF Newest
<1>4. \A t \in slot_hashes, u \in H : t \in slot_hashes' /\ t < u => u \in slot_hashes'
  BY <1>1, <1>2, NewestIsUpwardClosed, LookupTablesAssumption
<1>5. Typed'
  <2>1. IsFiniteSet(slot_hashes')
    BY <1>1, <1>3, FS_Subset
  <2>2. \A t \in H : t < slot'
    BY <1>1 DEF Typed
  <2> QED
    BY <1>1, <1>2, <1>3, <2>1, <2>2 DEF Typed
<1>6. ASSUME NEW k \in TableKeys PROVE Aged(k)'
  <2>0. k.slot \in Nat
    BY LookupTablesAssumption DEF TableKeys, Slots
  <2>1. SUFFICES ASSUME table[k] # None
                 PROVE  /\ k.slot < slot'
                        /\ table[k].deactivation_slot # None =>
                             /\ k.slot < table[k].deactivation_slot
                             /\ table[k].deactivation_slot <= slot'
                             /\ k.slot \in slot_hashes'
                                  => table[k].deactivation_slot \in slot_hashes'
    BY <1>2 DEF Aged
  <2>2. Aged(k) /\ table[k] \in AddressLookupTable
    BY <2>1 DEF Typed
  <2>3. k.slot < slot'
    BY <1>1, <2>0, <2>1, <2>2 DEF Aged
  <2>4. ASSUME table[k].deactivation_slot # None
        PROVE  /\ k.slot < table[k].deactivation_slot
               /\ table[k].deactivation_slot <= slot'
               /\ k.slot \in slot_hashes' => table[k].deactivation_slot \in slot_hashes'
    <3> DEFINE d == table[k].deactivation_slot
    <3>1. d \in Nat /\ k.slot < d /\ d <= slot
      BY <2>1, <2>2, <2>4 DEF Aged, AddressLookupTable
    <3>2. k.slot < slot
      BY <2>0, <3>1, <1>1
    <3>3. ASSUME k.slot \in slot_hashes' PROVE d \in slot_hashes'
      <4>1. k.slot \in slot_hashes
        BY <3>3, <1>3, <3>2, <2>0, <1>1
      <4>2. d \in H
        BY <4>1, <2>1, <2>2, <2>4, <3>1, <1>1 DEF Aged
      <4> QED
        BY <4>1, <4>2, <3>1, <3>3, <1>4
    <3> QED
      BY <3>1, <3>3, <1>1
  <2> QED
    BY <2>3, <2>4
<1>7. ASSUME NEW k \in TableKeys PROVE Evolves(k)
  <2>0. k.slot \in Nat
    BY LookupTablesAssumption DEF TableKeys, Slots
  <2>1. Dead(k) => Dead(k)'
    BY <1>1, <1>3, <2>0 DEF Dead
  <2>2. ASSUME table[k] # None, ~is_active(table[k]) PROVE ~is_active(table[k])'
    <3>1. table[k] \in AddressLookupTable /\ Aged(k)
      BY <2>2 DEF Typed
    <3> DEFINE d == table[k].deactivation_slot
    <3>2. d # None /\ d # slot /\ d \notin slot_hashes
      BY <2>2, <3>1, ActiveFacts
    <3>3. d \in Nat /\ d <= slot
      BY <2>2, <3>1, <3>2 DEF Aged, AddressLookupTable
    <3>4. d # slot' /\ d \notin slot_hashes'
      BY <3>2, <3>3, <1>1, <1>3
    <3> HIDE DEF d
    <3> QED
      BY <3>2, <3>4, <1>2, ActiveFactsNext DEF d
  <2> QED
    BY <1>2, <2>1, <2>2 DEF Evolves
<1> QED
  BY <1>5, <1>6, <1>7

(* The steps that change one table, and neither the slot nor the hashes.   *)
LEMMA OneTable ==
    ASSUME ChainInv, NEW k \in TableKeys, NEW meta \in AddressLookupTable \cup {None},
           UNCHANGED <<slot, slot_hashes>>, table' = [table EXCEPT ![k] = meta],
           lut_slot' \in [Owners -> Slots \cup {None}],
           Aged(k)', Evolves(k)
    PROVE  ChainInv' /\ \A j \in TableKeys : Evolves(j)
<1>1. Typed'
  BY DEF ChainInv, Typed
<1>2. ASSUME NEW j \in TableKeys, j # k PROVE Aged(j)' /\ Evolves(j)
  <2>1. table'[j] = table[j] /\ Aged(j)
    BY <1>2 DEF ChainInv, Typed
  <2>2. is_active(table[j])' <=> is_active(table[j])
    BY <2>1, ActiveFacts, ActiveFactsNext
  <2> QED
    BY <2>1, <2>2 DEF Aged, Evolves, Dead
<1> QED
  BY <1>1, <1>2 DEF ChainInv

LEMMA CreateTableStep ==
    ASSUME ChainInv, NEW o \in Owners, NEW s \in Slots, CreateTable(o, s)
    PROVE  ChainInv' /\ \A k \in TableKeys : Evolves(k)
<1> DEFINE k == [owner |-> o, slot |-> s]
<1> DEFINE meta == [deactivation_slot |-> None, last_extended_slot |-> 0,
                    last_extended_slot_start_index |-> 0, addresses |-> <<>>]
<1>1. k \in TableKeys /\ k.slot = s
  BY DEF TableKeys
<1>2. meta \in AddressLookupTable /\ meta.deactivation_slot = None
  BY DEF AddressLookupTable
<1>3. /\ s \in slot_hashes /\ table[k] = None /\ UNCHANGED <<slot, slot_hashes>>
      /\ table' = [table EXCEPT ![k] = meta]
      /\ lut_slot' = [lut_slot EXCEPT ![o] = s]
  BY DEF CreateTable
<1> HIDE DEF k, meta
<1>4. lut_slot' \in [Owners -> Slots \cup {None}]
  BY <1>3 DEF ChainInv, Typed
<1>5. table'[k] = meta
  BY <1>1, <1>3 DEF ChainInv, Typed
<1>6. Aged(k)'
  <2>1. s < slot
    BY <1>3 DEF ChainInv, Typed
  <2> QED
    BY <1>1, <1>2, <1>3, <1>5, <2>1 DEF Aged
<1>7. Evolves(k)
  BY <1>1, <1>3 DEF Evolves, Dead
<1> QED
  BY <1>1, <1>2, <1>3, <1>4, <1>6, <1>7, OneTable

LEMMA ExtendTableStep ==
    ASSUME ChainInv, NEW k \in TableKeys, NEW a \in Addresses, ExtendTable(k, a)
    PROVE  ChainInv' /\ \A j \in TableKeys : Evolves(j)
<1> DEFINE meta == [table[k] EXCEPT
               !.addresses = Append(@, a),
               !.last_extended_slot = slot,
               !.last_extended_slot_start_index =
                   IF table[k].last_extended_slot = slot THEN @ ELSE Len(table[k].addresses)]
<1>1. table[k] \in AddressLookupTable /\ slot \in Nat /\ table[k] # None /\ Aged(k)
  BY DEF ExtendTable, ChainInv, Typed
<1>2. table' = [table EXCEPT ![k] = meta]
  BY <1>1 DEF ExtendTable, AddressLookupTable, ChainInv, Typed
<1>3. UNCHANGED <<slot, slot_hashes, lut_slot>> /\ table[k].deactivation_slot = None
  BY DEF ExtendTable
<1> DEFINE start == IF table[k].last_extended_slot = slot
                    THEN table[k].last_extended_slot_start_index
                    ELSE Len(table[k].addresses)
<1>a. start \in Nat /\ Append(table[k].addresses, a) \in Seq(Addresses)
  BY <1>1 DEF AddressLookupTable
<1>4. /\ meta \in AddressLookupTable
      /\ meta.deactivation_slot = None
      /\ meta.addresses = Append(table[k].addresses, a)
  BY <1>1, <1>3, <1>a DEF AddressLookupTable
<1> HIDE DEF meta
<1>5. table'[k] = meta
  BY <1>2 DEF ChainInv, Typed
<1>6. lut_slot' \in [Owners -> Slots \cup {None}]
  BY <1>3 DEF ChainInv, Typed
<1>7. Aged(k)'
  BY <1>1, <1>3, <1>4, <1>5 DEF Aged
<1>8. \A i \in DOMAIN table[k].addresses :
         i \in DOMAIN meta.addresses /\ meta.addresses[i] = table[k].addresses[i]
  BY <1>1, <1>4 DEF AddressLookupTable
<1>9. is_active(table[k])
  BY <1>3, ActiveFacts
<1>10. Evolves(k)
  <2>1. table'[k] # None => \A i \in DOMAIN table[k].addresses :
          i \in DOMAIN table'[k].addresses /\ table'[k].addresses[i] = table[k].addresses[i]
    BY <1>5, <1>8
  <2> QED
    BY <1>1, <1>4, <1>5, <1>9, <2>1, LookupTablesAssumption DEF Evolves
<1> QED
  BY <1>2, <1>3, <1>4, <1>6, <1>7, <1>10, OneTable

LEMMA DeactivateTableStep ==
    ASSUME ChainInv, NEW k \in TableKeys, DeactivateTable(k)
    PROVE  ChainInv' /\ \A j \in TableKeys : Evolves(j)
<1> DEFINE meta == [table[k] EXCEPT !.deactivation_slot = slot]
<1>1. table[k] \in AddressLookupTable /\ slot \in Nat /\ table[k] # None /\ Aged(k)
  BY DEF DeactivateTable, ChainInv, Typed
<1>2. table' = [table EXCEPT ![k] = meta]
  BY <1>1 DEF DeactivateTable, AddressLookupTable, ChainInv, Typed
<1>3. UNCHANGED <<slot, slot_hashes, lut_slot>> /\ table[k].deactivation_slot = None
  BY DEF DeactivateTable
<1>4. /\ meta \in AddressLookupTable
      /\ meta.deactivation_slot = slot
      /\ meta.addresses = table[k].addresses
  BY <1>1, <1>3 DEF AddressLookupTable
<1> HIDE DEF meta
<1>5. table'[k] = meta
  BY <1>2 DEF ChainInv, Typed
<1>6. lut_slot' \in [Owners -> Slots \cup {None}]
  BY <1>3 DEF ChainInv, Typed
<1>7. Aged(k)'
  BY <1>1, <1>3, <1>4, <1>5 DEF Aged
<1>8. is_active(table[k])
  BY <1>3, ActiveFacts
<1>9. Evolves(k)
  BY <1>1, <1>4, <1>5, <1>8, LookupTablesAssumption DEF Evolves
<1> QED
  BY <1>2, <1>3, <1>4, <1>6, <1>7, <1>9, OneTable

LEMMA CloseTableStep ==
    ASSUME ChainInv, NEW k \in TableKeys, CloseTable(k)
    PROVE  ChainInv' /\ \A j \in TableKeys : Evolves(j)
<1>1. table[k] \in AddressLookupTable /\ slot \in Nat /\ table[k] # None /\ Aged(k)
  BY DEF CloseTable, ChainInv, Typed
<1>2. /\ UNCHANGED <<slot, slot_hashes, lut_slot>> /\ table' = [table EXCEPT ![k] = None]
      /\ ~is_active(table[k])
  BY DEF CloseTable
<1>3. table'[k] = None
  BY <1>2 DEF ChainInv, Typed
<1>4. lut_slot' \in [Owners -> Slots \cup {None}]
  BY <1>2 DEF ChainInv, Typed
<1>5. Dead(k)
  <2> DEFINE d == table[k].deactivation_slot
  <2>1. d # None /\ d # slot /\ d \notin slot_hashes
    BY <1>2, ActiveFacts
  <2>2. d \in Nat /\ d <= slot /\ k.slot < slot
    BY <1>1, <2>1 DEF Aged, AddressLookupTable
  <2>3. d < slot
    BY <1>1, <2>1, <2>2
  <2> QED
    BY <1>1, <2>1, <2>2, <2>3 DEF Aged, Dead
<1>6. Aged(k)' /\ Evolves(k)
  BY <1>1, <1>2, <1>3, <1>5 DEF Aged, Evolves, Dead
<1> QED
  BY <1>2, <1>3, <1>4, <1>6, OneTable

LEMMA ChainStep ==
    ASSUME ChainInv, ChainNext
    PROVE  ChainInv' /\ \A k \in TableKeys : Evolves(k)
<1>1. CASE \E s \in {slot + 1, slot + 2} : AdvanceSlot(s)
  BY <1>1, AdvanceSlotStep
<1>2. CASE \E o \in Owners, s \in Slots : CreateTable(o, s)
  BY <1>2, CreateTableStep
<1>3. CASE \E k \in TableKeys, a \in Addresses : ExtendTable(k, a)
  BY <1>3, ExtendTableStep
<1>4. CASE \E k \in TableKeys : DeactivateTable(k)
  BY <1>4, DeactivateTableStep
<1>5. CASE \E k \in TableKeys : CloseTable(k)
  BY <1>5, CloseTableStep
<1> QED
  BY <1>1, <1>2, <1>3, <1>4, <1>5 DEF ChainNext

----------------------------------------------------------------------------
LEMMA HoldsStep ==
    ASSUME NEW k \in TableKeys, NEW i, NEW a, Evolves(k), Holds(k, i, a)
    PROVE  Holds(k, i, a)'
BY DEF Holds, Evolves

LEMMA InitIInv == Init => IInv
<1> SUFFICES ASSUME Init PROVE IInv
  OBVIOUS
<1>1. ChainInv
  <2>1. slot = 1 /\ slot_hashes = {0} /\ IsFiniteSet({0})
    BY FS_Singleton DEF Init, LutInit
  <2> QED
    BY <2>1 DEF Init, LutInit, ChainInv, Typed, Aged
<1>2. \A c \in Calls : Fetches(c)
  BY DEF Init, LutInit, Fetches, NoFetch
<1> QED
  BY <1>1, <1>2 DEF Init, LutInit, IInv, CacheHolds, BuiltHolds

LEMMA ChainIInv == ASSUME IInv, ChainNext, UNCHANGED built PROVE IInv'
<1>1. ChainInv' /\ \A k \in TableKeys : Evolves(k)
  BY ChainStep DEF IInv
<1>2. UNCHANGED <<lut_cache, fetching>>
  BY DEF ChainNext, AdvanceSlot, CreateTable, ExtendTable, DeactivateTable, CloseTable, cacheVars
<1>3. ASSUME NEW o \in Owners PROVE CacheHolds(o)'
  <2> SUFFICES ASSUME lut_cache[o] # None
               PROVE  /\ lut_cache[o].key \in TableKeys
                      /\ table'[lut_cache[o].key] = None => Dead(lut_cache[o].key)'
                      /\ \A i \in DOMAIN lut_cache[o].addresses :
                            Holds(lut_cache[o].key, i, lut_cache[o].addresses[i])'
    BY <1>2 DEF CacheHolds
  <2>1. CacheHolds(o)
    BY DEF IInv
  <2>2. PICK k \in TableKeys : k = lut_cache[o].key
    BY <2>1 DEF CacheHolds
  <2>3. lut_cache'[o].key = k /\ lut_cache' = lut_cache
    BY <1>2, <2>2
  <2>4. table'[k] = None => k.slot < slot' /\ k.slot \notin slot_hashes'
    BY <1>1, <2>1, <2>2 DEF CacheHolds, Evolves, Dead
  <2>5. ASSUME NEW i \in DOMAIN lut_cache[o].addresses
        PROVE  Holds(k, i, lut_cache[o].addresses[i])'
    BY <1>1, <1>2, <2>1, <2>2 DEF CacheHolds, Evolves, Holds
  <2> QED
    BY <2>2, <2>3, <2>4, <2>5 DEF Dead, Holds
<1>4. ASSUME NEW c \in Calls PROVE Fetches(c)'
  BY <1>2 DEF IInv, Fetches
<1>5. BuiltHolds'
  BY <1>1 DEF IInv, BuiltHolds, Holds, Evolves
<1> QED
  BY <1>1, <1>2, <1>3, <1>4, <1>5 DEF IInv

(* A step that leaves the chain alone leaves every place as it is.         *)
LEMMA Undisturbed ==
    ASSUME IInv, UNCHANGED chainVars
    PROVE  ChainInv' /\ (UNCHANGED built => BuiltHolds')
BY DEF IInv, ChainInv, Typed, Aged, BuiltHolds, Holds, Dead, chainVars

LEMMA LoadOwnersIInv ==
    ASSUME IInv, UNCHANGED built, NEW c \in Calls, NEW oracle_keys \in Seq(Owners),
           LoadOwners(c, oracle_keys)
    PROVE  IInv'
<1>1. /\ UNCHANGED <<slot, slot_hashes, table, lut_slot, lut_cache>>
      /\ fetching' = [fetching EXCEPT ![c] = fetching'[c]]
      /\ \A f \in DOMAIN fetching'[c].lut_key :
            /\ f \in DOMAIN oracle_keys /\ lut_slot[oracle_keys[f]] # None
            /\ fetching'[c].lut_key[f] = [owner |-> oracle_keys[f], slot |-> lut_slot[oracle_keys[f]]]
  BY DEF LoadOwners, chainVars, IInv
<1>2. ChainInv' /\ BuiltHolds'
  BY <1>1, Undisturbed DEF chainVars
<1>3. \A o \in Owners : CacheHolds(o)'
  BY <1>1 DEF IInv, CacheHolds, Holds, Dead
<1>4. ASSUME NEW d \in Calls PROVE Fetches(d)'
  <2>1. CASE d # c
    BY <1>1, <2>1 DEF IInv, Fetches
  <2>2. CASE d = c
    <3>1. lut_slot \in [Owners -> Slots \cup {None}]
      BY DEF IInv, ChainInv, Typed
    <3>2. ASSUME NEW f \in DOMAIN fetching'[c].lut_key PROVE fetching'[c].lut_key[f] \in TableKeys
      <4>0. f \in DOMAIN oracle_keys /\ lut_slot[oracle_keys[f]] # None
        BY <1>1
      <4>1. oracle_keys[f] \in Owners /\ lut_slot[oracle_keys[f]] \in Slots
        BY <4>0, <3>1
      <4>2. PICK o \in Owners, s \in Slots : fetching'[c].lut_key[f] = [owner |-> o, slot |-> s]
        BY <1>1, <4>1
      <4> QED
        BY <4>2 DEF TableKeys
    <3> QED
      BY <2>2, <3>2 DEF Fetches
  <2> QED
    BY <2>1, <2>2
<1>5. fetching' = [d \in Calls |-> fetching'[d]] /\ lut_cache' = [o \in Owners |-> lut_cache'[o]]
  BY <1>1 DEF IInv
<1> QED
  BY <1>2, <1>3, <1>4, <1>5 DEF IInv

(* A table that is cached holds what the snapshot says.                    *)
LEMMA CacheTablesIInv ==
    ASSUME IInv, UNCHANGED built, NEW c \in Calls, CacheTables(c)
    PROVE  IInv'
<1>1. /\ UNCHANGED <<slot, slot_hashes, table, lut_slot>>
      /\ fetching' = [fetching EXCEPT ![c] = NoFetch]
  BY DEF CacheTables, chainVars
<1>2. ChainInv' /\ BuiltHolds'
  BY <1>1, Undisturbed DEF chainVars
<1>3. ASSUME NEW d \in Calls PROVE Fetches(d)'
  BY <1>1 DEF IInv, Fetches, NoFetch
<1>4. ASSUME NEW o \in Owners PROVE CacheHolds(o)'
  <2>1. CASE \E f \in Found(c) : GoesTo(c, o, f)
    <3>1. PICK f \in Found(c) : lut_cache'[o] = Snapshot(fetching[c].lut_key[f])
      <4> DEFINE f == CHOOSE f \in Found(c) : GoesTo(c, o, f)
      <4>1. f \in Found(c)
        BY <2>1
      <4>2. lut_cache'[o] = Snapshot(fetching[c].lut_key[f])
        BY <2>1 DEF CacheTables
      <4> QED
        BY <4>1, <4>2
    <3>2. PICK k \in TableKeys : k = fetching[c].lut_key[f] /\ table[k] # None
      BY DEF Found, IInv, Fetches
    <3>3. lut_cache'[o].key = k /\ lut_cache'[o].addresses = table[k].addresses
      BY <3>1, <3>2 DEF Snapshot
    <3> QED
      BY <1>1, <3>2, <3>3 DEF CacheHolds, Holds
  <2>2. CASE ~ \E f \in Found(c) : GoesTo(c, o, f)
    <3>1. lut_cache'[o] = lut_cache[o]
      BY <2>2 DEF CacheTables
    <3> QED
      BY <1>1, <3>1 DEF IInv, CacheHolds, Holds, Dead
  <2> QED
    BY <2>1, <2>2
<1>5. fetching' = [d \in Calls |-> fetching'[d]] /\ lut_cache' = [o \in Owners |-> lut_cache'[o]]
  BY <1>1 DEF IInv, CacheTables
<1> QED
  BY <1>2, <1>3, <1>4, <1>5 DEF IInv

LEMMA CacheIInv == ASSUME IInv, CacheNext, UNCHANGED built PROVE IInv'
<1> PICK c \in Calls :
        \/ \E o, p \in Owners : LoadOwners(c, IF o = p THEN <<o>> ELSE <<o, p>>)
        \/ CacheTables(c)
        \/ FetchFails(c)
  BY DEF CacheNext
<1>1. CASE \E o, p \in Owners : LoadOwners(c, IF o = p THEN <<o>> ELSE <<o, p>>)
  <2> PICK o \in Owners, p \in Owners : LoadOwners(c, IF o = p THEN <<o>> ELSE <<o, p>>)
    BY <1>1
  <2>1. (IF o = p THEN <<o>> ELSE <<o, p>>) \in Seq(Owners)
    OBVIOUS
  <2> QED
    BY <2>1, LoadOwnersIInv
<1>2. CASE CacheTables(c)
  BY <1>2, CacheTablesIInv
<1>3. CASE FetchFails(c)
  <2>1. UNCHANGED chainVars /\ UNCHANGED lut_cache /\ fetching' = [fetching EXCEPT ![c] = NoFetch]
    BY <1>3 DEF FetchFails
  <2>2. ASSUME NEW d \in Calls PROVE Fetches(d)'
    BY <2>1 DEF IInv, Fetches, NoFetch
  <2>3. \A o \in Owners : CacheHolds(o)'
    BY <2>1 DEF IInv, CacheHolds, Holds, Dead, chainVars
  <2>4. fetching' = [d \in Calls |-> fetching'[d]]
    BY <2>1 DEF IInv
  <2> QED
    BY <2>1, <2>2, <2>3, <2>4, Undisturbed DEF IInv
<1> QED
  BY <1>1, <1>2, <1>3

LEMMA LeastIndex ==
    ASSUME NEW I \in SUBSET Nat, I # {}
    PROVE  \E i \in I : \A j \in I : i <= j
<1>1. PICK i \in I : \A j \in I : ~(<<j, i>> \in OpToRel(<, Nat))
  BY NatLessThanWellFounded, WFMin
<1>2. \A j \in I : ~(j < i)
  BY <1>1 DEF OpToRel
<1> QED
  BY <1>2

(* What Compile names by a place is what a table given to it has there.    *)
LEMMA CompiledPlaces ==
    ASSUME NEW b, NEW luts, DOMAIN luts \in SUBSET Nat, NEW a \in DOMAIN Compile(b, luts)
    PROVE  \E i \in DOMAIN luts :
             /\ Compile(b, luts)[a].key = luts[i].key
             /\ Compile(b, luts)[a].index \in DOMAIN luts[i].addresses
             /\ luts[i].addresses[Compile(b, luts)[a].index] = a
<1> DEFINE Has(x, i) == \E j \in DOMAIN luts[i].addresses : luts[i].addresses[j] = x
<1> DEFINE first == CHOOSE i \in DOMAIN luts : Has(a, i) /\ \A n \in DOMAIN luts : Has(a, n) => i <= n
<1> DEFINE t == luts[first]
<1> DEFINE place == CHOOSE j \in DOMAIN t.addresses : t.addresses[j] = a
<1>1. \E i \in DOMAIN luts : Has(a, i)
  BY DEF Compile
<1>2. Compile(b, luts)[a] = [key |-> t.key, index |-> place]
  BY DEF Compile
<1>3. first \in DOMAIN luts /\ Has(a, first)
  <2> DEFINE I == {i \in DOMAIN luts : Has(a, i)}
  <2>1. I \in SUBSET Nat /\ I # {}
    BY <1>1
  <2> HIDE DEF I
  <2>2. \E i \in I : \A j \in I : i <= j
    BY <2>1, LeastIndex
  <2>3. \E i \in DOMAIN luts : Has(a, i) /\ \A n \in DOMAIN luts : Has(a, n) => i <= n
    BY <2>2 DEF I
  <2> QED
    BY <2>3
<1> HIDE DEF first
<1>4. place \in DOMAIN t.addresses /\ t.addresses[place] = a
  BY <1>3
<1> HIDE DEF place
<1> QED
  BY <1>2, <1>3, <1>4

LEMMA BuildIInv ==
    ASSUME IInv, NEW r \in Requests, NEW owners \in Seq(Owners), Build(r, owners)
    PROVE  IInv'
<1> DEFINE luts == [i \in DOMAIN owners |-> lut_cache[owners[i]]]
<1> DEFINE b == r.builder
<1>1. UNCHANGED lutVars /\ \A i \in DOMAIN owners : lut_cache[owners[i]] # None
  BY DEF Build
<1>2. built'.lookups = Compile(b, luts) \/ built'.lookups = <<>>
  BY DEF Build
<1>3. BuiltHolds'
  <2>1. CASE built'.lookups = <<>>
    BY <2>1 DEF BuiltHolds
  <2>2. CASE built'.lookups = Compile(b, luts)
    <3>1. ASSUME NEW a \in DOMAIN Compile(b, luts)
          PROVE  /\ Compile(b, luts)[a].key \in TableKeys
                 /\ Holds(Compile(b, luts)[a].key, Compile(b, luts)[a].index, a)
      <4>1. DOMAIN luts \in SUBSET Nat
        OBVIOUS
      <4>a. \A i \in DOMAIN luts : owners[i] \in Owners /\ luts[i] = lut_cache[owners[i]]
        OBVIOUS
      <4>b. \A i \in DOMAIN luts : lut_cache[owners[i]] # None
        BY <1>1
      <4> HIDE DEF b, luts
      <4>2. PICK i \in DOMAIN luts :
               /\ Compile(b, luts)[a].key = luts[i].key
               /\ Compile(b, luts)[a].index \in DOMAIN luts[i].addresses
               /\ luts[i].addresses[Compile(b, luts)[a].index] = a
        BY <3>1, <4>1, CompiledPlaces
      <4>3. owners[i] \in Owners /\ luts[i] = lut_cache[owners[i]] /\ lut_cache[owners[i]] # None
        BY <4>a, <4>b
      <4>4. CacheHolds(owners[i])
        BY <4>3 DEF IInv
      <4> QED
        BY <4>2, <4>3, <4>4 DEF CacheHolds
    <3> HIDE DEF luts, b
    <3>2. \A a \in DOMAIN built'.lookups :
             /\ built'.lookups[a].key \in TableKeys
             /\ Holds(built'.lookups[a].key, built'.lookups[a].index, a)
      BY <2>2, <3>1
    <3> QED
      BY <1>1, <3>2 DEF BuiltHolds, Holds, Dead, lutVars, chainVars
  <2> QED
    BY <1>2, <2>1, <2>2
<1>4. ChainInv'
  BY <1>1, Undisturbed DEF lutVars
<1>5. \A o \in Owners : CacheHolds(o)'
  BY <1>1 DEF lutVars, chainVars, cacheVars, IInv, CacheHolds, Holds, Dead
<1>6. \A c \in Calls : Fetches(c)'
  BY <1>1 DEF lutVars, cacheVars, IInv, Fetches
<1>7. fetching' = [c \in Calls |-> fetching'[c]] /\ lut_cache' = [o \in Owners |-> lut_cache'[o]]
  BY <1>1 DEF lutVars, cacheVars, IInv
<1> QED
  BY <1>3, <1>4, <1>5, <1>6, <1>7 DEF IInv

LEMMA StepIInv == ASSUME IInv, [Next]_vars PROVE IInv'
<1>1. CASE ChainNext /\ UNCHANGED built
  BY <1>1, ChainIInv
<1>2. CASE CacheNext /\ UNCHANGED built
  BY <1>2, CacheIInv
<1>3. ASSUME NEW r \in Requests, NEW o \in Owners, NEW p \in Owners,
             NEW owners \in {<<>>, <<o>>, <<o, p>>}, Build(r, owners)
      PROVE  IInv'
  <2>1. owners \in Seq(Owners)
    <3>1. <<>> \in Seq(Owners) /\ <<o>> \in Seq(Owners) /\ <<o, p>> \in Seq(Owners)
      OBVIOUS
    <3> QED
      BY <3>1
  <2> QED
    BY <1>3, <2>1, BuildIInv
<1>4. CASE UNCHANGED vars
  <2>1. UNCHANGED lutVars /\ UNCHANGED built
    BY <1>4 DEF vars
  <2>2. ChainInv' /\ BuiltHolds'
    BY <2>1, Undisturbed DEF lutVars
  <2>3. \A o \in Owners : CacheHolds(o)'
    BY <2>1 DEF lutVars, chainVars, cacheVars, IInv, CacheHolds, Holds, Dead
  <2>4. \A c \in Calls : Fetches(c)'
    BY <2>1 DEF lutVars, cacheVars, IInv, Fetches
  <2> QED
    BY <2>1, <2>2, <2>3, <2>4 DEF IInv, lutVars, cacheVars
<1> QED
  BY <1>1, <1>2, <1>3, <1>4 DEF Next

LEMMA Invariance == Spec => []IInv
<1> QED
  BY InitIInv, StepIInv, PTL DEF Spec

----------------------------------------------------------------------------
(* A v0 transaction built from cached tables names the accounts that were  *)
(* meant or is refused, for ever.                                          *)
THEOREM LandsAsWrittenAlways == Spec => []LandsAsWritten
<1>1. IInv => LandsAsWritten
  <2> SUFFICES ASSUME IInv, built # None, NEW a \in DOMAIN built.lookups
               PROVE  Loaded(built.lookups[a]) \in {a, None}
    BY DEF LandsAsWritten
  <2>1. Holds(built.lookups[a].key, built.lookups[a].index, a)
    BY DEF IInv, BuiltHolds
  <2> QED
    BY <2>1 DEF Holds, Loaded, lookup
<1> QED
  BY <1>1, Invariance, PTL

(* The address of a cached table serves no lookups once it has served its  *)
(* last: the cool-down outlasts every slot it could be created from.       *)
THEOREM NeverReactivatedAlways == Spec => NeverReactivated
<1>1. ASSUME IInv, [Next]_vars, NEW k \in TableKeys, Cached(k), ~Active(k)
      PROVE  ~Active(k)'
  <2>1. CASE ChainNext
    <3>1. Evolves(k)
      BY <1>1, <2>1, ChainStep DEF IInv
    <3>2. CASE table[k] = None
      <4>1. Dead(k)
        BY <1>1, <3>2 DEF IInv, Cached, CacheHolds
      <4> QED
        BY <3>1, <3>2, <4>1 DEF Evolves, Active
    <3>3. CASE table[k] # None
      BY <1>1, <3>1, <3>3 DEF Evolves, Active
    <3> QED
      BY <3>2, <3>3
  <2>2. CASE UNCHANGED chainVars
    BY <1>1, <2>2, ActiveFacts, ActiveFactsNext DEF Active, chainVars
  <2>3. ChainNext \/ UNCHANGED chainVars
    <3>1. CacheNext => UNCHANGED chainVars
      BY DEF CacheNext, LoadOwners, CacheTables, FetchFails
    <3>2. \A r, owners : Build(r, owners) => UNCHANGED chainVars
      BY DEF Build, lutVars
    <3>3. UNCHANGED vars => UNCHANGED chainVars
      BY DEF vars, lutVars
    <3> QED
      BY <1>1, <3>1, <3>2, <3>3 DEF Next
  <2> QED
    BY <2>1, <2>2, <2>3
<1> DEFINE A == \A k \in TableKeys : Cached(k) /\ ~Active(k) => ~Active(k)'
<1>2. IInv /\ [Next]_vars => [A]_lutVars
  BY <1>1
<1>3. Spec => [][A]_lutVars
  BY <1>2, Invariance, PTL DEF Spec
<1> QED
  BY <1>3 DEF NeverReactivated

----------------------------------------------------------------------------
(* The invariant behind MovedUpOverMissing: the tables a call looks for are those   *)
(* of owners it found missing, each at the place of its owner.             *)
OwnFetch(c) ==
    /\ fetching[c].missing \subseteq Nat /\ IsFiniteSet(fetching[c].missing)
    /\ DOMAIN fetching[c].lut_key \subseteq fetching[c].missing
    /\ \A i \in DOMAIN fetching[c].lut_key :
          fetching[c].lut_key[i].owner = fetching[c].keys[i]

OwnInv == \A c \in Calls : OwnFetch(c)

(* The rank of a number grows with it, and with the set.                   *)
LEMMA RankGrows ==
    ASSUME NEW I \in SUBSET Nat, IsFiniteSet(I), NEW m \in I, NEW n \in I, m < n
    PROVE  Rank(I, m) < Rank(I, n)
<1> DEFINE UpTo(k) == {x \in I : x <= k}
<1>1. UpTo(m) \in SUBSET UpTo(n)
  <2>1. m \in Nat /\ n \in Nat /\ \A x \in I : x \in Nat
    OBVIOUS
  <2>2. ASSUME NEW x \in I, x <= m PROVE x <= n
    BY <2>1, <2>2
  <2> QED
    BY <2>2
<1>2. n \in UpTo(n) /\ n \notin UpTo(m)
  OBVIOUS
<1>3. IsFiniteSet(UpTo(n))
  BY FS_Subset
<1> HIDE DEF UpTo
<1>4. /\ Cardinality(UpTo(m)) \in Nat /\ Cardinality(UpTo(n)) \in Nat
      /\ Cardinality(UpTo(m)) <= Cardinality(UpTo(n))
      /\ Cardinality(UpTo(m)) # Cardinality(UpTo(n))
  BY <1>1, <1>2, <1>3, FS_Subset, FS_CardinalityType
<1> DEFINE a == Cardinality(UpTo(m))  b == Cardinality(UpTo(n))
<1>5. Rank(I, m) = a /\ Rank(I, n) = b
  BY DEF Rank, UpTo
<1> HIDE DEF a, b
<1>6. a \in Nat /\ b \in Nat /\ a <= b /\ a # b
  BY <1>4 DEF a, b
<1> QED
  BY <1>5, <1>6

LEMMA RankInSubset ==
    ASSUME NEW I \in SUBSET Nat, IsFiniteSet(I), NEW F \in SUBSET I, NEW n \in Nat
    PROVE  /\ Rank(F, n) \in Nat /\ Rank(I, n) \in Nat /\ Rank(F, n) <= Rank(I, n)
           /\ (\A x \in I : x <= n => x \in F) => Rank(F, n) = Rank(I, n)
<1> DEFINE A == {x \in F : x <= n}  B == {x \in I : x <= n}
<1>1. A \subseteq B /\ IsFiniteSet(B) /\ IsFiniteSet(A)
  BY FS_Subset
<1>2. (\A x \in I : x <= n => x \in F) => A = B
  OBVIOUS
<1>3. Rank(F, n) = Cardinality(A) /\ Rank(I, n) = Cardinality(B)
  BY DEF Rank
<1> HIDE DEF A, B
<1> QED
  BY <1>1, <1>2, <1>3, FS_Subset, FS_CardinalityType

(* What is found goes to its own place, or up over one that was not found. *)
LEMMA PairedIsBehind ==
    ASSUME NEW I \in SUBSET Nat, IsFiniteSet(I), NEW F \in SUBSET I,
           NEW own \in I, NEW f \in F, f # own, Rank(I, own) = Rank(F, f)
    PROVE  own < f /\ \E lost \in I : lost <= own /\ lost \notin F
<1>0. own \in Nat /\ f \in Nat /\ f \in I /\ IsFiniteSet(F) /\ F \in SUBSET Nat
  BY FS_Subset
<1> DEFINE If == Rank(I, f)  Io == Rank(I, own)  Ff == Rank(F, f)  Fo == Rank(F, own)
<1>1. /\ If \in Nat /\ Io \in Nat /\ Ff \in Nat /\ Fo \in Nat /\ Ff <= If
      /\ (\A x \in I : x <= own => x \in F) => Fo = Io
  BY <1>0, RankInSubset
<1>2. f < own => If < Io
  BY <1>0, RankGrows
<1>3. own \in F /\ own < f => Fo < Ff
  BY <1>0, RankGrows
<1>4. Io = Ff
  OBVIOUS
<1> HIDE DEF If, Io, Ff, Fo
<1>5. own < f
  BY <1>0, <1>1, <1>2, <1>4
<1>6. ASSUME \A x \in I : x <= own => x \in F PROVE FALSE
  <2>1. own \in F /\ Fo = Io
    BY <1>0, <1>1, <1>6
  <2> QED
    BY <1>1, <1>3, <1>4, <1>5, <2>1
<1> QED
  BY <1>5, <1>6

LEMMA OwnInit == Init => OwnInv
<1> SUFFICES ASSUME Init PROVE OwnInv
  OBVIOUS
<1>1. \A c \in Calls : fetching[c] = NoFetch
  BY DEF Init, LutInit
<1>2. IsFiniteSet({})
  BY FS_EmptySet
<1>3. ASSUME NEW c \in Calls PROVE OwnFetch(c)
  <2>1. fetching[c].missing = {} /\ fetching[c].lut_key = <<>> /\ DOMAIN <<>> = {}
    BY <1>1 DEF NoFetch
  <2> QED
    BY <1>2, <2>1 DEF OwnFetch
<1> QED
  BY <1>3 DEF OwnInv, Init, LutInit

LEMMA LoadOwnersOwn ==
    ASSUME IInv, OwnInv, NEW c \in Calls, NEW n \in Nat, NEW oracle_keys,
           DOMAIN oracle_keys = 1..n, LoadOwners(c, oracle_keys)
    PROVE  OwnInv'
<1>1. UNCHANGED lut_cache /\ fetching' = [fetching EXCEPT ![c] = fetching'[c]]
  BY DEF LoadOwners, IInv
<1>2. /\ fetching'[c].keys = oracle_keys
      /\ fetching'[c].missing \subseteq 1..n
      /\ DOMAIN fetching'[c].lut_key \subseteq fetching'[c].missing
      /\ \A i \in DOMAIN fetching'[c].lut_key : fetching'[c].lut_key[i].owner = oracle_keys[i]
  BY DEF LoadOwners, IInv
<1>3. IsFiniteSet(fetching'[c].missing) /\ fetching'[c].missing \subseteq Nat
  BY <1>2, FS_Interval, FS_Subset
<1>4. ASSUME NEW d \in Calls PROVE OwnFetch(d)'
  <2>1. CASE d = c
    BY <1>2, <1>3, <2>1 DEF OwnFetch
  <2>2. CASE d # c
    BY <1>1, <2>2 DEF IInv, OwnInv, OwnFetch
  <2> QED
    BY <2>1, <2>2
<1> QED
  BY <1>1, <1>4 DEF OwnInv

LEMMA CacheTablesOwn ==
    ASSUME IInv, OwnInv, NEW c \in Calls, CacheTables(c)
    PROVE  OwnInv'
<1>1. fetching' = [fetching EXCEPT ![c] = NoFetch]
  BY DEF CacheTables
<1>2. ASSUME NEW d \in Calls PROVE OwnFetch(d)'
  <2>1. CASE d = c
    <3>1. fetching'[d] = NoFetch
      BY <1>1, <2>1 DEF IInv
    <3> QED
      BY <3>1, FS_EmptySet DEF OwnFetch, NoFetch
  <2>2. CASE d # c
    BY <1>1, <2>2 DEF IInv, OwnInv, OwnFetch
  <2> QED
    BY <2>1, <2>2
<1> QED
  BY <1>2 DEF OwnInv

LEMMA OwnStep == ASSUME IInv, OwnInv, [Next]_vars PROVE OwnInv'
<1>1. CASE UNCHANGED cacheVars
  BY <1>1 DEF OwnInv, OwnFetch, cacheVars
<1>2. ASSUME NEW c \in Calls, NEW o \in Owners, NEW p \in Owners,
             LoadOwners(c, IF o = p THEN <<o>> ELSE <<o, p>>)
      PROVE  OwnInv'
  <2>1. DOMAIN <<o>> = 1..1 /\ DOMAIN <<o, p>> = 1..2
    OBVIOUS
  <2> QED
    BY <1>2, <2>1, LoadOwnersOwn
<1>3. ASSUME NEW c \in Calls, FetchFails(c) PROVE OwnInv'
  <2>1. UNCHANGED lut_cache /\ fetching' = [fetching EXCEPT ![c] = NoFetch]
    BY <1>3 DEF FetchFails
  <2>2. ASSUME NEW d \in Calls PROVE OwnFetch(d)'
    BY <2>1, FS_EmptySet DEF IInv, OwnInv, OwnFetch, NoFetch
  <2> QED
    BY <2>1, <2>2 DEF OwnInv
<1>4. CASE CacheNext
  BY <1>2, <1>3, <1>4, CacheTablesOwn DEF CacheNext
<1>5. CASE ChainNext
  BY <1>1, <1>5 DEF ChainNext, AdvanceSlot, CreateTable, ExtendTable, DeactivateTable, CloseTable
<1>6. \A r, owners : Build(r, owners) => UNCHANGED cacheVars
  BY DEF Build, lutVars
<1>7. UNCHANGED vars => UNCHANGED cacheVars
  BY DEF vars, lutVars
<1> QED
  BY <1>1, <1>4, <1>5, <1>6, <1>7 DEF Next

LEMMA OwnInvariance == Spec => []OwnInv
BY OwnInit, OwnStep, Invariance, PTL DEF Spec

(* An owner gets the table of another only from behind it in the same      *)
(* call, over one that was not found, whatever other calls cache in the    *)
(* meantime.                                                               *)
THEOREM MovedUpOverMissingAlways == Spec => MovedUpOverMissing
<1> DEFINE Moved(o) ==
      \E c \in Calls : \E lost, own, other \in fetching[c].missing :
         /\ lost <= own /\ own < other
         /\ lost \notin Found(c) /\ other \in Found(c)
         /\ fetching[c].keys[own] = o
         /\ lut_cache'[o].key = fetching[c].lut_key[other]
<1>1. ASSUME IInv, OwnInv, NEW c \in Calls, CacheTables(c), NEW o \in Owners,
             lut_cache'[o] # lut_cache[o], lut_cache'[o].key.owner # o
      PROVE  Moved(o)
  <2>1. \E f \in Found(c) : GoesTo(c, o, f)
    BY <1>1 DEF CacheTables
  <2>2. PICK f \in Found(c) : GoesTo(c, o, f) /\ lut_cache'[o] = Snapshot(fetching[c].lut_key[f])
    <3> DEFINE f == CHOOSE f \in Found(c) : GoesTo(c, o, f)
    <3>1. f \in Found(c) /\ GoesTo(c, o, f)
      BY <2>1
    <3>2. lut_cache'[o] = Snapshot(fetching[c].lut_key[f])
      BY <1>1, <2>1 DEF CacheTables
    <3> QED
      BY <3>1, <3>2
  <2>3. PICK own \in fetching[c].missing :
               fetching[c].keys[own] = o /\ Rank(fetching[c].missing, own) = Rank(Found(c), f)
    BY <2>2 DEF GoesTo, Paired
  <2>4. lut_cache'[o].key = fetching[c].lut_key[f]
    BY <2>2 DEF Snapshot
  <2>5. /\ fetching[c].missing \in SUBSET Nat /\ IsFiniteSet(fetching[c].missing)
        /\ Found(c) \in SUBSET fetching[c].missing
        /\ fetching[c].lut_key[f].owner = fetching[c].keys[f]
    BY <1>1, <2>2 DEF OwnInv, OwnFetch, Found
  <2>6. f # own
    BY <1>1, <2>3, <2>4, <2>5
  <2>7. own < f /\ \E lost \in fetching[c].missing : lost <= own /\ lost \notin Found(c)
    BY <2>2, <2>3, <2>5, <2>6, PairedIsBehind
  <2> QED
    BY <2>2, <2>3, <2>4, <2>5, <2>7
<1> DEFINE A == \A o \in Owners : lut_cache'[o] # lut_cache[o] /\ lut_cache'[o].key.owner # o => Moved(o)
<1>2. ASSUME IInv, OwnInv, [Next]_vars PROVE [A]_lutVars
  <2>1. CASE \E c \in Calls : CacheTables(c)
    BY <1>1, <1>2, <2>1
  <2>2. CASE UNCHANGED lut_cache
    BY <2>2
  <2>3. (\E c \in Calls : CacheTables(c)) \/ UNCHANGED lut_cache
    <3>1. CacheNext => (\E c \in Calls : CacheTables(c)) \/ UNCHANGED lut_cache
      BY DEF CacheNext, LoadOwners, FetchFails
    <3>2. ChainNext => UNCHANGED lut_cache
      BY DEF ChainNext, AdvanceSlot, CreateTable, ExtendTable, DeactivateTable, CloseTable, cacheVars
    <3>3. \A r, owners : Build(r, owners) => UNCHANGED lut_cache
      BY DEF Build, lutVars, cacheVars
    <3>4. UNCHANGED vars => UNCHANGED lut_cache
      BY DEF vars, lutVars, cacheVars
    <3> QED
      BY <1>2, <3>1, <3>2, <3>3, <3>4 DEF Next
  <2> QED
    BY <2>1, <2>2, <2>3
<1>3. Spec => [][A]_lutVars
  BY <1>2, Invariance, OwnInvariance, PTL DEF Spec
<1> QED
  BY <1>3 DEF MovedUpOverMissing

----------------------------------------------------------------------------
(* A conversion succeeds if and only if none of its checks fails.          *)
LEMMA NoneFails ==
    ASSUME NEW checks, DOMAIN checks \in SUBSET Nat,
           \A i \in DOMAIN checks : checks[i].holds \in BOOLEAN /\ checks[i].error # "Ok"
    PROVE  (FirstError(checks) = "Ok") <=> (\A i \in DOMAIN checks : checks[i].holds)
<1> DEFINE failed == {i \in DOMAIN checks : ~checks[i].holds}
<1>1. CASE failed = {}
  BY <1>1 DEF FirstError
<1>2. CASE failed # {}
  <2> DEFINE first == CHOOSE i \in failed : \A j \in failed : i <= j
  <2>1. FirstError(checks) = checks[first].error
    BY <1>2 DEF FirstError
  <2>2. failed \in SUBSET Nat
    OBVIOUS
  <2>3. first \in failed
    <3> HIDE DEF failed
    <3>1. \E i \in failed : \A j \in failed : i <= j
      BY <1>2, <2>2, LeastIndex
    <3> QED
      BY <3>1
  <2>4. \E i \in DOMAIN checks : ~checks[i].holds
    BY <1>2
  <2> HIDE DEF first
  <2> QED
    BY <2>1, <2>3, <2>4
<1> QED
  BY <1>1, <1>2

AllHold(checks) == \A i \in DOMAIN checks : checks[i].holds

LEMMA AllHoldBoth ==
    ASSUME NEW R, NEW s \in Seq(R), NEW t \in Seq(R)
    PROVE  AllHold(s \o t) <=> AllHold(s) /\ AllHold(t)
<1>1. /\ Len(s) \in Nat /\ Len(t) \in Nat
      /\ DOMAIN s = 1..Len(s) /\ DOMAIN t = 1..Len(t)
      /\ DOMAIN (s \o t) = 1..(Len(s) + Len(t))
      /\ \A i \in 1..Len(s) : (s \o t)[i] = s[i]
  OBVIOUS
<1>2. \A i \in 1..Len(t) : (s \o t)[Len(s) + i] = t[i]
  OBVIOUS
<1> DEFINE st == s \o t
<1> HIDE DEF st
<1>3. ASSUME AllHold(st) PROVE AllHold(s) /\ AllHold(t)
  <2>1. \A i \in 1..Len(s) : i \in 1..(Len(s) + Len(t)) /\ st[i] = s[i]
    BY <1>1 DEF st
  <2>2. \A i \in 1..Len(t) : Len(s) + i \in 1..(Len(s) + Len(t)) /\ st[Len(s) + i] = t[i]
    BY <1>1, <1>2 DEF st
  <2>3. DOMAIN st = 1..(Len(s) + Len(t))
    BY <1>1 DEF st
  <2> QED
    BY <1>1, <1>3, <2>1, <2>2, <2>3 DEF AllHold
<1>4. ASSUME AllHold(s), AllHold(t) PROVE AllHold(st)
  <2> SUFFICES ASSUME NEW i \in 1..(Len(s) + Len(t)) PROVE st[i].holds
    BY <1>1 DEF AllHold, st
  <2>1. CASE i \in 1..Len(s)
    BY <1>1, <1>4, <2>1 DEF AllHold, st
  <2>2. CASE i \notin 1..Len(s)
    <3> DEFINE j == i - Len(s)
    <3>1. j \in 1..Len(t) /\ i = Len(s) + j
      BY <1>1, <2>2
    <3> HIDE DEF j
    <3>2. st[i] = t[j]
      BY <1>2, <3>1 DEF st
    <3> QED
      BY <1>1, <1>4, <3>1, <3>2 DEF AllHold
  <2> QED
    BY <2>1, <2>2
<1> QED
  BY <1>3, <1>4 DEF st

LEMMA AllHoldFew ==
    ASSUME NEW c, NEW d
    PROVE  /\ AllHold(<<c>>) <=> c.holds
           /\ AllHold(<<c, d>>) <=> c.holds /\ d.holds
<1>1. AllHold(<<c>>) <=> c.holds
  BY DEF AllHold
<1>2. AllHold(<<c, d>>) <=> c.holds /\ d.holds
  <2> DEFINE s == <<c, d>>
  <2>1. DOMAIN s = 1..2 /\ s[1] = c /\ s[2] = d
    OBVIOUS
  <2>2. \A i \in 1..2 : i = 1 \/ i = 2
    OBVIOUS
  <2> HIDE DEF s
  <2>3. AllHold(s) <=> c.holds /\ d.holds
    BY <2>1, <2>2 DEF AllHold
  <2> QED
    BY <2>3 DEF s
<1> QED
  BY <1>1, <1>2

(* The checks of a conversion: those of the instructions, of the signers   *)
(* and of the signatures, and perhaps one before them.                     *)
Sound(c) == c.holds \in BOOLEAN /\ c.error # "Ok"

LEMMA NoError ==
    ASSUME NEW R, \A c \in R : Sound(c), NEW s \in Seq(R)
    PROVE  (FirstError(s) = "Ok") <=> AllHold(s)
<1>1. \A i \in DOMAIN s : s[i] \in R
  OBVIOUS
<1>2. DOMAIN s \in SUBSET Nat
  OBVIOUS
<1> QED
  BY <1>1, <1>2, NoneFails DEF AllHold, Sound

LEMMA SoundChecks ==
    ASSUME NEW R, \A c \in R : Sound(c),
           NEW s \in Seq(R), NEW t \in Seq(R), NEW u \in Seq(R), NEW first \in Seq(R)
    PROVE  /\ (FirstError(s \o t \o u) = "Ok") <=> AllHold(s) /\ AllHold(t) /\ AllHold(u)
           /\ (FirstError(first \o s \o t \o u) = "Ok")
                 <=> AllHold(first) /\ AllHold(s) /\ AllHold(t) /\ AllHold(u)
<1>0. \A a, b \in Seq(R) : a \o b \in Seq(R) /\ (AllHold(a \o b) <=> AllHold(a) /\ AllHold(b))
  BY AllHoldBoth
<1>1. s \o t \in Seq(R) /\ first \o s \in Seq(R)
  BY <1>0
<1>2. s \o t \o u \in Seq(R) /\ first \o s \o t \in Seq(R)
  BY <1>0, <1>1
<1>3. first \o s \o t \o u \in Seq(R)
  BY <1>0, <1>2
<1>4. AllHold(s \o t \o u) <=> AllHold(s) /\ AllHold(t) /\ AllHold(u)
  <2>1. AllHold(s \o t) <=> AllHold(s) /\ AllHold(t)
    BY <1>0, Zenon
  <2>2. AllHold((s \o t) \o u) <=> AllHold(s \o t) /\ AllHold(u)
    BY <1>0, <1>1, Zenon
  <2> QED
    BY <2>1, <2>2, Zenon
<1>5. AllHold(first \o s \o t \o u)
      <=> AllHold(first) /\ AllHold(s) /\ AllHold(t) /\ AllHold(u)
  <2>1. AllHold(first \o s) <=> AllHold(first) /\ AllHold(s)
    BY <1>0, Zenon
  <2>2. AllHold((first \o s) \o t) <=> AllHold(first \o s) /\ AllHold(t)
    BY <1>0, <1>1, Zenon
  <2>3. AllHold(((first \o s) \o t) \o u) <=> AllHold((first \o s) \o t) /\ AllHold(u)
    BY <1>0, <1>2, Zenon
  <2> QED
    BY <2>1, <2>2, <2>3, Zenon
<1>6. \A a \in Seq(R) : (FirstError(a) = "Ok") <=> AllHold(a)
  BY NoError
<1>7. (FirstError(s \o t \o u) = "Ok") <=> AllHold(s \o t \o u)
  BY <1>2, <1>6, Zenon
<1>8. (FirstError(first \o s \o t \o u) = "Ok") <=> AllHold(first \o s \o t \o u)
  BY <1>3, <1>6, Zenon
<1> QED
  BY <1>4, <1>5, <1>7, <1>8, Zenon

(* The instructions of a builder with those of its budget, counted.        *)
LEMMA InstructionsCounted ==
    ASSUME NEW r \in Requests
    PROVE  LET b == r.builder
           IN  Instructions(b)
               = Len(b.ixs) + Cardinality({x \in {1, 2} : (x = 1 /\ b.compute_units) \/ (x = 2 /\ b.priority_fees)})
<1> DEFINE b == r.builder
           S == {x \in {1, 2} : (x = 1 /\ b.compute_units) \/ (x = 2 /\ b.priority_fees)}
<1>1. Len(b.ixs) \in Nat /\ b.compute_units \in BOOLEAN /\ b.priority_fees \in BOOLEAN
  BY BuilderAssumption
<1>2. /\ Cardinality({}) = 0 /\ Cardinality({1}) = 1 /\ Cardinality({2}) = 1
      /\ Cardinality({1, 2}) = 2
  <2>1. Cardinality({}) = 0 /\ Cardinality({1}) = 1 /\ Cardinality({2}) = 1 /\ IsFiniteSet({1})
    BY FS_EmptySet, FS_Singleton
  <2>2. {1, 2} = {1} \cup {2} /\ 2 \notin {1}
    OBVIOUS
  <2>3. Cardinality({1} \cup {2}) = Cardinality({1}) + 1
    BY <2>1, <2>2, FS_AddElement
  <2> QED
    BY <2>1, <2>2, <2>3
<1>3. Instructions(b) = Len(b.ixs) + Cardinality(S)
  <2> DEFINE n == Len(b.ixs)
  <2>1. CASE b.compute_units /\ b.priority_fees
    <3>1. S = {1, 2}
      BY <2>1
    <3>2. Instructions(b) = n + 1 + 1
      BY <2>1 DEF Instructions
    <3> HIDE DEF b, S, n
    <3> QED
      BY <1>1, <1>2, <3>1, <3>2 DEF n
  <2>2. CASE b.compute_units /\ ~b.priority_fees
    <3>1. S = {1}
      BY <2>2
    <3>2. Instructions(b) = n + 1 + 0
      BY <2>2 DEF Instructions
    <3> HIDE DEF b, S, n
    <3> QED
      BY <1>1, <1>2, <3>1, <3>2 DEF n
  <2>3. CASE ~b.compute_units /\ b.priority_fees
    <3>1. S = {2}
      BY <2>3
    <3>2. Instructions(b) = n + 0 + 1
      BY <2>3 DEF Instructions
    <3> HIDE DEF b, S, n
    <3> QED
      BY <1>1, <1>2, <3>1, <3>2 DEF n
  <2>4. CASE ~b.compute_units /\ ~b.priority_fees
    <3>1. S = {}
      BY <2>4
    <3>2. Instructions(b) = n + 0 + 0
      BY <2>4 DEF Instructions
    <3> HIDE DEF b, S, n
    <3> QED
      BY <1>1, <1>2, <3>1, <3>2 DEF n
  <2> QED
    BY <2>1, <2>2, <2>3, <2>4
<1> HIDE DEF S
<1> QED
  BY <1>3, Zenon DEF S

(* The outcome of a conversion, with its checks taken one by one.          *)
CanBeBuilt(b, held) ==
    /\ b.ixs # <<>>
    /\ Instructions(b) <= Limit
    /\ required_signers(b) \subseteq held
    /\ b.payer \in required_signers(b)

LEMMA Conversions ==
    ASSUME NEW b, NEW payer
    PROVE  /\ (to_legacy_tx(b) = "Ok") <=> has_payer(b) /\ CanBeBuilt(b, b.signers)
           /\ (to_legacy_tx_with_payer(b, payer) = "Ok")
                 <=> payer = b.payer /\ CanBeBuilt(b, HeldWith(b, payer))
           /\ (to_legacy_tx_with_blockhash(b) = "Ok") <=> CanBeBuilt(b, b.signers)
           /\ (to_v0_tx(b) = "Ok") <=> CanBeBuilt(b, b.signers)
           /\ (to_v0_tx_with_payer(b, payer) = "Ok")
                 <=> payer = b.payer /\ CanBeBuilt(b, HeldWith(b, payer))
<1> DEFINE some   == Check(b.ixs # <<>>, "SolanaInstructionsEmpty")
           few    == Check(Instructions(b) <= Limit, "SolanaInstructionOverflow")
           keys(held) == Check(required_signers(b) \subseteq held, "SolanaMissingSigner")
           signed(e)  == Check(Signed(b), e)
           own    == Check(has_payer(b), "SolanaPayerSignerMissing")
           same   == Check(payer = b.payer, "SolanaPayerMismatch")
<1>1. some.holds = (b.ixs # <<>>) /\ Sound(some)
  BY DEF Check, Sound
<1>2. few.holds = (Instructions(b) <= Limit) /\ Sound(few)
  BY DEF Check, Sound
<1>3. \A held : keys(held).holds = (required_signers(b) \subseteq held) /\ Sound(keys(held))
  BY DEF Check, Sound
<1>4. \A e \in {"SolanaSignError", "panic"} :
         signed(e).holds = (b.payer \in required_signers(b)) /\ Sound(signed(e))
  BY DEF Check, Signed, Sound
<1>5. own.holds = has_payer(b) /\ Sound(own)
  BY DEF Check, has_payer, Sound
<1>6. same.holds = (payer = b.payer) /\ Sound(same)
  BY DEF Check, Sound
<1>7. IxsChecks(b) = <<some, few>> /\ \A held : SignersChecks(b, held) = <<keys(held)>>
  BY DEF IxsChecks, SignersChecks
<1> HIDE DEF some, few, keys, signed, own, same
<1>8. \A held : \A e \in {"SolanaSignError", "panic"} :
         /\ (FirstError(IxsChecks(b) \o SignersChecks(b, held) \o <<signed(e)>>) = "Ok")
               <=> CanBeBuilt(b, held)
         /\ \A c \in {own, same} :
               (FirstError(<<c>> \o IxsChecks(b) \o SignersChecks(b, held) \o <<signed(e)>>) = "Ok")
               <=> c.holds /\ CanBeBuilt(b, held)
  <2> SUFFICES ASSUME NEW held, NEW e \in {"SolanaSignError", "panic"}, NEW c \in {own, same}
               PROVE  /\ (FirstError(IxsChecks(b) \o SignersChecks(b, held) \o <<signed(e)>>) = "Ok")
                            <=> CanBeBuilt(b, held)
                      /\ (FirstError(<<c>> \o IxsChecks(b) \o SignersChecks(b, held) \o <<signed(e)>>) = "Ok")
                            <=> c.holds /\ CanBeBuilt(b, held)
    OBVIOUS
  <2> DEFINE k == keys(held)  g == signed(e)  R == {some, few, k, g, c}
             s == IxsChecks(b)  t == SignersChecks(b, held)  u == <<g>>  first == <<c>>
  <2>1. CanBeBuilt(b, held) <=> some.holds /\ few.holds /\ k.holds /\ g.holds
    BY <1>1, <1>2, <1>3, <1>4 DEF CanBeBuilt
  <2>2. Sound(some) /\ Sound(few) /\ Sound(k) /\ Sound(g) /\ Sound(c)
    BY <1>1, <1>2, <1>3, <1>4, <1>5, <1>6
  <2>3. s = <<some, few>> /\ t = <<k>>
    BY <1>7
  <2> HIDE DEF k, g, s, t
  <2>4. s \in Seq(R) /\ t \in Seq(R) /\ u \in Seq(R) /\ first \in Seq(R)
    BY <2>3
  <2>5. /\ AllHold(s) <=> some.holds /\ few.holds
        /\ AllHold(t) <=> k.holds
        /\ AllHold(u) <=> g.holds
        /\ AllHold(first) <=> c.holds
    BY <2>3, AllHoldFew
  <2>6. \A d \in R : Sound(d)
    BY <2>2
  <2> HIDE DEF u, first, R
  <2>7. /\ (FirstError(s \o t \o u) = "Ok") <=> AllHold(s) /\ AllHold(t) /\ AllHold(u)
        /\ (FirstError(first \o s \o t \o u) = "Ok")
              <=> AllHold(first) /\ AllHold(s) /\ AllHold(t) /\ AllHold(u)
    BY <2>4, <2>6, SoundChecks
  <2> QED
    BY <2>1, <2>5, <2>7, Zenon DEF s, t, u, g, first
<1>9. (to_legacy_tx(b) = "Ok") <=> has_payer(b) /\ CanBeBuilt(b, b.signers)
  BY <1>5, <1>8, Zenon DEF to_legacy_tx, own, signed
<1>10. (to_legacy_tx_with_payer(b, payer) = "Ok")
        <=> payer = b.payer /\ CanBeBuilt(b, HeldWith(b, payer))
  BY <1>6, <1>8, Zenon DEF to_legacy_tx_with_payer, same, signed
<1>11. (to_legacy_tx_with_blockhash(b) = "Ok") <=> CanBeBuilt(b, b.signers)
  BY <1>8, Zenon DEF to_legacy_tx_with_blockhash, signed
<1>12. (to_v0_tx(b) = "Ok") <=> CanBeBuilt(b, b.signers)
  BY <1>8, Zenon DEF to_v0_tx, signed
<1>13. (to_v0_tx_with_payer(b, payer) = "Ok")
        <=> payer = b.payer /\ CanBeBuilt(b, HeldWith(b, payer))
  BY <1>6, <1>8, Zenon DEF to_v0_tx_with_payer, same, signed
<1> QED
  BY <1>9, <1>10, <1>11, <1>12, <1>13

(* What was built, of one of the requests, by each conversion.             *)
BuiltOf(r) ==
    /\ built.request = r
    /\ built.legacy = to_legacy_tx(r.builder)
    /\ built.v0 = to_v0_tx(r.builder)
    /\ built.legacy_with_payer = to_legacy_tx_with_payer(r.builder, r.payer)
    /\ built.v0_with_payer = to_v0_tx_with_payer(r.builder, r.payer)
    /\ built.legacy_with_blockhash = to_legacy_tx_with_blockhash(r.builder)
    /\ built.legacy_with_both = to_legacy_tx_with_payer_and_blockhash(r.builder, r.payer)

BuiltInv == built # None => \E r \in Requests : BuiltOf(r)

LEMMA BuiltStep == ASSUME BuiltInv, [Next]_vars PROVE BuiltInv'
<1>1. CASE UNCHANGED built
  BY <1>1 DEF BuiltInv, BuiltOf
<1>2. ASSUME NEW r \in Requests, NEW owners, Build(r, owners) PROVE BuiltInv'
  <2>1. BuiltOf(r)'
    BY <1>2 DEF Build, BuiltOf
  <2> QED
    BY <2>1 DEF BuiltInv
<1> QED
  BY <1>1, <1>2 DEF Next, vars

(* What can be signed: instructions, no more than the limit with those of  *)
(* the budget, by someone who holds the key of the payer, who always signs,*)
(* and those of all whom the instructions name.                            *)
Signable(b, held) ==
    /\ b.ixs # <<>>
    /\ Len(b.ixs) + Cardinality({x \in {1, 2} : (x = 1 /\ b.compute_units) \/ (x = 2 /\ b.priority_fees)}) <= Limit
    /\ b.payer \in held
    /\ \A i \in DOMAIN b.ixs : b.ixs[i].signers \subseteq held

NamesPayer(b) == \E i \in DOMAIN b.ixs : b.payer \in b.ixs[i].signers

(* The conversion builds nothing that cannot be signed, and of what can be *)
(* signed all that has an instruction that the payer signs.                *)
Converts(outcome, b, held) ==
    /\ outcome = "Ok" => Signable(b, held)
    /\ Signable(b, held) => (outcome = "Ok" <=> NamesPayer(b))

SignableIsBuilt ==
    built # None =>
        LET b     == built.request.builder
            payer == built.request.payer
        IN  /\ \A outcome \in {built.legacy, built.legacy_with_blockhash, built.v0} :
                  Converts(outcome, b, b.signers)
            /\ \A outcome \in {built.legacy_with_payer, built.legacy_with_both, built.v0_with_payer} :
                  /\ outcome = "Ok" => payer = b.payer
                  /\ payer = b.payer => Converts(outcome, b, b.signers \cup {payer})

LEMMA SignableBuilt ==
    ASSUME NEW r \in Requests, NEW held
    PROVE  CanBeBuilt(r.builder, held) <=> Signable(r.builder, held) /\ NamesPayer(r.builder)
<1> DEFINE b == r.builder
<1>1. (required_signers(b) \subseteq held) <=> \A i \in DOMAIN b.ixs : b.ixs[i].signers \subseteq held
  BY DEF required_signers
<1>2. (b.payer \in required_signers(b)) <=> NamesPayer(b)
  BY DEF required_signers, NamesPayer
<1> QED
  BY <1>1, <1>2, InstructionsCounted DEF Signable, CanBeBuilt

(* Each of the six conversions builds only what can be signed, and refuses *)
(* of it only what names the payer as a signer in no instruction, which    *)
(* the chain would take.                                                   *)
THEOREM SignableIsBuiltAlways == Spec => []SignableIsBuilt
<1>1. BuiltInv => SignableIsBuilt
  <2> SUFFICES ASSUME NEW r \in Requests, BuiltOf(r), built # None
               PROVE  SignableIsBuilt
    BY DEF BuiltInv, SignableIsBuilt
  <2> DEFINE b == r.builder  payer == r.payer
  <2>1. CanBeBuilt(b, b.signers) => has_payer(b)
    BY DEF CanBeBuilt, has_payer
  <2>2. payer = b.payer => HeldWith(b, payer) = b.signers \cup {payer}
    BY DEF HeldWith
  <2>3. \A outcome \in {built.legacy, built.legacy_with_blockhash, built.v0} :
           outcome = "Ok" <=> CanBeBuilt(b, b.signers)
    BY <2>1, Conversions DEF BuiltOf
  <2>4. \A outcome \in {built.legacy_with_payer, built.legacy_with_both, built.v0_with_payer} :
           outcome = "Ok" <=> payer = b.payer /\ CanBeBuilt(b, HeldWith(b, payer))
    BY Conversions DEF BuiltOf, to_legacy_tx_with_payer_and_blockhash
  <2>5. built.request.builder = b /\ built.request.payer = payer
    BY DEF BuiltOf
  <2>6. \A held : CanBeBuilt(b, held) <=> Signable(b, held) /\ NamesPayer(b)
    BY SignableBuilt
  <2> HIDE DEF b, payer
  <2>7. \A outcome \in {built.legacy, built.legacy_with_blockhash, built.v0} :
           Converts(outcome, b, b.signers)
    BY <2>3, <2>6 DEF Converts
  <2>8. \A outcome \in {built.legacy_with_payer, built.legacy_with_both, built.v0_with_payer} :
           /\ outcome = "Ok" => payer = b.payer
           /\ payer = b.payer => Converts(outcome, b, b.signers \cup {payer})
    BY <2>2, <2>4, <2>6 DEF Converts
  <2> QED
    BY <2>5, <2>7, <2>8 DEF SignableIsBuilt
<1>2. Init => BuiltInv
  BY DEF Init, BuiltInv
<1> QED
  BY <1>1, <1>2, BuiltStep, PTL DEF Spec
=============================================================================
