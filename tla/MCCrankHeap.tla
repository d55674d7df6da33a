---------------------------- MODULE MCCrankHeap -----------------------------
(***************************************************************************)
(* One heap, driven by pushes of rows due at any time and by pops at the   *)
(* indices that the entry function of the crank lets a caller choose.      *)
(***************************************************************************)
EXTENDS CrankHeap

CONSTANTS
    MaxRows,    \* bound of the heap's size
    MaxRowTime  \* bound of the timestamps

VARIABLES
    row_heap,   \* Crank.heap, its rows reduced to their timestamps
    returned,   \* the timestamps that the last pop returned, {} after a push
    onlyHeads   \* every pop so far was at the head

heapVars == <<row_heap, returned, onlyHeads>>

Count(h, t) == Cardinality({i \in Indices(h) : TimeAt(h, i) = t})

HeapInit == row_heap = <<>> /\ returned = {} /\ onlyHeads = TRUE

Push(t) ==
    /\ Len(row_heap) < MaxRows
    /\ row_heap' = PushRow(row_heap, [timestamp |-> t])
    /\ returned' = {}
    /\ UNCHANGED onlyHeads

Pop(i) ==
    /\ i < Len(row_heap)
    /\ row_heap' = PopRow(row_heap, i)
    /\ returned' = {TimeAt(row_heap, i)}
    /\ onlyHeads' = (onlyHeads /\ i = 0)

HeapNext ==
    \/ \E t \in 0..MaxRowTime : Push(t)
    \/ \E i \in 0..(MaxRows - 1) : Pop(i)

HeapSpec == HeapInit /\ [][HeapNext]_heapVars

(* The comment of crank::pop: after the re-heapify, children are not       *)
(* earlier than their parent, so the head is a row that is due first.  It  *)
(* holds for callers who pop the head; a pop elsewhere puts the last row   *)
(* in the hole and only sifts it down, and may leave it below a later one. *)
HeapOrdered == onlyHeads => InHeapOrder(row_heap)

(* The swaps lose no row and invent none: a pop removes exactly the row it *)
(* returns, wherever that was and whatever the order of the others, and a  *)
(* push adds one row and keeps the others.                                 *)
RowsConserved ==
    [][IF returned' # {}
       THEN \A t \in 0..MaxRowTime :
               Count(row_heap', t) = Count(row_heap, t) - (IF t \in returned' THEN 1 ELSE 0)
       ELSE /\ Len(row_heap') = Len(row_heap) + 1
            /\ \A t \in 0..MaxRowTime : Count(row_heap', t) >= Count(row_heap, t)]_heapVars
=============================================================================
