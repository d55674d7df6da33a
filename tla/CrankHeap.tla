----------------------------- MODULE CrankHeap ------------------------------
(***************************************************************************)
(* The binary heap of a crank: crank::push and crank::pop on the vector of *)
(* rows.  Indices count from 0, as in the code; a row is a record with a   *)
(* timestamp and whatever else its owner keeps in it.                      *)
(***************************************************************************)
EXTENDS Integers, SequencesExt

RowAt(heap, i)  == heap[i + 1]
TimeAt(heap, i) == RowAt(heap, i).timestamp
Indices(heap)   == 0..(Len(heap) - 1)

parent(i)      == IF i = 0 THEN 0 ELSE (i - 1) \div 2
left_child(i)  == 2 * i + 1
right_child(i) == 2 * i + 2

SwapRows(heap, i, j) == [heap EXCEPT ![i + 1] = RowAt(heap, j), ![j + 1] = RowAt(heap, i)]

(* One pass of the loop of push, on the heap and the index it has reached. *)
RisePass(s) ==
    IF s.current # 0 /\ TimeAt(s.heap, s.current) < TimeAt(s.heap, parent(s.current))
    THEN [heap |-> SwapRows(s.heap, s.current, parent(s.current)), current |-> parent(s.current)]
    ELSE s

(* A loop ends after at most as many passes as there are rows.  What it    *)
(* has reached after n passes is one state, kept as a set: {RisePass(s)}.  *)
SiftUp(heap, i) ==
    LET after[n \in 0..Len(heap)] ==
          IF n = 0 THEN {[heap |-> heap, current |-> i]} ELSE {RisePass(s) : s \in after[n - 1]}
        end == CHOOSE s \in after[Len(heap)] : TRUE
    IN  end.heap

PushRow(heap, row) == SiftUp(Append(heap, row), Len(heap))

(* The child with which pop compares a row: the earlier one, and the left  *)
(* one of two equals; an index outside the heap stops the descent.         *)
LeftChildOnly(heap, i) == left_child(i)                           \* mutant

ChildToCompare(heap, i) ==
    IF right_child(i) >= Len(heap) \/ TimeAt(heap, right_child(i)) > TimeAt(heap, left_child(i))
    THEN left_child(i)
    ELSE right_child(i)

SinkPass(s) ==                \* one pass of the loop of pop
    LET child == ChildToCompare(s.heap, s.current)
    IN  IF child >= Len(s.heap) \/ TimeAt(s.heap, s.current) < TimeAt(s.heap, child)
        THEN s
        ELSE [heap |-> SwapRows(s.heap, s.current, child), current |-> child]

SiftDown(heap, i) ==
    LET after[n \in 0..Len(heap)] ==
          IF n = 0 THEN {[heap |-> heap, current |-> i]} ELSE {SinkPass(s) : s \in after[n - 1]}
        end == CHOOSE s \in after[Len(heap)] : TRUE
    IN  end.heap

DroppedLast(heap, pop_idx) == SiftDown(Front(heap), pop_idx)      \* mutant

(* The rows left when the row at pop_idx is popped.  The vector aborts     *)
(* when there is no such row.                                              *)
PopRow(heap, pop_idx) ==
    SiftDown(Front(SwapRows(heap, pop_idx, Len(heap) - 1)), pop_idx)

----------------------------------------------------------------------------
(* No row is earlier than its parent.                                      *)
InHeapOrder(heap) ==
    \A i \in Indices(heap) : TimeAt(heap, parent(i)) <= TimeAt(heap, i)
=============================================================================
