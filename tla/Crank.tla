------------------------------- MODULE Crank --------------------------------
(***************************************************************************)
(* The cranks as the code keeps them: a binary heap of rows per crank,     *)
(* pushed and popped by crank_push_action and crank_pop_action, which also *)
(* open the rounds of the feeds.  Each action is one entry function; an    *)
(* aborted transaction leaves no trace, so a failed assertion is a guard.  *)
(***************************************************************************)
EXTENDS FeedRounds, CrankHeap

CONSTANT PopIdxs          \* the values callers pass as pop_idx

ASSUME CrankAssumption == PopIdxs \subseteq Nat

VARIABLES
    heap,             \* Crank.heap
    jitter_modifier   \* Crank.jitter_modifier

vars == <<feedVars, heap, jitter_modifier>>

CrankRow(a, t) == [aggregator_addr |-> a, timestamp |-> t]

Init ==
    /\ FeedInit
    /\ heap = [c \in Cranks |-> <<>>]
    /\ jitter_modifier = [c \in Cranks |-> 0]

CrankPush(c, a, byAuthority) ==
    /\ PushFeed(a, c, byAuthority)
    /\ heap' = [heap EXCEPT ![c] = PushRow(@, CrankRow(a, now))]
    /\ UNCHANGED jitter_modifier

RowsAfterTurnAtMark(c, pop_idx, outcome) ==                       \* mutant
    LET left == PopRow(heap[c], pop_idx)
    IN  IF Rescheduled(outcome) THEN PushRow(left, RowAt(heap[c], pop_idx)) ELSE left

RowsAfterTurn(c, pop_idx, outcome) ==
    LET a    == RowAt(heap[c], pop_idx).aggregator_addr
        left == PopRow(heap[c], pop_idx)
    IN  IF Rescheduled(outcome)
        THEN PushRow(left, CrankRow(a, next_allowed'[a]))
        ELSE left

CrankPop(c, pop_idx, outcome) ==
    /\ pop_idx \in Indices(heap[c])
    /\ now > TimeAt(heap[c], pop_idx)
    /\ LET a == RowAt(heap[c], pop_idx).aggregator_addr
       IN  /\ outcome \in SimulationOutcomes(a)
           /\ TurnFeed(a, outcome, TimeAt(heap[c], pop_idx), jitter_modifier[c])
           /\ heap' = [heap EXCEPT ![c] = RowsAfterTurn(c, pop_idx, outcome)]
    /\ jitter_modifier' = [jitter_modifier EXCEPT ![c] = NextJitter(@)]

CrankNext ==
    \/ \E c \in Cranks, a \in Feeds, b \in BOOLEAN : CrankPush(c, a, b)
    \/ \E c \in Cranks, i \in PopIdxs, o \in Outcomes : CrankPop(c, i, o)

Next ==
    \/ CrankNext
    \/ FeedNext /\ UNCHANGED <<heap, jitter_modifier>>

Spec == Init /\ [][Next]_vars

(* A crank turner keeps popping the head with the queue's coin, as he is   *)
(* paid for the rounds he opens, and time passes.                          *)
TurnHead(c) == \E o \in Outcomes \ {"QueueNotFound"} : CrankPop(c, 0, o)

FairSpec ==
    /\ Spec
    /\ \A c \in Cranks : WF_vars(TurnHead(c))
    /\ WF_vars(Tick /\ UNCHANGED <<heap, jitter_modifier>>)

----------------------------------------------------------------------------
(* The heaps implement the sets of rows of FeedSchedule.                   *)
Abs == INSTANCE FeedSchedule WITH
          rows <- [c \in Cranks |-> ToSet(heap[c])],
          jitter <- jitter_modifier

ImplementsSchedule == Abs!Spec

(* A row that is due does not wait for ever: it is popped, though the rows *)
(* before it may be put back at the same place many times while their      *)
(* feeds may not open a round.  The only exception is a head on which      *)
(* every turn aborts: its feed is due and has no escrow or no permission   *)
(* record, or its open round cannot be settled.                            *)
Due(c, a) ==
    \E i \in Indices(heap[c]) : /\ RowAt(heap[c], i).aggregator_addr = a
                                /\ now > TimeAt(heap[c], i)

HeadAborts(c) ==
    /\ heap[c] # <<>>
    /\ LET a == RowAt(heap[c], 0).aggregator_addr
       IN  /\ can_open_round(a)
           /\ \/ Lacks(a, "escrow") \/ Lacks(a, "permission")
              \/ TimeAt(heap[c], 0) = next_allowed[a] /\ ~SettlementEnds(a)

DueRowsAreTurned ==
    \A c \in Cranks, a \in Feeds : Due(c, a) ~> ~Due(c, a) \/ HeadAborts(c)
=============================================================================
