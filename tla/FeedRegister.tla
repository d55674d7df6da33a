---------------------------- MODULE FeedRegister -----------------------------
(***************************************************************************)
(* What a feed of either contract promises its readers: a register that    *)
(* only ever moves to a value in the middle of enough answers, and never   *)
(* back in time.  AggregatorRound and FeedUpdates implement it; how        *)
(* answers are gathered, in rounds, by relays or in a ring, is not seen    *)
(* here.                                                                   *)
(***************************************************************************)
EXTENDS Integers, FiniteSets, Sequences

CONSTANT Answers   \* what oracles may answer, a set of integers

VARIABLES
    enough,   \* answers that the authority requires
    value,    \* what readers get
    time      \* when it is from

vars == <<enough, value, time>>

Init ==
    /\ enough \in Nat \ {0}
    /\ value = 0
    /\ time = 0

(* No fewer than half of the answers are on either side of v, or equal it: *)
(* the upper of two middle ones, as on_demand takes it, and the mean of    *)
(* both, as aptos_v2 does.                                                 *)
InTheMiddle(v, answers) ==
    /\ 2 * Cardinality({i \in DOMAIN answers : answers[i] <= v}) >= Len(answers)
    /\ 2 * Cardinality({i \in DOMAIN answers : answers[i] >= v}) >= Len(answers)

Publish(answers) ==
    /\ Len(answers) >= enough
    /\ value' \in Int /\ InTheMiddle(value', answers)
    /\ time' \in Nat /\ time' >= time
    /\ UNCHANGED enough

Configure ==
    /\ enough' \in Nat \ {0}
    /\ UNCHANGED <<value, time>>

Next ==
    \/ \E answers \in Seq(Answers) : Publish(answers)
    \/ Configure

Spec == Init /\ [][Next]_vars
=============================================================================
