--------------------------- MODULE MCEventClient ----------------------------
EXTENDS EventClient

CONSTANTS d1, d2, c1, c2

Line(d, n) == [program_data |-> TRUE, length |-> n, disc |-> d, parses |-> TRUE]

Text     == [Line(d1, 9) EXCEPT !.program_data = FALSE]
Empty    == Line(d1, 8)              \* an event without fields
Garbled  == [Line(d1, 9) EXCEPT !.parses = FALSE]

(* Logs of one transaction; the length tells apart two events of one type. *)
MCLogs == {<<Text, Line(d1, 9), Empty>>, <<Line(d2, 9), Garbled, Line(d1, 10)>>, <<Line(d1, 9)>>}

(* Both channels are bounded, so that each may have to wait for the other. *)
MCCapacity == [c \in Channels |-> 1]
=============================================================================
