------------------------ MODULE MCTransactionBuilder ------------------------
EXTENDS TransactionBuilder, TLC

CONSTANTS c1, c2, o1, o2, p, q, x, y

(* p pays and q owns what is changed; x and y are accounts in tables.      *)
Ix(signers, others) == [signers |-> signers, others |-> others]

Builder(ixs, cu, signers) ==
    [payer |-> p, ixs |-> ixs, compute_units |-> cu, priority_fees |-> cu, signers |-> signers]

Unnamed  == <<Ix({q}, {x, y})>>
Named    == <<Ix({p}, {x, y}), Ix({q}, {x, y})>>

Request(b, payer) == [builder |-> b, payer |-> payer]

RequestsDef ==
    {Request(Builder(Named, FALSE, {p, q}), p), Request(Builder(Unnamed, TRUE, {p, q}), p)}

Symmetry == Permutations({c1, c2}) \cup Permutations({o1, o2}) \cup Permutations({x, y})
=============================================================================
