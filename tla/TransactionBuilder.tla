------------------------- MODULE TransactionBuilder -------------------------
(***************************************************************************)
(* TransactionBuilder (transaction_builder.rs): what a builder turns into, *)
(* a legacy transaction or a v0 transaction that names accounts by their   *)
(* places in lookup tables, and what the chain then loads.  The methods    *)
(* that fill a builder each set one field of a value, so a builder is the  *)
(* record that they make; build_v0_tx and the chain are composed with the  *)
(* tables that the client has cached (LookupTables).                       *)
(***************************************************************************)
EXTENDS LookupTables

CONSTANTS
    Requests,      \* [builder, payer]: what is built, and the payer handed over;
                   \* a builder is [payer, ixs, compute_units, priority_fees, signers],
                   \* an instruction is [signers, others], sets of accounts
    Limit          \* instructions in a transaction

VARIABLES
    built          \* what a builder was turned into

vars == <<lutVars, built>>

ASSUME BuilderAssumption ==
    /\ Limit \in Nat
    /\ \A r \in Requests :
          /\ Len(r.builder.ixs) \in Nat
          /\ r.builder.compute_units \in BOOLEAN
          /\ r.builder.priority_fees \in BOOLEAN

----------------------------------------------------------------------------
(* The accounts that the instructions name as signers; the payer is one of *)
(* them only if an instruction names it.                                   *)
required_signers(b) == UNION {b.ixs[i].signers : i \in DOMAIN b.ixs}

Accounts(b) == {b.payer} \cup required_signers(b) \cup UNION {b.ixs[i].others : i \in DOMAIN b.ixs}

has_payer(b) == b.payer \in b.signers

(* ixs(): the instructions behind those that set the compute budget.       *)
Instructions(b) ==
    Len(b.ixs) + (IF b.compute_units THEN 1 ELSE 0) + (IF b.priority_fees THEN 1 ELSE 0)

(* The checks of a build, in order; the first that fails is its error.     *)
Check(holds, error) == [holds |-> holds, error |-> error]

FirstError(checks) ==
    LET failed == {i \in DOMAIN checks : ~checks[i].holds}
    IN  IF failed = {} THEN "Ok"
        ELSE checks[CHOOSE i \in failed : \A j \in failed : i <= j].error

IxsChecks(b) ==
    <<Check(b.ixs # <<>>, "SolanaInstructionsEmpty"),
      Check(Instructions(b) <= Limit, "SolanaInstructionOverflow")>>

(* signers() and signers_with_payer(): the keys of the required signers    *)
(* and no others, from those that the builder and the caller hold.         *)
SignersChecks(b, held) == <<Check(required_signers(b) \subseteq held, "SolanaMissingSigner")>>

(* Both formats ask for the signatures of the required signers and of the  *)
(* payer, and get those of the required signers.                           *)
Signed(b) == b.payer \in required_signers(b)

to_legacy_tx(b) ==
    FirstError(<<Check(has_payer(b), "SolanaPayerSignerMissing")>>
               \o IxsChecks(b) \o SignersChecks(b, b.signers)
               \o <<Check(Signed(b), "SolanaSignError")>>)

HeldWith(b, payer) == b.signers \cup {b.payer}

to_legacy_tx_with_payer(b, payer) ==
    FirstError(<<Check(payer = b.payer, "SolanaPayerMismatch")>>
               \o IxsChecks(b) \o SignersChecks(b, HeldWith(b, payer))
               \o <<Check(Signed(b), "SolanaSignError")>>)

(* With a blockhash of the caller's, the check of the payer is left out.   *)
to_legacy_tx_with_blockhash(b) ==
    FirstError(IxsChecks(b) \o SignersChecks(b, b.signers)
               \o <<Check(Signed(b), "SolanaSignError")>>)

to_legacy_tx_with_payer_and_blockhash(b, payer) == to_legacy_tx_with_payer(b, payer)

(* build_v0_tx unwraps the error of a missing signature.                   *)
to_v0_tx(b) ==
    FirstError(IxsChecks(b) \o SignersChecks(b, b.signers) \o <<Check(Signed(b), "panic")>>)

to_v0_tx_with_payer(b, payer) ==
    FirstError(<<Check(payer = b.payer, "SolanaPayerMismatch")>>
               \o IxsChecks(b) \o SignersChecks(b, HeldWith(b, payer))
               \o <<Check(Signed(b), "panic")>>)

(* v0::Message::try_compile: an account that need not sign and is in one   *)
(* of the tables given is named by its place in the first such table.      *)
Compile(b, luts) ==
    LET Holds(a, i) == \E j \in DOMAIN luts[i].addresses : luts[i].addresses[j] = a
        looked_up == {a \in Accounts(b) \ ({b.payer} \cup required_signers(b)) :
                          \E i \in DOMAIN luts : Holds(a, i)}
    IN  [a \in looked_up |->
            LET t == luts[CHOOSE i \in DOMAIN luts :
                             Holds(a, i) /\ \A n \in DOMAIN luts : Holds(a, n) => i <= n]
            IN  [key |-> t.key,
                 index |-> CHOOSE j \in DOMAIN t.addresses : t.addresses[j] = a]]

Build(r, owners) ==
    LET v0   == to_v0_tx(r.builder)
        luts == [i \in DOMAIN owners |-> lut_cache[owners[i]]]
    IN  /\ built = None
        /\ \A c \in Calls : fetching[c] = NoFetch
        /\ \A i \in DOMAIN owners : lut_cache[owners[i]] # None
        /\ built' = [request |-> r,
                     legacy  |-> to_legacy_tx(r.builder),
                     v0      |-> v0,
                     legacy_with_payer |-> to_legacy_tx_with_payer(r.builder, r.payer),
                     v0_with_payer     |-> to_v0_tx_with_payer(r.builder, r.payer),
                     legacy_with_blockhash |-> to_legacy_tx_with_blockhash(r.builder),
                     legacy_with_both |-> to_legacy_tx_with_payer_and_blockhash(r.builder, r.payer),
                     lookups |-> IF v0 = "Ok" THEN Compile(r.builder, luts) ELSE <<>>]
        /\ UNCHANGED lutVars

(* What the chain finds in a place when the transaction is executed.       *)
Loaded(place) ==
    IF table[place.key] = None THEN None ELSE lookup(table[place.key], place.index)

----------------------------------------------------------------------------
Init == LutInit /\ built = None

(* The calls for the tables are awaited before the transaction is built.   *)
(* Nothing reads the cache after that, nor the chain if the transaction    *)
(* looks nothing up.                                                       *)
Next ==
    \/ (built # None => built.lookups # <<>>) /\ ChainNext /\ UNCHANGED built
    \/ built = None /\ CacheNext /\ UNCHANGED built
    \/ \E r \in Requests : \E o, p \in Owners : \E owners \in {<<>>, <<o>>, <<o, p>>} :
         Build(r, owners)

Spec == Init /\ [][Next]_vars

----------------------------------------------------------------------------
(* A v0 transaction built from cached tables, however old they are and     *)
(* whatever became of the tables in the meantime, names the accounts that  *)
(* were meant, or the chain refuses it.                                    *)
LandsAsWritten ==
    built # None =>
        \A a \in DOMAIN built.lookups : Loaded(built.lookups[a]) \in {a, None}
=============================================================================
