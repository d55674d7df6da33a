---------------------------- MODULE RoundPayouts ----------------------------
(***************************************************************************)
(* The coins of an aptos_v2 feed.  Opening a round first settles the       *)
(* previous one: each of its oracles is paid from the feed's lease if it   *)
(* answered close to the result, fined if it answered far from it or not   *)
(* at all, and left alone if it reported an error; then the caller is      *)
(* paid.  An escrow never gives more than it has.                          *)
(***************************************************************************)
EXTENDS AggregatorRound

CONSTANTS
    Reward, OpenRoundReward, SaveReward, SaveConfirmationReward,   \* of the queue
    SlashingPenalty, SlashingEnabled,
    VarianceTolerance,  \* variance_tolerance_multiplier
    LoadAmounts,        \* what is loaded into a lease or a wallet at once
    MaxFunded           \* bound of all that is loaded

ASSUME RoundPayoutsAssumption ==
    /\ {Reward, OpenRoundReward, SaveReward, SaveConfirmationReward, SlashingPenalty,
        VarianceTolerance, MaxFunded} \subseteq Nat
    /\ SlashingEnabled \in BOOLEAN
    /\ LoadAmounts \subseteq Nat
    /\ IsFiniteSet(Oracles)

VARIABLES
    lease,      \* the feed's escrow for its queue
    wallet,     \* the oracles' escrows for the queue
    outside     \* what everyone else has, counted from zero

vars == <<roundVars, lease, wallet, outside>>

Init ==
    /\ RoundInit
    /\ lease = 0
    /\ wallet = [o \in Oracles |-> 0]
    /\ outside = 0

----------------------------------------------------------------------------
(* What escrow::withdraw extracts when amount is asked for.                *)
AllOrNothing(amount, balance) ==                                  \* mutant
    IF amount <= balance THEN amount ELSE 0

Extracted(amount, balance) == IF amount < balance THEN amount ELSE balance

MaxRoundCost == (Reward + SaveConfirmationReward) * (batch_size + 1)

MaxReward == Reward * (batch_size + 1)

(* A settlement in progress: the lease and the wallets.                    *)
PaidTo(o, amount, s) ==
    LET coin == Extracted(amount, s.lease)
    IN  [lease |-> s.lease - coin, wallet |-> [s.wallet EXCEPT ![o] = @ + coin]]

FineKept(o, amount, s) ==                                         \* mutant
    [s EXCEPT !.wallet[o] = @ - Extracted(amount, s.wallet[o])]

FinedFrom(o, amount, s) ==
    LET coin == Extracted(amount, s.wallet[o])
    IN  [lease |-> s.lease + coin, wallet |-> [s.wallet EXCEPT ![o] = @ - coin]]

WithinThreshold(v) ==
    LET threshold == VarianceTolerance * current.std_deviation
    IN  /\ v >= current.result - threshold
        /\ v <= current.result + threshold

Fine(o, s) == IF SlashingEnabled THEN FinedFrom(o, Reward + SlashingPenalty, s) ELSE s

IsAgreed(i) == Len(current.oracle_keys) = 1 \/ WithinThreshold(current.medians[i])

FinedOnError(i, s) ==                                             \* mutant
    LET o == current.oracle_keys[i]
    IN  CASE current.medians[i] # NoAnswer /\ IsAgreed(i) -> PaidTo(o, SaveReward + Reward, s)
          [] OTHER -> Fine(o, s)

SettledWith(i, s) ==
    LET o == current.oracle_keys[i]
    IN  CASE current.errors_fulfilled[i] -> s
          [] ~current.errors_fulfilled[i] /\ current.medians[i] = NoAnswer -> Fine(o, s)
          [] ~current.errors_fulfilled[i] /\ current.medians[i] # NoAnswer ->
                IF IsAgreed(i) THEN PaidTo(o, SaveReward + Reward, s) ELSE Fine(o, s)

Settlement ==
    LET settled[i \in 0..Len(current.oracle_keys)] ==
          IF i = 0 THEN [lease |-> lease, wallet |-> wallet] ELSE SettledWith(i, settled[i - 1])
    IN  settled[Len(current.oracle_keys)]

LeaseCoversRound == lease >= MaxRoundCost

OpenAndSettle(keys) ==
    LET turnersPay == Extracted(Reward + OpenRoundReward, Settlement.lease)
    IN  /\ LeaseCoversRound
        /\ OpenRound(keys)
        /\ lease' = Settlement.lease - turnersPay
        /\ wallet' = Settlement.wallet
        /\ outside' = outside + turnersPay

----------------------------------------------------------------------------
LeaseLoad(amount) ==          \* lease_init, lease_extend
    /\ lease' = lease + amount
    /\ outside' = outside - amount
    /\ UNCHANGED <<roundVars, wallet>>

LeaseWithdraw(amount) ==
    LET withdrawable == IF lease < MaxReward THEN 0 ELSE lease - MaxReward
        coin == Extracted(Extracted(amount, withdrawable), lease)
    IN  /\ lease' = lease - coin
        /\ outside' = outside + coin
        /\ UNCHANGED <<roundVars, wallet>>

OracleWalletContribute(o, amount) ==
    /\ wallet' = [wallet EXCEPT ![o] = @ + amount]
    /\ outside' = outside - amount
    /\ UNCHANGED <<roundVars, lease>>

OracleWalletWithdraw(o, amount) ==
    /\ wallet[o] >= amount
    /\ wallet' = [wallet EXCEPT ![o] = @ - amount]
    /\ outside' = outside + amount
    /\ UNCHANGED <<roundVars, lease>>

CoinMoves ==
    \E amount \in LoadAmounts :
        \/ LeaseLoad(amount) /\ -outside + amount <= MaxFunded
        \/ LeaseWithdraw(amount)
        \/ \E o \in Oracles : \/ OracleWalletContribute(o, amount) /\ -outside + amount <= MaxFunded
                              \/ OracleWalletWithdraw(o, amount)

Next ==
    \/ \E keys \in Batch(batch_size) : OpenAndSettle(keys)
    \/ AnswerOrRelay /\ UNCHANGED <<lease, wallet, outside>>
    \/ CoinMoves

Spec == Init /\ [][Next]_vars

----------------------------------------------------------------------------
(* Rewards, fines, loads and withdrawals move coins and make none, and no  *)
(* escrow is ever overdrawn: an amount is cut to what the escrow has when  *)
(* it is taken, after the payments and fines of the same settlement.       *)
CoinsConserved ==
    /\ lease >= 0 /\ \A o \in Oracles : wallet[o] >= 0
    /\ lease + MapThenSumSet(LAMBDA o : wallet[o], Oracles) + outside = 0

Opens == current'.round_open_timestamp # current.round_open_timestamp

(* What the round owes: to the oracles that agreed with the result, of all *)
(* or of those that are settled before the i-th, and to the caller.        *)
AgreedBefore(i) ==
    {j \in DOMAIN current.oracle_keys :
        j < i /\ current.medians[j] # NoAnswer /\ IsAgreed(j)}

OwedBefore(i) == (SaveReward + Reward) * Cardinality(AgreedBefore(i))

PaidAsFarAs(amount, due, left) == amount <= due /\ (amount = due \/ amount >= left)

(* Whoever agreed with the result, and then the caller, get what they are  *)
(* due and no more, in their order, until what the lease had when the      *)
(* settlement began is used up.  The lease is checked for the cost of the  *)
(* round being opened, with rewards that are not those it pays, and may    *)
(* run dry; a fine never takes from those who are to be paid.              *)
PaidInOrder ==
    [][Opens =>
         /\ \A i \in AgreedBefore(Len(current.oracle_keys) + 1) :
               LET o == current.oracle_keys[i]
               IN  PaidAsFarAs(wallet'[o] - wallet[o], SaveReward + Reward, lease - OwedBefore(i))
         /\ PaidAsFarAs(outside' - outside, Reward + OpenRoundReward,
                        lease - OwedBefore(Len(current.oracle_keys) + 1))]_vars

(* The opening of a round takes coins only from oracles of the round       *)
(* before that did not answer, or that answered a value too far from the   *)
(* result the round carries, and from none that reported an error.  It     *)
(* promises nothing to the only answer of a round, which LoneAnswerPaid is *)
(* about.                                                                  *)
FinedForCause ==
    [][\A o \in Oracles : Opens /\ wallet'[o] < wallet[o] =>
          \E i \in DOMAIN current.oracle_keys :
              /\ current.oracle_keys[i] = o
              /\ ~current.errors_fulfilled[i]
              /\ current.medians[i] = NoAnswer \/ ~WithinThreshold(current.medians[i])]_vars

(* Of a round that one oracle answered, a comment of actuate says that     *)
(* "there is no std deviation so we just pay that one out".  The code      *)
(* looks at how many oracles the round has, and judges the answer by the   *)
(* result: the round's own if the answer was enough to confirm it, which   *)
(* makes the two equal, and that of an earlier round if it was not.  What  *)
(* holds of the comment is that an answer that made the round's result, as *)
(* the only one, is never fined, whatever earlier rounds had as a result   *)
(* and whatever the authority configured since.                            *)
Confirmed == current.oracle_keys # <<>> /\ latest.id = current.id

LoneAnswerPaid ==
    Confirmed /\ current.num_success = 1 =>
        \A i \in DOMAIN current.oracle_keys : current.medians[i] # NoAnswer => IsAgreed(i)
=============================================================================
