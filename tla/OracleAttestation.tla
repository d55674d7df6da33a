-------------------------- MODULE OracleAttestation --------------------------
(***************************************************************************)
(* How an oracle of the on_demand package for Aptos comes to sign updates: *)
(* guardians attest that its enclave holds a key, until there are enough   *)
(* of them, or the authority of its queue overrides.  Guardians are the    *)
(* oracles of the queue's guardian queue.                                  *)
(*                                                                         *)
(* Byte vectors are values: an oracle_key has 32 bytes, the key recovered  *)
(* from a signature 64, so OracleKeys and SigningKeys are disjoint.        *)
(***************************************************************************)
EXTENDS Integers, FiniteSets

CONSTANTS
    Oracles,                        \* addresses of oracle objects
    Queues,                         \* addresses of queue objects
    guardian_queue,                 \* guardian_queue[q]
    OracleKeys,                     \* oracle_key, from the source chain
    SigningKeys,                    \* secp256k1 keys
    Enclaves,                       \* mr_enclave
    Unset,                          \* the empty vector
    ATTESTATION_VALIDITY_SECONDS,
    MinAttestations,                \* min_attestations that authorities configure
    oracle_validity_length,         \* of every queue
    MaxTime                         \* bound of the clock

VARIABLES
    now,                \* timestamp::now_seconds()
    min_attestations,   \* Queue.min_attestations, of each queue
    oracles             \* the Oracle resources, by address

vars == <<now, min_attestations, oracles>>

oracle_exists(o) == o \in DOMAIN oracles

Init ==
    /\ now = 1
    /\ min_attestations \in [Queues -> MinAttestations]
    /\ oracles = [o \in {} |-> Unset]

(* oracle_init_action: one oracle of each oracle_key on a queue.           *)
OracleInit(o, q, key) ==
    /\ ~oracle_exists(o)
    /\ \A p \in DOMAIN oracles : <<oracles[p].queue, oracles[p].oracle_key>> # <<q, key>>
    /\ oracles' = [p \in DOMAIN oracles \cup {o} |->
           IF p = o THEN [queue |-> q, oracle_key |-> key, expiration_time |-> 0,
                          mr_enclave |-> Unset, secp256k1_key |-> Unset,
                          valid_attestations |-> {}]
           ELSE oracles[p]]
    /\ UNCHANGED <<now, min_attestations>>

(* enable_oracle, with its parameters in their order.                      *)
enable_oracle(oracle, mr_enclave, secp256k1_key, expiration_time) ==
    [oracle EXCEPT !.mr_enclave = mr_enclave, !.secp256k1_key = secp256k1_key,
                   !.expiration_time = expiration_time]

(* add_attestation: those of this guardian, and those that                 *)
(* expiration_time, taken for a length, leaves in the past, make room.     *)
add_attestation(oracle, attestation) ==
    [oracle EXCEPT !.valid_attestations =
        {a \in @ : a.timestamp + oracle.expiration_time > now /\ a.guardian # attestation.guardian}
            \cup {attestation}]

valid_attestation_count(oracle, key) ==
    Cardinality({a \in oracle.valid_attestations : a.secp256k1_key = key})

(* validate: what a call needs to be more than a call without effect.      *)
InTime(g, t) == now <= oracles[g].expiration_time /\ t + ATTESTATION_VALIDITY_SECONDS >= now

IsGuardianOf(g, o) == guardian_queue[oracles[o].queue] = oracles[g].queue

validate(g, t, recovered) == InTime(g, t) /\ recovered = oracles[g].oracle_key

Attested(o, g, enclave, key, t) ==
    LET oracle == add_attestation(oracles[o], [guardian |-> g, secp256k1_key |-> key, timestamp |-> t])
        enough == min_attestations[oracle.queue]
    IN  IF valid_attestation_count(oracle, key) >= enough
        THEN enable_oracle(oracle, key, enclave, now + oracle_validity_length)
        ELSE oracle

Attest(o, g, enclave, key, t, recovered) ==
    /\ oracle_exists(o) /\ oracle_exists(g)
    /\ IsGuardianOf(g, o)
    /\ IF validate(g, t, recovered)
       THEN oracles' = [oracles EXCEPT ![o] = Attested(o, g, enclave, key, t)]
       ELSE UNCHANGED oracles
    /\ UNCHANGED <<now, min_attestations>>

(* queue_override_oracle_action, by the authority of some queue: which     *)
(* queue the oracle is on is not looked at.                                *)
Override(o, enclave, key, expiration) ==
    /\ oracle_exists(o)
    /\ now < expiration
    /\ oracles' = [oracles EXCEPT ![o] = enable_oracle(oracles[o], enclave, key, expiration)]
    /\ UNCHANGED <<now, min_attestations>>

SetConfigs(q, minimum) ==
    /\ min_attestations' = [min_attestations EXCEPT ![q] = minimum]
    /\ UNCHANGED <<now, oracles>>

Tick ==
    /\ now < MaxTime
    /\ now' = now + 1
    /\ UNCHANGED <<min_attestations, oracles>>

Next ==
    \/ \E o \in Oracles, q \in Queues, key \in OracleKeys : OracleInit(o, q, key)
    \/ \E o, g \in Oracles, enclave \in Enclaves, key, recovered \in SigningKeys, t \in 1..now :
           Attest(o, g, enclave, key, t, recovered)
    \/ \E o \in Oracles, enclave \in Enclaves, key \in SigningKeys, expiration \in 1..(MaxTime + 1) :
           Override(o, enclave, key, expiration)
    \/ \E q \in Queues, minimum \in MinAttestations : SetConfigs(q, minimum)
    \/ Tick

(* A guardian signs with its key, and attests of every oracle whenever     *)
(* that changes something.                                                 *)
AttestNow(o, g, enclave, key) ==
    oracle_exists(g) /\ oracles[g].secp256k1_key \in SigningKeys
        /\ Attest(o, g, enclave, key, now, oracles[g].secp256k1_key)

FairSpec ==
    /\ Init /\ [][Next]_vars
    /\ \A o, g \in Oracles, enclave \in Enclaves, key \in SigningKeys :
           WF_vars(AttestNow(o, g, enclave, key))

----------------------------------------------------------------------------
(* validate of aggregator_submit_result_action: who signs updates.         *)
SignsUpdates(o) ==
    oracle_exists(o) /\ oracles[o].secp256k1_key \in SigningKeys /\ now <= oracles[o].expiration_time

(* If, from some time on, as many guardians as the queue of an oracle      *)
(* requires are enabled and attest of it, it is enabled at some time.      *)
EnoughGuardians(o) ==
    /\ oracle_exists(o)
    /\ LET active == {g \in DOMAIN oracles : IsGuardianOf(g, o) /\ SignsUpdates(g)}
       IN  Cardinality(active) >= min_attestations[oracles[o].queue] /\ active # {}

AttestedIsEnabled == \A o \in Oracles : <>[]EnoughGuardians(o) => <>SignsUpdates(o)
=============================================================================
