SPECIFICATION FairSpec
CONSTANTS
    q = q
    gq = gq
    Oracles = {o1, o2}
    Queues = {q, gq}
    guardian_queue <- MCGuardianQueue
    OracleKeys = {ok1, ok2}
    SigningKeys = {k1, k2}
    Enclaves = {e}
    Unset = Unset
    ATTESTATION_VALIDITY_SECONDS = 1
    MinAttestations = {1}
    oracle_validity_length = 1
    MaxTime = 2
PROPERTY AttestedIsEnabled
