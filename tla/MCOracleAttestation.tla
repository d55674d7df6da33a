------------------------- MODULE MCOracleAttestation -------------------------
EXTENDS OracleAttestation

CONSTANTS q, gq   \* a queue, and its guardian queue

MCGuardianQueue == [p \in {q, gq} |-> gq]
=============================================================================
