\* Ticks of any length.
SPECIFICATION Spec
CONSTANTS
    a1 = a1
    a2 = a2
    Accounts = {a1}
    ATTESTATION_TTL_SECONDS = 2
    FINALITY = 1
    SCAN_CONCURRENCY = 1
    MaxTransfers = 1
    MaxTime = 3
    MaxCrashes = 0
INVARIANTS RefusalsAreFinal
