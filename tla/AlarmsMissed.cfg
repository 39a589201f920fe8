\* One alarm over two instants.
SPECIFICATION OperatorSpec
CONSTANTS
    a1 = a1
    Accounts = {a1}
    ATTESTATION_TTL_SECONDS = 1
    FINALITY = 1
    SCAN_CONCURRENCY = 1
    MaxTransfers = 2
    MaxTime = 2
    MaxCrashes = 1
    p1 = p1
    p2 = p2
    Processes = {p1, p2}
    None = none
    r1 = r1
    Records = {r1}
    BATCH = 2
    MaxTransactions = 3
    MaxSources = 2
    Milestones = {1}
    MaxChanges = 2
    t1 = t1
    Tokens = {t1}
    MaxUpdates = 2
    c1 = c1
    c2 = c2
    Callers = {c1, c2}
    REPEAT_MS = 2
    MaxInstant = 1
    Loops = {"alarms"}
CHECK_DEADLOCK FALSE
INVARIANT MissedIsDue
