\* One watched account with two transfers, any failures and a crash; two processes:
\* three transactions, two sources of notices, one with a milestone, or one and two
\* changes of the link, two updates of the chat, two callers of set over two instants.
SPECIFICATION FairOperatorSpec
CONSTANTS
    a1 = a1
    Accounts = {a1}
    ATTESTATION_TTL_SECONDS = 1
    FINALITY = 1
    SCAN_CONCURRENCY = 1
    MaxTransfers = 2
    MaxTime = 2
    MaxCrashes = 1
    p1 = p1
    p2 = p2
    Processes = {p1, p2}
    None = none
    r1 = r1
    Records = {r1}
    BATCH = 2
    MaxTransactions = 3
    MaxSources = 2
    Milestones = {1}
    MaxChanges = 2
    t1 = t1
    Tokens = {t1}
    MaxUpdates = 2
    c1 = c1
    c2 = c2
    Callers = {c1, c2}
    REPEAT_MS = 1
    MaxInstant = 1
    Loops = {"watcher", "indexer", "notices", "bot", "alarms"}
CHECK_DEADLOCK FALSE
INVARIANTS PassedOnlyWhenDone TypesOK HistoryComplete NeverSentAgain HandledMeansTold UnlinkStands OperatorKnows
PROPERTIES TransfersHandled
