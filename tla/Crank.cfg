\* Fair runs over two days and the start of a third.
SPECIFICATION FairSpec
CONSTANTS
    k1 = k1
    Keys = {k1}
    DAY_SECONDS = 2
    SWEEP_BOUNDARY_MARGIN_SECONDS = 1
    MAX_BUILDS = 2
    MAX_FAILED_ATTEMPTS_PER_DAY = 2
    RETRY_AFTER <- OneInstant
    LANDING = 1
    MaxTime = 4
    MaxCrashes = 1
PROPERTIES DayGetsItsWord WordIsFinal
INVARIANTS TypeOK FailuresBounded
