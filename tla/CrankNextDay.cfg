\* Waits that outlive their day.
SPECIFICATION Spec
CONSTANTS
    k1 = k1
    Keys = {k1}
    DAY_SECONDS = 6
    SWEEP_BOUNDARY_MARGIN_SECONDS = 2
    MAX_BUILDS = 2
    MAX_FAILED_ATTEMPTS_PER_DAY = 3
    RETRY_AFTER <- OneInstant
    LANDING = 1
    MaxTime = 13
    MaxCrashes = 0
INVARIANTS SkippedUntilNextDay
