\* The table against what the crank bought.
SPECIFICATION Spec
CONSTANTS
    k1 = k1
    Keys = {k1}
    DAY_SECONDS = 3
    SWEEP_BOUNDARY_MARGIN_SECONDS = 2
    MAX_BUILDS = 2
    MAX_FAILED_ATTEMPTS_PER_DAY = 2
    RETRY_AFTER <- OneInstant
    LANDING = 1
    MaxTime = 7
    MaxCrashes = 0
INVARIANTS NotBoughtWordsAreTrue
