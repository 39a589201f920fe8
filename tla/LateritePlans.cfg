\* One user and one token on two tiers.
SPECIFICATION Spec
CONSTANTS
    u1 = u1
    u2 = u2
    u3 = u3
    usdc = usdc
    usdt = usdt
    t1 = t1
    Users = {u1}
    Tokens = {usdc}
    TIERS <- MCTiers
    TRIAL_CAP = 2
    DAY_SECONDS = 1
    WEEK_SECONDS = 2
    PLAN_PERIOD = 2
    INCOME_SHARE_BPS = 1000
    INCOME_MIN = 10
    CHANGE_STEP = 2
    CHANGE_MIN = 1
    U64_MAX = 100
    TransferIds = {}
    TransferChoices = {}
    Params <- PlanParams
    UserWeeklyCaps = {3, 4}
    MaxUsers = {1}
    Calendars = {}
    KillSwitch = {}
    Balances = {10}
    MaxTime = 5
INVARIANTS TypeOK WeekWithinCap PlansWithinPeriod ExitNeverBlocked
PROPERTIES PullsWithinCap LeftPlansEnd
