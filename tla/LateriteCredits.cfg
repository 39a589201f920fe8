\* One user, two tokens, and a transfer of either kind at the first instant; and
\* three users, the seats and the kill switch while nothing is attested.
SPECIFICATION Spec
CONSTANTS
    u1 = u1
    u2 = u2
    u3 = u3
    usdc = usdc
    usdt = usdt
    t1 = t1
    Users = {u1, u2, u3}
    Tokens = {usdc, usdt}
    TIERS <- OneTier
    TRIAL_CAP = 1
    DAY_SECONDS = 2
    WEEK_SECONDS = 2
    PLAN_PERIOD = 10
    INCOME_SHARE_BPS = 1000
    INCOME_MIN = 10
    CHANGE_STEP = 2
    CHANGE_MIN = 1
    U64_MAX = 100
    TransferIds = {t1}
    TransferChoices <- MCTransfers
    Params <- CreditParams
    UserWeeklyCaps = {3}
    MaxUsers = {1, 2}
    Calendars = {}
    KillSwitch = {TRUE, FALSE}
    Balances = {10}
    MaxTime = 5
CONSTRAINT CreditsOrSeats
INVARIANTS CreditedAtMostOnce PendingOwed
PROPERTIES NoBackfill SeatsWithinBeta
