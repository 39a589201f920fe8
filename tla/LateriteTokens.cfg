\* One user and two tokens on one tier; or the sessions, or the prices.
SPECIFICATION ProgramSpec
CONSTANTS
    u1 = u1
    u2 = u2
    u3 = u3
    usdc = usdc
    usdt = usdt
    t1 = t1
    Users = {u1}
    Tokens = {usdc, usdt}
    TIERS <- OneTier
    TRIAL_CAP = 2
    DAY_SECONDS = 2
    WEEK_SECONDS = 3
    PLAN_PERIOD = 3
    INCOME_SHARE_BPS = 1000
    INCOME_MIN = 10
    CHANGE_STEP = 2
    CHANGE_MIN = 1
    U64_MAX = 100
    TransferIds = {}
    TransferChoices = {}
    Params <- TokenParams
    UserWeeklyCaps = {3}
    MaxUsers = {1}
    Calendars = {{3,5,6,7}}
    KillSwitch = {}
    Balances = {10}
    MaxTime = 7
    PRICE_MAX = 31
    PRODUCT_MAX = 1023
    BPS = 20
    MAX_CONFIDENCE_BPS = 4
    SLIPPAGE_BPS = 3
    MAX_PRICE_AGE_SECONDS = 1
    Prices = {0, 1, 10, 31}
    Confidences = {0, 1, 2}
    Exponents <- TenthToTen
    Decimals = {0, 1}
    Amounts = {0, 1, 7, 31}
    MaxClock = 2
    CALENDAR_DAYS = 3
    CALENDAR_MAX_AGE_DAYS = 1
    \* The Fridays before New York's clocks change in 2026 and 2027, when the Sundays
    \* are the earliest and the latest they can be, and a Thursday before a holiday.
    StartDays = {20518, 20889, 20756, 21127, 20636}
    MaxDays = 4
SYMMETRY TokenSymmetry
CONSTRAINT EarlyUser
INVARIANTS SweptOncePerDay SessionsAreNyse MinimumIsFair
PROPERTIES EngineOncePerPeriod PullStands KeepsToBudget
