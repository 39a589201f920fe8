\* Two messages of one wallet.
SPECIFICATION RoutesSpec
CONSTANTS
    w1 = w1
    w2 = w2
    i1 = i1
    noip = noip
    a = a
    noasset = noasset
    m1 = m1
    m2 = m2
    m3 = m3
    Wallets = {w1}
    Ips = {i1}
    NoIp = noip
    Assets = {a}
    NoAsset = noasset
    Messages = {m1, m2}
    SPONSOR_LIMITS <- SendsADay
    RETURN_LIMIT = 1
    PREPARE_LIMITS <- BuildsAnHour
    PREPARED_TTL = 2
    BLOCKHASH = 1
    HOUR = 1
    DAY = 1
    RETURN_WINDOW = 2
    MaxTime = 2
    Grants = {}
    FaucetWallets = {w1, w2}
    FAUCET_LIMITS <- FaucetLimits
    FAUCET_WINDOW = 1
CHECK_DEADLOCK FALSE
INVARIANT AssetAccountPaidOnce
