\* The listener is down when an Ethereum claim is mined, and catches up.
SPECIFICATION MCSpec
CONSTANTS
    Explored = {"catchUp"}
    Handlers = {h1}
    SrcChain = "ethereum"
    Swaps = {o1}
    MaxBlock = 2
    MaxBoots = 3
    Users = {u1, u2}
    PublicIds = {1, 2}
    Fetches = {f1, f2}
    PageSize = 1
    MaxSecond = 1
    Askers = {a1, a2}
    Announcers = {b1, b2}
    Hashlocks = {l1}
    QuoteAmounts = {1}
    CacheTtl = 2
    FetchTimeout = 1
    MaxClock = 4
    MaxQuotes = 2
    StoreKeys = {k1, k2}
    MaxRecords = 1
    MaxEnds = 2
    MaxCrashes = 1
    MaxStarts = 3
    MaxMemory = 3
    MaxHistory = 5
    MaxDay = 2
    FillOrders = {o1}
    Parts = {1, 2, 4, 5}
    Amounts = {7, 10}
    MaxFills = 2
    RpcClients = {c1}
    Hashes = {x1}
    EventKinds = {k1}
    Lifetime = 1
    Window = 2
    RateMax = 2
    HistorySize = 1
    MaxListeners = 1
    MaxTime = 3
    TokenPrices = {2, 3}
    SwapAmounts = {0, 7}
    Slippages = {50, 600}
    Validity = 1
    GasPrices = {10}
    GasHistory = 1
    MaxSeconds = 2
    MaxIssued = 2
    MaxTimers = 3
INVARIANT ClaimsCaughtUp
CHECK_DEADLOCK FALSE
