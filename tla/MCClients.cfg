\* Two restorable orders and one submit in the form; two overlapping refund
\* clicks; a clock past both timelocks; two register runs with at most one
\* wrong setting; one order replanned while its legs change; two deals over
\* two balances with two callers.
SPECIFICATION MCSpec
CONSTANTS
    FormAmounts = {1}
    Saved = {r1, r2}
    MaxSubmits = 1
    HistoryCap = 1
    Clicks = {k1, k2}
    SrcExpiry = 3
    DstExpiry = 1
    LastSecond = 4
    MaxRefunds = 1
    SrcLock = 4
    DstLock = 2
    SoonWindow = 1
    FreshAge = 1
    PendingAge = 2
    EndOfTime = 5
    EthDecimals = 2
    StellarDecimals = 1
    MaxStroops = 1
    MaxUnits = 20
    CliRuns = {c1, c2}
    StakeAmounts = {1, 2}
    Unit = 2
    EvmMin = 2
    SorobanMin = 2
    MaxFaults = 1
    SourceAmounts = {20}
    Timelocks = {2, 4}
    MinTimelock = 2
    MaxTimelock = 4
    Buffer = 1
    FeeDivisor = 10
    MaxNow = 4
    MaxSent = 1
    Deals = {d1, d2}
    Accounts = {g1, g2}
    BalanceAmounts = {1, 2}
    Callers = {s1, s2}
    MinLock = 1
    MaxLock = 1
    MaxBalances = 2
    WalletAccounts = {g1}
    WalletNets = {TEST, PUBLIC}
    WalletCalls = {w1, w2}
    MountCall = w1
    MaxClicks = 2
INVARIANTS
    ClientsTypeOK
    
    
    

    
    
CHECK_DEADLOCK FALSE
