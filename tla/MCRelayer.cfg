\* One order in each direction with a request and a watchdog scan open at the
\* same time and one restart; three starts of the monitoring; three blocks in
\* windows of two.
SPECIFICATION MCSpec
CONSTANTS
    Explored = {"payouts", "monitoring", "polls"}
    XlmOrders = {x1}
    EthOrders = {e1}
    Sessions = {{x1}, {e1}}
    Clients = {c1}
    Scans = {w1}
    MaxRestarts = 1
    MaxPayouts = 2
    BackstopFails = TRUE
    MonOrders = {m1, m2}
    Starts = {s1, s2, s3}
    MaxHtlcs = 2
    Bindings = {b1, b2}
    MaxHead = 3
    MaxWindow = 2
INVARIANTS
    RelayerTypeOK
    
    OneHtlcPerPayment
PROPERTIES
    WatchdogRescues
    LogsHandled
CHECK_DEADLOCK FALSE
