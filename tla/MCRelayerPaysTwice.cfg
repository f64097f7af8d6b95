\* One user who sends ETH and asks again when told that the payout failed.
SPECIFICATION MCSpec
CONSTANTS
    Explored = {"payouts"}
    XlmOrders = {x1}
    EthOrders = {e1}
    Sessions = {{e1}}
    Clients = {c1}
    Scans = {w1}
    MaxRestarts = 1
    MaxPayouts = 2
    BackstopFails = TRUE
    MonOrders = {m1, m2}
    Starts = {s1, s2, s3}
    MaxHtlcs = 2
    Bindings = {b1, b2}
    MaxHead = 3
    MaxWindow = 2
INVARIANT UserPaidOnce
CHECK_DEADLOCK FALSE
