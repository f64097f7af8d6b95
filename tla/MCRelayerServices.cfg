\* One order whose claim and refund compete for the lock, with one restart; one
\* client with two subscriptions over time and a queue that exceeds one run;
\* two sockets of which one is on the allowlist.
SPECIFICATION MCSpec
CONSTANTS
    Explored = {"tracker", "subscriptions", "sockets"}
    Orders = {o1}
    Actions = {claim, refund}
    MaxAttempts = 2
    MaxStages = 2
    MaxCrashes = 1
    NotFoundIsFinal = TRUE
    Subscribers = {u1}
    SubIds = {i1, i2}
    Kinds = {k1}
    MaxSubs = 1
    MaxEvents = 2
    Batch = 1
    Sockets = {s1, s2}
    Trusted = {s1}
    WsKinds = {k1, k2}
    WsOrders = {o1}
    MaxFrames = 2
INVARIANTS
    ServicesTypeOK
    OneTransactionPerKey
    OneActionLands
PROPERTIES
    
    NotificationsFlow
CHECK_DEADLOCK FALSE
