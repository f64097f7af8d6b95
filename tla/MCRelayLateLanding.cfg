\* As MCRelayerServices.cfg, for nodes that may still accept a transaction they
\* did not know when they were asked.
SPECIFICATION MCSpec
CONSTANTS
    Explored = {"tracker"}
    Orders = {o1}
    Actions = {claim, refund}
    MaxAttempts = 2
    MaxStages = 2
    MaxCrashes = 0
    NotFoundIsFinal = FALSE
    Subscribers = {u1}
    SubIds = {i1, i2}
    Kinds = {k1}
    MaxSubs = 1
    MaxEvents = 2
    Batch = 1
    Sockets = {s1, s2}
    Trusted = {s1}
    WsKinds = {k1, k2}
    WsOrders = {o1}
    MaxFrames = 2
INVARIANT
    OneActionLands
CHECK_DEADLOCK FALSE
