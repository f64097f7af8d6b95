------------------------------ MODULE FusionRpc ------------------------------
(***************************************************************************)
(* The relayer's 1inch-style interface: the order book (orders.ts), the    *)
(* RPC handler with its rate limit per client (rpc-methods.ts) and the     *)
(* event manager with its listeners and capped history                     *)
(* (event-handlers.ts).                                                    *)
(***************************************************************************)
EXTENDS Ledger, Sequences, FiniteSets

CONSTANTS
    RpcClients,     \* clientId of RPC requests
    Hashes,         \* order hashes
    EventKinds,     \* EventType
    Lifetime,       \* an order's deadline is a day ahead
    Window,         \* RATE_LIMIT_WINDOW
    RateMax,        \* RATE_LIMIT_MAX
    HistorySize,    \* MAX_HISTORY_SIZE
    MaxListeners,   \* bound on the listeners
    MaxTime         \* bound on the clock

VARIABLES
    time,       \* Date.now()
    active,     \* activeOrders: hash -> deadline
    completed,  \* completedOrders
    secrets,    \* orderSecrets: hash -> hashes and secrets in one list
    listeners,  \* eventListeners: [id, kinds, orders]
    history,    \* eventHistory, each event with the listeners it was handed to
    limits,     \* rateLimits: clientId -> [count, resetTime]
    served      \* requests past the rate limit: clientId -> instant -> number

rpcVars == <<time, active, completed, secrets, listeners, history, limits, served>>

NoOrder == "none"
Absent == MaxTime + Lifetime + 1
Unlimited == [count |-> 0, resetTime |-> 0]

-----------------------------------------------------------------------------
(* OrdersService.  Its orders outlive their deadline until cleared.        *)
addOrder(h, hashCount) ==
    /\ active' = [active EXCEPT ![h] = time + Lifetime]
    /\ secrets' = IF hashCount > 0
                  THEN [secrets EXCEPT ![h] = [i \in 1..hashCount |-> "hash"]]
                  ELSE secrets
    /\ UNCHANGED <<time, completed, listeners, history, limits, served>>

submitSecret(h) ==
    /\ active[h] # Absent
    /\ Len(secrets[h]) < 2
    /\ secrets' = [secrets EXCEPT ![h] = Append(@, "secret")]
    /\ UNCHANGED <<time, active, completed, listeners, history, limits, served>>

completeOrder(h) ==
    /\ active' = [active EXCEPT ![h] = Absent]
    /\ completed' = completed \cup {h}
    /\ UNCHANGED <<time, secrets, listeners, history, limits, served>>

clearExpiredOrders ==
    /\ active' = [h \in Hashes |-> IF time > active[h] THEN Absent ELSE active[h]]
    /\ active' # active
    /\ UNCHANGED <<time, completed, secrets, listeners, history, limits, served>>

(* The status queries: the single one looks at completion first, the bulk  *)
(* one at the deadline first and calls unknown orders expired.             *)
getOrderStatus(h) ==
    IF active[h] = Absent THEN "not_found"
    ELSE IF h \in completed THEN "executed"
    ELSE IF time > active[h] THEN "expired" ELSE "pending"

getMultipleOrderStatuses(h) ==
    IF active[h] = Absent \/ time > active[h] THEN "expired"
    ELSE IF h \in completed THEN "executed" ELSE "pending"

-----------------------------------------------------------------------------
(* FusionEventManager.                                                     *)
shouldNotifyListener(l, event) ==
    /\ event.kind \in l.kinds
    /\ l.orders = {} \/ event.order = NoOrder \/ event.order \in l.orders

emitEvent(kind, order) ==
    /\ history' = LET event == [kind |-> kind, order |-> order]
                      to == {l.id : l \in {m \in listeners : shouldNotifyListener(m, event)}}
                      longer == Append(history, [event |-> event, to |-> to])
                  IN  IF Len(longer) > HistorySize THEN Tail(longer) ELSE longer
    /\ UNCHANGED <<time, active, completed, secrets, listeners, limits, served>>

addEventListener(kinds, orders) ==
    LET id == CHOOSE i \in 1..MaxListeners : \A l \in listeners : l.id # i
    IN  /\ Cardinality(listeners) < MaxListeners
        /\ listeners' = listeners \cup {[id |-> id, kinds |-> kinds, orders |-> orders]}

removeEventListener(id) == listeners' = {l \in listeners : l.id # id}

-----------------------------------------------------------------------------
(* FusionRpcHandler: every request, valid or not, counts against its       *)
(* client's fixed window, which starts with the first request after the    *)
(* previous one ended.                                                     *)
WindowOver(c) == limits[c] = Unlimited \/ time > limits[c].resetTime

UnderLimit(c) == limits[c].count < RateMax

checkRateLimit(c) ==
    /\ WindowOver(c) \/ UnderLimit(c)
    /\ limits' = [limits EXCEPT ![c] =
                    IF WindowOver(c) THEN [count |-> 1, resetTime |-> time + Window]
                    ELSE [count |-> @.count + 1, resetTime |-> @.resetTime]]
    /\ served' = [served EXCEPT ![c][time] = @ + 1]

(* subscribe without a valid event throws; a listener filters by order if  *)
(* the client named any.                                                   *)
handleSubscribe(kinds, orders) ==
    IF kinds = {} THEN UNCHANGED listeners ELSE addEventListener(kinds, orders)

(* unsubscribe without a listener id answers success and removes nothing.  *)
handleUnsubscribe(id) == removeEventListener(id)

(* The other methods answer from fixed values, the history and counters;   *)
(* submitOrder throws and cancelOrder changes nothing.                     *)
handleRpcRequest(c) ==
    /\ checkRateLimit(c)
    /\ \/ \E kinds \in SUBSET EventKinds, orders \in SUBSET Hashes : handleSubscribe(kinds, orders)
       \/ \E id \in 0..MaxListeners : handleUnsubscribe(id)
       \/ UNCHANGED listeners
    /\ UNCHANGED <<time, active, completed, secrets, history>>

rateLimited(c) ==
    /\ ~WindowOver(c) /\ ~UnderLimit(c)
    /\ UNCHANGED rpcVars

RpcTick ==
    /\ time < MaxTime
    /\ time' = time + 1
    /\ UNCHANGED <<active, completed, secrets, listeners, history, limits, served>>

RpcInit ==
    /\ time = 0
    /\ active = [h \in Hashes |-> Absent]
    /\ completed = {}
    /\ secrets = [h \in Hashes |-> <<>>]
    /\ listeners = {}
    /\ history = <<>>
    /\ limits = [c \in RpcClients |-> Unlimited]
    /\ served = [c \in RpcClients |-> [t \in 0..MaxTime |-> 0]]

RpcNext ==
    \/ \E h \in Hashes :
          \/ \E hashCount \in 0..1 : addOrder(h, hashCount)
          \/ submitSecret(h)
          \/ completeOrder(h)
    \/ clearExpiredOrders
    \/ \E kind \in EventKinds, order \in Hashes \cup {NoOrder} : emitEvent(kind, order)
    \/ \E c \in RpcClients : handleRpcRequest(c) \/ rateLimited(c)
    \/ RpcTick

RpcSpec == RpcInit /\ [][RpcNext]_rpcVars

-----------------------------------------------------------------------------
(* History and listeners stay within their bounds.                         *)
RpcTypeOK ==
    /\ time \in 0..MaxTime
    /\ completed \subseteq Hashes
    /\ Len(history) <= HistorySize
    /\ Cardinality(listeners) <= MaxListeners
    /\ \A c \in RpcClients : limits[c].count \in Nat

ServedAt(c, t, from, to) == IF from <= t /\ t <= to THEN served[c][t] ELSE 0
ServedBetween(c, from, to) ==
    SumTo([n \in 1..(MaxTime + 1) |-> ServedAt(c, n - 1, from, to)], MaxTime + 1)

(* "100 requests per minute" (rpc-methods.ts) with windows that start at a *)
(* client's first request: no stretch of one window's length, however it   *)
(* lies across the resets, serves a client more than twice the limit.      *)
RateLimitHolds ==
    \A c \in RpcClients : \A from \in 0..MaxTime :
        ServedBetween(c, from, from + Window) <= 2 * RateMax

(* completeOrder: an executed order is never reported pending or expired   *)
(* by its status again, even when its hash is added a second time, and the *)
(* two status queries agree on which orders are pending.                   *)
CompletedNeverPending ==
    /\ \A h \in completed : getOrderStatus(h) \in {"executed", "not_found"}
    /\ \A h \in Hashes :
          (getOrderStatus(h) = "pending") = (getMultipleOrderStatuses(h) = "pending")

=============================================================================
