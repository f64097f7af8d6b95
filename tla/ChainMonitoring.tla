-------------------------- MODULE ChainMonitoring --------------------------
(***************************************************************************)
(* The relayer's chain monitoring: pollers that are started with the first *)
(* order that needs them and stopped when no order does (ensure-, start-,  *)
(* stop- and reconcileChainMonitoring in relayer/src/index.ts, over        *)
(* adaptive-poll.ts and order-poll-utils.ts), and the poller that turns a  *)
(* user's XLM payment into an ETH HTLC.                                    *)
(*                                                                         *)
(* One run of startChainMonitoring is a start; it awaits RPC answers after *)
(* the flag is set and after its pollers are pushed, and the once-a-minute *)
(* reconciliation or another order may come in between.                    *)
(***************************************************************************)
EXTENDS Naturals, FiniteSets

CONSTANTS
    MonOrders,  \* XLM orders
    Starts,     \* bound: runs of startChainMonitoring, each with its pollers
    MaxHtlcs    \* bound: HTLCs counted per order

VARIABLES
    status,     \* the order's status as the monitoring sees it
    seen,       \* orders whose payment is in the relayer's account
    started,    \* chainMonitoringStarted
    start,      \* where each start is: unused, running, over
    poller,     \* the stellar-incoming poller of each start
    tick,       \* the order a poller's tick awaits an HTLC for, per poller
    sent,       \* ETH HTLC transactions sent per order
    doubled     \* history: two pollers were alive at once

monVars == <<status, seen, started, start, poller, tick, sent, doubled>>

-----------------------------------------------------------------------------
(* order-poll-utils.ts.  "open" stands for the statuses that are neither   *)
(* terminal nor before the deposit, "done" for the terminal ones.          *)
needsChainMonitoring(orders) ==
    \E o \in MonOrders : orders[o] \notin {"none", "done"}

Alive(pollers) == {s \in Starts : pollers[s] = "polling"}
Watch(pollers) ==
    /\ poller' = pollers
    /\ doubled' = (doubled \/ Cardinality(Alive(pollers)) > 1)

ensureChainMonitoring ==
    IF started
    THEN UNCHANGED <<started, start>>
    ELSE \E s \in {x \in Starts : start[x] = "unused"} :
            /\ started' = TRUE
            /\ start' = [start EXCEPT ![s] = "running"]

(* POST /api/orders/create stores the order and then ensures monitoring.   *)
storeActiveOrder(o) ==
    /\ status[o] = "none"
    /\ status' = [status EXCEPT ![o] = "awaiting_xlm_payment"]
    /\ ensureChainMonitoring
    /\ UNCHANGED <<seen, poller, tick, sent, doubled>>

UserPays(o) ==
    /\ seen' = seen \cup {o}
    /\ o \notin seen
    /\ UNCHANGED <<status, started, start, poller, tick, sent, doubled>>

(* The handlers of RelayerPayouts settle an order.                         *)
OrderSettles(o) ==
    /\ status[o] \in {"awaiting_xlm_payment", "open"}
    /\ status' = [status EXCEPT ![o] = "done"]
    /\ UNCHANGED <<seen, started, start, poller, tick, sent, doubled>>

-----------------------------------------------------------------------------
startSucceeds(s) ==
    /\ start[s] = "running"
    /\ start' = [start EXCEPT ![s] = "over"]
    /\ Watch([poller EXCEPT ![s] = "polling"])
    /\ UNCHANGED <<status, seen, started, tick, sent>>

(* The pollers are pushed before the event poller and the listener start;  *)
(* when one of those throws, the pollers stay.                             *)
startFails(s) ==
    /\ start[s] = "running"
    /\ start' = [start EXCEPT ![s] = "over"]
    /\ started' = FALSE
    /\ \E left \in {poller, [poller EXCEPT ![s] = "polling"]} : Watch(left)
    /\ UNCHANGED <<status, seen, tick, sent>>

expireAbandonedOrders(orders) ==
    [o \in MonOrders |->
        IF orders[o] = "awaiting_xlm_payment" THEN "done" ELSE orders[o]]

FlagAfterStop == FALSE

stopChainMonitoring ==
    /\ started' = FlagAfterStop
    /\ poller' = [s \in Starts |-> "stopped"]

reconcileChainMonitoring ==
    /\ \E old \in BOOLEAN :
          status' = IF old THEN expireAbandonedOrders(status) ELSE status
    /\ IF started /\ ~ needsChainMonitoring(status')
       THEN stopChainMonitoring
       ELSE UNCHANGED <<started, poller>>
    /\ UNCHANGED <<seen, start, tick, sent, doubled>>

(* A tick runs when isActive() holds, one at a time per poller; a poller   *)
(* that was stopped finishes the tick it is in.  The payment is matched to *)
(* an order still waiting for it, and the HTLC is created outside of the   *)
(* submission tracker.                                                     *)
Matches_AnyOpenOrder(o) == status[o] # "none"
Matches(o) == status[o] = "awaiting_xlm_payment"

tickCreatesHTLC(s, o) ==
    /\ poller[s] = "polling" /\ tick[s] = "none"
    /\ o \in seen /\ Matches(o)
    /\ sent[o] < MaxHtlcs
    /\ tick' = [tick EXCEPT ![s] = o]
    /\ sent' = [sent EXCEPT ![o] = @ + 1]
    /\ UNCHANGED <<status, seen, started, start, poller, doubled>>

(* createETHHTLCForOrder writes eth_htlc_created or eth_htlc_failed, both  *)
(* of which keep the monitoring needed, over whatever the status is.       *)
tickAnswered(s, o) ==
    /\ tick[s] = o
    /\ tick' = [tick EXCEPT ![s] = "none"]
    /\ status' = [status EXCEPT ![o] = "open"]
    /\ UNCHANGED <<seen, started, start, poller, sent, doubled>>

MonInit ==
    /\ status = [o \in MonOrders |-> "none"]
    /\ seen = {}
    /\ started = FALSE
    /\ start = [s \in Starts |-> "unused"]
    /\ poller = [s \in Starts |-> "stopped"]
    /\ tick = [s \in Starts |-> "none"]
    /\ sent = [o \in MonOrders |-> 0]
    /\ doubled = FALSE

MonNext ==
    \/ \E o \in MonOrders :
          \/ storeActiveOrder(o)
          \/ UserPays(o)
          \/ OrderSettles(o)
    \/ \E s \in Starts : startSucceeds(s) \/ startFails(s)
    \/ \E s \in Starts, o \in MonOrders :
          tickCreatesHTLC(s, o) \/ tickAnswered(s, o)
    \/ reconcileChainMonitoring

MonSpec == MonInit /\ [][MonNext]_monVars

-----------------------------------------------------------------------------
(* The shapes of the monitoring's state.                                   *)
MonTypeOK ==
    /\ status \in [MonOrders -> {"none", "awaiting_xlm_payment", "open", "done"}]
    /\ seen \subseteq MonOrders
    /\ started \in BOOLEAN
    /\ start \in [Starts -> {"unused", "running", "over"}]
    /\ poller \in [Starts -> {"polling", "stopped"}]
    /\ tick \in [Starts -> MonOrders \cup {"none"}]
    /\ sent \in [MonOrders -> 0 .. MaxHtlcs]
    /\ doubled \in BOOLEAN

(* The flag never promises pollers that are not there: when it is set and  *)
(* no start is under way, some poller runs.  Otherwise every later order   *)
(* would find the flag set, start nothing and never be watched.            *)
FlagMeansPolling ==
    started /\ (\A s \in Starts : start[s] # "running") => Alive(poller) # {}

(* A user's payment is answered with one ETH HTLC, as long as no failed or *)
(* overtaken start left a second poller running: a tick looks at the       *)
(* status again only after the awaits of the previous one.                 *)
OneHtlcPerPayment == ~ doubled => \A o \in MonOrders : sent[o] <= 1

=============================================================================
