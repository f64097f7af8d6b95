--------------------------- MODULE RelayerPayouts ---------------------------
(***************************************************************************)
(* The relayer process (relayer/src/index.ts): the in-memory order map,    *)
(* the HTTP handlers that pay out of the relayer's wallets and the refund  *)
(* watchdog (refund-watchdog.ts, xlm-refund.ts).  The pollers that also    *)
(* write to the map are ChainMonitoring's; here they may act at any time.  *)
(*                                                                         *)
(* An action is what one callback does between two awaits.  The submission *)
(* tracker appears as its promise to callers: a key holds at most one      *)
(* transaction, callers of a running key join it, a claim and a refund of  *)
(* one order exclude each other, a restart keeps what was saved.           *)
(* RelaySubmissionTracker models how it keeps that promise.                *)
(***************************************************************************)
EXTENDS Naturals, FiniteSets

CONSTANTS
    XlmOrders,    \* orders that send XLM and receive ETH
    EthOrders,    \* orders that send ETH and receive XLM
    Sessions,     \* the sets of orders whose users show up in one behaviour
    Clients,      \* HTTP requests that may be open at the same time
    Scans,        \* watchdog scans that may overlap
    MaxRestarts,  \* bound: restarts of the process
    MaxPayouts,   \* bound: payments counted per key
    BackstopFails \* may Horizon fail when a manual refund asks for past refunds

ASSUME RelayerAssumption ==
    /\ Sessions \subseteq SUBSET (XlmOrders \cup EthOrders)
    /\ XlmOrders \cap EthOrders = {} /\ Clients \cap Scans = {}
    /\ MaxRestarts \in Nat /\ MaxPayouts \in Nat \ {0}
    /\ BackstopFails \in BOOLEAN

Orders == XlmOrders \cup EthOrders
Actors == Clients \cup Scans

VARIABLES
    users,      \* the orders of this behaviour
    active,     \* activeOrders: status and bookkeeping of each order
    received,   \* XLM orders whose payment reached the relayer's account
    gate,       \* the tracker's record per key
    tx,         \* what became of the transaction a key put on the network
    paid,       \* payments of a key that landed
    drv,        \* what the promise driving a key waits for
    call,       \* the open requests and scans
    htlc,       \* XLM orders for which a poller awaits an ETH HTLC
    restarts

vars == <<users, active, received, gate, tx, paid, drv, call, htlc, restarts>>
trackerVars == <<gate, tx, paid, drv>>

(* "payRefund" is the refund of a manual request that found no order: its  *)
(* key is made of the hash of the user's payment instead of the order id.  *)
Keys == (XlmOrders \X {"claim", "refund", "payRefund"}) \cup (EthOrders \X {"claim"})
Opposite(key) ==
    CASE key[2] = "claim"  -> {<<key[1], "refund">>}
      [] key[2] = "refund" -> {<<key[1], "claim">>}
      [] OTHER -> {}

PRE_DEPOSIT_STATUSES == {"pending_direct_escrow", "pending_dst_escrow_deployment",
                         "awaiting_xlm_payment"}
EscrowStatuses == {"src_escrow_created", "dst_escrow_created",
                   "escrow_active", "escrow_funded"}
Statuses == PRE_DEPOSIT_STATUSES \cup EscrowStatuses \cup
            {"none", "mock_escrow_created", "mock_htlc_created",
             "awaiting_eth_release", "eth_htlc_created", "eth_htlc_failed",
             "eth_tx_sent", "completed", "refunded", "expired"}
NoOrder == [status |-> "none", hasTx |-> FALSE, refunded |-> FALSE]
NoCall == [op |-> "none", order |-> "none", at |-> "idle", key |-> <<>>]

-----------------------------------------------------------------------------
(* storeActiveOrder: the map first, then the start of the monitoring, on   *)
(* which the handler awaits.                                               *)
storeActiveOrder(o, data) == active' = [active EXCEPT ![o] = data]

(* POST /api/orders/create: the first status says on which branch the     *)
(* order was made, one per direction and network, and in mock mode.  The   *)
(* branches also quote prices and check the gap of the timelocks, which    *)
(* refuse a request and store nothing.                                     *)
createEthToXlm == {"pending_dst_escrow_deployment", "pending_direct_escrow",
                   "mock_escrow_created"}
createXlmToEth == {"awaiting_xlm_payment", "mock_htlc_created"}

createStatus_OldName(o) ==
    IF o \in XlmOrders THEN createXlmToEth ELSE {"pending_escrow_deployment"}
createStatus(o) == IF o \in XlmOrders THEN createXlmToEth ELSE createEthToXlm

Create(o) ==
    /\ active[o].status = "none"
    /\ \E status \in createStatus(o) :
          storeActiveOrder(o, [NoOrder EXCEPT !.status = status])
    /\ UNCHANGED <<received, trackerVars, call, htlc, users, restarts>>

(* The user pays; nothing forces the payment to follow the order.          *)
UserSendsXlm(o) ==
    /\ o \in XlmOrders \ received
    /\ received' = received \cup {o}
    /\ UNCHANGED <<active, trackerVars, call, htlc, users, restarts>>

-----------------------------------------------------------------------------
(* tracker.submit for the caller a.                                        *)
Blocked_LiveOnly(key) ==
    \E k \in Opposite(key) \cap Keys : gate[k] \in {"in_flight", "pending"}
Blocked(key) ==
    \E k \in Opposite(key) \cap Keys : gate[k] \in {"in_flight", "pending", "succeeded"}

submit(a, op, o, key) ==
    LET Stop(at) == /\ call' = [call EXCEPT ![a] =
                           [op |-> op, order |-> o, at |-> at, key |-> key]]
                    /\ UNCHANGED <<gate, drv>>
        Drive(status, step) ==
            /\ call' = [call EXCEPT ![a] =
                  [op |-> op, order |-> o, at |-> "wait", key |-> key]]
            /\ gate' = [gate EXCEPT ![key] = status]
            /\ drv' = [drv EXCEPT ![key] = step]
    IN  /\ IF gate[key] = "succeeded" THEN Stop("ok")
           ELSE IF gate[key] = "failed" THEN Stop("error")
           ELSE IF drv[key] # "none" THEN Stop("wait")
           ELSE IF gate[key] = "pending" THEN Drive("pending", "polling")
           ELSE IF Blocked(key) THEN Stop("busy")
           ELSE Drive("in_flight", "staging")
        /\ UNCHANGED <<tx, paid>>

Answer(key, at) ==
    call' = [a \in Actors |-> IF call[a].at = "wait" /\ call[a].key = key
                              THEN [call[a] EXCEPT !.at = at] ELSE call[a]]

Finish(key, status, at) ==
    /\ gate' = [gate EXCEPT ![key] = status]
    /\ drv' = [drv EXCEPT ![key] = "none"]
    /\ Answer(key, at)

Hangup(a) == call' = [call EXCEPT ![a] = NoCall]

TrackerOnly == UNCHANGED <<active, received, htlc, users, restarts>>

(* Staging fails before anything was signed: the slot is free again.  An   *)
(* error of the terminal patterns is kept as a failure.                    *)
StagingFails(key) ==
    /\ drv[key] = "staging"
    /\ \E status \in {"absent", "failed"} : Finish(key, status, "error")
    /\ UNCHANGED <<tx, paid>> /\ TrackerOnly

(* The stagers of the ETH release and of the refunds sign, return the hash *)
(* and leave the broadcast to the tracker.                                 *)
Staged(key) ==
    /\ drv[key] = "staging"
    /\ ~ (key[1] \in EthOrders /\ key[2] = "claim")
    /\ gate' = [gate EXCEPT ![key] = "pending"]
    /\ tx' = [tx EXCEPT ![key] = "live"]
    /\ drv' = [drv EXCEPT ![key] = "polling"]
    /\ UNCHANGED <<paid, call>> /\ TrackerOnly

(* The stager of the XLM payout is server.submitTransaction itself, behind *)
(* the check of the coordinator's quote: the payment has landed when the   *)
(* tracker finds no txHash in the answer and files a staging failure.      *)
submitIfCoordinatorQuoteMatches(key) ==
    /\ drv[key] = "staging"
    /\ key[1] \in EthOrders /\ key[2] = "claim"
    /\ paid[key] < MaxPayouts
    /\ paid' = [paid EXCEPT ![key] = @ + 1]
    /\ Finish(key, "absent", "error")
    /\ UNCHANGED tx /\ TrackerOnly

(* One submit() call polls until it has an answer or its budget is spent;  *)
(* in the second case the record stays pending and nobody drives it.       *)
Polled(key) ==
    /\ drv[key] = "polling"
    /\ \/ tx[key] = "landed"  /\ Finish(key, "succeeded", "ok")
       \/ tx[key] = "dropped" /\ Finish(key, "failed", "error")
       \/ Finish(key, "pending", "timeout")
    /\ UNCHANGED <<tx, paid>> /\ TrackerOnly

TxResolves(key) ==
    /\ tx[key] = "live"
    /\ \/ /\ tx' = [tx EXCEPT ![key] = "landed"]
          /\ paid' = [paid EXCEPT ![key] = @ + 1]
       \/ tx' = [tx EXCEPT ![key] = "dropped"] /\ UNCHANGED paid
    /\ UNCHANGED <<gate, drv, call>> /\ TrackerOnly

-----------------------------------------------------------------------------
(* POST /api/orders/process, for an order the map holds.  The handler      *)
(* takes the caller's word for the deposit; the callers of this model      *)
(* call after they paid.  A balance too low is answered before anything    *)
(* is submitted.  For XLM orders it releases ETH and notes nothing of the  *)
(* payment; for ETH orders it pays XLM.  The branch for an order that is   *)
(* "pending_escrow_deployment" is dead: no branch of create stores that.   *)
Settles(at) == at = "ok"

ProcessAccepts(a, o) == call[a].at = "idle" /\ active[o].status # "none"

processXlmToEth(a, o) ==
    /\ ProcessAccepts(a, o)
    /\ o \in received
    /\ submit(a, "process", o, <<o, "claim">>)
    /\ UNCHANGED <<active, received, htlc, users, restarts>>

processEthToXlm(a, o) ==
    /\ ProcessAccepts(a, o)
    /\ o \in EthOrders
    /\ submit(a, "process", o, <<o, "claim">>)
    /\ UNCHANGED <<active, received, htlc, users, restarts>>

ProcessDone(a) ==
    /\ call[a].op = "process"
    /\ call[a].at \in {"ok", "error", "busy", "timeout"}
    /\ active' = IF Settles(call[a].at)
                 THEN [active EXCEPT ![call[a].order].status = "completed"]
                 ELSE active
    /\ Hangup(a)
    /\ UNCHANGED <<received, trackerVars, htlc, users, restarts>>

(* POST /api/orders/xlm-to-eth.  An order the process no longer knows is   *)
(* synthesised and stored; the payment is noted once the monitoring runs.  *)
PaymentNoted(o) == [active EXCEPT ![o].hasTx = TRUE]

XlmToEthKnown(a, o) ==
    /\ call[a].at = "idle"
    /\ o \in received /\ active[o].status # "none"
    /\ active' = PaymentNoted(o)
    /\ call' = [call EXCEPT ![a] = [op |-> "xlmToEth", order |-> o,
                                    at |-> "balance", key |-> <<>>]]
    /\ UNCHANGED <<received, trackerVars, htlc, users, restarts>>

XlmToEthUnknown(a, o) ==
    /\ call[a].at = "idle"
    /\ o \in received /\ active[o].status = "none"
    /\ storeActiveOrder(o, [NoOrder EXCEPT !.status = "awaiting_eth_release"])
    /\ call' = [call EXCEPT ![a] = [op |-> "xlmToEth", order |-> o,
                                    at |-> "store", key |-> <<>>]]
    /\ UNCHANGED <<received, trackerVars, htlc, users, restarts>>

XlmToEthStored(a) ==
    /\ call[a].at = "store"
    /\ \/ /\ active' = PaymentNoted(call[a].order)
          /\ call' = [call EXCEPT ![a].at = "balance"]
       \/ Hangup(a) /\ UNCHANGED active       \* the monitoring did not start
    /\ UNCHANGED <<received, trackerVars, htlc, users, restarts>>

(* getBalance: enough, too little (answered 400), or an error, which goes  *)
(* to the automatic refund like a failed release.                          *)
inlineRefund(a) == submit(a, "xlmToEth", call[a].order, <<call[a].order, "refund">>)

BalanceRead(a) ==
    /\ call[a].at = "balance"
    /\ \/ submit(a, "xlmToEth", call[a].order, <<call[a].order, "claim">>)
       \/ Hangup(a) /\ UNCHANGED trackerVars
       \/ inlineRefund(a)
    /\ UNCHANGED <<active, received, htlc, users, restarts>>

(* A failed release is refunded at once; an unconfirmed one never is.      *)
RefundOnFailure(at) == at \in {"error", "busy"}

ReleaseAnswered(a) ==
    /\ call[a].op = "xlmToEth" /\ call[a].key = <<call[a].order, "claim">>
    /\ \/ /\ call[a].at = "ok"
          /\ active' = [active EXCEPT ![call[a].order].status = "eth_tx_sent"]
          /\ Hangup(a) /\ UNCHANGED trackerVars
       \/ /\ RefundOnFailure(call[a].at)
          /\ inlineRefund(a) /\ UNCHANGED active
       \/ /\ call[a].at = "timeout"
          /\ Hangup(a) /\ UNCHANGED <<active, trackerVars>>
    /\ UNCHANGED <<received, htlc, users, restarts>>

InlineRefundAnswered(a) ==
    /\ call[a].op = "xlmToEth" /\ call[a].key = <<call[a].order, "refund">>
    /\ call[a].at \in {"ok", "error", "busy", "timeout"}
    /\ active' = IF Settles(call[a].at)
                 THEN [active EXCEPT ![call[a].order].status = "refunded",
                                     ![call[a].order].refunded = TRUE]
                 ELSE active
    /\ Hangup(a)
    /\ UNCHANGED <<received, trackerVars, htlc, users, restarts>>

(* POST /api/orders/manual-refund, which the frontend sends without an     *)
(* order id: the order is looked up by the payment noted on it.            *)
refundKey(o) == IF active[o].hasTx THEN <<o, "refund">> ELSE <<o, "payRefund">>

(* The scan of the relayer account's memos knows the refunds of this very  *)
(* key and of this payment, and is skipped when Horizon fails.             *)
alreadyRefunded(o) == paid[refundKey(o)] > 0 \/ paid[<<o, "payRefund">>] > 0

ManualRefund(a, o) ==
    /\ call[a].at = "idle"
    /\ o \in received
    /\ ~ alreadyRefunded(o) \/ BackstopFails
    /\ submit(a, "manual", o, refundKey(o))
    /\ UNCHANGED <<active, received, htlc, users, restarts>>

(* The order found by its payment is an entry of the map, not the order:   *)
(* the status the handler writes goes to the entry and is lost.            *)
ManualRefundAnswered(a) ==
    /\ call[a].op = "manual"
    /\ call[a].at \in {"ok", "error", "busy", "timeout"}
    /\ Hangup(a)
    /\ UNCHANGED <<active, received, trackerVars, htlc, users, restarts>>

-----------------------------------------------------------------------------
(* refund-watchdog.ts: one order of a scan.  The age test and the pause    *)
(* after a failure only delay an order, so they appear as not scanning yet.*)
isXlmToEthAwaitingEth_StoredOnly(o) ==
    /\ o \in XlmOrders
    /\ active[o].hasTx /\ ~ active[o].refunded
    /\ active[o].status \notin {"awaiting_eth_release", "eth_tx_sent", "completed", "refunded"}
isXlmToEthAwaitingEth(o) ==
    /\ o \in XlmOrders
    /\ active[o].hasTx /\ ~ active[o].refunded
    /\ active[o].status \notin {"eth_tx_sent", "completed", "refunded"}

ScanOrder(w, o) ==
    /\ call[w].at = "idle"
    /\ isXlmToEthAwaitingEth(o)
    /\ ~ Blocked(<<o, "refund">>)
    /\ submit(w, "scan", o, <<o, "refund">>)
    /\ UNCHANGED <<active, received, htlc, users, restarts>>

ScanAnswered(w) ==
    /\ call[w].op = "scan"
    /\ call[w].at \in {"ok", "error", "busy", "timeout"}
    /\ active' = IF Settles(call[w].at)
                 THEN [active EXCEPT ![call[w].order].status = "refunded",
                                     ![call[w].order].refunded = TRUE]
                 ELSE active
    /\ Hangup(w)
    /\ UNCHANGED <<received, trackerVars, htlc, users, restarts>>

-----------------------------------------------------------------------------
(* What the pollers do to the map.  A payment seen for an order that still *)
(* waits for it starts an ETH HTLC, outside the tracker; the status is     *)
(* overwritten when its transaction is mined or fails.                     *)
createETHHTLCForOrder(o) ==
    /\ o \in received \ htlc
    /\ active[o].status = "awaiting_xlm_payment"
    /\ htlc' = htlc \cup {o}
    /\ UNCHANGED <<active, received, trackerVars, call, users, restarts>>

ETHHTLCAnswered(o) ==
    /\ o \in htlc
    /\ htlc' = htlc \ {o}
    /\ \E status \in {"eth_htlc_created", "eth_htlc_failed"} :
          active' = [active EXCEPT ![o].status = status]
    /\ UNCHANGED <<received, trackerVars, call, users, restarts>>

(* Orders abandoned before a deposit expire.                               *)
expireAbandonedOrders(o) ==
    /\ active[o].status \in PRE_DEPOSIT_STATUSES
    /\ active' = [active EXCEPT ![o].status = "expired"]
    /\ UNCHANGED <<received, trackerVars, call, htlc, users, restarts>>

(* The events of the escrow factory are matched by hashlock (EscrowFunded  *)
(* by the escrow id learned before) and set the status whatever it was.    *)
EscrowEvent(o) ==
    /\ o \in EthOrders
    /\ active[o].status # "none"
    /\ \E status \in EscrowStatuses : active' = [active EXCEPT ![o].status = status]
    /\ UNCHANGED <<received, trackerVars, call, htlc, users, restarts>>

(* The process dies: the order map, the promises and the pollers are lost, *)
(* the tracker's file and the chains are not.                              *)
Restart ==
    /\ restarts < MaxRestarts
    /\ restarts' = restarts + 1
    /\ active' = [o \in Orders |-> NoOrder]
    /\ call' = [a \in Actors |-> NoCall]
    /\ drv' = [k \in Keys |-> "none"]
    /\ gate' = [k \in Keys |-> IF gate[k] = "in_flight" THEN "absent" ELSE gate[k]]
    /\ htlc' = {}
    /\ UNCHANGED <<users, received, tx, paid>>

Init ==
    /\ users \in Sessions
    /\ active = [o \in Orders |-> NoOrder]
    /\ received = {}
    /\ gate = [k \in Keys |-> "absent"]
    /\ tx = [k \in Keys |-> "none"]
    /\ paid = [k \in Keys |-> 0]
    /\ drv = [k \in Keys |-> "none"]
    /\ call = [a \in Actors |-> NoCall]
    /\ htlc = {}
    /\ restarts = 0

ClientStep ==
    \/ \E o \in users : Create(o) \/ UserSendsXlm(o)
    \/ \E a \in Clients, o \in users :
          \/ processXlmToEth(a, o)
          \/ processEthToXlm(a, o)
          \/ XlmToEthKnown(a, o)
          \/ XlmToEthUnknown(a, o)
          \/ ManualRefund(a, o)

HandlerStep(a) ==
    \/ ProcessDone(a)
    \/ XlmToEthStored(a)
    \/ BalanceRead(a)
    \/ ReleaseAnswered(a)
    \/ InlineRefundAnswered(a)
    \/ ManualRefundAnswered(a)
    \/ ScanAnswered(a)

TrackerStep(key) ==
    \/ StagingFails(key)
    \/ Staged(key)
    \/ submitIfCoordinatorQuoteMatches(key)
    \/ Polled(key)

PollerStep(o) ==
    \/ createETHHTLCForOrder(o)
    \/ ETHHTLCAnswered(o)
    \/ EscrowEvent(o)
    \/ expireAbandonedOrders(o)

Next ==
    \/ ClientStep
    \/ \E a \in Actors : HandlerStep(a)
    \/ \E w \in Scans, o \in XlmOrders : ScanOrder(w, o)
    \/ \E key \in Keys : TrackerStep(key) \/ TxResolves(key)
    \/ \E o \in Orders : PollerStep(o)
    \/ Restart

Spec == Init /\ [][Next]_vars

(* Callbacks that are due run, networks decide, the watchdog's timer keeps *)
(* firing, and staging or polling a refund does not fail for ever.         *)
PayoutFairness ==
    /\ \A a \in Actors : WF_vars(HandlerStep(a))
    /\ \A o \in XlmOrders :
          /\ WF_vars(TrackerStep(<<o, "claim">>))
          /\ WF_vars(TrackerStep(<<o, "refund">>))
          /\ SF_vars(Staged(<<o, "refund">>))
          /\ WF_vars(TxResolves(<<o, "refund">>))
          /\ SF_vars(Polled(<<o, "refund">>) /\ gate'[<<o, "refund">>] # "pending")
    /\ \A w \in Scans, o \in XlmOrders : SF_vars(ScanOrder(w, o))

FairSpec == Spec /\ PayoutFairness

-----------------------------------------------------------------------------
(* The shapes of the order map, the tracker's view and the open calls.     *)
TypeOK ==
    /\ active \in [Orders -> [status: Statuses, hasTx: BOOLEAN, refunded: BOOLEAN]]
    /\ users \subseteq Orders /\ received \subseteq XlmOrders
    /\ gate \in [Keys -> {"absent", "in_flight", "pending", "succeeded", "failed"}]
    /\ tx \in [Keys -> {"none", "live", "landed", "dropped"}]
    /\ paid \in [Keys -> 0 .. MaxPayouts]
    /\ drv \in [Keys -> {"none", "staging", "polling"}]
    /\ htlc \subseteq XlmOrders
    /\ restarts \in 0 .. MaxRestarts
    /\ \A a \in Actors :
          call[a].at \in {"idle", "store", "balance", "wait", "ok", "error",
                          "busy", "timeout"}

(* An order is marked paid or refunded only when that payment is final,    *)
(* so the watchdog never passes over an order that still owes the user.    *)
MarkedOnlyWhenPaid(o) ==
    /\ active[o].status = "refunded" \/ active[o].refunded
       => paid[<<o, "refund">>] = 1
    /\ active[o].status \in {"eth_tx_sent", "completed"}
       => paid[<<o, "claim">>] = 1

(* The user of an XLM order is paid once, in ETH or back in XLM, and the   *)
(* order is marked so only then, however the release handlers, the inline  *)
(* refund, overlapping watchdog scans, retries and restarts interleave.    *)
(* The order status is no help: a poller overwrites it.  The tracker's     *)
(* order lock is what the handlers rely on.  A manual refund that fell     *)
(* back to the payment hash is a third key, outside this lock.             *)
XlmOrderPaysOnce ==
    \A o \in XlmOrders :
        /\ MarkedOnlyWhenPaid(o)
        /\ paid[<<o, "claim">>] + paid[<<o, "refund">>] <= 1

(* Every payout of an order is counted once whoever asks: claim, refund    *)
(* and the refund of a manual request that did not find its order.         *)
UserPaidOnce ==
    /\ \A o \in EthOrders : paid[<<o, "claim">>] <= 1
    /\ \A o \in XlmOrders :
          paid[<<o, "claim">>] + paid[<<o, "refund">>] + paid[<<o, "payRefund">>] <= 1

Owed(o) == active[o].hasTx
Settled(o) == paid[<<o, "claim">>] + paid[<<o, "refund">>] > 0

(* XLM the relayer knows it received is paid out in ETH or refunded even   *)
(* when the client never calls again, unless the process lost the order,   *)
(* the refund failed for good, or a release was left unconfirmed, which    *)
(* nobody but the client polls.                                            *)
WatchdogRescues ==
    \A o \in XlmOrders :
        Owed(o) ~> \/ Settled(o) \/ ~ Owed(o)
                   \/ gate[<<o, "refund">>] = "failed"
                   \/ gate[<<o, "claim">>] = "pending" /\ drv[<<o, "claim">>] = "none"

=============================================================================
