----------------------------- MODULE BridgeForm -----------------------------
(***************************************************************************)
(* The browser's bridge form, frontend/src/components/BridgeForm.tsx: the  *)
(* price estimate, the restored order, and handleSubmit from the chain     *)
(* check over the wallet transaction to the relayer's answer, with the     *)
(* transaction list kept in localStorage.                                  *)
(*                                                                         *)
(* handleSubmit works on what it captured when it was called, while the    *)
(* user, the wallet and late answers go on changing the page between its   *)
(* awaits.  The file uses some names it does not import                    *)
(* (checkOrderFreshness, getActiveOrderId, ...); they are taken for what   *)
(* their uses say.                                                         *)
(***************************************************************************)
EXTENDS Naturals, Sequences, SequencesExt

CONSTANTS
    FormAmounts,    \* amounts a user enters
    Saved,          \* order ids that may be restored
    MaxSubmits,     \* bound on orders created
    HistoryCap      \* entries localStorage keeps (50)

VARIABLES
    form,       \* [dir, amount] on screen
    estimate,   \* what estimatedAmount was computed for, or NoForm
    rates,      \* price requests in flight: [for, live]
    mode,       \* network named by the URL
    info,       \* networkInfo, refreshed on popstate and once a second
    wallet,     \* the wallet's chain
    ready,      \* useBackendStatus: the coordinator answers
    activeRef,  \* activeOrderIdRef
    shown,      \* the order on screen
    created,    \* orderCreated: the order page replaces the form
    checks,     \* freshness requests in flight, by order id
    flow,       \* handleSubmit between two awaits
    submits,    \* orders created so far; the ids of new orders
    tx,         \* external: the lock transaction of each new order
    posted,     \* orders handed to the relayer for processing
    history     \* oversync_transactions_v2

price == <<form, estimate, rates>>
page == <<activeRef, shown, created, checks>>
network == <<mode, info, wallet, ready>>
sending == <<flow, submits, tx, posted, history>>
formVars == <<price, page, network, sending>>

Dirs == {"eth_to_xlm", "xlm_to_eth"}
Nets == {"testnet", "mainnet"}
Empty == 0
NoForm == [dir |-> "eth_to_xlm", amount |-> Empty]
NoOrder == "none"
Idle == [at |-> "idle"]
NewIds == 1..MaxSubmits

-----------------------------------------------------------------------------
(* The estimate.  Every change of amount or direction runs the effect's    *)
(* cleanup, which cancels the request in flight, and starts a new one.     *)
Asked(f) == {[r EXCEPT !.live = FALSE] : r \in rates}
            \cup (IF f.amount = Empty THEN {} ELSE {[for |-> f, live |-> TRUE]})

setAmount(a) ==
    /\ ~created /\ a # form.amount
    /\ form' = [form EXCEPT !.amount = a]
    /\ rates' = Asked([form EXCEPT !.amount = a])
    /\ estimate' = IF a = Empty THEN NoForm ELSE estimate
    /\ UNCHANGED <<page, network, sending>>

handleSwapDirection ==
    /\ ~created
    /\ form' = [dir |-> CHOOSE d \in Dirs : d # form.dir, amount |-> Empty]
    /\ rates' = Asked(form')
    /\ estimate' = NoForm
    /\ UNCHANGED <<page, network, sending>>

(* An answer, or the fallback rate after a failure, unless cancelled.      *)
Applies(r) == r.live

updateRateAndCalculate(r) ==
    /\ r \in rates
    /\ rates' = rates \ {r}
    /\ estimate' = IF Applies(r) THEN r.for ELSE estimate
    /\ UNCHANGED <<form, page, network, sending>>

-----------------------------------------------------------------------------
(* Restoring an order: the ref names the order asked for last, and a late  *)
(* answer for another one is ignored.                                      *)
restoreOrder(id, cached) ==
    /\ activeRef # id
    /\ activeRef' = id
    /\ checks' = checks \cup {id}
    /\ shown' = IF cached THEN id ELSE shown
    /\ created' = (cached \/ created)
    /\ UNCHANGED <<price, network, sending>>

isResponseForCurrentOrder_Always(active, id) == TRUE
isResponseForCurrentOrder(active, id) == active = id

FreshnessAnswers(id, ok) ==
    /\ id \in checks
    /\ checks' = checks \ {id}
    /\ LET take == ok /\ isResponseForCurrentOrder(activeRef, id) IN
          /\ shown' = IF take THEN id ELSE shown
          /\ created' = (take \/ created)
    /\ UNCHANGED <<activeRef, price, network, sending>>

handleRetryFreshness ==
    /\ activeRef # NoOrder
    /\ checks' = checks \cup {activeRef}
    /\ UNCHANGED <<activeRef, shown, created, price, network, sending>>

Mismatch == wallet # mode

handleReset ==
    /\ created /\ ~Mismatch
    /\ activeRef' = NoOrder /\ shown' = NoOrder /\ created' = FALSE
    /\ form' = [form EXCEPT !.amount = Empty]
    /\ rates' = Asked(form') /\ estimate' = NoForm
    /\ UNCHANGED <<checks, network, sending>>

-----------------------------------------------------------------------------
(* The network around the form.                                            *)
ChangeMode(m) == mode' = m /\ UNCHANGED <<info, wallet, ready, price, page, sending>>
updateNetworkInfo == info' = mode /\ UNCHANGED <<mode, wallet, ready, price, page, sending>>
WalletSwitches(c) == wallet' = c /\ UNCHANGED <<mode, info, ready, price, page, sending>>
backendStatus(up) == ready' = up /\ UNCHANGED <<mode, info, wallet, price, page, sending>>

-----------------------------------------------------------------------------
(* The transaction list: newest first, capped; an update finds its entry   *)
(* by id or does nothing.                                                  *)
saveTransactionToHistory_Uncapped(id) == <<[id |-> id, status |-> "pending"]>> \o history
saveTransactionToHistory(id) ==
    LET grown == <<[id |-> id, status |-> "pending"]>> \o history
    IN  SubSeq(grown, 1, IF Len(grown) > HistoryCap THEN HistoryCap ELSE Len(grown))

updateTransactionStatus(id, status) ==
    [i \in DOMAIN history |->
        IF history[i].id = id THEN [history[i] EXCEPT !.status = status] ELSE history[i]]

(* handleSubmit: its guards, then one step per await.                      *)
handleSubmit ==
    /\ flow = Idle /\ ~created
    /\ form.amount # Empty /\ ready /\ ~Mismatch
    /\ submits < MaxSubmits
    /\ flow' = [at |-> "chain", dir |-> form.dir, net |-> info]
    /\ UNCHANGED <<submits, tx, posted, history, price, page, network>>

checkChain ==
    /\ flow.at = "chain"
    /\ flow' = [flow EXCEPT !.at = IF wallet = flow.net THEN "create" ELSE "switch"]
    /\ UNCHANGED <<submits, tx, posted, history, price, page, network>>

switchEthereumChain(ok) ==
    /\ flow.at = "switch"
    /\ flow' = IF ok THEN [flow EXCEPT !.at = "create"] ELSE Idle
    /\ wallet' = IF ok THEN flow.net ELSE wallet
    /\ UNCHANGED <<mode, info, ready, submits, tx, posted, history, price, page>>

createOrder(ok) ==
    /\ flow.at = "create"
    /\ submits' = IF ok THEN submits + 1 ELSE submits
    /\ flow' = IF ok THEN [flow EXCEPT !.at = "pay"] ELSE Idle
    /\ UNCHANGED <<tx, posted, history, price, page, network>>

(* ETH to XLM: eth_sendTransaction, then the confirmation loop.  Seeing    *)
(* the transaction in a block counts as success; only a receipt found      *)
(* before that is read for its status.                                     *)
sendLock(ok) ==
    /\ flow.at = "pay" /\ flow.dir = "eth_to_xlm"
    /\ flow' = IF ok THEN [flow EXCEPT !.at = "confirm"] ELSE Idle
    /\ tx' = IF ok THEN [tx EXCEPT ![submits] = "sent"] ELSE tx
    /\ UNCHANGED <<submits, posted, history, price, page, network>>

MineLock(id, result) ==
    /\ tx[id] = "sent"
    /\ tx' = [tx EXCEPT ![id] = result]
    /\ UNCHANGED <<flow, submits, posted, history, price, page, network>>

confirmLock(seen) ==
    /\ flow.at = "confirm"
    /\ \/ seen = "in_block" /\ tx[submits] # "sent"
       \/ seen = "receipt" /\ tx[submits] = "ok"
    /\ flow' = [flow EXCEPT !.at = "process"]
    /\ history' = saveTransactionToHistory(submits)
    /\ created' = TRUE
    /\ posted' = posted \cup {submits}
    /\ UNCHANGED <<submits, tx, activeRef, shown, checks, price, network>>

(* A failed receipt, or two minutes without one.                           *)
confirmationFails ==
    /\ flow.at = "confirm"
    /\ tx[submits] # "ok"
    /\ flow' = Idle
    /\ UNCHANGED <<submits, tx, posted, history, price, page, network>>

(* XLM to ETH: the wallet signs, Horizon has accepted when it returns.     *)
payStellar(ok) ==
    /\ flow.at = "pay" /\ flow.dir = "xlm_to_eth"
    /\ IF ok
       THEN /\ flow' = [flow EXCEPT !.at = "process"]
            /\ tx' = [tx EXCEPT ![submits] = "ok"]
            /\ history' = saveTransactionToHistory(submits)
            /\ created' = TRUE
            /\ posted' = posted \cup {submits}
       ELSE /\ flow' = Idle
            /\ UNCHANGED <<tx, history, created, posted>>
    /\ UNCHANGED <<submits, activeRef, shown, checks, price, network>>

(* Any 2xx is shown as completed, a reported refund (XLM to ETH only) as   *)
(* cancelled, everything else, a broken connection included, as failed.    *)
ShownAs(dir, answer) ==
    CASE answer = "2xx" -> "completed"
      [] answer = "refunded" /\ dir = "xlm_to_eth" -> "cancelled"
      [] OTHER -> "failed"

relayerAnswers(answer) ==
    /\ flow.at = "process"
    /\ history' = updateTransactionStatus(submits, ShownAs(flow.dir, answer))
    /\ flow' = Idle
    /\ UNCHANGED <<submits, tx, posted, price, page, network>>

-----------------------------------------------------------------------------
FormInit ==
    /\ form = NoForm /\ estimate = NoForm /\ rates = {}
    /\ mode = "testnet" /\ info = "testnet" /\ wallet \in Nets /\ ready = FALSE
    /\ activeRef = NoOrder /\ shown = NoOrder /\ created = FALSE /\ checks = {}
    /\ flow = Idle /\ submits = 0
    /\ tx = [id \in NewIds |-> "none"]
    /\ posted = {}
    /\ history = <<[id |-> 0, status |-> "pending"]>>  \* a swap of an earlier visit

FormNext ==
    \/ \E a \in FormAmounts \cup {Empty} : setAmount(a)
    \/ handleSwapDirection
    \/ \E r \in rates : updateRateAndCalculate(r)
    \/ \E id \in Saved :
          \/ \E cached \in BOOLEAN : restoreOrder(id, cached)
          \/ \E ok \in BOOLEAN : FreshnessAnswers(id, ok)
    \/ handleRetryFreshness \/ handleReset
    \/ \E n \in Nets : ChangeMode(n) \/ WalletSwitches(n)
    \/ updateNetworkInfo
    \/ \E ok \in BOOLEAN :
          \/ backendStatus(ok) \/ switchEthereumChain(ok) \/ createOrder(ok)
          \/ sendLock(ok) \/ payStellar(ok)
    \/ handleSubmit \/ checkChain \/ confirmationFails
    \/ \E id \in NewIds, result \in {"ok", "reverted"} : MineLock(id, result)
    \/ \E seen \in {"in_block", "receipt"} : confirmLock(seen)
    \/ \E answer \in {"2xx", "refunded", "error"} : relayerAnswers(answer)

FormSpec == FormInit /\ [][FormNext]_formVars

-----------------------------------------------------------------------------
(* The page, the flow and the list have their shapes.                      *)
FormTypeOK ==
    /\ form \in [dir : Dirs, amount : FormAmounts \cup {Empty}]
    /\ shown \in Saved \cup {NoOrder} /\ activeRef \in Saved \cup {NoOrder}
    /\ Len(history) <= HistoryCap
    /\ posted \subseteq NewIds

(* "discard responses for stale renders" (BridgeForm.tsx): once no live    *)
(* price request is left, the estimate on screen was computed for the      *)
(* amount and the direction on screen, however late earlier answers came.  *)
EstimateIsCurrent ==
    (\A r \in rates : ~r.live) /\ estimate # NoForm => estimate = form

(* "Late response guard: ignore response for a different or older order    *)
(* id" (BridgeForm.tsx): no answer, however late, puts an order on screen  *)
(* other than the one asked for last.                                      *)
ShownOrderIsCurrent ==
    [][shown' # shown /\ shown' # NoOrder => shown' = activeRef']_formVars

=============================================================================
