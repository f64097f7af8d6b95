----------------------------- MODULE RefundFlow -----------------------------
(***************************************************************************)
(* Wallets and refunds in the browser: useNetworkMode and useFreighter,    *)
(* which keep copies of what the wallets report, RefundDialog, which polls *)
(* the coordinator and asks it again before it calls the escrow, and the   *)
(* coordinator's refund-eligibility route.                                 *)
(***************************************************************************)
EXTENDS Naturals, FiniteSets

CONSTANTS
    Clicks,     \* handleRefund calls that may run at one time
    SrcExpiry,  \* timelock of the source leg, on Ethereum
    DstExpiry,  \* timelock the destination leg gets, if it is locked at all
    LastSecond, \* bound on the clock
    MaxRefunds  \* bound on refund transactions

VARIABLES
    second,     \* the coordinator's clock, in seconds
    dstLocked,  \* the coordinator has recorded a destination timelock
    appMode,    \* mode of useNetworkMode
    chain,      \* the EVM wallet's chain
    seenChain,  \* metamaskChainId: the copy, refreshed by event and poll
    stellarNet, \* Freighter's network
    signing,    \* a signTransaction call: the network its XDR was built for
    signed,     \* signatures given: [built, passphrase]
    phase,      \* phase of the dialog
    decision,   \* eligibility: what the last answer said
    poll,       \* the 5-second poll's request in flight
    click,      \* handleRefund calls
    refunds     \* refundOrder transactions sent, with the second

walletVars == <<appMode, chain, seenChain, stellarNet, signing, signed>>
dialogVars == <<phase, decision, poll, click, refunds>>
refundVars == <<second, dstLocked, walletVars, dialogVars>>

Networks == {"testnet", "mainnet"}
Unset == 0          \* a null timelock
None == "none"

-----------------------------------------------------------------------------
(* GET /orders/:id/refund-eligibility: both sides, judged by one clock.  A *)
(* side without a timelock counts as locked.                               *)
OrderTimelocks == [ethereum |-> SrcExpiry, stellar |-> IF dstLocked THEN DstExpiry ELSE Unset]

evaluateRefundEligibility_SetSidesOnly(t, s) ==
    \A side \in DOMAIN t : t[side] = Unset \/ s > t[side]
evaluateRefundEligibility(t, s) ==
    \A side \in DOMAIN t : t[side] # Unset /\ s > t[side]

Eligible == evaluateRefundEligibility(OrderTimelocks, second)

(* The destination leg is locked before its own timelock, or never.        *)
lockDestination ==
    /\ ~dstLocked /\ second <= DstExpiry
    /\ dstLocked' = TRUE
    /\ UNCHANGED <<second, walletVars, dialogVars>>

Tick ==
    /\ second < LastSecond
    /\ second' = second + 1
    /\ UNCHANGED <<dstLocked, walletVars, dialogVars>>

-----------------------------------------------------------------------------
(* Wallets.  The user switches networks at any time; the app learns of it  *)
(* from an event or the 4-second poll.  setMode asks the EVM wallet first. *)
SwitchWallet(n) ==
    /\ chain' = n
    /\ UNCHANGED <<second, dstLocked, appMode, seenChain, stellarNet, signing, signed,
                   dialogVars>>

refreshMetamask ==
    /\ seenChain' = chain
    /\ UNCHANGED <<second, dstLocked, appMode, chain, stellarNet, signing, signed,
                   dialogVars>>

setMode(n) ==
    /\ n # appMode
    /\ chain' = n /\ appMode' = n /\ seenChain' = n
    /\ UNCHANGED <<second, dstLocked, stellarNet, signing, signed, dialogVars>>

SwitchFreighter(n) ==
    /\ stellarNet' = n
    /\ UNCHANGED <<second, dstLocked, appMode, chain, seenChain, signing, signed,
                   dialogVars>>

(* signTransaction: the caller passes the passphrase its XDR was built     *)
(* for; Freighter's network is read again before the request is opened,    *)
(* and the request names the expected passphrase.                          *)
callSign ==
    /\ signing = None
    /\ signing' = appMode
    /\ UNCHANGED <<second, dstLocked, appMode, chain, seenChain, stellarNet, signed,
                   dialogVars>>

expectedPassphrase(built) == built

signTransaction ==
    /\ signing # None
    /\ LET expected == expectedPassphrase(signing) IN
       signed' = IF stellarNet = expected
                 THEN signed \cup {[built |-> signing, passphrase |-> expected]}
                 ELSE signed
    /\ signing' = None
    /\ UNCHANGED <<second, dstLocked, appMode, chain, seenChain, stellarNet, dialogVars>>

Mismatch == seenChain # appMode

-----------------------------------------------------------------------------
(* The dialog's poll: an answer sets the phase whatever a click is doing.  *)
pollEligibility ==
    /\ poll = None
    /\ poll' = "sent"
    /\ UNCHANGED <<second, dstLocked, walletVars, phase, decision, click, refunds>>

refreshEligibility(ok) ==
    /\ poll = "sent"
    /\ poll' = None
    /\ decision' = (ok /\ Eligible)
    /\ phase' = IF ~ok THEN "error" ELSE IF Eligible THEN "ready" ELSE "waiting"
    /\ UNCHANGED <<second, dstLocked, walletVars, click, refunds>>

(* handleRefund: the button, the first check, the second check after the   *)
(* wallet client is built or the call simulated, and the transaction.      *)
handleRefund(k) ==
    /\ click[k] = "idle"
    /\ phase \in {"ready", "error"} /\ decision
    /\ ~Mismatch
    /\ click' = [click EXCEPT ![k] = "check"]
    /\ phase' = "checking"
    /\ UNCHANGED <<second, dstLocked, walletVars, decision, poll, refunds>>

Checked(k, at, next) ==
    /\ click[k] = at
    /\ decision' = Eligible
    /\ phase' = IF Eligible THEN "submitting" ELSE "waiting"
    /\ click' = [click EXCEPT ![k] = IF Eligible THEN next ELSE "idle"]
    /\ UNCHANGED <<second, dstLocked, walletVars, poll, refunds>>

firstCheck(k) == Checked(k, "check", "recheck")
latestCheck(k) == Checked(k, "recheck", "send")

(* The wallet client refuses a chain other than its own; the user may      *)
(* decline.  Either way the dialog shows the error.                        *)
refundOrder(k, ok) ==
    /\ click[k] = "send"
    /\ Cardinality(refunds) < MaxRefunds
    /\ ok => chain = appMode
    /\ click' = [click EXCEPT ![k] = "idle"]
    /\ phase' = IF ok THEN "done" ELSE "error"
    /\ refunds' = IF ok THEN refunds \cup {second} ELSE refunds
    /\ UNCHANGED <<second, dstLocked, walletVars, decision, poll>>

requestFails(k) ==
    /\ click[k] \in {"check", "recheck"}
    /\ click' = [click EXCEPT ![k] = "idle"]
    /\ phase' = "error"
    /\ UNCHANGED <<second, dstLocked, walletVars, decision, poll, refunds>>

-----------------------------------------------------------------------------
RefundInit ==
    /\ second = 1 /\ dstLocked = FALSE
    /\ appMode = "testnet" /\ chain = "testnet" /\ seenChain = "testnet"
    /\ stellarNet \in Networks /\ signing = None /\ signed = {}
    /\ phase = "checking" /\ decision = FALSE /\ poll = None
    /\ click = [k \in Clicks |-> "idle"]
    /\ refunds = {}

RefundNext ==
    \/ lockDestination \/ Tick
    \/ \E n \in Networks : SwitchWallet(n) \/ setMode(n) \/ SwitchFreighter(n)
    \/ refreshMetamask \/ callSign \/ signTransaction
    \/ pollEligibility \/ \E ok \in BOOLEAN : refreshEligibility(ok)
    \/ \E k \in Clicks :
          \/ handleRefund(k) \/ firstCheck(k) \/ latestCheck(k) \/ requestFails(k)
          \/ \E ok \in BOOLEAN : refundOrder(k, ok)

RefundSpec == RefundInit /\ [][RefundNext]_refundVars

-----------------------------------------------------------------------------
(* The dialog and the wallet copies have their shapes.                     *)
RefundTypeOK ==
    /\ second \in 1..LastSecond
    /\ {appMode, chain, seenChain, stellarNet} \subseteq Networks
    /\ phase \in {"checking", "waiting", "ready", "submitting", "done", "error"}
    /\ decision \in BOOLEAN
    /\ \A k \in Clicks : click[k] \in {"idle", "check", "recheck", "send"}

(* RefundDialog sends refundOrder only when both legs' timelocks are past, *)
(* although the destination leg may be locked while the dialog is open,    *)
(* polls and clicks overlap, and the answer it acts on is some awaits old. *)
RefundsAreDue ==
    \A s \in refunds : s > SrcExpiry /\ dstLocked /\ s > DstExpiry

(* "re-check Freighter's current network" (useFreighter.ts): a signature   *)
(* is only given under the passphrase its transaction was built for, even  *)
(* when the app's mode or the wallet's network changed in between.         *)
SignedAsBuilt == \A s \in signed : s.built = s.passphrase

=============================================================================
