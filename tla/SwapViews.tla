------------------------------ MODULE SwapViews ------------------------------
(***************************************************************************)
(* What a user is told about a swap, by four readers of the same order:    *)
(* the SDK's state machine and refund simulator, the freshness banner and  *)
(* the HTLC timeline of the transaction list.  Each judges timelocks and   *)
(* statuses for itself while the coordinator's record lags behind the      *)
(* chains.  And the SDK's conversion of amounts between the chains.        *)
(***************************************************************************)
EXTENDS Naturals

CONSTANTS
    SrcLock,     \* timelock of the source leg
    DstLock,     \* timelock of the destination leg, the earlier one
    SoonWindow,  \* REFUND_SOON_WINDOW_MS
    FreshAge,    \* FRESH_THRESHOLD_MS
    PendingAge,  \* PENDING_THRESHOLD_MS
    EndOfTime,   \* bound on the clock
    EthDecimals, StellarDecimals,  \* 18 and 7
    MaxStroops,  \* MAX_STELLAR_STROOPS
    MaxUnits     \* bound on the atomic units a user enters

VARIABLES
    today,      \* wall clock
    status,     \* the coordinator's status of the order
    updatedAt,  \* when the coordinator wrote it
    srcHash, dstHash,  \* lock transactions known to the page
    refundHash, \* a refund transaction is known to the page
    leg,        \* external: the source contract's order
    entered,    \* amount typed, in Ethereum's atomic units
    carried     \* what arrives after the trip over Stellar, or Refused

viewVars == <<today, status, updatedAt, srcHash, dstHash, refundHash, leg,
              entered, carried>>
amounts == <<entered, carried>>
pageVars == <<srcHash, dstHash, refundHash>>

Statuses == {"announced", "src_locked", "dst_locked", "secret_revealed",
             "completed", "refunded", "failed", "expired"}
Refused == MaxUnits + 1

-----------------------------------------------------------------------------
(* The SDK's state machine.                                                *)
TRANSITIONS ==
    [announced |-> {"src_locked", "failed", "expired"},
     src_locked |-> {"dst_locked", "secret_revealed", "refunded", "failed", "expired"},
     dst_locked |-> {"secret_revealed", "refunded", "failed", "expired"},
     secret_revealed |-> {"completed", "refunded", "failed"},
     completed |-> {}, refunded |-> {}, failed |-> {},
     expired |-> {"refunded", "failed"}]

canTransition(from, to) == to \in TRANSITIONS[from]

(* simulateRefundTimeline                                                  *)
simulateRefundTimeline(now) ==
    IF ~srcHash \/ ~dstHash THEN "waiting"
    ELSE IF now > SrcLock /\ now > DstLock THEN "refundable"
    ELSE IF now <= DstLock THEN "claimable" ELSE "waiting"

(* classifyOrderFreshness: terminal orders never get a banner.             *)
classifyOrderFreshness(now) ==
    IF status \in {"completed", "refunded", "failed"} THEN "fresh"
    ELSE IF now >= SrcLock THEN "refund-eligible"
    ELSE IF SrcLock - now <= SoonWindow THEN "refund-soon"
    ELSE IF now - updatedAt < FreshAge THEN "fresh"
    ELSE IF now - updatedAt < PendingAge THEN "pending"
    ELSE "stale"

(* HtlcTimeline: its steps, as [step -> state].                            *)
isFailedStatus == status \in {"failed", "expired"}
isRefundedStatus == status = "refunded" \/ refundHash
hasDstLock == status \in {"completed", "dst_locked", "secret_revealed"} \/ dstHash
isRefundable(now) ==
    (isFailedStatus \/ now > SrcLock) /\ ~isRefundedStatus /\ status # "completed"
showRefundPath(now) == isFailedStatus \/ isRefundedStatus \/ isRefundable(now)

HtlcTimeline(now) ==
    [src_locked |-> IF srcHash THEN "completed" ELSE "pending",
     dst_locked |-> IF hasDstLock THEN "completed"
                    ELSE IF srcHash /\ status # "completed" /\ ~showRefundPath(now) THEN "active"
                    ELSE IF showRefundPath(now) THEN "unavailable"
                    ELSE "pending",
     claimable |-> IF showRefundPath(now) THEN "hidden"
                   ELSE IF status \in {"completed", "secret_revealed"} THEN "completed"
                   ELSE IF hasDstLock THEN "active"
                   ELSE "pending",
     refundable |-> IF ~showRefundPath(now) THEN "hidden"
                    ELSE IF isRefundedStatus THEN "completed"
                    ELSE IF isRefundable(now) THEN "active"
                    ELSE "pending"]

-----------------------------------------------------------------------------
(* The order behind the views: the contract settles by the clock, and the  *)
(* coordinator's status and the page's hashes follow later, or never.      *)
lockSource ==
    /\ leg = "none" /\ today <= SrcLock
    /\ leg' = "locked"
    /\ UNCHANGED <<today, status, updatedAt, pageVars, amounts>>

settleSource(to) ==
    /\ leg = "locked"
    /\ leg' = to
    /\ (to = "claimed") = (today <= SrcLock)
    /\ UNCHANGED <<today, status, updatedAt, pageVars, amounts>>

requireTransition(to) ==
    /\ canTransition(status, to)
    /\ to = "src_locked" => leg # "none"
    /\ to = "completed" => leg = "claimed"
    /\ to = "refunded" => leg = "refunded"
    /\ status' = to /\ updatedAt' = today
    /\ UNCHANGED <<today, pageVars, leg, amounts>>

observeHash ==
    /\ \/ leg # "none" /\ srcHash' = TRUE /\ UNCHANGED <<dstHash, refundHash>>
       \/ srcHash /\ dstHash' = TRUE /\ UNCHANGED <<srcHash, refundHash>>
       \/ leg = "refunded" /\ refundHash' = TRUE /\ UNCHANGED <<srcHash, dstHash>>
    /\ UNCHANGED <<today, status, updatedAt, leg, amounts>>

Second ==
    /\ today < EndOfTime
    /\ today' = today + 1
    /\ UNCHANGED <<status, updatedAt, pageVars, leg, amounts>>

-----------------------------------------------------------------------------
(* convertAtomic: up is exact, down only for whole units; weiToStroops and *)
(* stroopsToWei also refuse what Stellar cannot carry.                     *)
Scale == 10 ^ (EthDecimals - StellarDecimals)

convertDown(amount) == IF amount % Scale = 0 THEN amount \div Scale ELSE Refused

weiToStroops(wei) ==
    LET converted == convertDown(wei)
    IN  IF converted = Refused \/ converted > MaxStroops THEN Refused ELSE converted

stroopsToWei(stroops) == IF stroops > MaxStroops THEN Refused ELSE stroops * Scale

(* An amount crosses the bridge: locked in wei, carried in stroops,        *)
(* released in wei.                                                        *)
carry(wei) ==
    /\ entered' = wei
    /\ carried' = IF weiToStroops(wei) = Refused THEN Refused
                  ELSE stroopsToWei(weiToStroops(wei))
    /\ UNCHANGED <<today, status, updatedAt, pageVars, leg>>

ViewInit ==
    /\ today = 0 /\ status = "announced" /\ updatedAt = 0
    /\ srcHash = FALSE /\ dstHash = FALSE /\ refundHash = FALSE
    /\ leg = "none"
    /\ entered = 0 /\ carried = 0

ViewNext ==
    \/ lockSource \/ \E to \in {"claimed", "refunded"} : settleSource(to)
    \/ \E to \in Statuses : requireTransition(to)
    \/ observeHash \/ Second
    \/ \E wei \in 0..MaxUnits : carry(wei)

ViewSpec == ViewInit /\ [][ViewNext]_viewVars

-----------------------------------------------------------------------------
(* Status, clock and amounts have their shapes.                            *)
ViewTypeOK ==
    /\ status \in Statuses /\ today \in 0..EndOfTime /\ updatedAt <= today
    /\ leg \in {"none", "locked", "claimed", "refunded"}
    /\ entered \in 0..MaxUnits /\ carried \in 0..Refused

(* The readers never pull a user two ways: while the simulator calls the   *)
(* swap claimable, neither the banner nor the timeline offers a refund,    *)
(* unless the coordinator gave the order up or recorded a refund; and when *)
(* the simulator or the timeline (by the clock) offers one for an order    *)
(* that is still locked, the contract would grant it.                      *)
OffersDoNotConflict ==
    /\ simulateRefundTimeline(today) = "claimable" /\ ~isFailedStatus =>
          /\ classifyOrderFreshness(today) # "refund-eligible"
          /\ HtlcTimeline(today).refundable # "active"
    /\ leg = "locked" /\ ~isFailedStatus
       /\ (simulateRefundTimeline(today) = "refundable"
           \/ HtlcTimeline(today).refundable = "active") => today > SrcLock

(* "what is locked on one chain is exactly what is released on the other"  *)
(* (amounts/index.ts): an amount is refused, or arrives to the last unit.  *)
NothingLostInConversion == carried = Refused \/ carried = entered

=============================================================================
