----------------------------- MODULE HTLCEscrow -----------------------------
(***************************************************************************)
(* The Ethereum escrow, contracts/contracts/v2/HTLCEscrow.sol.             *)
(*                                                                         *)
(* One action per external function.  A transaction is one atomic step:    *)
(* every function is nonReentrant, so a callee that is paid in the middle  *)
(* of a transaction cannot re-enter the contract, and a revert leaves no   *)
(* trace.  A revert is therefore a conjunct that is false, and only the    *)
(* calls that succeed are steps.                                           *)
(*                                                                         *)
(* The registry is seen through its isActive view only: `active' is the    *)
(* set of accounts for which it answers TRUE, and it may change between    *)
(* any two transactions.                                                   *)
(*                                                                         *)
(* A definition D_Slip is D with a plausible slip of the code in it; the   *)
(* properties at the end each notice at least one of them.                 *)
(***************************************************************************)
EXTENDS Integers, FiniteSets, Ledger

CONSTANTS
    Accounts,        \* externally owned accounts and contracts
    ZeroAddress,     \* address(0), not an account
    Escrow,          \* address(this)
    Native,          \* the asset ETH: token == address(0)
    Tokens,          \* ERC-20 assets
    Preimages,       \* byte strings a caller may pass to claimOrder
    NoPreimage,      \* preimageKeccak of an order nobody has claimed
    Hashlocks,       \* digests a creator may lock an order with
    ZeroHash,        \* bytes32(0)
    Sha256(_),       \* the digest of a byte string
    Payees,          \* addresses tried for `beneficiary' and `refundAddress'
    Amounts,         \* values tried for `amount'
    Deposits,        \* values tried for `safetyDeposit'
    Durations,       \* values tried for `timelockSeconds'
    MIN_TIMELOCK,
    MAX_TIMELOCK,
    minSafetyDeposit,
    RegistrySet,     \* resolverRegistry # address(0)
    RejectsNative,   \* accounts whose receive() reverts
    InitialBalance,  \* what each account owns of each asset at the start
    MaxOrders,       \* bound on the number of orders created
    MaxTime          \* bound on block.timestamp

Assets == {Native} \cup Tokens
Holders == Accounts \cup {Escrow}
OrderIds == 1..MaxOrders

ASSUME EscrowAssumption ==
    /\ Escrow \notin Accounts
    /\ ZeroAddress \notin Holders
    /\ Native \notin Tokens
    /\ ZeroHash \notin Hashlocks
    /\ NoPreimage \notin Preimages
    /\ Payees \subseteq Holders \cup {ZeroAddress}
    /\ Amounts \subseteq Nat
    /\ Deposits \subseteq Nat
    /\ Durations \subseteq Nat
    /\ MIN_TIMELOCK \in Nat /\ MAX_TIMELOCK \in Nat
    /\ minSafetyDeposit \in Nat
    /\ RegistrySet \in BOOLEAN
    /\ RejectsNative \subseteq Accounts
    /\ InitialBalance \in [Accounts -> [Assets -> Nat]]
    /\ MaxOrders \in Nat /\ MaxTime \in Nat

VARIABLES
    now,             \* block.timestamp
    active,          \* {a : resolverRegistry.isActive(a)}
    nextOrderId,
    orders,         \* the mapping; an unset entry has amount = 0
    balance          \* [holder -> [asset -> amount owned]]

vars == <<now, active, nextOrderId, orders, balance>>

OrderStatus == {"Funded", "Claimed", "Refunded"}

Order == [sender : Accounts \cup {ZeroAddress},
          beneficiary : Holders \cup {ZeroAddress},
          refundAddress : Holders \cup {ZeroAddress},
          token : Assets,
          amount : Nat,
          safetyDeposit : Nat,
          hashlock : Hashlocks \cup {ZeroHash},
          timelock : Nat,
          finalisedAt : Nat,
          preimageKeccak : Preimages \cup {NoPreimage},
          status : OrderStatus]

\* A mapping entry nobody has written: all fields zero, so its status reads
\* Funded and only `amount' tells it from an order.
UnsetOrder == [sender |-> ZeroAddress, beneficiary |-> ZeroAddress,
               refundAddress |-> ZeroAddress, token |-> Native,
               amount |-> 0, safetyDeposit |-> 0, hashlock |-> ZeroHash,
               timelock |-> 0, finalisedAt |-> 0,
               preimageKeccak |-> NoPreimage, status |-> "Funded"]

TypeOK ==
    /\ now \in 0..MaxTime
    /\ active \subseteq Accounts
    /\ nextOrderId \in 1..(MaxOrders + 1)
    /\ orders \in [OrderIds -> Order]
    /\ balance \in [Holders -> [Assets -> Nat]]

Init ==
    /\ now = 0
    /\ active \in SUBSET Accounts
    /\ nextOrderId = 1
    /\ orders = [id \in OrderIds |-> UnsetOrder]
    /\ balance = [h \in Holders |->
                    IF h = Escrow THEN [a \in Assets |-> 0] ELSE InitialBalance[h]]

-----------------------------------------------------------------------------
(* Conditions and payouts.                                                 *)

\* resolverRegistry.isActive, consulted only when a registry is configured.
IsAuthorised(caller) == RegistrySet => caller \in active

\* Existence is read off `amount', because an unset entry has status Funded.
IsOpen_StatusIgnored(order) == order.amount # 0
IsOpen(order) == order.amount # 0 /\ order.status = "Funded"

Expired_AtTimelock(order) == now >= order.timelock
Expired(order) == now > order.timelock

\* _payout succeeds: a native transfer fails when the payee's code reverts,
\* and the escrow's own receive() always does.
CanPay(asset, to) == asset = Native => to \notin RejectsNative \cup {Escrow}

\* The two payouts that finalise an order: the amount to `payee', the safety
\* deposit, always in ETH and only when positive, to the caller.
PayoutSucceeds_DepositToBeneficiary(order, payee, caller) ==
    /\ CanPay(order.token, payee)
    /\ order.safetyDeposit > 0 => CanPay(Native, order.beneficiary)

PayoutSucceeds(order, payee, caller) ==
    /\ CanPay(order.token, payee)
    /\ order.safetyDeposit > 0 => CanPay(Native, caller)

AfterPayout_DepositInToken(order, payee, caller) ==
    Transfer(Transfer(balance, Escrow, payee, order.token, order.amount),
             Escrow, caller, order.token, order.safetyDeposit)
AfterPayout_DepositKept(order, payee, caller) ==
    Transfer(balance, Escrow, payee, order.token, order.amount)
AfterPayout_AmountToCaller(order, payee, caller) ==
    Transfer(Transfer(balance, Escrow, caller, order.token, order.amount),
             Escrow, caller, Native, order.safetyDeposit)

AfterPayout(order, payee, caller) ==
    Transfer(Transfer(balance, Escrow, payee, order.token, order.amount),
             Escrow, caller, Native, order.safetyDeposit)

-----------------------------------------------------------------------------
(* The external functions.                                                 *)

createOrder(sender, beneficiary, refundAddress, token, amount, safetyDeposit, hashlock, timelockSeconds) ==
    /\ amount # 0
    /\ beneficiary # ZeroAddress /\ refundAddress # ZeroAddress
    /\ hashlock # ZeroHash
    /\ timelockSeconds \in MIN_TIMELOCK..MAX_TIMELOCK
    /\ safetyDeposit >= minSafetyDeposit
    /\ IsAuthorised(sender)
    /\ balance[sender][Native] >= safetyDeposit
                                  + (IF token = Native THEN amount ELSE 0)
    /\ balance[sender][token] >= amount
    /\ nextOrderId <= MaxOrders             \* bound
    /\ now + timelockSeconds < MaxTime      \* bound: time reaches every expiry
    /\ balance' = Transfer(Transfer(balance, sender, Escrow, token, amount),
                           sender, Escrow, Native, safetyDeposit)
    /\ nextOrderId' = nextOrderId + 1
    /\ orders' = [orders EXCEPT ![nextOrderId] =
                     [sender |-> sender, beneficiary |-> beneficiary,
                      refundAddress |-> refundAddress, token |-> token,
                      amount |-> amount, safetyDeposit |-> safetyDeposit,
                      hashlock |-> hashlock,
                      timelock |-> now + timelockSeconds,
                      finalisedAt |-> 0, preimageKeccak |-> NoPreimage,
                      status |-> "Funded"]]
    /\ UNCHANGED <<now, active>>

claimOrder(caller, orderId, preimage) ==
    LET order == orders[orderId] IN
    /\ IsOpen(order)
    /\ ~Expired(order)
    /\ IsAuthorised(caller)
    /\ Sha256(preimage) = order.hashlock
    /\ PayoutSucceeds(order, order.beneficiary, caller)
    /\ orders' = [orders EXCEPT ![orderId].status = "Claimed",
                                 ![orderId].finalisedAt = now,
                                 ![orderId].preimageKeccak = preimage]
    /\ balance' = AfterPayout(order, order.beneficiary, caller)
    /\ UNCHANGED <<now, active, nextOrderId>>

refundOrder(caller, orderId) ==
    LET order == orders[orderId] IN
    /\ IsOpen(order)
    /\ Expired(order)
    /\ PayoutSucceeds(order, order.refundAddress, caller)
    /\ orders' = [orders EXCEPT ![orderId].status = "Refunded",
                                 ![orderId].finalisedAt = now]
    /\ balance' = AfterPayout(order, order.refundAddress, caller)
    /\ UNCHANGED <<now, active, nextOrderId>>

-----------------------------------------------------------------------------
(* The environment.                                                        *)

\* A later block: timestamps only grow.
AdvanceTime ==
    /\ now < MaxTime
    /\ now' = now + 1
    /\ UNCHANGED <<active, nextOrderId, orders, balance>>

\* The registry starts or stops answering TRUE for one account.
RegistryChanges ==
    /\ RegistrySet
    /\ \E a \in Accounts :
         active' = IF a \in active THEN active \ {a} ELSE active \cup {a}
    /\ UNCHANGED <<now, nextOrderId, orders, balance>>

Create ==
    \E sender \in Accounts, beneficiary, refundAddress \in Payees,
       token \in Assets, amount \in Amounts, safetyDeposit \in Deposits,
       hashlock \in Hashlocks \cup {ZeroHash}, timelockSeconds \in Durations :
        createOrder(sender, beneficiary, refundAddress, token, amount,
                    safetyDeposit, hashlock, timelockSeconds)

Claim ==
    \E caller \in Accounts, orderId \in OrderIds, preimage \in Preimages :
        claimOrder(caller, orderId, preimage)

Refund ==
    \E caller \in Accounts, orderId \in OrderIds : refundOrder(caller, orderId)

Next == Create \/ Claim \/ Refund \/ AdvanceTime \/ RegistryChanges

Spec == Init /\ [][Next]_vars

\* Blocks keep coming, and for each expired order somebody keeps trying the
\* permissionless refund (the relayer's refund watchdog, or anyone after the
\* safety deposit).
FairSpec ==
    /\ Spec
    /\ WF_vars(AdvanceTime)
    /\ \A id \in OrderIds : WF_vars(\E caller \in Accounts : refundOrder(caller, id))
-----------------------------------------------------------------------------
(* Properties.                                                             *)

Exists(id) == orders[id].amount # 0
IsFunded(id) == Exists(id) /\ orders[id].status = "Funded"

\* What the escrow still has to pay out of `asset' for one order.
Owed(id, asset) ==
    IF IsFunded(id)
    THEN   (IF orders[id].token = asset THEN orders[id].amount ELSE 0)
         + (IF asset = Native THEN orders[id].safetyDeposit ELSE 0)
    ELSE 0

TotalOwed(asset) == SumTo([id \in OrderIds |-> Owed(id, asset)], MaxOrders)

\* createOrder, claimOrder and refundOrder keep the escrow solvent: in every
\* asset it holds what its funded orders are owed, so no payout can fail for
\* lack of funds.  In ETH it holds no more than that; a token order whose
\* payee is the escrow itself leaves tokens behind that nobody can move.
Solvent ==
    /\ \A a \in Assets : balance[Escrow][a] >= TotalOwed(a)
    /\ balance[Escrow][Native] = TotalOwed(Native)

\* The timelock splits every order's life in two, with the boundary on the
\* claim side: a claim happened no later than the timelock, a refund after
\* it, and a claim left a preimage of the hashlock on chain.
SettlementWindow ==
    \A id \in OrderIds :
        LET o == orders[id] IN
        /\ o.status = "Claimed" => /\ o.finalisedAt <= o.timelock
                                   /\ o.preimageKeccak \in Preimages
                                   /\ Sha256(o.preimageKeccak) = o.hashlock
        /\ o.status = "Refunded" => /\ o.finalisedAt > o.timelock
                                    /\ o.preimageKeccak = NoPreimage

\* What one account has put into orders, and got back from settled ones, of
\* an asset; caller rewards are not counted.
PutIn(h, asset) ==
    SumTo([id \in OrderIds |->
        IF orders[id].sender # h THEN 0 ELSE
          (IF orders[id].token = asset THEN orders[id].amount ELSE 0)
        + (IF asset = Native THEN orders[id].safetyDeposit ELSE 0)], MaxOrders)

GotBack(h, asset) ==
    SumTo([id \in OrderIds |->
        IF /\ orders[id].token = asset
           /\ \/ orders[id].status = "Claimed" /\ orders[id].beneficiary = h
              \/ orders[id].status = "Refunded" /\ orders[id].refundAddress = h
        THEN orders[id].amount ELSE 0], MaxOrders)

\* Non-custody: an account only ever spends what it locked itself, and gets
\* every amount claimed for it or refunded to it in full.  In ETH it may own
\* more, the safety deposits of the orders it finalised.
NobodyLosesFunds ==
    \A h \in Accounts, a \in Assets :
        LET due == InitialBalance[h][a] - PutIn(h, a) + GotBack(h, a)
        IN  IF a = Native THEN balance[h][a] >= due ELSE balance[h][a] = due

\* The fields createOrder fixes for good.
Terms == {"sender", "beneficiary", "refundAddress", "token", "amount",
          "safetyDeposit", "hashlock", "timelock"}

OrdersKept ==
    \A id \in OrderIds :
        Exists(id) =>
          /\ \A f \in Terms : orders'[id][f] = orders[id][f]
          /\ orders[id].status # "Funded" => orders'[id] = orders[id]

\* A created order is never rewritten: claimOrder and refundOrder only move
\* it out of Funded, once, and createOrder never reuses an id.
OrdersAreFinal == [][OrdersKept]_vars

\* No funds are stuck: an order whose refund address accepts the asset is
\* settled in the end, whatever the registry does to its parties.
FundedOrdersSettle ==
    \A id \in OrderIds :
        (IsFunded(id) /\ CanPay(orders[id].token, orders[id].refundAddress))
            ~> ~IsFunded(id)

\* The contract's header, lines 36-39: binding the order id into the hashlock
\* "prevents a preimage from being replayed against a different order".
PreimageOpensOneOrder ==
    \A i, j \in OrderIds :
        /\ orders[i].status = "Claimed" /\ orders[j].status = "Claimed"
        /\ i # j
        => orders[i].preimageKeccak # orders[j].preimageKeccak
=============================================================================
