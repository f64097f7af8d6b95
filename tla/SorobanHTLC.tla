---------------------------- MODULE SorobanHTLC -----------------------------
(***************************************************************************)
(* The Stellar escrow, soroban/contracts/htlc/src/lib.rs.                  *)
(*                                                                         *)
(* It differs from HTLCEscrow in what a test on one chain would not show:  *)
(* the hashlock binds the order id, the safety deposit is locked in the    *)
(* order's own asset, claim_order ignores the registry, and an admin, set  *)
(* by whoever calls initialize first, can move the registry, the minimum   *)
(* deposit and the admin role at any time.                                 *)
(*                                                                         *)
(* An invocation is one atomic step; a panic is a conjunct that is false.  *)
(* A transfer to a holder without a trustline for the asset panics.        *)
(***************************************************************************)
EXTENDS Integers, FiniteSets, Ledger

CONSTANTS
    Accounts,        \* addresses that can authorise a call
    Contract,        \* env.current_contract_address()
    NoAddress,       \* an instance-storage entry that is absent
    Assets,          \* Stellar asset contracts
    EmptyBytes,      \* Bytes::new
    Preimages,       \* byte strings a caller may pass to claim_order
    Hashlocks,       \* digests a creator may lock an order with
    Sha256(_),       \* the digest of a byte string
    Bind(_, _),      \* uint256 big-endian order id || preimage
    Registry,        \* the resolver registry's address
    NoTrustline,     \* {<<holder, asset>>} that cannot receive the asset
    Payees,          \* addresses tried for beneficiary and refund_address
    Amounts,         \* values tried for amount
    Deposits,        \* values tried for safety_deposit and its minimum
    Durations,       \* values tried for timelock_seconds
    MIN_TIMELOCK_SECONDS,
    MAX_TIMELOCK_SECONDS,
    InitialBalance,  \* what each account owns of each asset at the start
    MaxOrders,       \* bound on the number of orders created
    MaxTime          \* bound on the ledger timestamp

Holders == Accounts \cup {Contract}
OrderIds == 1..MaxOrders

ASSUME SorobanAssumption ==
    /\ Contract \notin Accounts
    /\ NoAddress \notin Holders
    /\ Registry # NoAddress
    /\ Payees \subseteq Holders
    /\ Amounts \subseteq Int
    /\ Deposits \subseteq Int
    /\ Durations \subseteq Nat
    /\ MIN_TIMELOCK_SECONDS \in Nat \ {0} /\ MAX_TIMELOCK_SECONDS \in Nat
    /\ InitialBalance \in [Accounts -> [Assets -> Nat]]
    /\ MaxOrders \in Nat /\ MaxTime \in Nat

\* The bytes of two orders never have the same digest: the id is a prefix of
\* fixed length and sha256 is taken to be free of collisions.
ASSUME DigestAssumption ==
    \A i, j \in OrderIds, p, q \in Preimages :
        i # j => Sha256(Bind(i, p)) # Sha256(Bind(j, q))

VARIABLES
    now,                 \* env.ledger().timestamp()
    active,              \* accounts for which the registry's is_active is TRUE
    admin,               \* DataKey::Admin; NoAddress before initialize
    resolver_registry,   \* DataKey::ResolverRegistry
    min_safety_deposit,  \* DataKey::MinSafetyDeposit
    next_order_id,       \* DataKey::NextOrderId
    orders,              \* DataKey::Order(id); NoOrder when absent
    balance              \* [holder -> [asset -> amount owned]]

config == <<admin, resolver_registry, min_safety_deposit>>
vars == <<now, active, config, next_order_id, orders, balance>>

NoOrder == [status |-> "absent"]

OrderRecord ==
    [sender : Accounts, beneficiary : Holders, refund_address : Holders,
     asset : Assets, amount : Nat, safety_deposit : Nat, hashlock : Hashlocks,
     timelock : Nat, finalised_at : Nat,
     preimage : Preimages \cup {EmptyBytes},
     status : {"Funded", "Claimed", "Refunded"}]

TypeOK ==
    /\ now \in 0..MaxTime
    /\ active \subseteq Accounts
    /\ admin \in Accounts \cup {NoAddress}
    /\ resolver_registry \in {NoAddress, Registry}
    /\ min_safety_deposit \in Nat
    /\ next_order_id \in 1..(MaxOrders + 1)
    /\ orders \in [OrderIds -> OrderRecord \cup {NoOrder}]
    /\ balance \in [Holders -> [Assets -> Nat]]

Init ==
    /\ now = 0
    /\ active \in SUBSET Accounts
    /\ admin = NoAddress
    /\ resolver_registry = NoAddress
    /\ min_safety_deposit = 0
    /\ next_order_id = 1
    /\ orders = [id \in OrderIds |-> NoOrder]
    /\ balance = [h \in Holders |->
                    IF h = Contract THEN [a \in Assets |-> 0] ELSE InitialBalance[h]]

-----------------------------------------------------------------------------
(* Instance storage: initialize and the admin's setters.                   *)

IsInitialised == admin # NoAddress

initialize(newAdmin, minimum) ==
    /\ ~IsInitialised
    /\ minimum >= 0
    /\ admin' = newAdmin
    /\ next_order_id' = 1
    /\ min_safety_deposit' = minimum
    /\ UNCHANGED <<now, active, resolver_registry, orders, balance>>

\* The setters run under the stored admin's authorisation.
set_resolver_registry ==
    /\ IsInitialised
    /\ resolver_registry' = Registry
    /\ UNCHANGED <<now, active, admin, min_safety_deposit, next_order_id, orders, balance>>

clear_resolver_registry ==
    /\ IsInitialised
    /\ resolver_registry' = NoAddress
    /\ UNCHANGED <<now, active, admin, min_safety_deposit, next_order_id, orders, balance>>

set_min_safety_deposit(minimum) ==
    /\ IsInitialised
    /\ minimum >= 0
    /\ min_safety_deposit' = minimum
    /\ UNCHANGED <<now, active, admin, resolver_registry, next_order_id, orders, balance>>

set_admin(newAdmin) ==
    /\ IsInitialised
    /\ admin' = newAdmin
    /\ UNCHANGED <<now, active, resolver_registry, min_safety_deposit,
                   next_order_id, orders, balance>>

-----------------------------------------------------------------------------
(* Core operations.                                                        *)

IsOpen_StatusIgnored(order) == order.status # "absent"
IsOpen(order) == order.status = "Funded"

Expired_AtTimelock(order) == now >= order.timelock
Expired(order) == now > order.timelock

\* The bytes that claim_order hashes.
HashInput_Unbound(order_id, preimage) == preimage
HashInput(order_id, preimage) == Bind(order_id, preimage)

CanPay(asset, to) == <<to, asset>> \notin NoTrustline

\* Both payouts are in the order's asset; the deposit only when positive.
PayoutSucceeds_OnlyToCaller(order, payee, caller) ==
    payee = caller /\ CanPay(order.asset, payee)
PayoutSucceeds(order, payee, caller) ==
    /\ CanPay(order.asset, payee)
    /\ order.safety_deposit > 0 => CanPay(order.asset, caller)

AfterPayout_DepositTwice(order, payee, caller) ==
    Transfer(Transfer(balance, Contract, payee, order.asset,
                      order.amount + order.safety_deposit),
             Contract, caller, order.asset, order.safety_deposit)
AfterPayout_AmountToCaller(order, payee, caller) ==
    Transfer(balance, Contract, caller, order.asset, order.amount + order.safety_deposit)
AfterPayout(order, payee, caller) ==
    Transfer(Transfer(balance, Contract, payee, order.asset, order.amount),
             Contract, caller, order.asset, order.safety_deposit)

create_order(sender, beneficiary, refund_address, asset, amount, safety_deposit, hashlock, timelock_seconds) ==
    /\ IsInitialised
    /\ amount > 0
    /\ safety_deposit >= 0
    /\ timelock_seconds \in MIN_TIMELOCK_SECONDS..MAX_TIMELOCK_SECONDS
    /\ safety_deposit >= min_safety_deposit
    /\ resolver_registry # NoAddress => sender \in active
    /\ balance[sender][asset] >= amount + safety_deposit
    /\ next_order_id <= MaxOrders            \* bound
    /\ now + timelock_seconds < MaxTime      \* bound: time reaches every expiry
    /\ next_order_id' = next_order_id + 1
    /\ balance' = Transfer(balance, sender, Contract, asset, amount + safety_deposit)
    /\ orders' = [orders EXCEPT ![next_order_id] =
                    [sender |-> sender, beneficiary |-> beneficiary,
                     refund_address |-> refund_address, asset |-> asset,
                     amount |-> amount, safety_deposit |-> safety_deposit,
                     hashlock |-> hashlock, timelock |-> now + timelock_seconds,
                     finalised_at |-> 0, preimage |-> EmptyBytes,
                     status |-> "Funded"]]
    /\ UNCHANGED <<now, active, config>>

claim_order(order_id, preimage, caller) ==
    LET order == orders[order_id] IN
    /\ IsInitialised
    /\ IsOpen(order)
    /\ ~Expired(order)
    /\ preimage # EmptyBytes
    /\ Sha256(HashInput(order_id, preimage)) = order.hashlock
    /\ PayoutSucceeds(order, order.beneficiary, caller)
    /\ balance' = AfterPayout(order, order.beneficiary, caller)
    /\ orders' = [orders EXCEPT ![order_id] =
                    [@ EXCEPT !.status = "Claimed", !.preimage = preimage,
                              !.finalised_at = now]]
    /\ UNCHANGED <<now, active, config, next_order_id>>

refund_order(order_id, caller) ==
    LET order == orders[order_id] IN
    /\ IsInitialised
    /\ IsOpen(order)
    /\ Expired(order)
    /\ PayoutSucceeds(order, order.refund_address, caller)
    /\ balance' = AfterPayout(order, order.refund_address, caller)
    /\ orders' = [orders EXCEPT ![order_id] =
                    [@ EXCEPT !.status = "Refunded", !.finalised_at = now]]
    /\ UNCHANGED <<now, active, config, next_order_id>>

-----------------------------------------------------------------------------
(* The environment and the specification.                                  *)

AdvanceTime ==
    /\ now < MaxTime
    /\ now' = now + 1
    /\ UNCHANGED <<active, config, next_order_id, orders, balance>>

\* The registry contract starts or stops answering TRUE for one account.
RegistryChanges ==
    /\ \E a \in Accounts :
         active' = IF a \in active THEN active \ {a} ELSE active \cup {a}
    /\ UNCHANGED <<now, config, next_order_id, orders, balance>>

Configure ==
    \/ \E a \in Accounts, d \in Deposits : initialize(a, d)
    \/ set_resolver_registry
    \/ clear_resolver_registry
    \/ \E d \in Deposits : set_min_safety_deposit(d)
    \/ \E a \in Accounts : set_admin(a)

Create ==
    \E sender \in Accounts, beneficiary, refund_address \in Payees,
       asset \in Assets, amount \in Amounts, safety_deposit \in Deposits,
       hashlock \in Hashlocks, timelock_seconds \in Durations :
        create_order(sender, beneficiary, refund_address, asset, amount,
                     safety_deposit, hashlock, timelock_seconds)

Claim ==
    \E order_id \in OrderIds, preimage \in Preimages \cup {EmptyBytes}, caller \in Accounts :
        claim_order(order_id, preimage, caller)

Refund == \E order_id \in OrderIds, caller \in Accounts : refund_order(order_id, caller)

Next == Configure \/ Create \/ Claim \/ Refund \/ AdvanceTime \/ RegistryChanges

Spec == Init /\ [][Next]_vars

\* Ledgers keep closing, and somebody keeps trying the permissionless refund
\* of each expired order.
FairSpec ==
    /\ Spec
    /\ WF_vars(AdvanceTime)
    /\ \A id \in OrderIds : WF_vars(\E caller \in Accounts : refund_order(id, caller))

-----------------------------------------------------------------------------
(* Properties.                                                             *)

Exists(id) == orders[id].status # "absent"

Owed(id, asset) ==
    IF orders[id].status = "Funded"
    THEN IF orders[id].asset = asset
         THEN orders[id].amount + orders[id].safety_deposit ELSE 0
    ELSE 0

TotalOwed(asset) == SumTo([id \in OrderIds |-> Owed(id, asset)], MaxOrders)

\* create_order, claim_order and refund_order keep the contract solvent in
\* every asset, whatever the admin does to its configuration.  It holds more
\* than it owes only after an order that names the contract as payee.
Solvent == \A a \in Assets : balance[Contract][a] >= TotalOwed(a)

\* The id in the hashed bytes makes a secret good for one order: of several
\* orders locked with the same hashlock at most one is ever claimed.
OneClaimPerHashlock ==
    \A i, j \in OrderIds :
        /\ orders[i].status = "Claimed" /\ orders[j].status = "Claimed"
        /\ i # j
        => orders[i].hashlock # orders[j].hashlock

\* No funds are stuck: an order whose refund address can receive the asset is
\* settled in the end, whatever the admin and the registry do.
FundedOrdersSettle ==
    \A id \in OrderIds :
        (orders[id].status = "Funded" /\ CanPay(orders[id].asset, orders[id].refund_address))
            ~> orders[id].status # "Funded"

HT == INSTANCE HashTimelock WITH
        Locks <- OrderIds, clock <- now,
        lock <- [id \in OrderIds |->
                    IF ~Exists(id) THEN [state |-> "none", deadline |-> 0]
                    ELSE [state |-> CASE orders[id].status = "Funded" -> "open"
                                      [] orders[id].status = "Claimed" -> "claimed"
                                      [] OTHER -> "refunded",
                          deadline |-> orders[id].timelock]]

\* create_order, claim_order and refund_order implement the abstract
\* hash-timelock, also when initialize resets next_order_id and the admin
\* reconfigures: no order is written twice, reopened or settled on the wrong
\* side of its timelock.
ImplementsHashTimelock == HT!HTSpec
=============================================================================
