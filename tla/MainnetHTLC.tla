---------------------------- MODULE MainnetHTLC ----------------------------
(***************************************************************************)
(* The legacy Ethereum contract, contracts/contracts/MainnetHTLC.sol.  Its *)
(* rules are meant to be those of the v2 escrow, but it ignores the return *)
(* value of ERC-20 calls and accepts plain ETH.  One action per external   *)
(* function; a revert is a false guard, and nonReentrant makes a           *)
(* transaction one step.  A caller is not modelled where nothing depends   *)
(* on it: settlement is permissionless and pays fixed addresses.           *)
(***************************************************************************)
EXTENDS Naturals, FiniteSets

CONSTANTS
    Ether,         \* token == address(0)
    StrictTokens,  \* ERC-20s that revert when a transfer fails
    LaxTokens,     \* ERC-20s that return false instead
    Creators,      \* callers of createOrder
    Keys,          \* preimages; an order is locked with the hash of one
    MinTimelock, MaxTimelock,
    MaxLegacy,     \* bound on orders
    LegacyEnd      \* bound on block.timestamp

VARIABLES
    swaps,     \* orders, by nextOrderId; unset entries have no sender
    nextId,    \* nextOrderId
    vault,     \* what the contract holds of each asset
    listed,    \* creators for which resolverRegistry.isActive answers TRUE
    blockTime

legacyVars == <<swaps, nextId, vault, listed, blockTime>>

LegacyIds == 1..MaxLegacy
LegacyAssets == {Ether} \cup StrictTokens \cup LaxTokens
NoSwap == [set |-> FALSE, token |-> Ether, hashLock |-> "zero", timelock |-> 0,
           status |-> "Created", refusing |-> {}]

-----------------------------------------------------------------------------
createOrder(sender, token, amount, hashLock, timelock, refusing, paid) ==
    /\ amount > 0 /\ hashLock # "zero"
    /\ timelock >= blockTime + MinTimelock
    /\ timelock <= blockTime + MaxTimelock
    /\ sender \in listed
    /\ nextId <= MaxLegacy
    \* msg.value must match; a strict transferFrom reverts, a lax one does not
    /\ paid \/ token \in LaxTokens
    /\ vault' = IF paid THEN [vault EXCEPT ![token] = @ + amount] ELSE vault
    /\ swaps' = [swaps EXCEPT ![nextId] =
                    [set |-> TRUE, token |-> token, hashLock |-> hashLock,
                     timelock |-> timelock, status |-> "Created", refusing |-> refusing]]
    /\ nextId' = nextId + 1
    /\ UNCHANGED <<listed, blockTime>>

\* A claim pays the beneficiary and a refund the refund address.  A transfer
\* of ETH reverts when the payee refuses it (`refusing' holds the outcomes
\* whose payee does) or the vault is short; a strict token reverts when the
\* vault is short, a lax one just says so.
Paid(order, to) ==
    \/ order.token \in LaxTokens
    \/ vault[order.token] >= 1 /\ (order.token = Ether => to \notin order.refusing)
AfterPaid(order) ==
    IF vault[order.token] >= 1 THEN [vault EXCEPT ![order.token] = @ - 1] ELSE vault

Expired_AtTimelock(order) == blockTime >= order.timelock
Expired(order) == blockTime > order.timelock

Settle(id, to) ==
    LET order == swaps[id] IN
    /\ order.set /\ order.status = "Created"
    /\ Paid(order, to)
    /\ vault' = AfterPaid(order)
    /\ swaps' = [swaps EXCEPT ![id].status = to]
    /\ UNCHANGED <<nextId, listed, blockTime>>

claimOrder(id, preimage) ==
    /\ ~Expired(swaps[id])
    /\ preimage = swaps[id].hashLock
    /\ Settle(id, "Claimed")

refundOrder(id) == Expired(swaps[id]) /\ Settle(id, "Refunded")

\* receive() accepts ETH from anybody.
receiveEther ==
    /\ vault[Ether] < MaxLegacy + 1
    /\ vault' = [vault EXCEPT ![Ether] = @ + 1]
    /\ UNCHANGED <<swaps, nextId, listed, blockTime>>

RegistryListChanges ==
    /\ listed' \in SUBSET Creators /\ listed' # listed
    /\ UNCHANGED <<swaps, nextId, vault, blockTime>>

NextBlock ==
    /\ blockTime < LegacyEnd
    /\ blockTime' = blockTime + 1
    /\ UNCHANGED <<swaps, nextId, vault, listed>>

LegacyInit ==
    /\ swaps = [id \in LegacyIds |-> NoSwap]
    /\ nextId = 1
    /\ vault = [a \in LegacyAssets |-> 0]
    /\ listed = Creators
    /\ blockTime = 0

LegacyNext ==
    \/ \E sender \in Creators, token \in LegacyAssets, amount \in {0, 1},
          hashLock \in Keys \cup {"zero"}, timelock \in 0..LegacyEnd :
       \E refusing \in IF token = Ether THEN SUBSET {"Claimed", "Refunded"} ELSE {{}}, paid \in BOOLEAN :
             createOrder(sender, token, amount, hashLock, timelock, refusing, paid)
    \/ \E id \in LegacyIds : refundOrder(id) \/ \E p \in Keys : claimOrder(id, p)
    \/ receiveEther \/ RegistryListChanges \/ NextBlock

LegacySpec == LegacyInit /\ [][LegacyNext]_legacyVars

-----------------------------------------------------------------------------
\* Orders, holdings and clock have their shapes.
LegacyTypeOK ==
    /\ \A id \in LegacyIds : /\ swaps[id].token \in LegacyAssets
                             /\ swaps[id].status \in {"Created", "Claimed", "Refunded"}
                             /\ swaps[id].set = (id < nextId)
    /\ vault \in [LegacyAssets -> Nat] /\ listed \subseteq Creators

\* The contract's holdings cover its open orders in ETH and in every token
\* that reverts on failure, although createOrder, claimOrder and refundOrder
\* ignore what transferFrom and transfer return.
LegacySolvent ==
    \A a \in LegacyAssets \ LaxTokens :
        vault[a] >= Cardinality({id \in LegacyIds :
                        swaps[id].set /\ swaps[id].status = "Created" /\ swaps[id].token = a})

HT == INSTANCE HashTimelock WITH
        Locks <- LegacyIds, clock <- blockTime,
        lock <- [id \in LegacyIds |->
                    [state |-> IF ~swaps[id].set THEN "none"
                               ELSE IF swaps[id].status = "Created" THEN "open"
                               ELSE IF swaps[id].status = "Claimed" THEN "claimed"
                               ELSE "refunded",
                     deadline |-> swaps[id].timelock]]

\* docs/REVIEW_RESPONSE.md says the legacy contract follows the claim, refund
\* and expiry rules of v2: it implements the abstract hash-timelock, with the
\* boundary second on the claim side.
ImplementsHashTimelock == HT!HTSpec
=============================================================================
