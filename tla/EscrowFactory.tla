--------------------------- MODULE EscrowFactory ---------------------------
(***************************************************************************)
(* contracts/contracts/EscrowFactory.sol: escrows with a safety deposit in *)
(* ETH, which the factory pools, and an amount of a token, which each      *)
(* escrow's own HTLCBridge address holds.  One action per external         *)
(* function that changes state, a revert is a false guard.  Left out:      *)
(* authorizedResolvers, factoryFeeRate and the counters, which are written *)
(* and never read by another function, and the amount, which moves whole.  *)
(***************************************************************************)
EXTENDS Integers, Ledger

CONSTANTS
    NoToken,         \* token == address(0): accepted by createEscrow, no code
    AllowanceTokens, \* ERC-20s that honour allowances
    FreeTokens,      \* tokens whose transferFrom needs none
    Locks,           \* hash locks; the preimage of one is named like it
    MinDeposit, MaxDeposit, MaxValue, \* MaxValue bounds msg.value
    MinLock, MaxLock,                 \* MIN_TIMELOCK, MAX_TIMELOCK
    MaxEscrows,      \* bound on escrows
    FactoryEnd       \* bound on block.timestamp

VARIABLES
    escrows,     \* by _escrowCounter
    counter,     \* _escrowCounter
    pool,        \* the factory's ETH
    now,         \* block.timestamp
    ownerTook    \* history: the owner has taken ETH no unsettled deposit covers

factoryVars == <<escrows, counter, pool, now, ownerTook>>

EscrowIds == 1..MaxEscrows
NoEscrow == [isActive |-> FALSE, token |-> NoToken, hashLock |-> "zero", timelock |-> 0,
             status |-> "Created", safetyDepositPaid |-> 0, refuses |-> FALSE]

-----------------------------------------------------------------------------
\* hashLockToEscrowId[hashLock] == 0
HashLockUnused(hashLock) == \A id \in EscrowIds : escrows[id].hashLock # hashLock

\* _deployEscrow never reverts: HTLCBridge's constructor reads one word of the
\* encoded config and ignores the rest.  `refuses' says whether the caller,
\* who becomes the resolver, takes a transfer of ETH.
createEscrow(token, hashLock, timelock, deposit, value, refuses) ==
    /\ hashLock # "zero"
    /\ timelock > now + MinLock /\ timelock <= now + MaxLock
    /\ deposit >= MinDeposit /\ deposit <= MaxDeposit
    /\ value >= deposit
    /\ HashLockUnused(hashLock)
    /\ counter <= MaxEscrows
    /\ escrows' = [escrows EXCEPT ![counter] =
                      [isActive |-> TRUE, token |-> token, hashLock |-> hashLock,
                       timelock |-> timelock, status |-> "Created",
                       safetyDepositPaid |-> value, refuses |-> refuses]]
    /\ counter' = counter + 1
    /\ pool' = pool + value
    /\ UNCHANGED <<now, ownerTook>>

fundEscrow(id) ==
    /\ escrows[id].isActive
    /\ escrows[id].status = "Created"
    /\ now <= escrows[id].timelock
    /\ escrows[id].token # NoToken
    /\ escrows' = [escrows EXCEPT ![id].status = "Funded"]
    /\ UNCHANGED <<counter, pool, now, ownerTook>>

\* token.transferFrom(escrowAddress, ...) spends an allowance that HTLCBridge,
\* which holds the tokens, has no code to give.
TokensMove(id) == escrows[id].token \in FreeTokens

\* payable(resolver).transfer(safetyDepositPaid); the field keeps its value.
DepositMoves(id) ==
    /\ pool >= escrows[id].safetyDepositPaid
    /\ ~escrows[id].refuses
    /\ pool' = pool - escrows[id].safetyDepositPaid

Settled(id) == escrows[id].status \in {"Claimed", "Refunded"}

claimEscrow(id, preimage, caller) ==
    /\ escrows[id].isActive
    /\ escrows[id].status = "Funded"
    /\ now <= escrows[id].timelock
    /\ preimage = escrows[id].hashLock
    /\ caller = "beneficiary"
    /\ TokensMove(id) /\ DepositMoves(id)
    /\ escrows' = [escrows EXCEPT ![id].status = "Claimed"]
    /\ UNCHANGED <<counter, now, ownerTook>>

refundEscrow(id) ==
    /\ escrows[id].isActive
    /\ escrows[id].status = "Funded"
    /\ now > escrows[id].timelock
    /\ TokensMove(id) /\ DepositMoves(id)
    /\ escrows' = [escrows EXCEPT ![id].status = "Refunded"]
    /\ UNCHANGED <<counter, now, ownerTook>>

\* isActive is never cleared and the deposit of a settled escrow is still
\* recorded, so the owner may slash what has already been returned.
slashSafetyDeposit(id) ==
    /\ escrows[id].isActive
    /\ escrows[id].safetyDepositPaid > 0
    /\ pool >= escrows[id].safetyDepositPaid
    /\ pool' = pool - escrows[id].safetyDepositPaid
    /\ escrows' = [escrows EXCEPT ![id].safetyDepositPaid = 0]
    /\ ownerTook' = (ownerTook \/ Settled(id))
    /\ UNCHANGED <<counter, now>>

\* Of ETH; the factory holds no token of its own.
emergencyWithdraw(amount) ==
    /\ amount <= pool
    /\ pool' = pool - amount
    /\ ownerTook' = TRUE
    /\ UNCHANGED <<escrows, counter, now>>

FactoryTick ==
    /\ now < FactoryEnd
    /\ now' = now + 1
    /\ UNCHANGED <<escrows, counter, pool, ownerTook>>

FactoryInit ==
    /\ escrows = [id \in EscrowIds |-> NoEscrow]
    /\ counter = 1 /\ pool = 0 /\ now = 0 /\ ownerTook = FALSE

FactoryNext ==
    \/ \E token \in {NoToken} \cup AllowanceTokens \cup FreeTokens, hashLock \in Locks \cup {"zero"},
          timelock \in 0..FactoryEnd, deposit \in 0..MaxDeposit + 1, value \in 0..MaxValue,
          refuses \in BOOLEAN :
            createEscrow(token, hashLock, timelock, deposit, value, refuses)
    \/ \E id \in EscrowIds :
        \/ fundEscrow(id) \/ refundEscrow(id) \/ slashSafetyDeposit(id)
        \/ \E preimage \in Locks, caller \in {"beneficiary", "other"} :
              claimEscrow(id, preimage, caller)
    \/ \E amount \in 1..MaxValue : emergencyWithdraw(amount)
    \/ FactoryTick

-----------------------------------------------------------------------------
\* Escrows and the pool have their shapes; no escrow is active beyond the counter.
FactoryTypeOK ==
    /\ \A id \in EscrowIds : /\ escrows[id].status \in {"Created", "Funded", "Claimed", "Refunded"}
                             /\ escrows[id].isActive = (id < counter)
                             /\ escrows[id].safetyDepositPaid \in 0..MaxValue
    /\ pool \in 0..(MaxEscrows * MaxValue)

\* What the factory owes for an escrow.
Unsettled(id) == IF Settled(id) THEN 0 ELSE escrows[id].safetyDepositPaid

\* While the owner has neither withdrawn nor slashed a settled escrow, the
\* factory holds exactly the deposits of the unsettled escrows, although
\* claimEscrow and refundEscrow leave safetyDepositPaid as it was.
DepositsPooled ==
    ~ownerTook =>
        pool = SumTo([id \in EscrowIds |-> Unsettled(id)], MaxEscrows)

HT == INSTANCE HashTimelock WITH
        Locks <- EscrowIds, clock <- now,
        lock <- [id \in EscrowIds |->
                    [state |-> IF ~escrows[id].isActive THEN "none"
                               ELSE IF escrows[id].status \in {"Created", "Funded"} THEN "open"
                               ELSE IF escrows[id].status = "Claimed" THEN "claimed"
                               ELSE "refunded",
                     deadline |-> escrows[id].timelock]]

\* The factory's escrows implement the abstract hash-timelock from their
\* creation on, with the boundary second on the claim side.
ImplementsHashTimelock == HT!HTSpec
=============================================================================
