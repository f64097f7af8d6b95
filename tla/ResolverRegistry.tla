-------------------------- MODULE ResolverRegistry --------------------------
(***************************************************************************)
(* The Ethereum resolver registry,                                         *)
(* contracts/contracts/v2/ResolverRegistry.sol: stakes, the active flag,   *)
(* and the enumerable list of resolvers kept with a 1-based index mapping. *)
(* The owner is one principal; its actions carry no caller.                *)
(***************************************************************************)
EXTENDS Integers, Sequences, SequencesExt

CONSTANTS
    Accounts,        \* addresses that may register or receive stake
    ZeroAddress,
    Registry,        \* address(this)
    Stakes,          \* values tried for stake, additional, amount and minStake
    InitialTokens    \* what each account owns of stakeAsset at the start

VARIABLES
    minStake,
    slashBeneficiary,
    resolvers,       \* mapping(address => ResolverInfo)
    resolverList,    \* address[]
    resolverIndex,   \* mapping(address => uint256), 1-based, 0 = not registered
    tokens           \* stakeAsset.balanceOf

vars == <<minStake, slashBeneficiary, resolvers, resolverList, resolverIndex, tokens>>

\* ResolverInfo without its timestamps and the totalSlashed counter, which
\* nothing reads back.
NoInfo == [stake |-> 0, active |-> FALSE]

TypeOK ==
    /\ minStake \in Nat
    /\ slashBeneficiary \in Accounts
    /\ resolvers \in [Accounts -> [stake : Nat, active : BOOLEAN]]
    /\ resolverList \in Seq(Accounts)
    /\ resolverIndex \in [Accounts -> Nat]
    /\ tokens \in [Accounts \cup {Registry} -> Nat]

\* The constructor.
Init ==
    /\ minStake \in Stakes
    /\ slashBeneficiary \in Accounts
    /\ resolvers = [a \in Accounts |-> NoInfo]
    /\ resolverList = <<>>
    /\ resolverIndex = [a \in Accounts |-> 0]
    /\ tokens = [h \in Accounts \cup {Registry} |->
                    IF h = Registry THEN 0 ELSE InitialTokens[h]]

Pay(from, to, amount) ==
    [h \in DOMAIN tokens |-> tokens[h] + (IF h = to THEN amount ELSE 0)
                                       - (IF h = from THEN amount ELSE 0)]

\* The view the escrow calls: the flag alone is not enough after the owner
\* raises minStake.
isActive(r) == resolvers[r].active /\ resolvers[r].stake >= minStake

-----------------------------------------------------------------------------
register(r, stake) ==
    /\ stake >= minStake
    /\ resolverIndex[r] = 0
    /\ tokens[r] >= stake
    /\ tokens' = Pay(r, Registry, stake)
    /\ resolvers' = [resolvers EXCEPT ![r] = [stake |-> stake, active |-> TRUE]]
    /\ resolverList' = Append(resolverList, r)
    /\ resolverIndex' = [resolverIndex EXCEPT ![r] = Len(resolverList')]
    /\ UNCHANGED <<minStake, slashBeneficiary>>

\* The flag after a top-up: regained once the stake reaches the minimum.
Reactivated(info, stake) == info.active \/ stake >= minStake

increaseStake(r, additional) ==
    LET stake == resolvers[r].stake + additional IN
    /\ additional # 0
    /\ resolverIndex[r] # 0
    /\ tokens[r] >= additional
    /\ tokens' = Pay(r, Registry, additional)
    /\ resolvers' = [resolvers EXCEPT ![r].stake = stake,
                                      ![r].active = Reactivated(resolvers[r], stake)]
    /\ UNCHANGED <<minStake, slashBeneficiary, resolverList, resolverIndex>>

\* _removeFromList: the last resolver takes the freed place.  The index entry
\* of the removed resolver is deleted last.
ListAfterRemoval(idx) ==
    SubSeq([resolverList EXCEPT ![idx] = Last(resolverList)], 1, Len(resolverList) - 1)

IndexAfterRemoval_SwapKeepsIndex(r, idx) == [resolverIndex EXCEPT ![r] = 0]
IndexAfterRemoval(r, idx) ==
    [resolverIndex EXCEPT ![Last(resolverList)] = idx, ![r] = 0]

unregister(r) ==
    LET idx == resolverIndex[r] IN
    /\ idx # 0
    /\ resolvers' = [resolvers EXCEPT ![r] = NoInfo]
    /\ resolverList' = ListAfterRemoval(idx)
    /\ resolverIndex' = IndexAfterRemoval(r, idx)
    /\ tokens' = Pay(Registry, r, resolvers[r].stake)
    /\ UNCHANGED <<minStake, slashBeneficiary>>

\* A slash is capped by the stake that is left.
SlashTake_Uncapped(info, amount) == amount
SlashTake(info, amount) == IF amount > info.stake THEN info.stake ELSE amount

\* The amount taken, never the amount asked for, leaves the stake.
StakeAfterSlash_ByAmountAsked(info, amount) == info.stake - amount
StakeAfterSlash(info, amount) == info.stake - SlashTake(info, amount)

slash(r, amount) ==
    LET take == SlashTake(resolvers[r], amount)
        left == StakeAfterSlash(resolvers[r], amount) IN
    /\ amount # 0
    /\ resolverIndex[r] # 0
    /\ resolvers' = [resolvers EXCEPT
                        ![r].stake = left,
                        ![r].active = IF left < minStake THEN FALSE ELSE @]
    /\ tokens' = Pay(Registry, slashBeneficiary, take)
    /\ UNCHANGED <<minStake, slashBeneficiary, resolverList, resolverIndex>>

setMinStake(newMinStake) ==
    /\ minStake' = newMinStake
    /\ UNCHANGED <<slashBeneficiary, resolvers, resolverList, resolverIndex, tokens>>

setSlashBeneficiary(newBeneficiary) ==
    /\ newBeneficiary # ZeroAddress
    /\ slashBeneficiary' = newBeneficiary
    /\ UNCHANGED <<minStake, resolvers, resolverList, resolverIndex, tokens>>

Next ==
    \/ \E r \in Accounts, s \in Stakes : register(r, s)
    \/ \E r \in Accounts, s \in Stakes : increaseStake(r, s)
    \/ \E r \in Accounts : unregister(r)
    \/ \E r \in Accounts, s \in Stakes : slash(r, s)
    \/ \E s \in Stakes : setMinStake(s)
    \/ \E a \in Accounts \cup {ZeroAddress} : setSlashBeneficiary(a)

Spec == Init /\ [][Next]_vars

-----------------------------------------------------------------------------
(* Properties.                                                             *)

\* The swap-and-pop of _removeFromList keeps list and index inverse to each
\* other: every registered resolver is listed once, at its index, and nobody
\* else has an index or a stake.
ListMatchesIndex ==
    /\ \A i \in 1..Len(resolverList) : resolverIndex[resolverList[i]] = i
    /\ \A r \in Accounts :
         IF resolverIndex[r] = 0 THEN resolvers[r] = NoInfo
         ELSE resolverIndex[r] <= Len(resolverList) /\ resolverList[resolverIndex[r]] = r
=============================================================================
