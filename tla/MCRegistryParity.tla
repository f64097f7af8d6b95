-------------------------- MODULE MCRegistryParity --------------------------
(***************************************************************************)
(* Model-checking instance of RegistryParity, three resolvers, so that the *)
(* removed entry of the list can be the first, a middle one or the last;   *)
(* and, beside it, of the two legacy contracts.  They share no variable:   *)
(* `part' picks which of them a behavior is about, so each is explored in  *)
(* full and their product is not.                                          *)
(***************************************************************************)
EXTENDS RegistryParity, TLC

CONSTANTS
    r1, r2, r3,
    Ether, StrictTokens, LaxTokens, Creators, Keys, MinTimelock, MaxTimelock,
    MaxLegacy, LegacyEnd,
    NoToken, AllowanceTokens, FreeTokens, Locks, MinDeposit, MaxDeposit, MaxValue,
    MinLock, MaxLock, MaxEscrows, FactoryEnd

\* Bounds, timelocks and deposits are numbers, and MainnetHTLC's shortest
\* timelock is not zero.
ASSUME ContractsAssumption ==
    /\ MinTimelock \in Nat \ {0} /\ MaxTimelock \in Nat
    /\ MaxLegacy \in Nat /\ LegacyEnd \in Nat
    /\ MinLock \in Nat /\ MaxLock \in Nat /\ MinDeposit \in Nat /\ MaxDeposit \in Nat
    /\ MaxEscrows \in Nat /\ MaxValue \in Nat /\ FactoryEnd \in Nat

VARIABLES part, swaps, nextId, vault, listed, blockTime,
          escrows, counter, pool, now, ownerTook

legacy == <<swaps, nextId, vault, listed, blockTime>>

factory == <<escrows, counter, pool, now, ownerTook>>

Legacy == INSTANCE MainnetHTLC
Factory == INSTANCE EscrowFactory

MCTokens == [a \in Accounts |-> 1]
Resolvers == Permutations(Accounts)

MCInit ==
    /\ Init /\ Legacy!LegacyInit /\ Factory!FactoryInit
    /\ part \in {"registries", "legacy", "factory"}

MCNext ==
    \/ part = "registries" /\ Next /\ UNCHANGED <<part, legacy, factory>>
    \/ part = "legacy" /\ Legacy!LegacyNext /\ UNCHANGED <<part, vars, factory>>
    \/ part = "factory" /\ Factory!FactoryNext /\ UNCHANGED <<part, vars, legacy>>

MCSpec == MCInit /\ [][MCNext]_<<part, vars, legacy, factory>>

\* Stakes, lists, orders and holdings have their shapes.
ContractsTypeOK == TypeOK /\ Legacy!LegacyTypeOK /\ Factory!FactoryTypeOK

\* docs/REVIEW_RESPONSE.md:21 says MainnetHTLC follows the claim, refund and
\* expiry rules of v2: it and the factory's escrows implement the abstract
\* hash-timelock.  MainnetHTLC's holdings cover its open orders in ETH and in
\* tokens that revert, although createOrder, claimOrder and refundOrder ignore
\* what an ERC-20 returns; the factory's pool holds the deposits of unsettled
\* escrows until its owner takes ETH that no unsettled deposit covers.
LegacyFollowsV2 ==
    /\ Legacy!ImplementsHashTimelock /\ []Legacy!LegacySolvent
    /\ Factory!ImplementsHashTimelock /\ []Factory!DepositsPooled
=============================================================================
