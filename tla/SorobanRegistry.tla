-------------------------- MODULE SorobanRegistry ---------------------------
(***************************************************************************)
(* The Stellar resolver registry,                                          *)
(* soroban/contracts/resolver-registry/src/lib.rs.  Resolver entries are   *)
(* keys of persistent storage, the list is a plain vector in instance      *)
(* storage, and is_active reads the stored flag only.                      *)
(***************************************************************************)
EXTENDS Integers, Sequences, Functions

CONSTANTS
    Accounts,        \* addresses that may register or receive stake
    NoAddress,       \* DataKey::Admin absent
    Registry,        \* env.current_contract_address()
    Stakes,          \* values tried for stake, additional, amount and min_stake
    InitialTokens    \* what each account owns of the stake asset at the start

VARIABLES
    admin, min_stake, slash_beneficiary,
    info,            \* DataKey::Resolver(r); NoInfo when absent
    list,            \* DataKey::ResolverList
    tokens           \* balances of the stake asset

vars == <<admin, min_stake, slash_beneficiary, info, list, tokens>>

NoInfo == [registered |-> FALSE, stake |-> 0, active |-> FALSE]

TypeOK ==
    /\ admin \in Accounts \cup {NoAddress}
    /\ min_stake \in Nat
    /\ slash_beneficiary \in Accounts \cup {NoAddress}
    /\ info \in [Accounts -> [registered : BOOLEAN, stake : Nat, active : BOOLEAN]]
    /\ list \in Seq(Accounts)
    /\ tokens \in [Accounts \cup {Registry} -> Nat]

Init ==
    /\ admin = NoAddress
    /\ min_stake = 0
    /\ slash_beneficiary = NoAddress
    /\ info = [a \in Accounts |-> NoInfo]
    /\ list = <<>>
    /\ tokens = [h \in Accounts \cup {Registry} |->
                    IF h = Registry THEN 0 ELSE InitialTokens[h]]

Pay(from, to, amount) ==
    [h \in DOMAIN tokens |-> tokens[h] + (IF h = to THEN amount ELSE 0)
                                       - (IF h = from THEN amount ELSE 0)]

IsInitialised == admin # NoAddress

is_active(r) == info[r].active

-----------------------------------------------------------------------------
initialize(newAdmin, minimum, beneficiary) ==
    /\ ~IsInitialised
    /\ minimum >= 0
    /\ admin' = newAdmin
    /\ min_stake' = minimum
    /\ slash_beneficiary' = beneficiary
    /\ list' = <<>>
    /\ UNCHANGED <<info, tokens>>

register(r, stake) ==
    /\ IsInitialised
    /\ stake >= min_stake
    /\ ~info[r].registered
    /\ tokens[r] >= stake
    /\ tokens' = Pay(r, Registry, stake)
    /\ info' = [info EXCEPT ![r] = [registered |-> TRUE, stake |-> stake, active |-> TRUE]]
    /\ list' = Append(list, r)
    /\ UNCHANGED <<admin, min_stake, slash_beneficiary>>

\* The active flag is left as it is.
increase_stake(r, additional) ==
    /\ IsInitialised
    /\ additional > 0
    /\ info[r].registered
    /\ tokens[r] >= additional
    /\ tokens' = Pay(r, Registry, additional)
    /\ info' = [info EXCEPT ![r].stake = @ + additional]
    /\ UNCHANGED <<admin, min_stake, slash_beneficiary, list>>

\* The list is rebuilt, entry by entry, without r.
ListWithout(r) ==
    LET kept[i \in 0..Len(list)] ==
            IF i = 0 THEN <<>>
            ELSE IF list[i] = r THEN kept[i - 1] ELSE Append(kept[i - 1], list[i])
    IN  kept[Len(list)]

unregister(r) ==
    /\ IsInitialised
    /\ info[r].registered
    /\ tokens' = Pay(Registry, r, info[r].stake)
    /\ info' = [info EXCEPT ![r] = NoInfo]
    /\ list' = ListWithout(r)
    /\ UNCHANGED <<admin, min_stake, slash_beneficiary>>

SlashTake_Uncapped(r, amount) == amount
SlashTake(r, amount) == IF amount < info[r].stake THEN amount ELSE info[r].stake

ActiveAfterSlash_OnlyAtZero(r, left) == IF left = 0 THEN FALSE ELSE info[r].active
ActiveAfterSlash(r, left) == IF left < min_stake THEN FALSE ELSE info[r].active

slash(r, amount) ==
    LET take == SlashTake(r, amount)
        left == info[r].stake - take IN
    /\ IsInitialised
    /\ amount > 0
    /\ info[r].registered
    /\ tokens' = Pay(Registry, slash_beneficiary, take)
    /\ info' = [info EXCEPT ![r].stake = left,
                            ![r].active = ActiveAfterSlash(r, left)]
    /\ UNCHANGED <<admin, min_stake, slash_beneficiary, list>>

set_min_stake(minimum) ==
    /\ IsInitialised
    /\ minimum >= 0
    /\ min_stake' = minimum
    /\ UNCHANGED <<admin, slash_beneficiary, info, list, tokens>>

set_admin(newAdmin) ==
    /\ IsInitialised
    /\ admin' = newAdmin
    /\ UNCHANGED <<min_stake, slash_beneficiary, info, list, tokens>>

set_slash_beneficiary(beneficiary) ==
    /\ IsInitialised
    /\ slash_beneficiary' = beneficiary
    /\ UNCHANGED <<admin, min_stake, info, list, tokens>>

Next ==
    \/ \E a, b \in Accounts, s \in Stakes : initialize(a, s, b)
    \/ \E r \in Accounts, s \in Stakes : register(r, s)
    \/ \E r \in Accounts, s \in Stakes : increase_stake(r, s)
    \/ \E r \in Accounts : unregister(r)
    \/ \E r \in Accounts, s \in Stakes : slash(r, s)
    \/ \E s \in Stakes : set_min_stake(s)
    \/ \E a \in Accounts : set_admin(a)
    \/ \E a \in Accounts : set_slash_beneficiary(a)

Spec == Init /\ [][Next]_vars

-----------------------------------------------------------------------------
(* Properties.                                                             *)

\* The list holds the registered resolvers, each once.
ListMatchesEntries ==
    /\ IsInjective(list)
    /\ {list[i] : i \in 1..Len(list)} = {r \in Accounts : info[r].registered}
=============================================================================
