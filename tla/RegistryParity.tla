--------------------------- MODULE RegistryParity ---------------------------
(***************************************************************************)
(* The same calls on both registries: a resolver that stakes on Ethereum   *)
(* and on Stellar, and operators that slash and reconfigure both alike.    *)
(* Both contracts accept the same calls in the same order, so every state  *)
(* of each is still reached; what differs is what isActive then answers.   *)
(***************************************************************************)
EXTENDS Integers, Sequences, SequencesExt, Ledger

CONSTANTS Accounts, NoAddress, Registry, Stakes, InitialTokens

ASSUME ParityAssumption ==
    /\ IsFiniteSet(Accounts)
    /\ Registry \notin Accounts /\ NoAddress \notin Accounts
    /\ Stakes \subseteq Nat
    /\ InitialTokens \in [Accounts -> Nat]

VARIABLES
    minStake, slashBeneficiary, resolvers, resolverList, resolverIndex, ethTokens,
    admin, min_stake, slash_beneficiary, info, list, xlmTokens

Eth == INSTANCE ResolverRegistry WITH ZeroAddress <- NoAddress, tokens <- ethTokens
Xlm == INSTANCE SorobanRegistry WITH tokens <- xlmTokens

ethVars == <<minStake, slashBeneficiary, resolvers, resolverList, resolverIndex, ethTokens>>
xlmVars == <<admin, min_stake, slash_beneficiary, info, list, xlmTokens>>
vars == <<ethVars, xlmVars>>

Init == Eth!Init /\ Xlm!Init

\* Stellar deploys in two steps: until initialize every other call panics.
Initialize ==
    /\ \E a \in Accounts : Xlm!initialize(a, minStake, slashBeneficiary)
    /\ UNCHANGED ethVars

Register == \E r \in Accounts, s \in Stakes : Eth!register(r, s) /\ Xlm!register(r, s)
IncreaseStake ==
    \E r \in Accounts, s \in Stakes : Eth!increaseStake(r, s) /\ Xlm!increase_stake(r, s)
Unregister == \E r \in Accounts : Eth!unregister(r) /\ Xlm!unregister(r)
Slash == \E r \in Accounts, s \in Stakes : Eth!slash(r, s) /\ Xlm!slash(r, s)
SetMinStake == \E s \in Stakes : Eth!setMinStake(s) /\ Xlm!set_min_stake(s)
SetSlashBeneficiary ==
    \E a \in Accounts : Eth!setSlashBeneficiary(a) /\ Xlm!set_slash_beneficiary(a)
SetAdmin == \E a \in Accounts : Xlm!set_admin(a) /\ UNCHANGED ethVars

Next ==
    \/ Initialize \/ Register \/ IncreaseStake \/ Unregister \/ Slash
    \/ SetMinStake \/ SetSlashBeneficiary \/ SetAdmin

Spec == Init /\ [][Next]_vars

-----------------------------------------------------------------------------
TypeOK == Eth!TypeOK /\ Xlm!TypeOK

\* _removeFromList on Ethereum, and the rebuilt vector on Stellar, list
\* exactly the registered resolvers.
ListsExact == Eth!ListMatchesIndex /\ Xlm!ListMatchesEntries

\* The sum of the stakes of all accounts.
TotalStake(stakes) ==
    SumTo([i \in 1..Cardinality(Accounts) |-> stakes[SetToSeq(Accounts)[i]]],
          Cardinality(Accounts))

\* Each registry holds exactly the stakes it has to give back, and the two
\* pay out alike: register, increase_stake, slash and unregister leave the
\* same stakes and balances on both chains.
StakesBacked ==
    /\ ethTokens[Registry] = TotalStake([r \in Accounts |-> resolvers[r].stake])
    /\ ethTokens = xlmTokens
    /\ \A r \in Accounts : resolvers[r].stake = info[r].stake

\* The Stellar flag is never on while the Ethereum flag is off: increase_stake
\* forgets to switch it back on, but no slash forgets to switch it off.
StellarFlagImpliesEthereumFlag ==
    \A r \in Accounts : Xlm!is_active(r) => resolvers[r].active
=============================================================================
