------------------------------ MODULE MCClients ------------------------------
(***************************************************************************)
(* The programs around the contracts and the two servers: the bridge form, *)
(* the refund dialog, the wallet menu, the views of a swap, the resolver's *)
(* commands and planner, and the claimable-balance client.                 *)
(*                                                                         *)
(* They run in different processes and share no variable; `part' picks the *)
(* one a behavior is about, so each is explored in full and their product  *)
(* is not.                                                                 *)
(***************************************************************************)
EXTENDS Naturals

CONSTANTS
    FormAmounts, Saved, MaxSubmits, HistoryCap,
    Clicks, SrcExpiry, DstExpiry, LastSecond, MaxRefunds,
    SrcLock, DstLock, SoonWindow, FreshAge, PendingAge, EndOfTime,
    EthDecimals, StellarDecimals, MaxStroops, MaxUnits,
    CliRuns, StakeAmounts, Unit, EvmMin, SorobanMin, MaxFaults,
    SourceAmounts, Timelocks, MinTimelock, MaxTimelock, Buffer, FeeDivisor,
    MaxNow, MaxSent,
    Deals, Accounts, BalanceAmounts, Callers, MinLock, MaxLock, MaxBalances,
    WalletAccounts, WalletNets, WalletCalls, MountCall, MaxClicks

\* Clocks, bounds and amounts are numbers, the destination leg expires first, the
\* planner's buffer is not zero, localStorage keeps at least one swap and Ethereum
\* counts in finer units than Stellar.
ASSUME ClientsAssumption ==
    /\ {SrcExpiry, DstExpiry, SrcLock, DstLock, EndOfTime, MaxStroops, MaxUnits,
        Unit, EvmMin, SorobanMin, MinTimelock, MaxTimelock, MaxNow, MaxSent,
        MaxBalances} \subseteq Nat
    /\ {LastSecond, Buffer} \subseteq Nat \ {0} /\ DstLock < SrcLock
    /\ MaxSubmits \in Nat /\ HistoryCap \in Nat \ {0}
    /\ 10 ^ (EthDecimals - StellarDecimals) \in Nat \ {0}
    /\ StakeAmounts \subseteq Nat /\ Timelocks \subseteq Nat /\ Timelocks # {}

VARIABLES
    part,
    form, estimate, rates, mode, info, wallet, ready, activeRef, shown, created,
    checks, flow, submits, tx, posted, history,
    second, dstLocked, appMode, chain, seenChain, stellarNet, signing, signed,
    phase, decision, poll, click, refunds,
    today, status, updatedAt, srcHash, dstHash, refundHash, leg, entered, carried,
    env, evmRpc, sorobanRpc, staked, allowance, funded, cli, inFlight,
    now, keys, dryRun, fill, order, plan, sent,
    terms, balances, fundedBy, call, settled,
    freighter, hook, ethAddress, ethCalls, extension, metamask, clicks, wanted,
    late

Form == INSTANCE BridgeForm
Refund == INSTANCE RefundFlow
Views == INSTANCE SwapViews
Commands == INSTANCE ResolverCommands
Planner == INSTANCE ResolverPlanner
Claimable == INSTANCE ClaimableBalances WITH funded <- fundedBy
Wallets == INSTANCE WalletSession

bridge == <<form, estimate, rates, mode, info, wallet, ready, activeRef, shown,
            created, checks, flow, submits, tx, posted, history>>
dialog == <<second, dstLocked, appMode, chain, seenChain, stellarNet, signing,
            signed, phase, decision, poll, click, refunds>>
views == <<today, status, updatedAt, srcHash, dstHash, refundHash, leg, entered,
           carried>>
commands == <<env, evmRpc, sorobanRpc, staked, allowance, funded, cli, inFlight>>
planner == <<now, keys, dryRun, fill, order, plan, sent>>
claimable == <<terms, balances, fundedBy, call, settled>>
wallets == <<freighter, hook, ethAddress, ethCalls, extension, metamask, clicks,
             wanted, late>>

MCInit ==
    /\ part \in {"bridge", "dialog", "views", "commands", "planner", "claimable",
                "wallets"}
    \* a component that is not explored stays in one of its initial states
    /\ part # "bridge" => wallet = "testnet"
    /\ part # "dialog" => stellarNet = "testnet"
    /\ part # "commands" => env = CHOOSE e \in Commands!Envs : TRUE
    /\ part # "commands" => evmRpc = "up" /\ sorobanRpc = "up" /\ funded = TRUE
    /\ part # "planner" => keys = TRUE /\ dryRun = TRUE
    /\ part # "claimable" => terms = CHOOSE t \in [Deals -> Claimable!Terms] : TRUE
    /\ part # "wallets" => /\ extension = CHOOSE e \in [account: WalletAccounts, network: WalletNets] : TRUE
                           /\ metamask = Wallets!NoAccount
    /\ Form!FormInit /\ Refund!RefundInit /\ Views!ViewInit
    /\ Commands!CliInit /\ Planner!PlannerInit /\ Claimable!ClaimableInit
    /\ Wallets!WalletInit

MCNext ==
    /\ UNCHANGED part
    /\ \/ /\ part = "bridge" /\ Form!FormNext
          /\ UNCHANGED <<dialog, views, commands, planner, claimable, wallets>>
       \/ /\ part = "dialog" /\ Refund!RefundNext
          /\ UNCHANGED <<bridge, views, commands, planner, claimable, wallets>>
       \/ /\ part = "views" /\ Views!ViewNext
          /\ UNCHANGED <<bridge, dialog, commands, planner, claimable, wallets>>
       \/ /\ part = "commands" /\ Commands!CliNext
          /\ UNCHANGED <<bridge, dialog, views, planner, claimable, wallets>>
       \/ /\ part = "planner" /\ Planner!PlannerNext
          /\ UNCHANGED <<bridge, dialog, views, commands, claimable, wallets>>
       \/ /\ part = "claimable" /\ Claimable!ClaimableNext
          /\ UNCHANGED <<bridge, dialog, views, commands, planner, wallets>>
       \/ /\ part = "wallets" /\ Wallets!WalletNext
          /\ UNCHANGED <<bridge, dialog, views, commands, planner, claimable>>

MCSpec ==
    MCInit /\ [][MCNext]_<<part, bridge, dialog, views, commands, planner, claimable,
                         wallets>>

-----------------------------------------------------------------------------
\* Each program's state has its shape.
ClientsTypeOK ==
    /\ Form!FormTypeOK /\ Refund!RefundTypeOK /\ Views!ViewTypeOK
    /\ Commands!CliTypeOK /\ Planner!PlannerTypeOK /\ Claimable!ClaimableTypeOK
    /\ Wallets!WalletTypeOK

\* BridgeForm.tsx, "Late response guard" and "discard responses for stale
\* renders": no late answer puts another order on screen than the one asked
\* for last, and once no live price request is left the estimate belongs to
\* the amount and direction on screen.  The wallet menu is never stuck on
\* "Connecting...", and "Disconnect All" lasts unless an older call is late.
FormShowsCurrentAnswers ==
    /\ Form!ShownOrderIsCurrent /\ []Form!EstimateIsCurrent
    /\ []Wallets!NeverStuckConnecting /\ []Wallets!DisconnectLasts

\* RefundDialog, useFreighter and the views of a swap: refundOrder is sent
\* only after both timelocks, a signature is given only under the passphrase
\* its transaction was built for, and no two views pull the user two ways.
RefundAdviceIsSound ==
    Refund!RefundsAreDue /\ Refund!SignedAsBuilt /\ Views!OffersDoNotConflict

\* register, readiness, check and preflight: a register run that ends well has
\* the stake in the Soroban registry, however late its transaction and
\* whichever run raced it, and the three checkers do not contradict each other.
CommandsTellTheTruth == Commands!OkMeansSorobanStaked /\ Commands!CheckersAgree

\* planFill and assertPlanStillValid: the submit callback never runs for an
\* order that expired or changed since it was planned, and a planned fill
\* expires before its source order when the minimum timelock leaves room.
PlansAreSafe == Planner!SubmitsInTime /\ []Planner!FillExpiresFirst

\* claimWithPreimage, refundExpired and convertAtomic: a balance settled for an
\* order has that order's amount and claimant and is settled once, and an
\* amount that crosses the bridge is refused or arrives to the last unit.
AmountsArriveAsAgreed == Claimable!SettledAsAgreed /\ Views!NothingLostInConversion
=============================================================================
