--------------------------- MODULE ResolverCommands ---------------------------
(***************************************************************************)
(* The resolver's command line: register, unregister, the start of run and *)
(* the three read-only checkers (preflight, readiness, check).             *)
(*                                                                         *)
(* A register run awaits an RPC at every step: the RPCs come and go, a     *)
(* transaction may land after the run gave up on it, and an operator may   *)
(* start a second run or unregister meanwhile.  The registries are         *)
(* modelled by what they answer (see ResolverRegistry, SorobanRegistry).   *)
(***************************************************************************)
EXTENDS Integers, FiniteSets

CONSTANTS
    CliRuns,      \* invocations of the register command
    StakeAmounts, \* amounts an operator may type
    Unit,         \* 10^decimals of the Ethereum stake asset
    EvmMin,       \* minStake() in base units
    SorobanMin,   \* min_stake() in base units
    MaxFaults     \* bound: settings that differ from a complete setup

VARIABLES
    env,       \* the operator's settings
    evmRpc,    \* "up", "down" or "other" (another chain answers)
    sorobanRpc,
    staked,    \* staked[chain]: stake held by the registry for this resolver
    allowance, \* of the stake asset to the Ethereum registry
    funded,    \* the resolver's wallet holds enough of the stake asset
    cli,       \* cli[r]: the run's progress
    inFlight   \* runs whose Soroban transaction is sent and not settled

cliVars == <<env, evmRpc, sorobanRpc, staked, allowance, funded, cli, inFlight>>
worldVars == <<env, evmRpc, sorobanRpc, funded>>

Default == 0  \* no amount typed

Settings ==
    [mode: {"set", "bad"}, url: {"set", "bad"},
     key: {"set", "unset", "bad"}, secret: {"set", "unset", "bad"},
     evmRegistry: {"set", "unset", "bad", "other"},
     sorobanRegistry: {"set", "unset", "bad", "other"},
     escrow: {"set", "unset"}, htlc: {"set", "unset"},
     coordinator: {"set", "unset", "other"}]

Envs == {e \in Settings : Cardinality({f \in DOMAIN e : e[f] # "set"}) <= MaxFaults}

WellFormed(value) == value \in {"set", "other"}
Given(value) == value # "unset"

(* loadConfig: the mode, the Ethereum RPC URL and the 0x addresses throw.  *)
loadConfig ==
    env.mode = "set" /\ env.url = "set" /\ env.evmRegistry # "bad"

checkResolverNetworkAgreement == evmRpc = "up" /\ sorobanRpc = "up"

(* Coordinator readiness: an unreachable coordinator only warns.           *)
checkCoordinatorNetwork == env.coordinator # "other"

-----------------------------------------------------------------------------
(* The read-only checkers.                                                 *)

Passed(condition, skipped) ==
    IF skipped THEN "SKIPPED" ELSE IF condition THEN "PASS" ELSE "FAIL"

(* Whether a read of the configured registry returns: "other" holds no     *)
(* registry contract.                                                      *)
Readable(registry) == registry = "set"
isActive(chain) == staked[chain] > 0

EvmReads == env.evmRegistry # "unset" /\ checkResolverNetworkAgreement
SorobanReads == WellFormed(env.sorobanRegistry) /\ checkResolverNetworkAgreement

runPreflightChecks ==
    [agreement |-> Passed(checkResolverNetworkAgreement, FALSE),
     evmKey |-> Passed(env.key = "set", ~ Given(env.key)),
     evmRegistry |-> Passed(WellFormed(env.evmRegistry), FALSE),
     evmNetwork |-> Passed(TRUE, ~ checkResolverNetworkAgreement),
     evmStake |-> Passed(Readable(env.evmRegistry), ~ EvmReads),
     evmStatus |-> Passed(Readable(env.evmRegistry) /\ isActive("evm"),
                          env.key # "set" \/ ~ EvmReads),
     secret |-> Passed(env.secret = "set", ~ Given(env.secret)),
     sorobanRegistry |-> Passed(WellFormed(env.sorobanRegistry), FALSE),
     sorobanNetwork |-> Passed(TRUE, ~ checkResolverNetworkAgreement),
     sorobanStake |-> Passed(Readable(env.sorobanRegistry), ~ SorobanReads),
     sorobanStatus |-> Passed(Readable(env.sorobanRegistry) /\ isActive("soroban"),
                              env.secret # "set" \/ ~ SorobanReads)]

preflightCommand ==
    loadConfig /\ \A c \in DOMAIN runPreflightChecks : runPreflightChecks[c] # "FAIL"

assessReadiness ==
    /\ env.mode = "set" /\ env.url = "set"
    /\ checkResolverNetworkAgreement
    /\ WellFormed(env.evmRegistry) /\ WellFormed(env.sorobanRegistry)
    /\ env.key = "set" /\ env.secret = "set"
    /\ checkCoordinatorNetwork

(* Each HTLC must be bound to the registry this resolver uses.             *)
checkDeploymentAddresses ==
    /\ env.escrow = "set" /\ env.htlc = "set"
    /\ env.evmRegistry = "set" /\ env.sorobanRegistry = "set"
    /\ env.secret = "set"
    /\ evmRpc = "up" /\ sorobanRpc = "up"

checkPreflight ==
    [chain \in {"evm", "soroban"} |->
        LET registry == IF chain = "evm" THEN env.evmRegistry ELSE env.sorobanRegistry
            key == IF chain = "evm" THEN env.key ELSE env.secret
            rpc == IF chain = "evm" THEN evmRpc ELSE sorobanRpc
        IN  IF ~ Given(registry) \/ ~ Given(key) THEN "unconfigured"
            ELSE IF key = "bad" \/ ~ Readable(registry) \/ rpc # "up" THEN "unknown"
            ELSE IF isActive(chain) THEN "active" ELSE "inactive"]

buildJsonOutput ==
    IF ~ loadConfig \/ ~ checkDeploymentAddresses THEN "error"
    ELSE IF \E c \in {"evm", "soroban"} : checkPreflight[c] = "unconfigured" THEN "error"
    ELSE IF \A c \in {"evm", "soroban"} : checkPreflight[c] = "active" THEN "healthy"
    ELSE "degraded"

(* run starts its listeners; inactive registries only warn.                *)
runStarts ==
    /\ loadConfig /\ checkDeploymentAddresses
    /\ checkResolverNetworkAgreement /\ checkCoordinatorNetwork

-----------------------------------------------------------------------------
(* The register command.                                                   *)

Waiting == [at |-> "idle", amount |-> Default, evm |-> FALSE, soroban |-> FALSE]
hasSoroban == Given(env.sorobanRegistry) /\ Given(env.secret)

Goto(r, step) == cli' = [cli EXCEPT ![r].at = step]

registerCommand(r, amount, dryRun) ==
    /\ cli[r].at = "idle"
    /\ IF /\ loadConfig /\ checkResolverNetworkAgreement
          /\ Given(env.evmRegistry) /\ env.key = "set"
       THEN cli' = [cli EXCEPT ![r] = [at |-> IF dryRun THEN "dryRun" ELSE "validate",
                                       amount |-> amount, evm |-> FALSE, soroban |-> FALSE]]
       ELSE Goto(r, "failed")
    /\ UNCHANGED <<worldVars, staked, allowance, inFlight>>

(* validateEvmRegistry, then validateSorobanRegistry: what they read is    *)
(* kept in the run and decides what it registers.                          *)
validateRegistries(r) ==
    /\ cli[r].at \in {"dryRun", "validate"}
    /\ IF /\ evmRpc = "up" /\ Readable(env.evmRegistry)
          /\ hasSoroban => /\ env.secret = "set" /\ sorobanRpc = "up"
                           /\ Readable(env.sorobanRegistry)
       THEN cli' = [cli EXCEPT
              ![r].evm = ~ isActive("evm"),
              ![r].soroban = hasSoroban /\ ~ isActive("soroban"),
              ![r].at = IF cli[r].at = "dryRun" THEN "planned"
                        ELSE IF ~ isActive("evm") THEN "approve"
                        ELSE IF hasSoroban /\ ~ isActive("soroban") THEN "simulate"
                        ELSE "ok"]
       ELSE Goto(r, "failed")
    /\ UNCHANGED <<worldVars, staked, allowance, inFlight>>

EvmStake(r) == IF cli[r].amount = Default THEN EvmMin ELSE cli[r].amount * Unit
SorobanStake(r) == cli[r].amount

approve(r) ==
    /\ cli[r].at = "approve"
    /\ IF evmRpc = "up" /\ EvmStake(r) >= EvmMin
       THEN allowance' = EvmStake(r) /\ Goto(r, "register")
       ELSE UNCHANGED allowance /\ Goto(r, "failed")
    /\ UNCHANGED <<worldVars, staked, inFlight>>

(* The transaction may revert; its receipt's status is not looked at.      *)
registerEvm(r) ==
    /\ cli[r].at = "register"
    /\ IF evmRpc # "up"
       THEN Goto(r, "failed") /\ UNCHANGED <<staked, allowance>>
       ELSE /\ IF staked.evm = 0 /\ funded /\ allowance >= EvmStake(r)
               THEN /\ staked' = [staked EXCEPT !.evm = EvmStake(r)]
                    /\ allowance' = allowance - EvmStake(r)
               ELSE UNCHANGED <<staked, allowance>>
            /\ Goto(r, IF cli[r].soroban THEN "simulate" ELSE "ok")
    /\ UNCHANGED <<worldVars, inFlight>>

SorobanAccepts(r) ==
    staked.soroban = 0 /\ funded /\ SorobanStake(r) >= SorobanMin

simulateSoroban(r) ==
    /\ cli[r].at = "simulate"
    /\ IF sorobanRpc = "up" /\ SorobanAccepts(r)
       THEN inFlight' = inFlight \cup {r} /\ Goto(r, "poll")
       ELSE UNCHANGED inFlight /\ Goto(r, "failed")
    /\ UNCHANGED <<worldVars, staked, allowance>>

(* The ledger settles a sent transaction, before or after the run gave up. *)
SorobanSettles(r) ==
    /\ r \in inFlight
    /\ inFlight' = inFlight \ {r}
    /\ IF SorobanAccepts(r)
       THEN /\ staked' = [staked EXCEPT !.soroban = SorobanStake(r)]
            /\ cli' = IF cli[r].at = "poll" THEN [cli EXCEPT ![r].at = "landed"] ELSE cli
       ELSE /\ UNCHANGED staked
            /\ cli' = IF cli[r].at = "poll" THEN [cli EXCEPT ![r].at = "rejected"] ELSE cli
    /\ UNCHANGED <<worldVars, allowance>>

(* After the polls: SUCCESS, FAILED, or 60 s without an answer.            *)
Verdict_Hopeful(at) == IF at = "rejected" THEN "failed" ELSE "ok"
Verdict(at) == IF at = "landed" THEN "ok" ELSE "failed"

pollSoroban(r) ==
    /\ cli[r].at \in {"poll", "landed", "rejected"}
    /\ Goto(r, IF sorobanRpc = "up" THEN Verdict(cli[r].at) ELSE "failed")
    /\ UNCHANGED <<worldVars, staked, allowance, inFlight>>

(* unregister is Ethereum only.                                            *)
unregisterCommand ==
    /\ loadConfig /\ Readable(env.evmRegistry) /\ env.key = "set" /\ evmRpc = "up"
    /\ staked.evm > 0
    /\ staked' = [staked EXCEPT !.evm = 0]
    /\ UNCHANGED <<worldVars, allowance, cli, inFlight>>

RpcChanges ==
    /\ evmRpc' \in {"up", "down", "other"} /\ sorobanRpc' \in {"up", "down"}
    /\ UNCHANGED <<env, funded, staked, allowance, cli, inFlight>>

CliInit ==
    /\ env \in Envs
    /\ evmRpc \in {"up", "down", "other"} /\ sorobanRpc \in {"up", "down"}
    /\ staked = [evm |-> 0, soroban |-> 0] /\ allowance = 0
    /\ funded \in BOOLEAN
    /\ cli = [r \in CliRuns |-> Waiting] /\ inFlight = {}

CliNext ==
    \/ \E r \in CliRuns :
          \/ \E amount \in StakeAmounts \cup {Default}, dryRun \in BOOLEAN :
                registerCommand(r, amount, dryRun)
          \/ validateRegistries(r) \/ approve(r) \/ registerEvm(r)
          \/ simulateSoroban(r) \/ SorobanSettles(r) \/ pollSoroban(r)
    \/ unregisterCommand \/ RpcChanges

CliSpec == CliInit /\ [][CliNext]_cliVars

-----------------------------------------------------------------------------
(* The shapes of the command line's state.                                 *)
CliTypeOK ==
    /\ env \in Envs
    /\ DOMAIN staked = {"evm", "soroban"} /\ allowance >= 0
    /\ inFlight \subseteq CliRuns
    /\ \A r \in CliRuns : cli[r].at \in
          {"idle", "dryRun", "validate", "planned", "approve", "register",
           "simulate", "poll", "landed", "rejected", "ok", "failed"}

(* The three checkers read the same settings with three implementations    *)
(* and do not contradict each other: an environment that readiness calls   *)
(* READY has no setting preflight would fail, one that check calls healthy *)
(* passes preflight, and run never starts where check reports an error.    *)
CheckersAgree ==
    /\ assessReadiness =>
          \A c \in {"agreement", "evmKey", "secret", "evmRegistry", "sorobanRegistry",
                    "evmNetwork", "sorobanNetwork"} : runPreflightChecks[c] = "PASS"
    /\ buildJsonOutput = "healthy" => preflightCommand
    /\ runStarts => buildJsonOutput # "error" \/ env.key # "set"

(* A register run that ends well has the resolver staked in the Soroban    *)
(* registry when one is configured, however its transaction was delayed    *)
(* and whichever other run raced it.                                       *)
OkMeansSorobanStaked ==
    \A r \in CliRuns :
        cli[r].at = "ok" /\ hasSoroban => staked.soroban >= SorobanMin

=============================================================================
