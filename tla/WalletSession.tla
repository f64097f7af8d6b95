--------------------------- MODULE WalletSession ---------------------------
(***************************************************************************)
(* The wallets of the app: useFreighter's mount check, connect, disconnect *)
(* and refreshNetwork, and App.tsx's MetaMask mount check, connect,        *)
(* accountsChanged and "Disconnect All".                                   *)
(*                                                                         *)
(* Every question to an extension is an await: the user clicks on, other   *)
(* calls commit, and the extensions change account and network meanwhile.  *)
(* signTransaction is RefundFlow's subject.                                *)
(***************************************************************************)
EXTENDS Naturals

CONSTANTS
    WalletAccounts,  \* accounts of either extension
    WalletNets,      \* networks Freighter can be on
    WalletCalls,     \* calls of the Freighter hook in flight at one time
    MountCall,       \* the one that the mount effect starts
    MaxClicks        \* bound on the clicks on "Connect"

VARIABLES
    freighter,   \* the hook's state
    hook,        \* per call: what it waits for, and the address it has read
    ethAddress,  \* App's state, NoAccount for ''
    ethCalls,    \* MetaMask requests in flight: "mount", "connect"
    extension,   \* external: Freighter's account and network
    metamask,    \* external: the account MetaMask exposes
    clicks,
    wanted,      \* history: no disconnect since the app was opened or connect clicked
    late         \* history: a call that was in flight at the last disconnect has connected

walletVars == <<freighter, hook, ethAddress, ethCalls, extension, metamask, clicks,
                wanted, late>>
outside == <<extension, metamask>>

NoAccount == "none"
Idle == [kind |-> "idle", awaits |-> "nothing", address |-> NoAccount, overtaken |-> FALSE]
Call(kind, step) == [Idle EXCEPT !.kind = kind, !.awaits = step]
Disconnected == [isConnected |-> FALSE, address |-> NoAccount, isLoading |-> FALSE,
                 error |-> FALSE, network |-> "none"]

-----------------------------------------------------------------------------
Advance(c, step, address) ==
    hook' = [hook EXCEPT ![c].awaits = step, ![c].address = address]
Ends(c) == hook' = [hook EXCEPT ![c] = Idle]

(* connect; the button is shown while no account is, and disabled while    *)
(* isLoading.                                                              *)
connect(c) ==
    /\ hook[c] = Idle /\ clicks < MaxClicks
    /\ ~freighter.isConnected /\ ~freighter.isLoading
    /\ hook' = [hook EXCEPT ![c] = Call("connect", "isConnected")]
    /\ freighter' = [freighter EXCEPT !.isLoading = TRUE, !.error = FALSE]
    /\ clicks' = clicks + 1
    /\ wanted' = TRUE
    /\ UNCHANGED <<ethAddress, ethCalls, outside, late>>

(* freighterApi.isConnected: a missing wallet ends the mount check without *)
(* a trace and is an error of connect.                                     *)
available(c) ==
    /\ hook[c].awaits = "isConnected"
    /\ Advance(c, "getAddress", NoAccount)
    /\ UNCHANGED <<freighter, ethAddress, ethCalls, outside, clicks, wanted, late>>

notThere(c) ==
    /\ hook[c].kind = "mount" /\ hook[c].awaits = "isConnected"
    /\ Ends(c)
    /\ UNCHANGED <<freighter, ethAddress, ethCalls, outside, clicks, wanted, late>>

(* setAllowed and getAddress: the account is read here and shown two       *)
(* awaits later.                                                           *)
getAddress(c) ==
    /\ hook[c].awaits = "getAddress"
    /\ Advance(c, "getNetwork", extension.account)
    /\ UNCHANGED <<freighter, ethAddress, ethCalls, outside, clicks, wanted, late>>

(* A question throws.  The mount check notes the error; connect also takes *)
(* the connection down.                                                    *)
AfterThrow(kind) ==
    IF kind = "mount" THEN [freighter EXCEPT !.error = TRUE]
    ELSE [Disconnected EXCEPT !.error = TRUE, !.network = freighter.network]

throws(c) ==
    /\ hook[c].awaits \in {"isConnected", "getAddress"}
    /\ freighter' = AfterThrow(hook[c].kind)
    /\ Ends(c)
    /\ UNCHANGED <<ethAddress, ethCalls, outside, clicks, wanted, late>>

(* getNetwork answers, or fails and is ignored; then the state is set. The *)
(* mount check leaves isLoading, refreshNetwork sets the network only, and *)
(* nothing when it fails.                                                  *)
setState(c, network) ==
    LET call == hook[c] IN
    /\ call.awaits = "getNetwork"
    /\ freighter' =
         IF call.kind = "refresh"
         THEN IF network = "none" THEN freighter ELSE [freighter EXCEPT !.network = network]
         ELSE [isConnected |-> TRUE, address |-> call.address, network |-> network,
               error |-> FALSE, isLoading |-> call.kind = "mount" /\ freighter.isLoading]
    /\ Ends(c)
    /\ late' = (late \/ (call.kind # "refresh" /\ call.overtaken))
    /\ UNCHANGED <<ethAddress, ethCalls, outside, clicks, wanted>>

(* networkChange, freighter:networkChange, stellar:networkChange, popstate *)
refreshNetwork(c) ==
    /\ hook[c] = Idle
    /\ hook' = [hook EXCEPT ![c] = Call("refresh", "getNetwork")]
    /\ UNCHANGED <<freighter, ethAddress, ethCalls, outside, clicks, wanted, late>>

-----------------------------------------------------------------------------
connectMetaMask ==
    /\ ethAddress = NoAccount /\ "connect" \notin ethCalls
    /\ clicks < MaxClicks /\ clicks' = clicks + 1
    /\ ethCalls' = ethCalls \cup {"connect"}
    /\ UNCHANGED <<freighter, hook, ethAddress, outside, wanted, late>>

(* eth_accounts or eth_requestAccounts answers or throws.                  *)
metaMaskAnswers(call, ok) ==
    /\ call \in ethCalls
    /\ ethCalls' = ethCalls \ {call}
    /\ ethAddress' = IF ok /\ metamask # NoAccount THEN metamask ELSE ethAddress
    /\ UNCHANGED <<freighter, hook, outside, clicks, wanted, late>>

(* MetaMask exposes another account, or none: handleAccountsChanged.       *)
accountsChanged(account) ==
    /\ account # metamask
    /\ metamask' = account
    /\ ethAddress' = account
    /\ UNCHANGED <<freighter, hook, ethCalls, extension, clicks, wanted, late>>

disconnectWallets ==
    /\ freighter.isConnected \/ ethAddress # NoAccount
    /\ freighter' = Disconnected
    /\ ethAddress' = NoAccount
    /\ wanted' = FALSE
    /\ hook' = [c \in WalletCalls |-> [hook[c] EXCEPT !.overtaken = hook[c] # Idle]]
    /\ late' = FALSE
    /\ UNCHANGED <<ethCalls, outside, clicks>>

(* Freighter changes account or network; the hook has no account listener. *)
extensionChanges(account, network) ==
    /\ extension' = [account |-> account, network |-> network]
    /\ extension' # extension
    /\ UNCHANGED <<freighter, hook, ethAddress, ethCalls, metamask, clicks, wanted, late>>

WalletInit ==
    /\ freighter = Disconnected
    /\ hook = [c \in WalletCalls |->
                 IF c = MountCall THEN Call("mount", "isConnected")
                 ELSE Idle]
    /\ ethAddress = NoAccount /\ ethCalls = {"mount"}
    /\ extension \in [account: WalletAccounts, network: WalletNets]
    /\ metamask \in WalletAccounts \cup {NoAccount}
    /\ clicks = 0 /\ wanted = TRUE /\ late = FALSE

WalletNext ==
    \/ \E c \in WalletCalls :
          \/ connect(c) \/ available(c) \/ notThere(c) \/ getAddress(c) \/ throws(c)
          \/ \E network \in {extension.network, "none"} : setState(c, network)
          \/ refreshNetwork(c)
    \/ connectMetaMask
    \/ \E call \in {"mount", "connect"}, ok \in BOOLEAN : metaMaskAnswers(call, ok)
    \/ \E account \in WalletAccounts \cup {NoAccount} : accountsChanged(account)
    \/ disconnectWallets
    \/ \E account \in WalletAccounts, network \in WalletNets : extensionChanges(account, network)

-----------------------------------------------------------------------------
\* The hook's state and its calls have their shapes.
WalletTypeOK ==
    /\ freighter \in [isConnected: BOOLEAN, address: WalletAccounts \cup {NoAccount},
                      isLoading: BOOLEAN, error: BOOLEAN, network: WalletNets \cup {"none"}]
    /\ ethAddress \in WalletAccounts \cup {NoAccount}
    /\ ethCalls \subseteq {"mount", "connect"}

\* The "Connect" button is disabled only while a connect call is still waiting
\* for the wallet, although disconnect clears isLoading under a running call
\* and several calls may end in any order.
NeverStuckConnecting ==
    freighter.isLoading => \E c \in WalletCalls : hook[c].kind = "connect"

\* After "Disconnect All" no Stellar account comes back until the user clicks
\* connect, unless a call that was in flight at the disconnect answers late.
DisconnectLasts ==
    freighter.isConnected /\ ~wanted => late
=============================================================================
