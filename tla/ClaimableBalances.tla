------------------------- MODULE ClaimableBalances -------------------------
(***************************************************************************)
(* The Stellar claimable-balance client: funding a balance, and claiming   *)
(* or refunding one after it was loaded from Horizon and matched against   *)
(* the order's escrow terms.  Loading, matching and submitting are         *)
(* separated by awaits, during which other requests and the network run.   *)
(*                                                                         *)
(* Both claimants of a balance are unconditional, as createClaimableBalance*)
(* builds them; the preimage is compared by the client only.               *)
(***************************************************************************)
EXTENDS Naturals, FiniteSets

CONSTANTS
    Deals,          \* orders, each with the escrow terms it expects
    Accounts,       \* Stellar accounts
    BalanceAmounts, \* amounts in stroops
    Callers,        \* concurrent claimWithPreimage and refundExpired calls
    MinLock,        \* 3600 seconds
    MaxLock,        \* 604800 seconds
    MaxBalances     \* bound on the balances created

VARIABLES
    terms,      \* EscrowTerms of each order: amount, claimant
    balances,   \* claimable balances on the network, by id
    funded,     \* per order, the balances createClaimableBalance funded for it
    call,       \* calls in progress
    settled     \* claim operations that took effect: [deal, balance, by]

claimableVars == <<terms, balances, funded, call, settled>>

Idle == [at |-> "idle"]
BalanceIds == 1..MaxBalances
Terms == [amount : BalanceAmounts, claimant : Accounts]

-----------------------------------------------------------------------------
(* createClaimableBalance: a 64-digit hash lock without prefix and a       *)
(* timelock between an hour and a week ahead are required, and then not    *)
(* used.  The transaction lands, or the submission throws with or without  *)
(* the transaction landing.  Horizon answers with an encoded result, in    *)
(* which extractClaimableBalanceId finds no id: the call throws even when  *)
(* the balance exists.                                                     *)
validateHashLock(format) == format = "hex64"
validateTimelock(lock) == MinLock <= lock /\ lock <= MaxLock

(* An answer lands when the network accepted the transaction, also when    *)
(* the answer itself is lost on the way back.                              *)
Lands(answer) == answer \in {"encoded", "lost"}

createClaimableBalance(d, source, format, lock, answer) ==
    LET id == Cardinality(UNION {funded[e] : e \in Deals}) + 1
    IN  /\ id \in BalanceIds
        /\ validateHashLock(format)
        /\ validateTimelock(lock)
        /\ Lands(answer)
        /\ balances' = [balances EXCEPT ![id] =
                [amount |-> terms[d].amount, claimants |-> {terms[d].claimant, source},
                 state |-> "open"]]
        /\ funded' = [funded EXCEPT ![d] = @ \cup {id}]
        /\ UNCHANGED <<terms, call, settled>>

-----------------------------------------------------------------------------
(* loadBalance: Horizon knows the balances that were created and not yet   *)
(* claimed; the lookup may also fail.                                      *)
Found(id) == balances[id].state = "open"

verifyBalanceMatchesEscrow_AmountOnly(balance, t) == balance.amount = t.amount
verifyBalanceMatchesEscrow(balance, t) ==
    /\ balance.amount = t.amount
    /\ t.claimant \in balance.claimants

(* claimWithPreimage and refundExpired up to the await on the account: the *)
(* caller names a balance id and the terms of its order.  A refusal throws *)
(* BalanceMismatchError and no transaction is built.                       *)
loadAndVerifyBalance(c, kind, d, id, signer) ==
    /\ call[c] = Idle
    /\ Found(id)
    /\ verifyBalanceMatchesEscrow(balances[id], terms[d])
    /\ call' = [call EXCEPT ![c] = [at |-> kind, deal |-> d, balance |-> id, signer |-> signer]]
    /\ UNCHANGED <<terms, balances, funded, settled>>

(* A claim compares keccak256 of the preimage with expectedHashLock, if    *)
(* the caller gave one; a refund does not look at the timelock.            *)
preimageAccepted(kind, hashLock) == kind = "refund" \/ hashLock \in {"absent", "matches"}

(* The claim operation reaches the network: it takes effect if the balance *)
(* is still there and the signer one of its claimants, and fails else.     *)
submitTransaction(c, hashLock) ==
    LET id == call[c].balance
        lands == Found(id) /\ call[c].signer \in balances[id].claimants
    IN  /\ call[c] # Idle
        /\ preimageAccepted(call[c].at, hashLock)
        /\ balances' = IF lands THEN [balances EXCEPT ![id].state = "claimed"] ELSE balances
        /\ settled' = IF lands
                      THEN settled \cup {[deal |-> call[c].deal, balance |-> id,
                                          by |-> call[c].signer]}
                      ELSE settled
        /\ call' = [call EXCEPT ![c] = Idle]
        /\ UNCHANGED <<terms, funded>>

(* The preimage does not match, or the account cannot be loaded.           *)
callThrows(c) ==
    /\ call[c] # Idle
    /\ call' = [call EXCEPT ![c] = Idle]
    /\ UNCHANGED <<terms, balances, funded, settled>>

ClaimableInit ==
    /\ terms \in [Deals -> Terms]
    /\ balances = [id \in BalanceIds |->
                     [amount |-> 0, claimants |-> {}, state |-> "absent"]]
    /\ funded = [d \in Deals |-> {}]
    /\ call = [c \in Callers |-> Idle]
    /\ settled = {}

ClaimableNext ==
    \/ \E d \in Deals, source \in Accounts, format \in {"hex64", "prefixed"},
          lock \in MinLock - 1..MaxLock + 1, answer \in {"encoded", "lost", "refused"} :
             createClaimableBalance(d, source, format, lock, answer)
    \/ \E c \in Callers :
          \/ \E kind \in {"claim", "refund"}, d \in Deals, id \in BalanceIds, signer \in Accounts :
                loadAndVerifyBalance(c, kind, d, id, signer)
          \/ \E hashLock \in {"absent", "matches", "differs"} : submitTransaction(c, hashLock)
          \/ callThrows(c)

ClaimableSpec == ClaimableInit /\ [][ClaimableNext]_claimableVars

-----------------------------------------------------------------------------
(* Terms, balances and calls have their shapes.                            *)
ClaimableTypeOK ==
    /\ terms \in [Deals -> Terms]
    /\ \A id \in BalanceIds : /\ balances[id].amount \in BalanceAmounts \cup {0}
                              /\ balances[id].claimants \subseteq Accounts
    /\ \A c \in Callers : call[c] # Idle => call[c].balance \in BalanceIds

(* "A swapped or foreign balance id must never reach a                     *)
(* claimClaimableBalance operation" (claimable-balance.ts): whatever other *)
(* calls do between the load and the submission, a balance settled for an  *)
(* order holds that order's amount and pays its claimant, and no balance   *)
(* is settled twice.                                                       *)
SettledAsAgreed ==
    /\ \A s \in settled : /\ balances[s.balance].amount = terms[s.deal].amount
                          /\ terms[s.deal].claimant \in balances[s.balance].claimants
    /\ \A s, t \in settled : s.balance = t.balance => s = t

=============================================================================
