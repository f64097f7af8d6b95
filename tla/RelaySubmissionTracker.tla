----------------------- MODULE RelaySubmissionTracker -----------------------
(***************************************************************************)
(* The relayer's single door to the chains                                 *)
(* (relayer/src/relay-submission-tracker.ts): handlers, the refund         *)
(* watchdog and the recovery service all move money through submit().      *)
(*                                                                         *)
(* Node runs one callback at a time, so an action is what happens between  *)
(* two awaits: submit() up to the stager, the stager's answer up to the    *)
(* broadcast, the broadcast's answer, one poll of reconcile().  A crash    *)
(* loses the process and keeps the store and the chain.                    *)
(***************************************************************************)
EXTENDS Naturals, FiniteSets

CONSTANTS
    Orders,          \* (orderId, side) pairs: the scope of the order lock
    Actions,         \* claim, refund, ...
    MaxAttempts,     \* polls one reconcile() call may spend
    MaxStages,       \* bound: transactions the stager of one key ever signs
    MaxCrashes,      \* bound: restarts of the relayer
    NotFoundIsFinal  \* TRUE: a node that does not know a hash never will

ASSUME TrackerAssumption ==
    /\ MaxAttempts \in Nat \ {0}
    /\ MaxStages \in Nat \ {0}
    /\ MaxCrashes \in Nat
    /\ NotFoundIsFinal \in BOOLEAN

VARIABLES
    records,   \* the in-memory Map, per key
    store,     \* the file the last successful save() wrote
    driver,    \* what the promise in `inflight` is waiting for, per key
    polls,     \* polls spent by the reconcile() call in progress, per key
    chain,     \* per key and signed transaction, what became of it
    crashes,   \* restarts so far
    durability \* history: did the last save() fail, did a restart suffer of it

vars == <<records, store, driver, polls, chain, crashes, durability>>

(* computeSubmissionKey: order, side and action only.                      *)
Keys == Orders \X Actions
computeOrderKey(key) == key[1]

Tx == 1 .. MaxStages
TxStates == {"unsigned", "live", "landed", "reverted", "dropped"}
Statuses == {"absent", "in_flight", "pending", "succeeded", "failed"}
Reasons == {"none", "staging_failed", "non_retryable", "failed", "not_found"}
Record == [status: Statuses, reason: Reasons, txHash: 0 .. MaxStages]

Absent == [status |-> "absent", reason |-> "none", txHash |-> 0]
Reserved == [status |-> "in_flight", reason |-> "none", txHash |-> 0]

Signed(key) == {n \in Tx : chain[key][n] # "unsigned"}
NextTx(key) == Cardinality(Signed(key)) + 1

-----------------------------------------------------------------------------
(* getBlockingRecord: another key of the same order that is not failed.    *)
Blocks_SettledReleases(status) == status \in {"in_flight", "pending"}
Blocks(status) == status \notin {"absent", "failed"}

getBlockingRecord(recs, key) ==
    {k \in Keys \ {key} : /\ computeOrderKey(k) = computeOrderKey(key)
                          /\ Blocks(recs[k].status)}

(* persist() writes the whole snapshot and swallows a failing save().      *)
SaveOutcome(outcome) ==
    durability' = IF durability = "lost" THEN "lost" ELSE outcome

persist(recs) ==
    /\ records' = recs
    /\ \/ store' = recs /\ SaveOutcome("saved")
       \/ store' = store /\ SaveOutcome("unsaved")

fail(key, reason) ==
    [records EXCEPT ![key].status = "failed", ![key].reason = reason]

settleSuccess(key) == [records EXCEPT ![key].status = "succeeded"]

Idle(key) ==
    /\ driver' = [driver EXCEPT ![key] = "none"]
    /\ polls' = [polls EXCEPT ![key] = 0]

-----------------------------------------------------------------------------
(* submit() for a key that holds nothing, or a failure known to precede    *)
(* any broadcast.  The stale record is deleted before the lock is tested,  *)
(* and stays deleted when the lock refuses the caller.                     *)
Restageable(rec) ==
    \/ rec.status = "absent"
    \/ rec.status = "failed" /\ rec.reason = "staging_failed"

submitFresh(key) ==
    /\ Restageable(records[key])
    /\ getBlockingRecord(records, key) = {}
    /\ records' = [records EXCEPT ![key] = Reserved]
    /\ \/ store' = records' /\ SaveOutcome("saved")
       \/ /\ store' \in {store, [records EXCEPT ![key] = Absent]}
          /\ SaveOutcome("unsaved")
    /\ driver' = [driver EXCEPT ![key] = "staging"]
    /\ UNCHANGED <<polls, chain, crashes>>

submitRefused(key) ==
    /\ records[key].status = "failed"
    /\ Restageable(records[key])
    /\ getBlockingRecord(records, key) # {}
    /\ persist([records EXCEPT ![key] = Absent])
    /\ UNCHANGED <<driver, polls, chain, crashes>>

(* submit() for a key whose hash is known and which nobody drives.         *)
submitAttach(key) ==
    /\ records[key].status = "pending"
    /\ driver[key] = "none"
    /\ driver' = [driver EXCEPT ![key] = "reconciling"]
    /\ polls' = [polls EXCEPT ![key] = 0]
    /\ UNCHANGED <<records, store, chain, crashes, durability>>

(* broadcastOnce(), first half: the stager throws, times out or returns no *)
(* hash.                                                                   *)
stagingFails(key, reason) ==
    /\ driver[key] = "staging"
    /\ persist(fail(key, reason))
    /\ Idle(key)
    /\ UNCHANGED <<chain, crashes>>

(* broadcastOnce(), second half: the hash is recorded and saved, then the  *)
(* broadcast closure is invoked in the same turn.                          *)
HashFirst_SavedAfter(key, n) ==
    /\ records' = [records EXCEPT ![key].status = "pending",
                                  ![key].txHash = n]
    /\ UNCHANGED <<store, durability>>
HashFirst(key, n) ==
    persist([records EXCEPT ![key].status = "pending", ![key].txHash = n])

broadcastOnce(key) ==
    /\ driver[key] = "staging"
    /\ NextTx(key) \in Tx
    /\ HashFirst(key, NextTx(key))
    /\ chain' = [chain EXCEPT ![key][NextTx(key)] = "live"]
    /\ driver' = [driver EXCEPT ![key] = "broadcasting"]
    /\ UNCHANGED <<polls, crashes>>

broadcastConfirmed(key) ==
    /\ driver[key] = "broadcasting"
    /\ chain[key][records[key].txHash] = "landed"
    /\ persist(settleSuccess(key))
    /\ Idle(key)
    /\ UNCHANGED <<chain, crashes>>

(* Timeout or error: ambiguous, so the retry attaches to the stored hash.  *)
broadcastAmbiguous(key) ==
    /\ driver[key] = "broadcasting"
    /\ persist(records)
    /\ driver' = [driver EXCEPT ![key] = "reconciling"]
    /\ UNCHANGED <<polls, chain, crashes>>

(* createRelayConfirmer: what a node may say of a transaction.  Horizon    *)
(* answers 404 for a payment that is still queued.                         *)
confirmStates(txState) ==
    CASE txState = "landed"   -> {"succeeded"}
      [] txState = "reverted" -> {"failed"}
      [] txState = "dropped"  -> {"not_found"}
      [] OTHER -> {"pending"} \cup (IF NotFoundIsFinal THEN {} ELSE {"not_found"})

(* One turn of reconcile()'s loop, given the answer of confirm.            *)
MorePolls_OneTooMany(spent) == spent <= MaxAttempts
MorePolls(spent) == spent < MaxAttempts

Exhausted_KeepsLock(key, answer) == records
Exhausted(key, answer) ==
    IF answer = "not_found" THEN fail(key, "not_found") ELSE records

reconcile(key, answer) ==
    /\ driver[key] = "reconciling"
    /\ LET spent == polls[key] + 1 IN
       CASE answer = "succeeded" -> persist(settleSuccess(key)) /\ Idle(key)
         [] answer = "failed" -> persist(fail(key, "failed")) /\ Idle(key)
         [] answer \in {"pending", "not_found"} /\ MorePolls(spent) ->
              /\ persist(records)
              /\ polls' = [polls EXCEPT ![key] = spent]
              /\ UNCHANGED driver
         [] OTHER -> persist(Exhausted(key, answer)) /\ Idle(key)
    /\ UNCHANGED <<chain, crashes>>

pollAnswered(key) ==
    /\ driver[key] = "reconciling"
    /\ \E answer \in confirmStates(chain[key][records[key].txHash]) :
          reconcile(key, answer)

(* confirm threw, or could not reach a node: counted as "pending".         *)
pollErrored(key) == reconcile(key, "pending")

-----------------------------------------------------------------------------
(* restore() in the constructor of the next process.                       *)
normalizePersistedStatus(rec) ==
    IF \/ rec.status = "in_flight"
       \/ rec.status = "pending" /\ rec.txHash = 0
    THEN [rec EXCEPT !.status = "failed"]
    ELSE rec

restoredRecord(entry) ==
    LET rec == normalizePersistedStatus(entry) IN
    IF rec.status = "failed" /\ rec.txHash = 0
    THEN [rec EXCEPT !.reason = "staging_failed"]
    ELSE rec

restore == [key \in Keys |-> restoredRecord(store[key])]

Restart ==
    /\ crashes < MaxCrashes
    /\ records' = restore
    /\ driver' = [key \in Keys |-> "none"]
    /\ polls' = [key \in Keys |-> 0]
    /\ crashes' = crashes + 1
    /\ durability' = IF durability = "saved" THEN "saved" ELSE "lost"
    /\ UNCHANGED <<store, chain>>

(* The networks decide what becomes of a transaction they were handed.     *)
TxResolves(key, n) ==
    /\ chain[key][n] = "live"
    /\ \E fate \in {"landed", "reverted", "dropped"} :
          chain' = [chain EXCEPT ![key][n] = fate]
    /\ UNCHANGED <<records, store, driver, polls, crashes, durability>>

Init ==
    /\ records = [key \in Keys |-> Absent]
    /\ store = records
    /\ driver = [key \in Keys |-> "none"]
    /\ polls = [key \in Keys |-> 0]
    /\ chain = [key \in Keys |-> [n \in Tx |-> "unsigned"]]
    /\ crashes = 0
    /\ durability = "saved"

Next ==
    \/ \E key \in Keys :
          \/ submitFresh(key)
          \/ submitRefused(key)
          \/ submitAttach(key)
          \/ \E reason \in {"staging_failed", "non_retryable"} :
                stagingFails(key, reason)
          \/ broadcastOnce(key)
          \/ broadcastConfirmed(key)
          \/ broadcastAmbiguous(key)
          \/ pollAnswered(key)
          \/ pollErrored(key)
          \/ \E n \in Tx : TxResolves(key, n)
    \/ Restart

Spec == Init /\ [][Next]_vars

(* Callbacks that are due run; the networks settle what they were handed;  *)
(* somebody (the watchdog's timer, a client's retry) asks again about an   *)
(* unsettled key; and a node answers the last poll of a call infinitely    *)
(* often, so that not every polling window ends in an RPC error.           *)
TrackerFairness ==
    \A key \in Keys :
        /\ WF_vars(broadcastOnce(key) \/ stagingFails(key, "staging_failed"))
        /\ WF_vars(broadcastConfirmed(key) \/ broadcastAmbiguous(key))
        /\ WF_vars(pollAnswered(key) \/ pollErrored(key))
        /\ SF_vars(pollAnswered(key) /\ polls[key] = MaxAttempts - 1)
        /\ SF_vars(submitAttach(key))
        /\ \A n \in Tx : WF_vars(TxResolves(key, n))

FairSpec == Spec /\ TrackerFairness

-----------------------------------------------------------------------------
(* The shapes of the records, of the drivers and of the chains.            *)
TypeOK ==
    /\ records \in [Keys -> Record]
    /\ store \in [Keys -> Record]
    /\ driver \in [Keys -> {"none", "staging", "broadcasting", "reconciling"}]
    /\ polls \in [Keys -> 0 .. MaxAttempts - 1]
    /\ chain \in [Keys -> [Tx -> TxStates]]
    /\ crashes \in 0 .. MaxCrashes
    /\ durability \in {"saved", "unsaved", "lost"}

NothingLost == durability # "lost"

MayLand(key) == \E n \in Tx : chain[key][n] \in {"live", "landed"}

(* While a transaction of a key may still move money, its record is        *)
(* pending or succeeded under that very hash, so the order lock is held    *)
(* and a retry has a hash to attach to.                                    *)
LiveTransactionIsTracked ==
    \A key \in Keys : MayLand(key) =>
        /\ records[key].status \in {"pending", "succeeded"}
        /\ chain[key][records[key].txHash] \in {"live", "landed"}

(* One logical payment, one transaction: however often callers retry, RPCs *)
(* time out and the relayer restarts, a key never puts a second            *)
(* transaction on the network, and the one that may land is on record,     *)
(* provided no restart lost a write that persist() swallowed (header       *)
(* guarantees 3, 4 and 5).                                                 *)
OneTransactionPerKey ==
    NothingLost =>
        /\ \A key \in Keys : Cardinality(Signed(key)) <= 1
        /\ LiveTransactionIsTracked

Landed(key) == \E n \in Tx : chain[key][n] = "landed"

(* An order is never both claimed and refunded on the chains (header       *)
(* guarantee 2), provided no restart lost a write.  With NotFoundIsFinal   *)
(* FALSE this is what the release of the lock after a run of "not_found"   *)
(* answers puts at risk.                                                   *)
OneActionLands ==
    NothingLost =>
        \A key, other \in Keys :
            /\ computeOrderKey(key) = computeOrderKey(other)
            /\ Landed(key) /\ Landed(other)
            => key = other

(* Every transaction that was recorded is driven to an end: a pending key  *)
(* becomes succeeded or failed, whichever calls timed out on the way.      *)
PendingResolves ==
    \A key \in Keys :
        records[key].status = "pending"
        ~> records[key].status \in {"succeeded", "failed", "absent"}

=============================================================================
