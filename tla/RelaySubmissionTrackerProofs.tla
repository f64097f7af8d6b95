-------------------- MODULE RelaySubmissionTrackerProofs --------------------
(***************************************************************************)
(* The relayer's tracker signs at most one transaction per key and lets at *)
(* most one action of an order land, for any number of orders and actions, *)
(* any number of retries and any number of restarts, as long as no restart *)
(* loses a write that persist() swallowed.  Beside it, the subscription    *)
(* manager and the WebSocket server keep their queues and audiences.       *)
(***************************************************************************)
EXTENDS MCRelayerServices, FiniteSetTheorems, TLAPS

\* A record without a hash belongs to a key that never signed anything; a
\* record with one names the only transaction of its key, and says it ended
\* only if it did.
RecordTrue(key, rec) ==
    /\ rec.txHash = 0 =>
         /\ Signed(key) = {}
         /\ rec.status \in {"absent", "in_flight", "failed"}
    /\ rec.txHash # 0 =>
         /\ Signed(key) = {rec.txHash}
         /\ rec.status \in {"pending", "succeeded", "failed"}
         /\ rec.status = "succeeded" => chain[key][rec.txHash] = "landed"
         /\ rec.status = "failed" =>
              /\ rec.reason # "staging_failed"
              /\ NotFoundIsFinal => chain[key][rec.txHash] \in {"reverted", "dropped"}

RecordsTrue == \A key \in Keys : RecordTrue(key, records[key])

\* Of the keys of one order at most one holds the order lock.
LockHeldOnce ==
    \A key, other \in Keys :
        /\ computeOrderKey(key) = computeOrderKey(other)
        /\ Blocks(records[key].status) /\ Blocks(records[other].status)
        => key = other

\* A promise in `inflight` matches the record it drives.
DriversMatch ==
    \A key \in Keys :
        /\ driver[key] = "staging" => records[key].status = "in_flight"
        /\ driver[key] \in {"broadcasting", "reconciling"}
             => records[key].status = "pending"

\* After a successful save a restart would find what is in memory.
StoreCurrent ==
    durability = "saved" =>
        \A key \in Keys : restoredRecord(store[key]) = restoredRecord(records[key])

\* The inductive invariant: what a record says is true only if a restart
\* restores records that are true, and the lock is exclusive only if no
\* record that holds it is forgotten.
TrackerInv ==
    /\ TypeOK
    /\ DriversMatch
    /\ NothingLost => RecordsTrue /\ LockHeldOnce /\ StoreCurrent

-----------------------------------------------------------------------------
(* Restoring a record.                                                     *)

\* A restored record is the record, except that one without a hash is failed
\* before any broadcast.
LEMMA RestoredFacts ==
    ASSUME NEW rec \in Record
    PROVE  /\ restoredRecord(rec) \in Record
           /\ restoredRecord(rec).txHash = rec.txHash
           /\ rec.txHash # 0 /\ rec.status # "in_flight" => restoredRecord(rec) = rec
           /\ restoredRecord(rec).status \in {rec.status, "failed"}
           /\ rec.status = "in_flight" => restoredRecord(rec).status = "failed"
           /\ restoredRecord(restoredRecord(rec)) = restoredRecord(rec)
<1> DEFINE norm == normalizePersistedStatus(rec)
<1>1. /\ norm \in Record /\ norm.txHash = rec.txHash /\ norm.reason = rec.reason
      /\ norm.status \in {rec.status, "failed"}
      /\ norm.status # "in_flight"
      /\ norm.status = "pending" => norm.txHash # 0
      /\ rec.txHash # 0 /\ rec.status # "in_flight" => norm = rec
      /\ rec.status = "in_flight" => norm.status = "failed"
  BY DEF normalizePersistedStatus, Record, Statuses
<1> DEFINE rest == restoredRecord(rec)
<1>2. rest = IF norm.status = "failed" /\ norm.txHash = 0
             THEN [norm EXCEPT !.reason = "staging_failed"] ELSE norm
  BY DEF restoredRecord
<1> HIDE DEF norm
<1>3. /\ rest \in Record /\ rest.txHash = norm.txHash /\ rest.status = norm.status
      /\ norm.txHash # 0 => rest = norm
      /\ rest.status = "failed" /\ rest.txHash = 0 => rest.reason = "staging_failed"
  BY <1>1, <1>2 DEF Record, Reasons
<1> HIDE DEF rest
<1>4. normalizePersistedStatus(rest) = rest
  BY <1>1, <1>3 DEF normalizePersistedStatus
<1>5. restoredRecord(rest) = rest
  <2>1. rest.status = "failed" /\ rest.txHash = 0 => [rest EXCEPT !.reason = "staging_failed"] = rest
    BY <1>3 DEF Record
  <2> QED BY <1>4, <2>1 DEF restoredRecord
<1> QED
  BY <1>1, <1>3, <1>5 DEF rest

\* A restored record is as true as the one it was saved from.
LEMMA RestoredTrue ==
    ASSUME NEW key \in Keys, NEW rec \in Record, RecordTrue(key, rec)
    PROVE  RecordTrue(key, restoredRecord(rec))
<1>1. CASE rec.txHash # 0
  <2>1. restoredRecord(rec) = rec
    BY <1>1, RestoredFacts DEF RecordTrue
  <2> QED BY <2>1
<1>2. CASE rec.txHash = 0
  BY <1>2, RestoredFacts DEF RecordTrue
<1> QED
  BY <1>1, <1>2

LEMMA TrackerInvInit == Init => TrackerInv
<1> SUFFICES ASSUME Init PROVE TrackerInv
  OBVIOUS
<1>1. Absent \in Record
  BY TrackerAssumption DEF Absent, Record, Statuses, Reasons
<1>2. TypeOK
  BY <1>1, TrackerAssumption DEF Init, TypeOK, TxStates
<1>3. DriversMatch /\ StoreCurrent
  BY DEF Init, DriversMatch, StoreCurrent
<1>4. RecordsTrue /\ LockHeldOnce
  BY DEF Init, RecordsTrue, RecordTrue, Signed, LockHeldOnce, Absent, Blocks
<1> QED
  BY <1>2, <1>3, <1>4 DEF TrackerInv

-----------------------------------------------------------------------------
(* What every action that rewrites one record has to show.                 *)

Saving ==
    \/ store' = records' /\ SaveOutcome("saved")
    \/ SaveOutcome("unsaved")

\* A step that touches the record, the driver and the transactions of one key
\* keeps the invariant when it leaves that key's record true, its driver
\* matched, and takes the order lock only if nobody else holds it.
LEMMA OneKeyStep ==
    ASSUME TrackerInv, TypeOK', NEW key \in Keys, Saving,
           \A k \in Keys \ {key} : /\ records'[k] = records[k]
                                   /\ driver'[k] = driver[k]
                                   /\ chain'[k] = chain[k],
           driver'[key] = "staging" => records'[key].status = "in_flight",
           driver'[key] \in {"broadcasting", "reconciling"}
               => records'[key].status = "pending",
           NothingLost => RecordTrue(key, records[key])',
           Blocks(records'[key].status)
               => Blocks(records[key].status) \/ getBlockingRecord(records, key) = {}
    PROVE  TrackerInv'
<1>1. DriversMatch'
  BY DEF DriversMatch, TrackerInv
<1>2. ASSUME NothingLost' PROVE NothingLost
  BY <1>2 DEF NothingLost, Saving, SaveOutcome
<1>3. ASSUME NothingLost' PROVE RecordsTrue'
  <2>1. SUFFICES ASSUME NEW k \in Keys PROVE RecordTrue(k, records[k])'
    BY DEF RecordsTrue
  <2>2. CASE k = key
    BY <1>2, <1>3, <2>2
  <2>3. CASE k # key
    <3>1. /\ records'[k] = records[k] /\ chain'[k] = chain[k]
          /\ RecordTrue(k, records[k])
      BY <1>2, <1>3, <2>3 DEF TrackerInv, RecordsTrue
    <3>2. Signed(k)' = Signed(k)
      BY <3>1 DEF Signed
    <3> QED BY <3>1, <3>2 DEF RecordTrue
  <2> QED BY <2>2, <2>3
<1>4. ASSUME NothingLost' PROVE LockHeldOnce'
  <2>1. SUFFICES ASSUME NEW k \in Keys, NEW o \in Keys,
                        computeOrderKey(k) = computeOrderKey(o),
                        Blocks(records'[k].status), Blocks(records'[o].status)
                 PROVE  k = o
    BY DEF LockHeldOnce
  <2>2. LockHeldOnce
    BY <1>2, <1>4 DEF TrackerInv
  <2>3. ASSUME NEW other \in Keys, other # key,
               computeOrderKey(other) = computeOrderKey(key),
               Blocks(records'[other].status), Blocks(records'[key].status)
        PROVE  FALSE
    <3>1. Blocks(records[other].status)
      BY <2>3
    <3>2. getBlockingRecord(records, key) # {}
      BY <2>3, <3>1 DEF getBlockingRecord
    <3>3. Blocks(records[key].status)
      BY <2>3, <3>2
    <3> QED BY <2>2, <2>3, <3>1, <3>3 DEF LockHeldOnce
  <2>4. CASE k = key \/ o = key
    BY <2>1, <2>3, <2>4
  <2>5. CASE k # key /\ o # key
    BY <2>1, <2>2, <2>5 DEF LockHeldOnce
  <2> QED BY <2>4, <2>5
<1>5. ASSUME NothingLost' PROVE StoreCurrent'
  BY <1>5 DEF StoreCurrent, NothingLost, Saving, SaveOutcome
<1> QED
  BY <1>1, <1>3, <1>4, <1>5 DEF TrackerInv

\* persist() is such a save, and keeps the types.
LEMMA PersistFacts ==
    ASSUME TypeOK, NEW recs \in [Keys -> Record],
           records' = recs,
           \/ store' = recs /\ SaveOutcome("saved")
           \/ store' = store /\ SaveOutcome("unsaved")
    PROVE  /\ Saving
           /\ records' \in [Keys -> Record]
           /\ store' \in [Keys -> Record]
           /\ durability' \in {"saved", "unsaved", "lost"}
  BY DEF Saving, TypeOK, SaveOutcome

\* fail() and settleSuccess() change the one record, and not its hash.
LEMMA SettleFacts ==
    ASSUME TypeOK, NEW key \in Keys,
           NEW reason \in Reasons
    PROVE  /\ fail(key, reason) \in [Keys -> Record]
           /\ \A k \in Keys \ {key} : fail(key, reason)[k] = records[k]
           /\ fail(key, reason)[key].status = "failed"
           /\ fail(key, reason)[key].reason = reason
           /\ fail(key, reason)[key].txHash = records[key].txHash
           /\ settleSuccess(key) \in [Keys -> Record]
           /\ \A k \in Keys \ {key} : settleSuccess(key)[k] = records[k]
           /\ settleSuccess(key)[key].status = "succeeded"
           /\ settleSuccess(key)[key].txHash = records[key].txHash
<1>1. /\ records \in [Keys -> Record]
      /\ fail(key, reason) = [records EXCEPT ![key] =
             [records[key] EXCEPT !.status = "failed", !.reason = reason]]
      /\ settleSuccess(key) = [records EXCEPT ![key] =
             [records[key] EXCEPT !.status = "succeeded"]]
  BY DEF TypeOK, fail, settleSuccess
<1>2. /\ [records[key] EXCEPT !.status = "failed", !.reason = reason] \in Record
      /\ [records[key] EXCEPT !.status = "succeeded"] \in Record
  BY <1>1 DEF Record, Statuses
<1> QED
  BY <1>1, <1>2 DEF Record

-----------------------------------------------------------------------------
(* The actions.                                                            *)

\* A key whose record may be staged again has signed nothing: the lock it
\* takes is free, and the record it reserves is true.
LEMMA SubmitFreshStep ==
    ASSUME TrackerInv, NEW key \in Keys, submitFresh(key)
    PROVE  TrackerInv'
<1>1. Reserved \in Record /\ Absent \in Record
  BY TrackerAssumption DEF Reserved, Absent, Record, Statuses, Reasons
<1>2. /\ records \in [Keys -> Record]
      /\ records'[key] = Reserved
      /\ \A k \in Keys \ {key} : records'[k] = records[k]
      /\ records' \in [Keys -> Record]
  BY <1>1 DEF submitFresh, TrackerInv, TypeOK
<1>3. TypeOK'
  <2>1. store' \in [Keys -> Record]
    BY <1>1, <1>2 DEF submitFresh, TrackerInv, TypeOK
  <2>2. durability' \in {"saved", "unsaved", "lost"}
    BY DEF submitFresh, SaveOutcome
  <2> QED BY <1>2, <2>1, <2>2 DEF submitFresh, TrackerInv, TypeOK
<1>4. Saving
  BY DEF submitFresh, Saving
<1>5. /\ driver'[key] = "staging" /\ chain' = chain
      /\ \A k \in Keys \ {key} : driver'[k] = driver[k]
  BY DEF submitFresh, TrackerInv, TypeOK
<1>6. ASSUME NothingLost PROVE RecordTrue(key, records[key])'
  <2>1. Signed(key) = {}
    BY <1>6 DEF TrackerInv, RecordsTrue, RecordTrue, submitFresh, Restageable
  <2>2. Signed(key)' = {}
    BY <1>5, <2>1 DEF Signed
  <2> QED BY <1>2, <2>2 DEF RecordTrue, Reserved
<1>7. records'[key].status = "in_flight"
  BY <1>2 DEF Reserved
<1> QED
  BY <1>2, <1>3, <1>4, <1>5, <1>6, <1>7, OneKeyStep DEF submitFresh

\* A refused caller leaves a deleted record behind, true as before.
LEMMA SubmitRefusedStep ==
    ASSUME TrackerInv, NEW key \in Keys, submitRefused(key)
    PROVE  TrackerInv'
<1>1. Absent \in Record
  BY TrackerAssumption DEF Absent, Record, Statuses, Reasons
<1>2. /\ records \in [Keys -> Record] /\ TypeOK
      /\ records' = [records EXCEPT ![key] = Absent]
      /\ UNCHANGED <<driver, polls, chain, crashes>>
  BY DEF submitRefused, persist, TrackerInv, TypeOK
<1>3. /\ records'[key] = Absent
      /\ \A k \in Keys \ {key} : records'[k] = records[k]
      /\ [records EXCEPT ![key] = Absent] \in [Keys -> Record]
  BY <1>1, <1>2
<1>4. /\ Saving /\ records' \in [Keys -> Record] /\ store' \in [Keys -> Record]
      /\ durability' \in {"saved", "unsaved", "lost"}
  BY <1>2, <1>3, PersistFacts DEF submitRefused, persist
<1>5. TypeOK'
  BY <1>2, <1>4 DEF TypeOK
<1>6. driver[key] \notin {"staging", "broadcasting", "reconciling"}
  BY DEF TrackerInv, DriversMatch, submitRefused
<1>7. ASSUME NothingLost PROVE RecordTrue(key, records[key])'
  <2>1. Signed(key) = {}
    BY <1>7 DEF TrackerInv, RecordsTrue, RecordTrue, submitRefused, Restageable
  <2>2. Signed(key)' = {}
    BY <1>2, <2>1 DEF Signed
  <2> QED BY <1>3, <2>2 DEF RecordTrue, Absent
<1>8. ~Blocks(records'[key].status)
  BY <1>3 DEF Blocks, Absent
<1> QED
  BY <1>2, <1>3, <1>4, <1>5, <1>6, <1>7, <1>8, OneKeyStep

\* Attaching to a known hash only starts a driver.
LEMMA SubmitAttachStep ==
    ASSUME TrackerInv, NEW key \in Keys, submitAttach(key)
    PROVE  TrackerInv'
<1>1. TypeOK'
  BY TrackerAssumption DEF TrackerInv, TypeOK, submitAttach
<1>2. DriversMatch'
  BY DEF TrackerInv, TypeOK, DriversMatch, submitAttach
<1>3. \A k \in Keys : Signed(k)' = Signed(k)
  BY DEF Signed, submitAttach
<1>4. NothingLost' => RecordsTrue' /\ LockHeldOnce' /\ StoreCurrent'
  BY <1>3 DEF TrackerInv, NothingLost, RecordsTrue, RecordTrue, LockHeldOnce,
              StoreCurrent, submitAttach
<1> QED
  BY <1>1, <1>2, <1>4 DEF TrackerInv

\* A stager that failed had signed nothing.
LEMMA StagingFailsStep ==
    ASSUME TrackerInv, NEW key \in Keys,
           NEW reason \in {"staging_failed", "non_retryable"},
           stagingFails(key, reason)
    PROVE  TrackerInv'
<1> DEFINE recs == fail(key, reason)
<1>1. /\ recs \in [Keys -> Record]
      /\ \A k \in Keys \ {key} : recs[k] = records[k]
      /\ recs[key].status = "failed"
      /\ recs[key].txHash = records[key].txHash
  BY SettleFacts DEF TrackerInv, Reasons
<1> HIDE DEF recs
<1>2. /\ TypeOK /\ driver[key] = "staging" /\ persist(recs) /\ Idle(key)
      /\ UNCHANGED <<chain, crashes>>
  BY DEF stagingFails, TrackerInv, recs
<1>3. /\ Saving /\ records' = recs /\ store' \in [Keys -> Record]
      /\ durability' \in {"saved", "unsaved", "lost"}
  BY <1>1, <1>2, PersistFacts DEF persist
<1>4. /\ driver'[key] = "none" /\ \A k \in Keys \ {key} : driver'[k] = driver[k]
      /\ driver' \in [Keys -> {"none", "staging", "broadcasting", "reconciling"}]
      /\ polls' \in [Keys -> 0 .. MaxAttempts - 1]
  BY <1>2, TrackerAssumption DEF Idle, TypeOK
<1>5. TypeOK'
  BY <1>1, <1>2, <1>3, <1>4 DEF TypeOK
<1>6. ASSUME NothingLost PROVE RecordTrue(key, records[key])'
  <2>1. records[key].status = "in_flight"
    BY <1>2 DEF TrackerInv, DriversMatch
  <2>2. records[key].txHash = 0 /\ Signed(key) = {}
    BY <1>6, <2>1 DEF TrackerInv, RecordsTrue, RecordTrue
  <2>3. Signed(key)' = {}
    BY <1>2, <2>2 DEF Signed
  <2> QED BY <1>1, <1>3, <2>2, <2>3 DEF RecordTrue
<1>7. ~Blocks(records'[key].status)
  BY <1>1, <1>3 DEF Blocks
<1> QED
  BY <1>1, <1>2, <1>3, <1>4, <1>5, <1>6, <1>7, OneKeyStep

\* The first transaction of the key: the record without a hash says that
\* nothing was signed before.
LEMMA BroadcastOnceStep ==
    ASSUME TrackerInv, NEW key \in Keys, broadcastOnce(key)
    PROVE  TrackerInv'
<1> DEFINE recs == [records EXCEPT ![key].status = "pending",
                                   ![key].txHash = NextTx(key)]
<1>1. /\ TypeOK /\ records \in [Keys -> Record] /\ driver[key] = "staging"
      /\ NextTx(key) \in Tx
      /\ persist(recs)
      /\ chain' = [chain EXCEPT ![key][NextTx(key)] = "live"]
      /\ driver' = [driver EXCEPT ![key] = "broadcasting"]
      /\ UNCHANGED <<polls, crashes>>
  BY DEF broadcastOnce, HashFirst, TrackerInv, TypeOK
<1>2. PICK n \in Tx : n = NextTx(key)
  BY <1>1
<1>3. recs = [records EXCEPT ![key] =
                 [records[key] EXCEPT !.status = "pending", !.txHash = n]]
  BY <1>1, <1>2
<1>4. n \in 0 .. MaxStages
  BY <1>2, TrackerAssumption DEF Tx
<1>5. PICK rec \in Record :
         /\ rec = [records[key] EXCEPT !.status = "pending", !.txHash = n]
         /\ rec.status = "pending" /\ rec.txHash = n
  <2>1. PICK rec : rec = [records[key] EXCEPT !.status = "pending", !.txHash = n]
    OBVIOUS
  <2>2. rec \in Record /\ rec.status = "pending" /\ rec.txHash = n
    BY <1>1, <1>4, <2>1 DEF Record, Statuses
  <2> QED BY <2>1, <2>2
<1>6. /\ recs \in [Keys -> Record]
      /\ \A k \in Keys \ {key} : recs[k] = records[k]
      /\ recs[key].status = "pending" /\ recs[key].txHash = n
  <2> HIDE DEF recs
  <2>1. recs = [records EXCEPT ![key] = rec]
    BY <1>3, <1>5
  <2> QED BY <1>1, <1>5, <2>1
<1> HIDE DEF recs
<1>7. /\ Saving /\ records' = recs /\ store' \in [Keys -> Record]
      /\ durability' \in {"saved", "unsaved", "lost"}
  BY <1>1, <1>6, PersistFacts DEF persist
<1>8. /\ driver'[key] = "broadcasting"
      /\ \A k \in Keys \ {key} : driver'[k] = driver[k]
      /\ driver' \in [Keys -> {"none", "staging", "broadcasting", "reconciling"}]
  BY <1>1 DEF TypeOK
<1>9. /\ chain \in [Keys -> [Tx -> TxStates]]
      /\ chain'[key] = [chain[key] EXCEPT ![n] = "live"]
      /\ \A k \in Keys \ {key} : chain'[k] = chain[k]
      /\ chain' = [chain EXCEPT ![key] = [chain[key] EXCEPT ![n] = "live"]]
  BY <1>1, <1>2 DEF TypeOK
<1>10. chain' \in [Keys -> [Tx -> TxStates]]
  <2>1. [chain[key] EXCEPT ![n] = "live"] \in [Tx -> TxStates]
    BY <1>2, <1>9 DEF TxStates
  <2> QED BY <1>9, <2>1
<1>11. TypeOK'
  BY <1>1, <1>6, <1>7, <1>8, <1>10 DEF TypeOK
<1>12. records[key].status = "in_flight"
  BY <1>1 DEF TrackerInv, DriversMatch
<1>13. ASSUME NothingLost PROVE RecordTrue(key, records[key])'
  <2>1. Signed(key) = {}
    BY <1>12, <1>13 DEF TrackerInv, RecordsTrue, RecordTrue
  <2>2. \A m \in Tx : chain[key][m] = "unsigned"
    BY <2>1 DEF Signed
  <2>3. /\ chain'[key][n] = "live"
        /\ \A m \in Tx \ {n} : chain'[key][m] = "unsigned"
    BY <1>2, <1>9, <2>2
  <2>4. Signed(key)' = {n}
    BY <1>2, <2>3 DEF Signed
  <2>5. n # 0
    BY <1>2, TrackerAssumption DEF Tx
  <2> QED BY <1>6, <1>7, <2>4, <2>5 DEF RecordTrue
<1>14. Blocks(records[key].status)
  BY <1>12 DEF Blocks
<1> QED
  BY <1>6, <1>7, <1>8, <1>9, <1>11, <1>13, <1>14, OneKeyStep

\* A driven key's record names its one transaction.
LEMMA PendingFacts ==
    ASSUME TrackerInv, NEW key \in Keys, NothingLost,
           driver[key] \in {"broadcasting", "reconciling"}
    PROVE  /\ records[key].txHash # 0
           /\ Signed(key) = {records[key].txHash}
  BY DEF TrackerInv, DriversMatch, RecordsTrue, RecordTrue

\* The answers that leave the record as it is: it stays pending.
LEMMA StillPendingStep ==
    ASSUME TrackerInv, NEW key \in Keys,
           driver[key] \in {"broadcasting", "reconciling"},
           persist(records),
           driver' \in [Keys -> {"none", "staging", "broadcasting", "reconciling"}],
           polls' \in [Keys -> 0 .. MaxAttempts - 1],
           driver'[key] # "staging",
           \A k \in Keys \ {key} : driver'[k] = driver[k],
           UNCHANGED <<chain, crashes>>
    PROVE  TrackerInv'
<1>1. TypeOK /\ records \in [Keys -> Record] /\ records' = records
  BY DEF TrackerInv, TypeOK, persist
<1>2. /\ Saving /\ store' \in [Keys -> Record]
      /\ durability' \in {"saved", "unsaved", "lost"}
  BY <1>1, PersistFacts DEF persist
<1>3. TypeOK'
  BY <1>1, <1>2 DEF TypeOK
<1>4. records[key].status = "pending"
  BY DEF TrackerInv, DriversMatch
<1>5. ASSUME NothingLost PROVE RecordTrue(key, records[key])'
  <2>1. RecordTrue(key, records[key])
    BY <1>5 DEF TrackerInv, RecordsTrue
  <2>2. Signed(key)' = Signed(key)
    BY DEF Signed
  <2> QED BY <1>1, <2>1, <2>2 DEF RecordTrue
<1> QED
  BY <1>1, <1>2, <1>3, <1>4, <1>5, OneKeyStep

\* A transaction that landed settles its record.
LEMMA SucceededStep ==
    ASSUME TrackerInv, NEW key \in Keys,
           driver[key] \in {"broadcasting", "reconciling"},
           chain[key][records[key].txHash] = "landed",
           persist(settleSuccess(key)), Idle(key), UNCHANGED <<chain, crashes>>
    PROVE  TrackerInv'
<1> DEFINE recs == settleSuccess(key)
<1>1. /\ recs \in [Keys -> Record]
      /\ \A k \in Keys \ {key} : recs[k] = records[k]
      /\ recs[key].status = "succeeded"
      /\ recs[key].txHash = records[key].txHash
  <2>1. "none" \in Reasons
    BY DEF Reasons
  <2> QED BY <2>1, SettleFacts DEF TrackerInv
<1>2. persist(recs)
  OBVIOUS
<1> HIDE DEF recs
<1>3. TypeOK
  BY DEF TrackerInv
<1>4. /\ Saving /\ records' = recs /\ store' \in [Keys -> Record]
      /\ durability' \in {"saved", "unsaved", "lost"}
  BY <1>1, <1>2, <1>3, PersistFacts DEF persist
<1>5. /\ driver'[key] = "none" /\ \A k \in Keys \ {key} : driver'[k] = driver[k]
      /\ driver' \in [Keys -> {"none", "staging", "broadcasting", "reconciling"}]
      /\ polls' \in [Keys -> 0 .. MaxAttempts - 1]
  BY <1>3, TrackerAssumption DEF Idle, TypeOK
<1>6. TypeOK'
  BY <1>1, <1>3, <1>4, <1>5 DEF TypeOK
<1>7. ASSUME NothingLost PROVE RecordTrue(key, records[key])'
  <2>1. Signed(key)' = Signed(key)
    BY DEF Signed
  <2> QED BY <1>1, <1>4, <1>7, <2>1, PendingFacts DEF RecordTrue
<1>8. Blocks(records[key].status)
  BY DEF TrackerInv, DriversMatch, Blocks
<1> QED
  BY <1>1, <1>4, <1>5, <1>6, <1>7, <1>8, OneKeyStep

\* A transaction that a final answer says is reverted or dropped fails its
\* record, under a reason that does not let the key be staged again.
LEMMA FailedStep ==
    ASSUME TrackerInv, NEW key \in Keys, NEW reason \in {"failed", "not_found"},
           driver[key] = "reconciling",
           NotFoundIsFinal => chain[key][records[key].txHash] \in {"reverted", "dropped"},
           persist(fail(key, reason)), Idle(key), UNCHANGED <<chain, crashes>>
    PROVE  TrackerInv'
<1> DEFINE recs == fail(key, reason)
<1>1. /\ recs \in [Keys -> Record]
      /\ \A k \in Keys \ {key} : recs[k] = records[k]
      /\ recs[key].status = "failed"
      /\ recs[key].reason = reason
      /\ recs[key].txHash = records[key].txHash
  BY SettleFacts DEF TrackerInv, Reasons
<1>2. persist(recs)
  OBVIOUS
<1> HIDE DEF recs
<1>3. TypeOK
  BY DEF TrackerInv
<1>4. /\ Saving /\ records' = recs /\ store' \in [Keys -> Record]
      /\ durability' \in {"saved", "unsaved", "lost"}
  BY <1>1, <1>2, <1>3, PersistFacts DEF persist
<1>5. /\ driver'[key] = "none" /\ \A k \in Keys \ {key} : driver'[k] = driver[k]
      /\ driver' \in [Keys -> {"none", "staging", "broadcasting", "reconciling"}]
      /\ polls' \in [Keys -> 0 .. MaxAttempts - 1]
  BY <1>3, TrackerAssumption DEF Idle, TypeOK
<1>6. TypeOK'
  BY <1>1, <1>3, <1>4, <1>5 DEF TypeOK
<1>7. ASSUME NothingLost PROVE RecordTrue(key, records[key])'
  <2>1. Signed(key)' = Signed(key)
    BY DEF Signed
  <2> QED BY <1>1, <1>4, <1>7, <2>1, PendingFacts DEF RecordTrue
<1>8. ~Blocks(records'[key].status)
  BY <1>1, <1>4 DEF Blocks
<1> QED
  BY <1>1, <1>4, <1>5, <1>6, <1>7, <1>8, OneKeyStep

\* One poll, given what the nodes know of the transaction.
LEMMA ReconcileStep ==
    ASSUME TrackerInv, NEW key \in Keys, NEW answer, reconcile(key, answer),
           answer = "succeeded" => chain[key][records[key].txHash] = "landed",
           answer \in {"failed", "not_found"} /\ NotFoundIsFinal
               => chain[key][records[key].txHash] \in {"reverted", "dropped"}
    PROVE  TrackerInv'
<1>1. driver[key] = "reconciling" /\ UNCHANGED <<chain, crashes>> /\ TypeOK
  BY DEF reconcile, TrackerInv
<1>2. CASE answer = "succeeded"
  <2>1. persist(settleSuccess(key)) /\ Idle(key)
    BY <1>2 DEF reconcile
  <2> QED BY <1>1, <1>2, <2>1, SucceededStep
<1>3. CASE answer = "failed"
  <2>1. persist(fail(key, "failed")) /\ Idle(key)
    BY <1>3 DEF reconcile
  <2> QED BY <1>1, <1>3, <2>1, FailedStep
<1>4. CASE answer \notin {"succeeded", "failed"} /\
           ~(answer \in {"pending", "not_found"} /\ MorePolls(polls[key] + 1))
  <2>1. persist(Exhausted(key, answer)) /\ Idle(key)
    BY <1>4 DEF reconcile
  <2>2. CASE answer = "not_found"
    <3>1. persist(fail(key, "not_found"))
      BY <2>1, <2>2 DEF Exhausted
    <3> QED BY <1>1, <2>1, <2>2, <3>1, FailedStep
  <2>3. CASE answer # "not_found"
    <3>1. persist(records)
      BY <2>1, <2>3 DEF Exhausted
    <3>2. /\ driver'[key] = "none" /\ \A k \in Keys \ {key} : driver'[k] = driver[k]
          /\ driver' \in [Keys -> {"none", "staging", "broadcasting", "reconciling"}]
          /\ polls' \in [Keys -> 0 .. MaxAttempts - 1]
      BY <1>1, <2>1, TrackerAssumption DEF Idle, TypeOK
    <3> QED BY <1>1, <3>1, <3>2, StillPendingStep
  <2> QED BY <2>2, <2>3
<1>5. CASE answer \in {"pending", "not_found"} /\ MorePolls(polls[key] + 1)
  <2>1. /\ persist(records) /\ polls' = [polls EXCEPT ![key] = polls[key] + 1]
        /\ driver' = driver
    BY <1>5 DEF reconcile
  <2>2. polls[key] + 1 \in 0 .. MaxAttempts - 1
    BY <1>1, <1>5, TrackerAssumption DEF MorePolls, TypeOK
  <2>3. polls' \in [Keys -> 0 .. MaxAttempts - 1]
    BY <1>1, <2>1, <2>2 DEF TypeOK
  <2>4. driver' \in [Keys -> {"none", "staging", "broadcasting", "reconciling"}]
    BY <1>1, <2>1 DEF TypeOK
  <2> QED BY <1>1, <2>1, <2>3, <2>4, StillPendingStep
<1> QED
  BY <1>2, <1>3, <1>4, <1>5

\* What a node answers is true of the transaction, if "not found" is final.
LEMMA PollAnsweredStep ==
    ASSUME TrackerInv, NEW key \in Keys, pollAnswered(key)
    PROVE  TrackerInv'
<1> DEFINE fate == chain[key][records[key].txHash]
<1>1. PICK answer \in confirmStates(fate) : reconcile(key, answer)
  BY DEF pollAnswered
<1>2. /\ answer = "succeeded" => fate = "landed"
      /\ answer \in {"failed", "not_found"} /\ NotFoundIsFinal
             => fate \in {"reverted", "dropped"}
  <2> HIDE DEF fate
  <2> QED BY <1>1 DEF confirmStates
<1> QED
  BY <1>1, <1>2, ReconcileStep

\* The networks settle what they were handed; a record that calls a
\* transaction ended is not about a live one.
LEMMA TxResolvesStep ==
    ASSUME TrackerInv, NEW key \in Keys, NEW n \in Tx, TxResolves(key, n)
    PROVE  TrackerInv'
<1>1. PICK fate \in {"landed", "reverted", "dropped"} :
         chain' = [chain EXCEPT ![key][n] = fate]
  BY DEF TxResolves
<1>2. /\ TypeOK /\ chain[key][n] = "live"
      /\ UNCHANGED <<records, store, driver, polls, crashes, durability>>
      /\ chain \in [Keys -> [Tx -> TxStates]]
  BY DEF TxResolves, TrackerInv, TypeOK
<1>3. /\ chain' = [chain EXCEPT ![key] = [chain[key] EXCEPT ![n] = fate]]
      /\ chain'[key] = [chain[key] EXCEPT ![n] = fate]
      /\ \A k \in Keys \ {key} : chain'[k] = chain[k]
      /\ [chain[key] EXCEPT ![n] = fate] \in [Tx -> TxStates]
  BY <1>1, <1>2 DEF TxStates
<1>4. TypeOK'
  <2>1. chain' \in [Keys -> [Tx -> TxStates]]
    BY <1>2, <1>3
  <2> QED BY <1>2, <2>1 DEF TypeOK
<1>5. DriversMatch'
  BY <1>2 DEF TrackerInv, DriversMatch
<1>6. NothingLost' => LockHeldOnce' /\ StoreCurrent'
  BY <1>2 DEF TrackerInv, NothingLost, LockHeldOnce, StoreCurrent
<1>7. ASSUME NothingLost' PROVE RecordsTrue'
  <2>1. SUFFICES ASSUME NEW k \in Keys PROVE RecordTrue(k, records[k])'
    BY DEF RecordsTrue
  <2>2. RecordTrue(k, records[k])
    BY <1>2, <1>7 DEF TrackerInv, NothingLost, RecordsTrue
  <2>3. CASE k # key
    <3>1. chain'[k] = chain[k]
      BY <1>3, <2>3
    <3>2. Signed(k)' = Signed(k)
      BY <3>1 DEF Signed
    <3> QED BY <1>2, <2>2, <3>1, <3>2 DEF RecordTrue
  <2>4. CASE k = key
    <3>1. /\ chain'[key][n] = fate
          /\ \A m \in Tx \ {n} : chain'[key][m] = chain[key][m]
      BY <1>2, <1>3
    <3>2. Signed(key)' = Signed(key)
      BY <1>2, <3>1 DEF Signed
    <3>3. n \in Signed(key)
      BY <1>2 DEF Signed
    <3>4. records[key].txHash = n
      BY <2>2, <2>4, <3>3 DEF RecordTrue
    <3>5. n # 0
      BY TrackerAssumption DEF Tx
    <3>6. records[key].status # "succeeded" /\ (NotFoundIsFinal => records[key].status # "failed")
      BY <1>2, <2>2, <2>4, <3>4, <3>5 DEF RecordTrue
    <3> QED BY <1>2, <2>2, <2>4, <3>2, <3>4, <3>5, <3>6 DEF RecordTrue
  <2> QED BY <2>3, <2>4
<1> QED
  BY <1>4, <1>5, <1>6, <1>7 DEF TrackerInv

\* A restart after a successful save restores what was in memory; after one
\* that was swallowed it may lose it, for good.
LEMMA RestartStep ==
    ASSUME TrackerInv, Restart
    PROVE  TrackerInv'
<1>1. /\ records \in [Keys -> Record] /\ store \in [Keys -> Record] /\ TypeOK
  BY DEF TrackerInv, TypeOK
<1>2. /\ \A k \in Keys : records'[k] = restoredRecord(store[k])
      /\ records' \in [Keys -> Record]
  BY <1>1, RestoredFacts DEF Restart, restore
<1>3. TypeOK'
  BY <1>1, <1>2, TrackerAssumption DEF Restart, TypeOK
<1>4. DriversMatch'
  BY DEF Restart, DriversMatch
<1>5. ASSUME NothingLost'
      PROVE  RecordsTrue' /\ LockHeldOnce' /\ StoreCurrent'
  <2>1. /\ durability = "saved" /\ NothingLost
        /\ \A k \in Keys : restoredRecord(store[k]) = restoredRecord(records[k])
    BY <1>5 DEF NothingLost, Restart, TrackerInv, StoreCurrent
  <2>2. \A k \in Keys : records'[k] = restoredRecord(records[k])
    BY <1>2, <2>1
  <2>3. ASSUME NEW k \in Keys PROVE RecordTrue(k, records[k])'
    <3>1. RecordTrue(k, records[k])
      BY <2>1 DEF TrackerInv, RecordsTrue
    <3>2. RecordTrue(k, restoredRecord(records[k]))
      BY <1>1, <3>1, RestoredTrue
    <3>3. PICK rec : rec = restoredRecord(records[k])
      OBVIOUS
    <3>4. RecordTrue(k, rec) /\ records'[k] = rec
      BY <2>2, <3>2, <3>3
    <3>5. chain' = chain /\ Signed(k)' = Signed(k)
      BY DEF Restart, Signed
    <3> QED BY <3>4, <3>5 DEF RecordTrue
  <2>4. \A k \in Keys : Blocks(records'[k].status) => Blocks(records[k].status)
    <3>1. SUFFICES ASSUME NEW k \in Keys, Blocks(records'[k].status)
                   PROVE  Blocks(records[k].status)
      OBVIOUS
    <3>2. records'[k].status \in {records[k].status, "failed"}
      BY <1>1, <2>2, RestoredFacts
    <3> QED BY <3>1, <3>2 DEF Blocks
  <2>5. LockHeldOnce'
    BY <2>1, <2>4 DEF TrackerInv, LockHeldOnce
  <2>6. StoreCurrent'
    <3>1. SUFFICES ASSUME NEW k \in Keys
                   PROVE  restoredRecord(store'[k]) = restoredRecord(records'[k])
      BY DEF StoreCurrent
    <3>2. restoredRecord(restoredRecord(store[k])) = restoredRecord(store[k])
      BY <1>1, RestoredFacts
    <3>3. store' = store
      BY DEF Restart
    <3> QED BY <1>2, <3>2, <3>3
  <2> QED BY <2>3, <2>5, <2>6 DEF RecordsTrue
<1> QED
  BY <1>3, <1>4, <1>5 DEF TrackerInv

-----------------------------------------------------------------------------
(* The theorems.                                                           *)

LEMMA TrackerInvStep == TrackerInv /\ [Next]_vars => TrackerInv'
<1> SUFFICES ASSUME TrackerInv, [Next]_vars PROVE TrackerInv'
  OBVIOUS
<1>1. CASE UNCHANGED vars
  <2>1. \A k \in Keys : Signed(k)' = Signed(k)
    BY <1>1 DEF vars, Signed
  <2> QED
    BY <1>1, <2>1 DEF vars, TrackerInv, TypeOK, DriversMatch, NothingLost, RecordsTrue,
                      RecordTrue, LockHeldOnce, StoreCurrent
<1>2. CASE Restart
  BY <1>2, RestartStep
<1>3. ASSUME NEW key \in Keys,
             \/ submitFresh(key) \/ submitRefused(key) \/ submitAttach(key)
             \/ \E reason \in {"staging_failed", "non_retryable"} : stagingFails(key, reason)
             \/ broadcastOnce(key)
      PROVE  TrackerInv'
  BY <1>3, SubmitFreshStep, SubmitRefusedStep, SubmitAttachStep, StagingFailsStep,
     BroadcastOnceStep
<1>4. ASSUME NEW key \in Keys, broadcastConfirmed(key) PROVE TrackerInv'
  BY <1>4, SucceededStep DEF broadcastConfirmed
<1>5. ASSUME NEW key \in Keys, broadcastAmbiguous(key) PROVE TrackerInv'
  <2>1. TypeOK
    BY DEF TrackerInv
  <2>2. /\ driver[key] = "broadcasting" /\ persist(records)
        /\ driver' \in [Keys -> {"none", "staging", "broadcasting", "reconciling"}]
        /\ polls' \in [Keys -> 0 .. MaxAttempts - 1]
        /\ driver'[key] = "reconciling"
        /\ \A k \in Keys \ {key} : driver'[k] = driver[k]
        /\ UNCHANGED <<chain, crashes>>
    BY <1>5, <2>1 DEF broadcastAmbiguous, TypeOK
  <2> QED BY <2>2, StillPendingStep
<1>6. ASSUME NEW key \in Keys, pollErrored(key) PROVE TrackerInv'
  BY <1>6, ReconcileStep DEF pollErrored
<1>7. ASSUME NEW key \in Keys, pollAnswered(key) PROVE TrackerInv'
  BY <1>7, PollAnsweredStep
<1>8. ASSUME NEW key \in Keys, NEW n \in Tx, TxResolves(key, n) PROVE TrackerInv'
  BY <1>8, TxResolvesStep
<1> QED
  BY <1>1, <1>2, <1>3, <1>4, <1>5, <1>6, <1>7, <1>8 DEF Next

LEMMA TrackerInvariant == Spec => []TrackerInv
  BY TrackerInvInit, TrackerInvStep, PTL DEF Spec

\* The records, drivers and transactions of the tracker keep their shapes.
THEOREM TypeCorrect == Spec => []TypeOK
<1>1. TrackerInv => TypeOK
  BY DEF TrackerInv
<1> QED
  BY <1>1, TrackerInvariant, PTL

\* However often callers retry, RPCs time out and the relayer restarts, a key
\* signs at most one transaction: submit() restages a key only under a
\* failure that precedes every broadcast.  Nothing is asked of the nodes'
\* answers; only that no restart lost a swallowed write.
THEOREM NeverSignsTwice ==
    Spec => [](NothingLost => \A key \in Keys : Cardinality(Signed(key)) <= 1)
<1>1. ASSUME TrackerInv, NothingLost, NEW key \in Keys
      PROVE  Cardinality(Signed(key)) <= 1
  <2>1. Signed(key) = {} \/ Signed(key) = {records[key].txHash}
    BY <1>1 DEF TrackerInv, RecordsTrue, RecordTrue
  <2>2. Cardinality({}) = 0 /\ Cardinality({records[key].txHash}) = 1
    BY FS_EmptySet, FS_Singleton
  <2> QED BY <2>1, <2>2
<1>2. TrackerInv => (NothingLost => \A key \in Keys : Cardinality(Signed(key)) <= 1)
  BY <1>1
<1> QED
  BY <1>2, TrackerInvariant, PTL

\* Header guarantees 3 to 5 of the tracker: with nodes whose "not found" is
\* final, a key never puts a second transaction on the network, and the one
\* that may land is on record as pending or succeeded.
THEOREM KeepsOneTransactionPerKey ==
    ASSUME NotFoundIsFinal
    PROVE  Spec => []OneTransactionPerKey
<1>1. ASSUME TrackerInv, NothingLost PROVE LiveTransactionIsTracked
  <2>1. SUFFICES ASSUME NEW key \in Keys, NEW n \in Tx,
                        chain[key][n] \in {"live", "landed"}
                 PROVE  /\ records[key].status \in {"pending", "succeeded"}
                        /\ chain[key][records[key].txHash] \in {"live", "landed"}
    BY DEF LiveTransactionIsTracked, MayLand
  <2>2. n \in Signed(key)
    BY <2>1 DEF Signed
  <2>3. RecordTrue(key, records[key])
    BY <1>1 DEF TrackerInv, RecordsTrue
  <2>4. records[key].txHash = n /\ records[key].txHash # 0
    BY <2>2, <2>3 DEF RecordTrue
  <2> QED BY <2>1, <2>3, <2>4, NotFoundIsFinal DEF RecordTrue
<1>2. TrackerInv /\ (NothingLost => \A key \in Keys : Cardinality(Signed(key)) <= 1)
      => OneTransactionPerKey
  BY <1>1 DEF OneTransactionPerKey
<1> QED
  BY <1>2, TrackerInvariant, NeverSignsTwice, PTL

\* Header guarantee 2: an order is never both claimed and refunded on the
\* chains, since a transaction that lands keeps its record, and its record
\* keeps the order lock.
THEOREM KeepsOneActionPerOrder ==
    ASSUME NotFoundIsFinal
    PROVE  Spec => []OneActionLands
<1>1. ASSUME TrackerInv, NothingLost, NEW key \in Keys, Landed(key)
      PROVE  Blocks(records[key].status)
  <2>1. PICK n \in Tx : chain[key][n] = "landed"
    BY <1>1 DEF Landed
  <2>2. n \in Signed(key)
    BY <2>1 DEF Signed
  <2>3. RecordTrue(key, records[key])
    BY <1>1 DEF TrackerInv, RecordsTrue
  <2>4. records[key].txHash = n /\ records[key].txHash # 0
    BY <2>2, <2>3 DEF RecordTrue
  <2>5. records[key].status \in {"pending", "succeeded"}
    BY <2>1, <2>3, <2>4, NotFoundIsFinal DEF RecordTrue
  <2> QED BY <2>5 DEF Blocks
<1>2. TrackerInv => OneActionLands
  BY <1>1 DEF TrackerInv, LockHeldOnce, OneActionLands
<1> QED
  BY <1>2, TrackerInvariant, PTL

-----------------------------------------------------------------------------
(* ClientSubscriptions.                                                    *)

\* Listeners that still answer belong to a client, and everything in the
\* delivery queue is for a client that is registered.
QueueOwned ==
    /\ \A i \in SubIds : sub[i].isActive => sub[i].owner \in Subscribers
    /\ \A item \in queue : /\ sub[item[2]].owner \in Subscribers
                           /\ client[sub[item[2]].owner].on

SubInv == Subs!SubTypeOK /\ QueueOwned

LEMMA SubInvInit == Subs!SubInit => SubInv
BY ServicesAssumption
   DEF SubInv, QueueOwned, Subs!SubInit, Subs!SubTypeOK, Subs!Nobody, Subs!NoSub

\* A client record may change in every way but this: it loses its registration
\* only when nothing is queued for it.
LEMMA SubStep ==
    ASSUME SubInv, sub' \in [SubIds -> [owner: Subscribers \cup {"none"},
                                        types: SUBSET Kinds, isActive: BOOLEAN]],
           client' \in [Subscribers -> [on: BOOLEAN, cur: SubIds \cup {"none"}, count: Int]],
           heard' \in [SubIds -> SUBSET Kinds],
           queue' \subseteq queue, UNCHANGED <<got, emitted>>,
           \A i \in SubIds :
              /\ sub'[i].isActive => sub'[i].owner \in Subscribers
              /\ sub[i].owner \in Subscribers => sub'[i].owner = sub[i].owner,
           \A c \in Subscribers : client[c].on =>
              client'[c].on \/ \A item \in queue' : sub[item[2]].owner # c
    PROVE  SubInv'
<1>1. Subs!SubTypeOK'
  BY DEF SubInv, Subs!SubTypeOK
<1>2. ASSUME NEW item \in queue'
      PROVE  sub'[item[2]].owner \in Subscribers /\ client'[sub'[item[2]].owner].on
  <2>1. item \in queue /\ item[2] \in SubIds
    BY DEF SubInv, Subs!SubTypeOK
  <2>2. sub[item[2]].owner \in Subscribers /\ client[sub[item[2]].owner].on
    BY <2>1 DEF SubInv, QueueOwned
  <2>3. sub'[item[2]].owner = sub[item[2]].owner
    BY <2>1, <2>2
  <2> QED BY <2>2, <2>3
<1>3. QueueOwned'
  BY <1>2 DEF QueueOwned
<1> QED BY <1>1, <1>3 DEF SubInv

\* Unregistering and cancelling deactivate the subscription the client points
\* to and take all of the client's items out of the queue.
LEMMA DeactivatedFacts ==
    ASSUME SubInv, NEW c \in Subscribers, sub' = Subs!Deactivated(c)
    PROVE  /\ sub' \in [SubIds -> [owner: Subscribers \cup {"none"},
                                   types: SUBSET Kinds, isActive: BOOLEAN]]
           /\ \A i \in SubIds : /\ sub'[i].isActive => sub'[i].owner \in Subscribers
                                /\ sub'[i].owner = sub[i].owner
<1>1. /\ sub \in [SubIds -> [owner: Subscribers \cup {"none"},
                             types: SUBSET Kinds, isActive: BOOLEAN]]
      /\ client[c].cur \in SubIds \cup {"none"}
  BY DEF SubInv, Subs!SubTypeOK
<1>2. \A i \in SubIds : sub[i].isActive => sub[i].owner \in Subscribers
  BY DEF SubInv, QueueOwned
<1>3. \/ sub' = sub
      \/ /\ client[c].cur \in SubIds
         /\ sub' = [sub EXCEPT ![client[c].cur].isActive = FALSE]
  BY <1>1 DEF Subs!Deactivated
<1>4. CASE sub' = sub
  BY <1>1, <1>2, <1>4
<1>5. ASSUME NEW j \in SubIds, sub' = [sub EXCEPT ![j].isActive = FALSE]
      PROVE  /\ sub' \in [SubIds -> [owner: Subscribers \cup {"none"},
                                     types: SUBSET Kinds, isActive: BOOLEAN]]
             /\ \A i \in SubIds : /\ sub'[i].isActive => sub'[i].owner \in Subscribers
                                  /\ sub'[i].owner = sub[i].owner
  BY ONLY <1>1, <1>2, <1>5
<1> QED BY <1>3, <1>4, <1>5

LEMMA RegisterStep ==
    ASSUME SubInv, NEW c \in Subscribers, Subs!registerClient(c)
    PROVE  SubInv'
<1> DEFINE new == [Subs!Nobody EXCEPT !.on = TRUE]
<1>0. new \in [on: BOOLEAN, cur: SubIds \cup {"none"}, count: Int] /\ new.on
  <2>1. Subs!Nobody \in [on: BOOLEAN, cur: SubIds \cup {"none"}, count: Int]
    BY DEF Subs!Nobody
  <2> QED BY <2>1
<1> client' = [client EXCEPT ![c] = new]
  BY DEF Subs!registerClient
<1> HIDE DEF new
<1>1. /\ client' \in [Subscribers -> [on: BOOLEAN, cur: SubIds \cup {"none"}, count: Int]]
      /\ \A d \in Subscribers : client[d].on => client'[d].on
  BY <1>0 DEF SubInv, Subs!SubTypeOK
<1> QED BY <1>1, SubStep DEF SubInv, Subs!SubTypeOK, QueueOwned, Subs!registerClient

LEMMA UnregisterStep ==
    ASSUME SubInv, NEW c \in Subscribers, Subs!unregisterClient(c)
    PROVE  SubInv'
<1>1. /\ client' \in [Subscribers -> [on: BOOLEAN, cur: SubIds \cup {"none"}, count: Int]]
      /\ \A d \in Subscribers \ {c} : client'[d] = client[d]
  BY DEF SubInv, Subs!SubTypeOK, Subs!unregisterClient, Subs!Nobody
<1>2. queue' \subseteq queue /\ \A item \in queue' : sub[item[2]].owner # c
  BY DEF Subs!unregisterClient, Subs!Dropped
<1>3. sub' = Subs!Deactivated(c) /\ UNCHANGED <<heard, got, emitted>>
  BY DEF Subs!unregisterClient
<1> QED BY <1>1, <1>2, <1>3, DeactivatedFacts, SubStep DEF SubInv, Subs!SubTypeOK

LEMMA CancelStep ==
    ASSUME SubInv, NEW c \in Subscribers, Subs!cancelSubscription(c)
    PROVE  SubInv'
<1>1. /\ client' \in [Subscribers -> [on: BOOLEAN, cur: SubIds \cup {"none"}, count: Int]]
      /\ \A d \in Subscribers : client'[d].on = client[d].on
  <2>1. client \in [Subscribers -> [on: BOOLEAN, cur: SubIds \cup {"none"}, count: Int]]
    BY DEF SubInv, Subs!SubTypeOK
  <2>2. client' = [client EXCEPT ![c].cur = "none", ![c].count = @ - 1]
    BY DEF Subs!cancelSubscription
  <2> QED BY ONLY c \in Subscribers, <2>1, <2>2
<1>2. queue' \subseteq queue
  BY DEF Subs!cancelSubscription, Subs!Dropped
<1>3. sub' = Subs!Deactivated(c) /\ UNCHANGED <<heard, got, emitted>>
  BY DEF Subs!cancelSubscription
<1> QED BY <1>1, <1>2, <1>3, DeactivatedFacts, SubStep DEF SubInv, Subs!SubTypeOK

LEMMA ResetQuotasStep ==
    ASSUME SubInv, NEW c \in Subscribers, Subs!resetQuotas(c)
    PROVE  SubInv'
<1>1. /\ client' \in [Subscribers -> [on: BOOLEAN, cur: SubIds \cup {"none"}, count: Int]]
      /\ \A d \in Subscribers : client'[d].on = client[d].on
  <2>1. client \in [Subscribers -> [on: BOOLEAN, cur: SubIds \cup {"none"}, count: Int]]
    BY DEF SubInv, Subs!SubTypeOK
  <2>2. client' = [client EXCEPT ![c].count = 0]
    BY DEF Subs!resetQuotas
  <2> QED BY ONLY c \in Subscribers, <2>1, <2>2
<1> QED BY <1>1, SubStep DEF SubInv, Subs!SubTypeOK, QueueOwned, Subs!resetQuotas

\* A number is given once: nothing is queued for the subscription that gets it.
LEMMA CreateStep ==
    ASSUME SubInv, NEW c \in Subscribers, NEW types \in SUBSET Kinds,
           Subs!createSubscription(c, types)
    PROVE  SubInv'
<1>1. PICK i \in {x \in SubIds : sub[x] = Subs!NoSub} :
         /\ sub' = [sub EXCEPT ![i] = [owner |-> c, types |-> types, isActive |-> TRUE]]
         /\ heard' = [heard EXCEPT ![i] = types]
         /\ client' = [client EXCEPT ![c].cur = i, ![c].count = @ + 1]
  BY DEF Subs!createSubscription
<1>2. sub[i].owner = "none" /\ i \in SubIds
  BY <1>1 DEF Subs!NoSub
<1>3. /\ client' \in [Subscribers -> [on: BOOLEAN, cur: SubIds \cup {"none"}, count: Int]]
      /\ \A d \in Subscribers : client'[d].on = client[d].on
  BY <1>1, <1>2 DEF SubInv, Subs!SubTypeOK
<1>4. /\ heard' \in [SubIds -> SUBSET Kinds]
      /\ sub' \in [SubIds -> [owner: Subscribers \cup {"none"},
                              types: SUBSET Kinds, isActive: BOOLEAN]]
      /\ \A x \in SubIds : /\ sub'[x].isActive => sub'[x].owner \in Subscribers
                           /\ sub[x].owner \in Subscribers => sub'[x].owner = sub[x].owner
  BY <1>1, <1>2, ServicesAssumption DEF SubInv, Subs!SubTypeOK, QueueOwned
<1>5. UNCHANGED <<queue, got, emitted>>
  BY DEF Subs!createSubscription
<1> QED BY <1>3, <1>4, <1>5, SubStep

LEMMA UpdateStep ==
    ASSUME SubInv, NEW c \in Subscribers, NEW types \in SUBSET Kinds,
           Subs!updateSubscription(c, types)
    PROVE  SubInv'
<1>1. client[c].cur \in SubIds
      /\ sub' = [sub EXCEPT ![client[c].cur].types = types]
  BY DEF SubInv, Subs!SubTypeOK, Subs!updateSubscription
<1>2. /\ sub' \in [SubIds -> [owner: Subscribers \cup {"none"},
                              types: SUBSET Kinds, isActive: BOOLEAN]]
      /\ \A x \in SubIds : /\ sub'[x].isActive => sub'[x].owner \in Subscribers
                           /\ sub'[x].owner = sub[x].owner
  BY <1>1 DEF SubInv, Subs!SubTypeOK, QueueOwned
<1>3. UNCHANGED <<client, heard, queue, got, emitted>>
  BY DEF Subs!updateSubscription
<1> QED BY <1>2, <1>3, SubStep DEF SubInv, Subs!SubTypeOK

\* A run of the queue delivers some of what it was given and keeps the rest.
LEMMA QueueRuns ==
    ASSUME NEW items, Subs!processDeliveryQueue(items)
    PROVE  queue' \subseteq items /\ got' \subseteq got \cup items
BY DEF Subs!processDeliveryQueue, Subs!Runs, Subs!Deliverable

LEMMA QueueTimerStep ==
    ASSUME SubInv, Subs!queueTimer
    PROVE  SubInv'
<1>1. queue' \subseteq queue /\ got' \subseteq got \cup queue
  BY QueueRuns DEF Subs!queueTimer
<1> QED BY <1>1 DEF SubInv, Subs!SubTypeOK, QueueOwned, Subs!queueTimer

\* An event is queued for listeners that answer and whose client is there.
LEMMA EmitStep ==
    ASSUME SubInv, NEW kind \in Kinds, Subs!emitEvent(kind)
    PROVE  SubInv'
<1> DEFINE items == {<<emitted', i>> : i \in {x \in SubIds :
                        Subs!shouldNotifyListener(x, kind)
                        /\ Subs!handleEventForSubscription(x)}}
<1>1. emitted' \in 1 .. MaxEvents /\ UNCHANGED <<client, sub, heard>>
  BY ServicesAssumption DEF SubInv, Subs!SubTypeOK, Subs!emitEvent
<1>2. queue' \subseteq queue \cup items /\ got' \subseteq got \cup queue \cup items
  <2>1. CASE items = {}
    BY <2>1 DEF Subs!emitEvent
  <2>2. CASE items # {}
    <3>1. Subs!processDeliveryQueue(queue \cup items)
      BY <2>2 DEF Subs!emitEvent
    <3> HIDE DEF items
    <3> QED BY <3>1, QueueRuns
  <2> QED BY <2>1, <2>2
<1>3. \A item \in items : /\ item \in (1 .. MaxEvents) \X SubIds
                          /\ sub[item[2]].isActive /\ client[sub[item[2]].owner].on
  BY <1>1 DEF Subs!handleEventForSubscription
<1>4. items \subseteq (1 .. MaxEvents) \X SubIds
  BY <1>3
<1> HIDE DEF items
<1>5. Subs!SubTypeOK'
  BY <1>1, <1>2, <1>4 DEF SubInv, Subs!SubTypeOK
<1>6. \A item \in items : sub[item[2]].owner \in Subscribers
  BY <1>3 DEF SubInv, QueueOwned
<1>7. QueueOwned'
  BY <1>1, <1>2, <1>3, <1>6 DEF SubInv, QueueOwned
<1> QED BY <1>5, <1>7 DEF SubInv

LEMMA SubInvNext == SubInv /\ [Subs!SubNext]_subscriptions => SubInv'
<1> SUFFICES ASSUME SubInv, [Subs!SubNext]_subscriptions PROVE SubInv'
  OBVIOUS
<1>1. CASE UNCHANGED subscriptions
  BY <1>1 DEF SubInv, QueueOwned, Subs!SubTypeOK, subscriptions
<1>2. CASE Subs!SubNext
  BY <1>2, RegisterStep, UnregisterStep, CancelStep, ResetQuotasStep, CreateStep,
     UpdateStep, QueueTimerStep, EmitStep
  DEF Subs!SubNext, Subs!cleanupInactiveSubscriptions
<1> QED BY <1>1, <1>2

-----------------------------------------------------------------------------
(* WebSocketServer.                                                        *)

\* Only sockets of the allowlist become clients, and what a client subscribes
\* to now is part of what it asked for.
ClientsTrusted ==
    /\ registered \subseteq Trusted
    /\ \A s \in Sockets : wants[s] \subseteq since[s]

WsInv == Ws!WsTypeOK /\ ClientsTrusted /\ Ws!ServedAskedFor

LEMMA WsInvInit == Ws!WsInit => WsInv
BY ServicesAssumption
   DEF WsInv, ClientsTrusted, Ws!WsInit, Ws!WsTypeOK, Ws!ServedAskedFor

\* The life of a connection: clients come only through the origin check.
LEMMA ConnectionStep ==
    ASSUME WsInv, UNCHANGED Ws!data,
           \/ \E s \in Sockets : \/ Ws!handleConnection(s) \/ Ws!PeerVanishes(s)
                                 \/ Ws!onClose(s) \/ Ws!onPong(s)
           \/ Ws!pingInterval
           \/ Ws!stop
    PROVE  WsInv'
<1>1. registered' \subseteq Trusted
  BY DEF WsInv, ClientsTrusted, Ws!handleConnection, Ws!isSocketOriginAllowed,
         Ws!PeerVanishes, Ws!onClose, Ws!onPong, Ws!pingInterval, Ws!stop
<1>2. /\ link' \in [Sockets -> {"idle", "open", "closed"}]
      /\ registered' \cup peer' \cup ping' \subseteq Sockets
      /\ alive' \in [Sockets -> BOOLEAN]
  BY DEF WsInv, Ws!WsTypeOK, Ws!handleConnection, Ws!PeerVanishes, Ws!onClose,
         Ws!onPong, Ws!pingInterval, Ws!AfterPing, Ws!stop
<1> QED BY <1>1, <1>2 DEF WsInv, ClientsTrusted, Ws!WsTypeOK, Ws!ServedAskedFor, Ws!data

\* Subscribing adds to what was asked for, unsubscribing takes nothing from it.
LEMMA SubscribeStep ==
    ASSUME WsInv, NEW s \in Sockets, NEW kinds \in SUBSET WsKinds,
           NEW orders \in SUBSET WsOrders,
           Ws!handleSubscribe(s, kinds, orders) \/ Ws!handleUnsubscribe(s, kinds, orders)
    PROVE  WsInv'
<1>1. /\ wants' \in [Sockets -> SUBSET WsKinds] /\ filter' \in [Sockets -> SUBSET WsOrders]
      /\ since' \in [Sockets -> SUBSET WsKinds]
      /\ UNCHANGED <<Ws!conn, served, frames>>
      /\ \A x \in Sockets : wants'[x] \subseteq since'[x] /\ since[x] \subseteq since'[x]
  BY DEF WsInv, ClientsTrusted, Ws!WsTypeOK, Ws!handleSubscribe, Ws!handleUnsubscribe
<1>2. Ws!ServedAskedFor'
  BY <1>1 DEF WsInv, Ws!WsTypeOK, Ws!ServedAskedFor
<1> QED BY <1>1, <1>2 DEF WsInv, ClientsTrusted, Ws!WsTypeOK, Ws!conn

LEMMA WsBroadcastStep ==
    ASSUME WsInv, NEW kind \in WsKinds, NEW order \in WsOrders, Ws!broadcast(kind, order)
    PROVE  WsInv'
<1>1. \A f \in served' \ served :
         \E c \in registered : f = <<c, kind, order>> /\ kind \in wants[c]
  BY DEF Ws!broadcast, Ws!shouldSendToClient
<1>2. \A f \in served' \ served :
         /\ f \in Sockets \X WsKinds \X WsOrders
         /\ f[1] \in Trusted /\ f[2] \in since[f[1]]
  BY <1>1 DEF WsInv, ClientsTrusted, Ws!WsTypeOK
<1>3. frames' \in 0 .. MaxFrames /\ UNCHANGED <<Ws!conn, wants, filter, since>>
  BY ServicesAssumption DEF WsInv, Ws!WsTypeOK, Ws!broadcast
<1> QED BY <1>2, <1>3 DEF WsInv, ClientsTrusted, Ws!WsTypeOK, Ws!ServedAskedFor, Ws!conn

LEMMA WsInvNext == WsInv /\ [Ws!WsNext]_sockets => WsInv'
<1> SUFFICES ASSUME WsInv, [Ws!WsNext]_sockets PROVE WsInv'
  OBVIOUS
<1>1. CASE UNCHANGED sockets
  BY <1>1 DEF WsInv, ClientsTrusted, Ws!WsTypeOK, Ws!ServedAskedFor, sockets
<1>2. ASSUME NEW s \in Sockets,
             \/ Ws!handleConnection(s) \/ Ws!PeerVanishes(s)
             \/ Ws!onClose(s) \/ Ws!onPong(s)
      PROVE  WsInv'
  <2>1. UNCHANGED Ws!data
    BY <1>2 DEF Ws!handleConnection, Ws!PeerVanishes, Ws!onClose, Ws!onPong
  <2> QED BY <1>2, <2>1, ConnectionStep
<1>3. CASE Ws!pingInterval \/ Ws!stop
  <2>1. UNCHANGED Ws!data
    BY <1>3 DEF Ws!pingInterval, Ws!stop
  <2> QED BY <1>3, <2>1, ConnectionStep
<1> QED BY <1>1, <1>2, <1>3, SubscribeStep, WsBroadcastStep DEF Ws!WsNext

-----------------------------------------------------------------------------
(* The services together.                                                  *)

LEMMA ServicesInvariant == MCSpec => [](TrackerInv /\ SubInv /\ WsInv)
<1> DEFINE Inv == TrackerInv /\ SubInv /\ WsInv
<1>1. MCInit => Inv
  BY TrackerInvInit, SubInvInit, WsInvInit DEF MCInit
<1>2. Inv /\ [MCNext]_<<part, vars, subscriptions, sockets>> => Inv'
  <2>1. [MCNext]_<<part, vars, subscriptions, sockets>> =>
           [Next]_vars /\ [Subs!SubNext]_subscriptions /\ [Ws!WsNext]_sockets
    BY DEF MCNext
  <2> QED BY <2>1, TrackerInvStep, SubInvNext, WsInvNext
<1> QED BY <1>1, <1>2, PTL DEF MCSpec

\* The tracker, the subscription manager and the WebSocket server keep the
\* shapes of their state beside each other.
THEOREM ServicesTypeCorrect == MCSpec => []ServicesTypeOK
<1>1. TrackerInv /\ SubInv /\ WsInv => ServicesTypeOK
  BY DEF TrackerInv, SubInv, WsInv, ServicesTypeOK
<1> QED BY <1>1, ServicesInvariant, PTL

\* ClientSubscriptionManager and FusionWebSocketServer: in whatever order
\* clients subscribe twice, cancel, time out and return while events are
\* emitted, nothing is queued for a client that is gone; and in whatever order
\* sockets connect, subscribe, vanish and are pinged, no socket outside the
\* allowlist is served, and none is served what it never asked for.
THEOREM NotificationsAreOwned ==
    MCSpec => []Subs!QueueHasOwner /\ []Ws!ServedAskedFor
<1>1. SubInv => Subs!QueueHasOwner
  BY DEF SubInv, QueueOwned, Subs!QueueHasOwner
<1>2. WsInv => Ws!ServedAskedFor
  BY DEF WsInv
<1> QED BY <1>1, <1>2, ServicesInvariant, PTL
=============================================================================
