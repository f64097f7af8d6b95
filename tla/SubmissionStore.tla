--------------------------- MODULE SubmissionStore ---------------------------
(***************************************************************************)
(* The file behind the relay submission tracker: relay-submission-store.ts *)
(* with the tracker's persist, restore and forget.                         *)
(*                                                                         *)
(* A save writes a temporary file and renames it over the store; the       *)
(* process may die between any two steps, and a write may fail, which      *)
(* persist swallows.  Terminal records beyond MaxRecords are pruned.  How  *)
(* a submission is polled is RelaySubmissionTracker's subject: here the    *)
(* network decides about a transaction when it is sent.                    *)
(***************************************************************************)
EXTENDS Naturals, FiniteSets

CONSTANTS
    StoreKeys,   \* submission keys
    MaxRecords,  \* terminal records kept on disk (500)
    MaxEnds,     \* bound on the records that end
    MaxCrashes,  \* bound on restarts
    MaxStarts    \* bound on the submissions started

VARIABLES
    records,   \* the tracker's map: status and completedAt
    file,      \* the store as a restart reads it
    saving,    \* progress of a save: at, and the key to broadcast after it
    driver,    \* stagers running in this process: key, and "map" or "lost" (forgotten)
    tx,        \* external: what became of each key's latest transaction
    landed,    \* external: transactions of each key that landed
    ends,      \* clock of terminal records
    crashes, starts,
    newer,     \* history: keys that ended after this one did
    excused    \* history: keys forgotten while live, not saved, or old enough to be pruned

storeVars == <<records, file, saving, driver, tx, landed, ends, crashes, starts,
               newer, excused>>
world == <<tx, landed>>
past == <<ends, newer>>
bounds == <<crashes, starts>>

NoRecord == [status |-> "none", at |-> 0]
Nothing == [k \in StoreKeys |-> NoRecord]
Idle == [at |-> "idle", then |-> "none"]
Live == {"in_flight", "pending"}
Terminal == {"succeeded", "failed", "staging_failed"}

-----------------------------------------------------------------------------
(* prune: every live record, and the newest terminal ones.                 *)
prune_OldestKept(recs) ==
    [k \in StoreKeys |->
        IF recs[k].status \in Terminal
           /\ Cardinality({j \in StoreKeys : recs[j].status \in Terminal
                                             /\ recs[j].at < recs[k].at}) >= MaxRecords
        THEN NoRecord ELSE recs[k]]
prune(recs) ==
    [k \in StoreKeys |->
        IF recs[k].status \in Terminal
           /\ Cardinality({j \in StoreKeys : recs[j].status \in Terminal
                                             /\ recs[j].at > recs[k].at}) >= MaxRecords
        THEN NoRecord ELSE recs[k]]

(* persist follows every change in the same synchronous handler; then      *)
(* names the key whose transaction goes out once the save returned.        *)
persist(then) == saving' = [at |-> "write", then |-> then]

(* The temporary file is renamed over the store in one stroke; a process   *)
(* that dies before leaves the old file.                                   *)
save ==
    /\ saving.at = "write"
    /\ file' = prune(records)
    /\ saving' = [saving EXCEPT !.at = "saved"]
    /\ UNCHANGED <<records, driver, world, past, bounds, excused>>

saveFails ==
    /\ saving.at = "write"
    /\ saving' = [saving EXCEPT !.at = "saved"]
    /\ excused' = StoreKeys
    /\ UNCHANGED <<records, file, driver, world, past, bounds>>

(* The handler goes on: the broadcast, if one was due.                     *)
broadcast ==
    /\ saving.at = "saved"
    /\ saving' = Idle
    /\ IF saving.then \in StoreKeys
       THEN \E fate \in {"landed", "dead"} :
               /\ tx' = [tx EXCEPT ![saving.then] = fate]
               /\ landed' = [landed EXCEPT ![saving.then] = IF fate = "landed" THEN @ + 1 ELSE @]
       ELSE UNCHANGED world
    /\ UNCHANGED <<records, file, driver, past, bounds, excused>>

-----------------------------------------------------------------------------
(* The life of a submission, one record per key.                           *)
Ended(k, status) ==
    /\ ends < MaxEnds
    /\ ends' = ends + 1
    /\ records' = [records EXCEPT ![k] = [status |-> status, at |-> ends + 1]]
    /\ newer' = [j \in StoreKeys |-> IF j = k THEN {}
                                     ELSE IF records[j].status \in Terminal THEN newer[j] \cup {k}
                                     ELSE newer[j]]
    /\ excused' = excused \cup {j \in StoreKeys : Cardinality(newer'[j]) >= MaxRecords}

submit(k) ==
    /\ saving = Idle
    /\ records[k].status \in {"none", "staging_failed"}
    /\ starts < MaxStarts /\ starts' = starts + 1
    /\ records' = [records EXCEPT ![k] = [status |-> "in_flight", at |-> 0]]
    /\ driver' = driver \cup {<<k, "map">>}
    /\ tx' = [tx EXCEPT ![k] = "none"]
    /\ persist("none")
    /\ UNCHANGED <<file, landed, past, crashes, excused>>

(* The stager returned a hash: the record is pending before the            *)
(* transaction is sent.  A forgotten record is no longer in the map, but   *)
(* its stager goes on all the same.                                        *)
staged(k, of) ==
    /\ saving = Idle
    /\ <<k, of>> \in driver
    /\ driver' = driver \ {<<k, of>>}
    /\ records' = IF of = "map" THEN [records EXCEPT ![k].status = "pending"] ELSE records
    /\ persist(k)
    /\ UNCHANGED <<file, world, past, bounds, excused>>

stagingFails(k) ==
    /\ saving = Idle
    /\ <<k, "map">> \in driver
    /\ driver' = driver \ {<<k, "map">>}
    /\ Ended(k, "staging_failed")
    /\ persist("none")
    /\ UNCHANGED <<file, world, bounds>>

settle(k) ==
    /\ saving = Idle
    /\ records[k].status = "pending"
    /\ tx[k] \in {"landed", "dead"}
    /\ Ended(k, IF tx[k] = "landed" THEN "succeeded" ELSE "failed")
    /\ persist("none")
    /\ UNCHANGED <<file, driver, world, bounds>>

(* forget refuses succeeded and pending records unless forced; an          *)
(* in_flight one goes although its stager is still running.                *)
forget(k, force) ==
    /\ saving = Idle
    /\ records[k] # NoRecord
    /\ force \/ records[k].status \notin {"succeeded", "pending"}
    /\ records' = [records EXCEPT ![k] = NoRecord]
    /\ excused' = IF force \/ records[k].status = "in_flight"
                  THEN excused \cup {k} ELSE excused
    /\ driver' = {IF d[1] = k THEN <<k, "lost">> ELSE d : d \in driver}
    /\ persist("none")
    /\ UNCHANGED <<file, world, past, bounds>>

(* The process dies and restores what the file holds.  A record that was   *)
(* in flight has no hash and becomes re-stageable; one whose transaction   *)
(* was never sent is found dead by the next poll.                          *)
normalizePersistedStatus(r) ==
    IF r.status = "in_flight" THEN [r EXCEPT !.status = "staging_failed"] ELSE r

restore ==
    /\ crashes < MaxCrashes
    /\ crashes' = crashes + 1
    /\ records' = [k \in StoreKeys |-> normalizePersistedStatus(file[k])]
    /\ tx' = [k \in StoreKeys |-> IF tx[k] = "none" THEN "dead" ELSE tx[k]]
    /\ driver' = {} /\ saving' = Idle
    /\ UNCHANGED <<file, landed, past, starts, excused>>

StoreInit ==
    /\ records = Nothing /\ file = Nothing
    /\ saving = Idle /\ driver = {}
    /\ tx = [k \in StoreKeys |-> "none"] /\ landed = [k \in StoreKeys |-> 0]
    /\ ends = 0 /\ crashes = 0 /\ starts = 0
    /\ newer = [k \in StoreKeys |-> {}] /\ excused = {}

StoreNext ==
    \/ save \/ saveFails \/ broadcast \/ restore
    \/ \E k \in StoreKeys :
          \/ submit(k) \/ \E of \in {"map", "lost"} : staged(k, of)
          \/ stagingFails(k) \/ settle(k)
          \/ \E force \in BOOLEAN : forget(k, force)

StoreSpec == StoreInit /\ [][StoreNext]_storeVars

-----------------------------------------------------------------------------
(* The records and the file have their shapes.                             *)
StoreTypeOK ==
    /\ \A k \in StoreKeys : records[k].status \in Live \cup Terminal \cup {"none"}
    /\ saving.at \in {"idle", "write", "saved"}
    /\ driver \subseteq StoreKeys \X {"map", "lost"}
    /\ \A k \in StoreKeys : file[k].status \in Live \cup Terminal \cup {"none"}

(* "a crash mid-write can never leave a half-written file that loses a     *)
(* transaction hash" (relay-submission-store.ts): across crashes at every  *)
(* step of a save, a key pays twice only if its record was forgotten while *)
(* live, if a save failed, or if so many records ended after it that it    *)
(* was pruned.                                                             *)
PaidOnceWithinWindow == \A k \in StoreKeys \ excused : landed[k] <= 1

=============================================================================
