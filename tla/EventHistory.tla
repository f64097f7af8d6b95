---------------------------- MODULE EventHistory ----------------------------
(***************************************************************************)
(* EventHistoryManager (relayer/src/event-history.ts): the events of the   *)
(* bus in memory with an index, spilled to files when memory is full,      *)
(* archived when they are old, queried and replayed.  An event is its      *)
(* number; events are numbered by their timestamps.                        *)
(***************************************************************************)
EXTENDS Naturals, Sequences, FiniteSets, SequencesExt

CONSTANTS
    MaxMemory,  \* maxMemoryEvents
    MaxHistory, \* bound: events ever added
    MaxDay      \* bound: days, the resolution of an archive's file name

VARIABLES
    memory,     \* memoryEvents
    index,      \* events reachable through the index
    persisted,  \* events in the files written by persistOldestEvents
    archives,   \* the archive file of each day
    day,
    born,       \* number of events added
    replaying,  \* events whose replay timer is armed
    stoppedAt,  \* bound: a replay was stopped, no other is started
    reordered,  \* history: a query sorted memory itself
    rewritten   \* history: an archive file was written twice

histVars == <<memory, index, persisted, archives, day, born, replaying,
              stoppedAt, reordered, rewritten>>
hints == <<stoppedAt, reordered, rewritten>>

-----------------------------------------------------------------------------
(* addEvent, with persistOldestEvents when memory is over its limit: the   *)
(* first half of the array is spliced off into a file and stays in the     *)
(* index.                                                                  *)
Spilled_NewestHalf(events) ==
    SubSeq(events, Len(events) - (MaxMemory \div 2) + 1, Len(events))
Spilled(events) == SubSeq(events, 1, MaxMemory \div 2)

addEvent ==
    /\ born < MaxHistory
    /\ born' = born + 1
    /\ index' = index \cup {born'}
    /\ LET events == Append(memory, born') IN
          IF Len(events) > MaxMemory
          THEN /\ memory' = SubSeq(events, (MaxMemory \div 2) + 1, Len(events))
               /\ persisted' = persisted \cup Range(Spilled(events))
          ELSE memory' = events /\ UNCHANGED persisted
    /\ UNCHANGED <<archives, day, replaying, hints>>

(* queryEvents: what the index answers.  A query that finds nothing in the *)
(* index, or asks for nothing in particular, gets the memory array itself, *)
(* and the sort that follows is in place, newest first unless told         *)
(* otherwise.  No event is in memory twice, so one arrangement is sorted.  *)
sortEvents(events, order) ==
    {sorted \in [1 .. Len(events) -> Range(events)] :
        \A i, j \in 1 .. Len(events) : i < j =>
            IF order = "asc" THEN sorted[i] < sorted[j] ELSE sorted[i] > sorted[j]}

queryFromIndex(wanted) == wanted \cap index

queryEvents(wanted, order) ==
    /\ queryFromIndex(wanted) = {}
    /\ memory' \in sortEvents(memory, order)
    /\ memory' # memory
    /\ reordered' = TRUE
    /\ UNCHANGED <<index, persisted, archives, day, born, replaying, stoppedAt, rewritten>>

(* archiveOldEvents writes the file of the day, keeps the events that are  *)
(* not old, in the order of the array, and rebuilds the index.             *)
NotOlder(events, cutoff) ==
    LET first[n \in Nat] ==
            IF n = 0 THEN <<>>
            ELSE IF events[n] >= cutoff THEN Append(first[n - 1], events[n])
            ELSE first[n - 1]
    IN  first[Len(events)]

rebuildIndex(events) == Range(events)

archiveOldEvents(cutoff) ==
    LET old == {e \in Range(memory) : e < cutoff}
        kept == NotOlder(memory, cutoff)
    IN  /\ old # {}
        /\ archives' = [archives EXCEPT ![day] = old]
        /\ rewritten' = (rewritten \/ archives[day] # {})
        /\ memory' = kept
        /\ index' = rebuildIndex(kept)
        /\ UNCHANGED <<persisted, day, born, replaying, stoppedAt, reordered>>

NextDay ==
    /\ day < MaxDay
    /\ day' = day + 1
    /\ UNCHANGED <<memory, index, persisted, archives, born, replaying, hints>>

(* startReplay arms one timer per event; the time range is not applied by  *)
(* the index, so all events of the answer are replayed.  stopReplay and    *)
(* cleanup clear every timer.                                              *)
startReplay(wanted) ==
    /\ replaying = {} /\ ~ stoppedAt
    /\ replaying' = IF queryFromIndex(wanted) = {} THEN Range(memory)
                    ELSE queryFromIndex(wanted)
    /\ UNCHANGED <<memory, index, persisted, archives, day, born, hints>>

replayTimer(e) ==
    /\ e \in replaying
    /\ replaying' = replaying \ {e}
    /\ UNCHANGED <<memory, index, persisted, archives, day, born, hints>>

stopReplay ==
    /\ replaying # {}
    /\ replaying' = {} /\ stoppedAt' = TRUE
    /\ UNCHANGED <<memory, index, persisted, archives, day, born, reordered, rewritten>>

HistInit ==
    /\ memory = <<>> /\ index = {} /\ persisted = {}
    /\ archives = [d \in 1 .. MaxDay |-> {}]
    /\ day = 1 /\ born = 0 /\ replaying = {}
    /\ stoppedAt = FALSE /\ reordered = FALSE /\ rewritten = FALSE

HistNext ==
    \/ addEvent
    \/ \E wanted \in SUBSET (1 .. 2), order \in {"asc", "desc"} : queryEvents(wanted, order)
    \/ \E cutoff \in 1 .. MaxHistory : archiveOldEvents(cutoff)
    \/ NextDay
    \/ \E wanted \in SUBSET (1 .. 2) : startReplay(wanted)
    \/ \E e \in replaying : replayTimer(e)
    \/ stopReplay

-----------------------------------------------------------------------------
(* The shapes of the history's state.                                      *)
HistTypeOK ==
    /\ Range(memory) \cup index \cup persisted \cup replaying \subseteq 1 .. MaxHistory
    /\ Len(memory) <= MaxMemory
    /\ archives \in [1 .. MaxDay -> SUBSET (1 .. MaxHistory)]
    /\ born \in 0 .. MaxHistory /\ day \in 1 .. MaxDay

OnDisk == persisted \cup UNION {archives[d] : d \in 1 .. MaxDay}

(* No event is lost and the ones in memory are the newest: spilling keeps  *)
(* what came last, archiving drops only what it wrote.  It holds while no  *)
(* query has turned the memory array round under the spilling code and no  *)
(* second archive of a day has overwritten the first.                      *)
HistoryComplete ==
    ~ reordered /\ ~ rewritten =>
        /\ Range(memory) \cup OnDisk = 1 .. born
        /\ \A e \in Range(memory), f \in OnDisk : f < e

(* Whatever is in memory can be found through the index.                   *)
MemoryIndexed == Range(memory) \subseteq index

=============================================================================
