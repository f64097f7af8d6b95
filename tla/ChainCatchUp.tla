---------------------------- MODULE ChainCatchUp ----------------------------
(***************************************************************************)
(* How the coordinator follows the chains across restarts: the Ethereum    *)
(* listener's start, catch-up and watchers, ChainEventProcessor with its   *)
(* processed-event table and saved cursor, and the Soroban polling loop.   *)
(*                                                                         *)
(* The orders here have Ethereum as their source chain; what one row does  *)
(* under racing handlers is OrderService's subject, so applying an event   *)
(* is one step.  The process may crash between any two steps: the database *)
(* (status, processed, cursor) survives, the rest does not.               *)
(***************************************************************************)
EXTENDS Naturals, Sequences, SequencesExt

CONSTANTS
    Swaps,      \* orders that may be announced
    MaxBlock,   \* bound on the blocks and ledgers with an event
    MaxBoots    \* bound on the starts of the coordinator

VARIABLES
    swap,       \* orders.status of each order, "none" before its announce
    processed,  \* processed_chain_events: Ethereum blocks handled
    applied,    \* Soroban ledgers whose event reached the order book
    cursor,     \* the saved position per chain, None before the first save
    ethLogs,    \* external: the escrow's log, one event per block
    ledger,     \* external: the latest Soroban ledger, each with an event
    run,        \* the Ethereum listener's progress in this boot
    poll,       \* the Soroban loop's progress in this boot
    boots,      \* starts so far
    origin,     \* history: where each saved cursor began
    unseen,     \* history: orders announced only after their lock was mined
    failed      \* history: Soroban ledgers whose event hit a storage error

chainLogs == <<ethLogs, ledger>>
history == <<origin, unseen>>
sorVars == <<applied, poll, failed>>
catchVars == <<swap, processed, applied, cursor, ethLogs, ledger, run, poll,
               boots, origin, unseen, failed>>

None == MaxBlock + 1
Chains == {"ethereum", "soroban"}
Event(o, kind) == [order |-> o, kind |-> kind]
Off == [at |-> "off", pos |-> 0, to |-> 0, seen |-> {}]
PollOff == [at |-> "off", from |-> None, to |-> 0, pos |-> 0]

-----------------------------------------------------------------------------
(* What an event does to the row.  A lock is recorded on an announced row; *)
(* claims and refunds find the row by the on-chain id that lock recorded.  *)
recordSrcLock(o) ==
    IF swap[o] = "announced" THEN [swap EXCEPT ![o] = "src_locked"] ELSE swap
recordRefund(o) ==
    IF swap[o] = "src_locked" THEN [swap EXCEPT ![o] = "refunded"] ELSE swap
recordClaim(o) ==
    IF swap[o] = "src_locked" THEN [swap EXCEPT ![o] = "completed"] ELSE swap

(* OrderEventApplier.apply, the watchers' path.                            *)
applyLive(ev) ==
    CASE ev.kind = "lock" -> recordSrcLock(ev.order)
      [] ev.kind = "claim" -> recordClaim(ev.order)
      [] ev.kind = "refund" -> recordRefund(ev.order)

(* ChainEventProcessor.apply, the catch-up's path.  SecretService.reveal   *)
(* wants a preimage that hashes to the hashlock together with the order    *)
(* id; the escrow was opened by one that hashes to it alone, so an         *)
(* Ethereum claim is refused ("preimage does not match") and ignored.      *)
applySettlement(ev) ==
    IF ev.kind = "refund" THEN recordRefund(ev.order) ELSE swap

-----------------------------------------------------------------------------
(* EthereumListener.start: resume reads the saved cursor, then the head.   *)
(* With no cursor the head becomes the cursor and nothing is caught up.    *)
start ==
    /\ run.at = "off"
    /\ boots < MaxBoots
    /\ boots' = boots + 1
    /\ IF cursor["ethereum"] = None
       THEN /\ cursor' = [cursor EXCEPT !["ethereum"] = Len(ethLogs)]
            /\ origin' = [origin EXCEPT !["ethereum"] = Len(ethLogs)]
            /\ run' = [Off EXCEPT !.at = "arming"]
       ELSE /\ run' = [at |-> "locks", pos |-> cursor["ethereum"],
                       to |-> Len(ethLogs), seen |-> {}]
            /\ UNCHANGED <<cursor, origin>>
    /\ UNCHANGED <<swap, processed, chainLogs, unseen, sorVars>>

(* handleCreated for the created logs of the range, oldest first; then the *)
(* settlements are processed from the start of the range again.            *)
InRange(kinds) ==
    run.pos \in 1..run.to /\ ethLogs[run.pos].kind \in kinds

handleCreated ==
    /\ run.at = "locks"
    /\ IF run.pos <= run.to
       THEN /\ swap' = IF InRange({"lock"})
                       THEN recordSrcLock(ethLogs[run.pos].order) ELSE swap
            /\ run' = [run EXCEPT !.pos = @ + 1]
       ELSE /\ run' = [run EXCEPT !.at = "settle", !.pos = cursor["ethereum"]]
            /\ UNCHANGED swap
    /\ UNCHANGED <<processed, cursor, chainLogs, boots, history, sorVars>>

(* process: skip a marked event, apply, and only then mark it.             *)
FirstStep_Mark == "mark"
FirstStep == "apply"
Needed == InRange({"claim", "refund"}) /\ run.pos \notin processed

process ==
    /\ \/ /\ run.at = "settle" /\ Needed
          /\ run' = [run EXCEPT !.at = "second"]
          /\ IF FirstStep = "apply"
             THEN /\ swap' = applySettlement(ethLogs[run.pos])
                  /\ UNCHANGED processed
             ELSE /\ processed' = processed \cup {run.pos}
                  /\ UNCHANGED swap
       \/ /\ run.at = "second"
          /\ run' = [run EXCEPT !.at = "settle", !.pos = @ + 1]
          /\ IF FirstStep = "apply"
             THEN /\ processed' = processed \cup {run.pos}
                  /\ UNCHANGED swap
             ELSE /\ swap' = applySettlement(ethLogs[run.pos])
                  /\ UNCHANGED processed
       \/ /\ run.at = "settle" /\ run.pos <= run.to /\ ~Needed
          /\ run' = [run EXCEPT !.pos = @ + 1]
          /\ UNCHANGED <<swap, processed>>
    /\ UNCHANGED <<cursor, chainLogs, boots, history, sorVars>>

(* processBatch ends: the cursor moves to the head read at the start, and  *)
(* never backwards.                                                        *)
saveChainCursor(chain, position) ==
    cursor' = [cursor EXCEPT ![chain] =
                  IF @ = None \/ position >= @ THEN position ELSE @]

advance ==
    /\ run.at = "settle" /\ run.pos > run.to
    /\ saveChainCursor("ethereum", run.to)
    /\ run' = [run EXCEPT !.at = "arming"]
    /\ UNCHANGED <<swap, processed, chainLogs, boots, history, sorVars>>

(* watchEvent delivers what is mined after the watchers were installed;    *)
(* logs between the head read and this moment are in neither range.        *)
watchEvent ==
    /\ run.at = "arming"
    /\ run' = [at |-> "watching", pos |-> Len(ethLogs), to |-> 0, seen |-> {}]
    /\ UNCHANGED <<swap, processed, cursor, chainLogs, boots, history, sorVars>>

(* onLogs: one watcher per event kind, each with its own loop, so the      *)
(* kinds overtake one another.  The cursor does not move.                  *)
CursorAfterLog(b) == cursor["ethereum"]

onLogs(b) ==
    /\ run.at = "watching"
    /\ b > run.pos /\ b \notin run.seen
    /\ \A a \in 1..b - 1 :
          a > run.pos /\ ethLogs[a].kind = ethLogs[b].kind => a \in run.seen
    /\ swap' = applyLive(ethLogs[b])
    /\ run' = [run EXCEPT !.seen = @ \cup {b}]
    /\ saveChainCursor("ethereum", CursorAfterLog(b))
    /\ UNCHANGED <<processed, chainLogs, boots, history, sorVars>>

-----------------------------------------------------------------------------
(* SorobanListener.  The first poll without a saved cursor begins at the   *)
(* ledger before the latest one.                                           *)
sorobanStart ==
    /\ poll.at = "off" /\ run.at = "watching"
    /\ poll' = [PollOff EXCEPT !.at = "idle", !.from = cursor["soroban"]]
    /\ UNCHANGED <<swap, processed, applied, cursor, chainLogs, run, boots,
                   history, failed>>

getEvents ==
    LET first == IF poll.from # None THEN poll.from
                 ELSE IF ledger < 2 THEN 0
                 ELSE ledger - 2
    IN  /\ poll.at = "idle"
        /\ poll' = [at |-> "batch", from |-> first, pos |-> first + 1,
                    to |-> ledger]
        /\ UNCHANGED <<swap, processed, applied, cursor, chainLogs, run, boots,
                       history, failed>>

(* The applier never throws: a storage error is an outcome that is logged, *)
(* and the batch goes on.                                                  *)
applySoroban ==
    /\ poll.at = "batch" /\ poll.pos <= poll.to
    /\ poll' = [poll EXCEPT !.pos = @ + 1]
    /\ \/ /\ applied' = applied \cup {poll.pos}
          /\ UNCHANGED failed
       \/ /\ failed' = failed \cup {poll.pos}
          /\ UNCHANGED applied
    /\ UNCHANGED <<swap, processed, cursor, chainLogs, run, boots, history>>

BatchHandled == poll.pos > poll.to

saveSorobanCursor ==
    /\ poll.at = "batch" /\ BatchHandled
    /\ saveChainCursor("soroban", poll.to)
    /\ poll' = [PollOff EXCEPT !.at = "idle", !.from = poll.to]
    /\ origin' = [origin EXCEPT !["soroban"] = IF @ = None THEN poll.from ELSE @]
    /\ UNCHANGED <<swap, processed, applied, chainLogs, run, boots, unseen,
                   failed>>

-----------------------------------------------------------------------------
(* announce inserts the row; the chains grow; the process stops anywhere.  *)
announce(o) ==
    /\ swap[o] = "none"
    /\ swap' = [swap EXCEPT ![o] = "announced"]
    /\ unseen' = IF Contains(ethLogs, Event(o, "lock"))
                 THEN unseen \cup {o} ELSE unseen
    /\ UNCHANGED <<processed, cursor, chainLogs, run, boots, origin, sorVars>>

Mine(o) ==
    LET logged(kind) == Contains(ethLogs, Event(o, kind)) IN
    /\ Len(ethLogs) < MaxBlock
    /\ \E kind \in {"lock", "claim", "refund"} :
          /\ IF kind = "lock" THEN ~logged("lock")
             ELSE logged("lock") /\ ~logged("claim") /\ ~logged("refund")
          /\ ethLogs' = Append(ethLogs, Event(o, kind))
    /\ UNCHANGED <<swap, processed, cursor, ledger, run, boots, history, sorVars>>

CloseLedger ==
    /\ ledger < MaxBlock
    /\ ledger' = ledger + 1
    /\ UNCHANGED <<swap, processed, cursor, ethLogs, run, boots, history, sorVars>>

Crash ==
    /\ run.at # "off"
    /\ run' = Off
    /\ poll' = PollOff
    /\ UNCHANGED <<swap, processed, applied, cursor, chainLogs, boots, history,
                   failed>>

CatchInit ==
    /\ swap = [o \in Swaps |-> "none"]
    /\ processed = {} /\ applied = {} /\ failed = {}
    /\ cursor = [c \in Chains |-> None]
    /\ origin = [c \in Chains |-> None]
    /\ ethLogs = <<>> /\ ledger = 0
    /\ run = Off /\ poll = PollOff
    /\ boots = 0
    /\ unseen = {}

CatchNext ==
    \/ start
    \/ handleCreated
    \/ process
    \/ advance
    \/ watchEvent
    \/ \E b \in 1..Len(ethLogs) : onLogs(b)
    \/ sorobanStart
    \/ getEvents
    \/ applySoroban
    \/ saveSorobanCursor
    \/ \E o \in Swaps : announce(o) \/ Mine(o)
    \/ CloseLedger
    \/ Crash

CatchSpec == CatchInit /\ [][CatchNext]_catchVars

-----------------------------------------------------------------------------
(* The shapes of the rows, the cursors and the listeners' progress.        *)
CatchTypeOK ==
    /\ swap \in [Swaps -> {"none", "announced", "src_locked", "completed",
                           "refunded"}]
    /\ processed \cup applied \cup failed \subseteq 1..MaxBlock
    /\ cursor \in [Chains -> 0..None]
    /\ run.at \in {"off", "locks", "settle", "second", "arming", "watching"}
    /\ poll.at \in {"off", "idle", "batch"}
    /\ boots \in 0..MaxBoots

(* "A crash between any two steps only causes redelivery"                  *)
(* (chain-events.ts): a refund behind the saved Ethereum cursor is on its  *)
(* row, whichever of apply, mark and advance the process died between,     *)
(* and whatever the watchers missed; and a Soroban event behind the saved  *)
(* Soroban cursor was applied unless the database itself failed.           *)
NothingLostBehindCursor ==
    /\ \A b \in 1..Len(ethLogs) :
          LET ev == ethLogs[b] IN
          /\ ev.kind = "refund"
          /\ cursor["ethereum"] # None /\ b <= cursor["ethereum"]
          /\ ev.order \notin unseen /\ swap[ev.order] # "none"
          /\ \E a \in 1..b : a > origin["ethereum"]
                             /\ ethLogs[a] = Event(ev.order, "lock")
          => swap[ev.order] = "refunded"
    /\ cursor["soroban"] # None =>
          origin["soroban"] + 1..cursor["soroban"] \subseteq applied \cup failed

(* "a restart resumes where the previous run stopped" (chain-events.ts): a *)
(* claim caught up after a restart reaches its order.                      *)
ClaimsCaughtUp ==
    \A b \in processed :
        ethLogs[b].kind = "claim" /\ swap[ethLogs[b].order] # "none"
        => swap[ethLogs[b].order] = "completed"

=============================================================================
