----------------------------- MODULE EventPoller -----------------------------
(***************************************************************************)
(* The relayer's block poller: the cursor loop of contract-event-poller.ts *)
(* (the same loop as EthereumEventListener.pollEvents and                  *)
(* fetchIncomingEthPayments) driven by the timer of adaptive-poll.ts.      *)
(*                                                                         *)
(* A tick awaits the head, then one query per event binding; any of them   *)
(* may fail.  Meanwhile blocks are mined, orders come and go, a visitor    *)
(* wakes the loop or the monitoring stops it.                              *)
(***************************************************************************)
EXTENDS Naturals, FiniteSets

CONSTANTS
    Bindings,   \* event names with a handler
    MaxHead,    \* bound: last block
    MaxWindow   \* maxBlockWindow: blocks per query

VARIABLES
    mined,      \* head of the chain
    logs,       \* the logs of the mined blocks: pairs of block and binding
    cursor,     \* lastProcessed
    timer,      \* a setTimeout is armed
    running,    \* a run of the loop is under way
    stopped,
    active,     \* isActive()
    window,     \* the blocks this tick asks for
    asked,      \* bindings already answered in this tick
    handled     \* logs whose handler ran

pollVars == <<mined, logs, cursor, timer, running, stopped, active, window,
              asked, handled>>
loopVars == <<timer, running, stopped>>

NoWindow == [from |-> 0, to |-> 0]

-----------------------------------------------------------------------------
Mine ==
    /\ mined < MaxHead
    /\ mined' = mined + 1
    /\ \E events \in SUBSET Bindings :
          logs' = logs \cup {<<mined', b>> : b \in events}
    /\ UNCHANGED <<cursor, loopVars, active, window, asked, handled>>

OrdersChange ==
    /\ active' = ~ active
    /\ UNCHANGED <<mined, logs, cursor, loopVars, window, asked, handled>>

(* wake() and stop() of the handle.                                        *)
wake ==
    /\ ~ stopped /\ ~ running
    /\ timer' = TRUE
    /\ UNCHANGED <<mined, logs, cursor, running, stopped, active, window, asked, handled>>

stop ==
    /\ ~ stopped
    /\ stopped' = TRUE /\ timer' = FALSE
    /\ UNCHANGED <<mined, logs, cursor, running, active, window, asked, handled>>

(* run(): the timer fires; without an active order no RPC is made and the  *)
(* loop rearms itself at once.                                             *)
run ==
    /\ timer /\ ~ stopped /\ ~ running
    /\ IF active
       THEN running' = TRUE /\ timer' = FALSE
       ELSE UNCHANGED <<running, timer>>
    /\ UNCHANGED <<mined, logs, cursor, stopped, active, window, asked, handled>>

(* The finally block: schedule() does nothing once the loop is stopped.    *)
Rearm_OnSuccessOnly == timer' = FALSE
Rearm == timer' = ~ stopped

EndTick ==
    /\ running' = FALSE
    /\ window' = NoWindow /\ asked' = {}
    /\ UNCHANGED stopped

(* The blocks after the cursor, at most MaxWindow of them.                 *)
WindowAfter(c) ==
    [from |-> c + 1, to |-> IF mined < c + MaxWindow THEN mined ELSE c + MaxWindow]

headRead ==
    /\ running /\ window = NoWindow
    /\ IF mined <= cursor
       THEN EndTick /\ timer' = ~ stopped
       ELSE /\ window' = WindowAfter(cursor)
            /\ UNCHANGED <<loopVars, asked>>
    /\ UNCHANGED <<mined, logs, cursor, active, handled>>

(* The handlers of one binding's logs, in the window; what a handler       *)
(* throws is logged.                                                       *)
HandledNow(b) == {l \in logs : l[2] = b /\ l[1] \in window.from .. window.to}

queryFilter(b) ==
    /\ running /\ window # NoWindow
    /\ b \in Bindings \ asked
    /\ handled' = handled \cup HandledNow(b)
    /\ asked' = asked \cup {b}
    /\ UNCHANGED <<mined, logs, cursor, loopVars, active, window>>

CursorAfter(w) == w.to

tickDone ==
    /\ running /\ window # NoWindow
    /\ asked = Bindings
    /\ cursor' = CursorAfter(window)
    /\ EndTick /\ timer' = ~ stopped
    /\ UNCHANGED <<mined, logs, active, handled>>

(* A failing RPC keeps the cursor; the same window is asked again.         *)
rpcFails ==
    /\ running
    /\ EndTick /\ Rearm
    /\ UNCHANGED <<mined, logs, cursor, active, handled>>

PollInit ==
    /\ mined = 0 /\ logs = {} /\ cursor = 0
    /\ timer = TRUE /\ running = FALSE /\ stopped = FALSE
    /\ active \in BOOLEAN
    /\ window = NoWindow /\ asked = {} /\ handled = {}

TickStep ==
    \/ headRead
    \/ \E b \in Bindings : queryFilter(b)
    \/ tickDone

PollNext == Mine \/ OrdersChange \/ wake \/ stop \/ run \/ TickStep \/ rpcFails

PollSpec == PollInit /\ [][PollNext]_pollVars

(* The timer fires, awaits return, and the RPC stops failing at some point.*)
PollFairness ==
    /\ WF_pollVars(run)
    /\ WF_pollVars(TickStep \/ rpcFails)
    /\ <>[][~ rpcFails]_pollVars

-----------------------------------------------------------------------------
(* The shapes of the poller's state.                                       *)
PollTypeOK ==
    /\ mined \in 0 .. MaxHead /\ cursor \in 0 .. MaxHead
    /\ logs \subseteq (1 .. MaxHead) \X Bindings
    /\ handled \subseteq logs /\ asked \subseteq Bindings
    /\ window \in [from: 0 .. MaxHead, to: 0 .. MaxHead]
    /\ \A flag \in {timer, running, stopped, active} : flag \in BOOLEAN

(* The cursor never passes a log whose handler has not run, whichever      *)
(* queries failed and however far the poller had fallen behind.            *)
NoLogSkipped == \A l \in logs : l[1] <= cursor => l \in handled

(* Every mined block is passed by the cursor while orders keep the poller  *)
(* active.                                                                 *)
BlocksPassed ==
    \A n \in 1 .. MaxHead : mined >= n ~> (cursor >= n \/ stopped \/ ~ active)

=============================================================================
