------------------------------ MODULE MCRelayer ------------------------------
(***************************************************************************)
(* The part of the relayer process that moves money: the handlers that     *)
(* pay, the monitoring that starts and stops the pollers, and one poller   *)
(* of contract events.                                                     *)
(*                                                                         *)
(* RelayerPayouts already lets the pollers act at any time, so the three   *)
(* share no variable; `part' picks the one a behavior is about, so each is *)
(* explored in full and their product is not.  Fairness of a part is asked *)
(* only in its own behaviors.                                              *)
(***************************************************************************)
EXTENDS RelayerPayouts

CONSTANTS
    Explored,
    MonOrders, Starts, MaxHtlcs,
    Bindings, MaxHead, MaxWindow

\* Bounds are numbers, and the placeholder "none" is no order of the monitoring.
ASSUME PollersAssumption ==
    /\ {MaxHtlcs, MaxHead, MaxWindow} \subseteq Nat
    /\ IsFiniteSet(Starts) /\ "none" \notin MonOrders

VARIABLES
    part,
    status, seen, started, start, poller, tick, sent, doubled,
    mined, logs, cursor, timer, running, stopped, awake, window, asked, handled

Mon == INSTANCE ChainMonitoring
Poll == INSTANCE EventPoller WITH active <- awake

monitoring == <<status, seen, started, start, poller, tick, sent, doubled>>
polls == <<mined, logs, cursor, timer, running, stopped, awake, window, asked, handled>>

MCInit ==
    /\ part \in Explored
    \* a part that is not explored stays in one of its initial states
    /\ part # "payouts" => users = CHOOSE session \in Sessions : TRUE
    /\ part # "polls" => awake = FALSE
    /\ Init /\ Mon!MonInit /\ Poll!PollInit

MCNext ==
    /\ UNCHANGED part
    /\ \/ part = "payouts" /\ Next /\ UNCHANGED <<monitoring, polls>>
       \/ part = "monitoring" /\ Mon!MonNext /\ UNCHANGED <<vars, polls>>
       \/ part = "polls" /\ Poll!PollNext /\ UNCHANGED <<vars, monitoring>>

\* PayoutFairness and PollFairness, each in the behaviors of its own part.
MCFairness ==
    /\ \A a \in Actors : WF_vars(part = "payouts" /\ HandlerStep(a))
    /\ \A o \in XlmOrders :
          /\ WF_vars(part = "payouts" /\ TrackerStep(<<o, "claim">>))
          /\ WF_vars(part = "payouts" /\ TrackerStep(<<o, "refund">>))
          /\ SF_vars(part = "payouts" /\ Staged(<<o, "refund">>))
          /\ WF_vars(part = "payouts" /\ TxResolves(<<o, "refund">>))
          /\ SF_vars(/\ part = "payouts" /\ Polled(<<o, "refund">>)
                     /\ gate'[<<o, "refund">>] # "pending")
    /\ \A w \in Scans, o \in XlmOrders : SF_vars(part = "payouts" /\ ScanOrder(w, o))
    /\ WF_polls(part = "polls" /\ Poll!run)
    /\ WF_polls(part = "polls" /\ (Poll!TickStep \/ Poll!rpcFails))
    /\ <>[][~ Poll!rpcFails]_polls

MCSpec == MCInit /\ [][MCNext]_<<part, vars, monitoring, polls>> /\ MCFairness

-----------------------------------------------------------------------------
\* The state of each part has its shape.
RelayerTypeOK == TypeOK /\ Mon!MonTypeOK /\ Poll!PollTypeOK

\* ensure/reconcile/stopChainMonitoring and the stellar-incoming poller: while
\* one start is alive at a time a payment gets at most one ETH HTLC, however
\* the ticks overlap, and the flag is raised only while something polls.
OneHtlcPerPayment == Mon!OneHtlcPerPayment /\ Mon!FlagMeansPolling

\* startEventPoller: no log is passed over, and every block mined while orders
\* are open is passed once the RPC stops failing, whatever failed before and
\* however far the cursor had fallen behind.
LogsHandled == Poll!BlocksPassed /\ []Poll!NoLogSkipped
=============================================================================
