-------------------------- MODULE MCRelayerServices --------------------------
(***************************************************************************)
(* What runs beside the relayer's handlers: the submission tracker, the    *)
(* subscription manager with its delivery queue, and the WebSocket server. *)
(*                                                                         *)
(* They share no variable; `part' picks the one a behavior is about, so    *)
(* each is explored in full and their product is not.  Fairness of a part  *)
(* is asked only in its own behaviors.                                     *)
(***************************************************************************)
EXTENDS RelaySubmissionTracker

CONSTANTS
    Explored,
    Subscribers, SubIds, Kinds, MaxSubs, MaxEvents, Batch,
    Sockets, Trusted, WsKinds, WsOrders, MaxFrames

\* The bounds are numbers, and the owner of a subscription that was never made
\* is no client.
ASSUME ServicesAssumption ==
    /\ MaxEvents \in Nat /\ MaxFrames \in Nat
    /\ "none" \notin Subscribers

VARIABLES
    part,
    client, sub, heard, queue, got, emitted,
    link, peer, registered, alive, ping, wants, filter, served, since, frames

Subs == INSTANCE ClientSubscriptions
Ws == INSTANCE WebSocketServer

subscriptions == <<client, sub, heard, queue, got, emitted>>
sockets == <<link, peer, registered, alive, ping, wants, filter, served, since, frames>>

MCInit == part \in Explored /\ Init /\ Subs!SubInit /\ Ws!WsInit

MCNext ==
    /\ UNCHANGED part
    /\ \/ part = "tracker" /\ Next /\ UNCHANGED <<subscriptions, sockets>>
       \/ part = "subscriptions" /\ Subs!SubNext /\ UNCHANGED <<vars, sockets>>
       \/ part = "sockets" /\ Ws!WsNext /\ UNCHANGED <<vars, subscriptions>>

\* TrackerFairness (whose actions all need a submission under way), SubFairness
\* and WsFairness, each in the behaviors of its own part.
MCFairness ==
    /\ TrackerFairness
    /\ WF_subscriptions(part = "subscriptions" /\ Subs!queueTimer)
    /\ WF_sockets(part = "sockets" /\ Ws!pingInterval)

MCSpec == MCInit /\ [][MCNext]_<<part, vars, subscriptions, sockets>> /\ MCFairness

-----------------------------------------------------------------------------
\* The state of each service has its shape.
ServicesTypeOK == TypeOK /\ Subs!SubTypeOK /\ Ws!WsTypeOK

\* deliveryQueue and startPingInterval: a queued notification is delivered to
\* a client that keeps its subscription, at any load; a connection whose peer
\* vanished is dropped.  Nothing is queued for a client that is gone, and no
\* socket is served what it never asked for.
NotificationsFlow ==
    /\ Subs!QueuedIsDelivered /\ []Subs!QueueHasOwner
    /\ Ws!VanishedPeerDropped /\ []Ws!ServedAskedFor
=============================================================================
