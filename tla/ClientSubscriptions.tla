------------------------- MODULE ClientSubscriptions -------------------------
(***************************************************************************)
(* The event bus of the relayer and the subscriptions of its clients:      *)
(* FusionEventManager (event-handlers.ts) calls the listener of every      *)
(* matching subscription, ClientSubscriptionManager                        *)
(* (client-subscriptions.ts) queues the event and delivers the queue.      *)
(*                                                                         *)
(* Delivering one item has no pause in which another callback could run,   *)
(* so a run of processDeliveryQueue is one step.                           *)
(***************************************************************************)
EXTENDS Integers, FiniteSets

CONSTANTS
    Subscribers, \* client ids
    SubIds,      \* bound: subscriptions ever created
    Kinds,       \* event types
    MaxSubs,     \* maxSubscriptionsPerClient
    MaxEvents,   \* bound: events ever emitted
    Batch        \* items delivered by one run of the queue (100 in the code)

VARIABLES
    client,      \* clients: registered, current subscription, quota counter
    sub,         \* the subscriptions ever created
    heard,       \* the event types the listener of a subscription was given
    queue,       \* deliveryQueue: pairs of event number and subscription
    got,         \* items delivered
    emitted      \* number of events

subVars == <<client, sub, heard, queue, got, emitted>>

Nobody == [on |-> FALSE, cur |-> "none", count |-> 0]
NoSub == [owner |-> "none", types |-> {}, isActive |-> FALSE]

-----------------------------------------------------------------------------
(* The subscription the client record points to is the only one that       *)
(* cancelling, unregistering and delivering know of.                       *)
registerClient(c) ==
    /\ client' = [client EXCEPT ![c] = [Nobody EXCEPT !.on = TRUE]]
    /\ UNCHANGED <<sub, heard, queue, got, emitted>>

Dropped(c) == {item \in queue : sub[item[2]].owner # c}

Deactivated(c) ==
    IF client[c].cur = "none" THEN sub
    ELSE [sub EXCEPT ![client[c].cur].isActive = FALSE]

unregisterClient(c) ==
    /\ client[c].on
    /\ sub' = Deactivated(c)
    /\ queue' = Dropped(c)
    /\ client' = [client EXCEPT ![c] = Nobody]
    /\ UNCHANGED <<heard, got, emitted>>

cancelSubscription(c) ==
    /\ client[c].cur # "none"
    /\ sub' = Deactivated(c)
    /\ queue' = Dropped(c)
    /\ client' = [client EXCEPT ![c].cur = "none", ![c].count = @ - 1]
    /\ UNCHANGED <<heard, got, emitted>>

(* A second subscription replaces the first in the client record; the      *)
(* first stays active and its listener stays registered.                   *)
createSubscription(c, types) ==
    /\ client[c].on
    /\ client[c].count < MaxSubs
    /\ \E i \in {x \in SubIds : sub[x] = NoSub} :
          /\ sub' = [sub EXCEPT ![i] = [owner |-> c, types |-> types, isActive |-> TRUE]]
          /\ heard' = [heard EXCEPT ![i] = types]
          /\ client' = [client EXCEPT ![c].cur = i, ![c].count = @ + 1]
    /\ UNCHANGED <<queue, got, emitted>>

(* The listener keeps the set of event types it was created with.          *)
updateSubscription(c, types) ==
    /\ client[c].cur # "none"
    /\ sub' = [sub EXCEPT ![client[c].cur].types = types]
    /\ UNCHANGED <<client, heard, queue, got, emitted>>

(* The timers: clients that were silent for too long are unregistered, and *)
(* quotas, with the counter of live subscriptions among them, start afresh.*)
cleanupInactiveSubscriptions(c) == unregisterClient(c)

resetQuotas(c) ==
    /\ client[c].count # 0
    /\ client' = [client EXCEPT ![c].count = 0]
    /\ UNCHANGED <<sub, heard, queue, got, emitted>>

-----------------------------------------------------------------------------
(* deliverEvent: only to a client whose record has a subscription.         *)
Deliverable(items) == {item \in items : client[sub[item[2]].owner].cur # "none"}

(* What a run of the queue delivers; the order inside a batch is left open.*)
Runs_OnlyFullBatches(items) ==
    {d \in SUBSET Deliverable(items) : Cardinality(d) = Batch}
Runs(items) ==
    {d \in SUBSET Deliverable(items) :
        Cardinality(d) = (IF Cardinality(Deliverable(items)) < Batch
                          THEN Cardinality(Deliverable(items)) ELSE Batch)}

processDeliveryQueue(items) ==
    \E d \in Runs(items) : queue' = items \ d /\ got' = got \cup d

queueTimer ==
    /\ queue # {}
    /\ processDeliveryQueue(queue)
    /\ UNCHANGED <<client, sub, heard, emitted>>

(* emitEvent calls every listener of that type; handleEventForSubscription *)
(* ignores subscriptions that are inactive or whose client is gone.  The   *)
(* finer filters of a subscription are part of the event's type here.      *)
shouldNotifyListener(i, kind) == kind \in heard[i]
handleEventForSubscription(i) == sub[i].isActive /\ client[sub[i].owner].on

emitEvent(kind) ==
    /\ emitted < MaxEvents
    /\ emitted' = emitted + 1
    /\ LET items == {<<emitted', i>> : i \in {x \in SubIds :
                        shouldNotifyListener(x, kind) /\ handleEventForSubscription(x)}}
       IN  IF items = {} THEN UNCHANGED <<queue, got>>
           ELSE processDeliveryQueue(queue \cup items)
    /\ UNCHANGED <<client, sub, heard>>

SubInit ==
    /\ client = [c \in Subscribers |-> Nobody]
    /\ sub = [i \in SubIds |-> NoSub]
    /\ heard = [i \in SubIds |-> {}]
    /\ queue = {} /\ got = {} /\ emitted = 0

SubNext ==
    \/ \E c \in Subscribers :
          \/ registerClient(c) \/ unregisterClient(c)
          \/ cancelSubscription(c)
          \/ cleanupInactiveSubscriptions(c) \/ resetQuotas(c)
          \/ \E types \in SUBSET Kinds \ {{}} :
                createSubscription(c, types) \/ updateSubscription(c, types)
    \/ \E kind \in Kinds : emitEvent(kind)
    \/ queueTimer

(* The queue's timer fires every second.                                   *)
SubFairness == WF_subVars(queueTimer)

-----------------------------------------------------------------------------
(* The shapes of the subscription manager's state.                         *)
SubTypeOK ==
    /\ client \in [Subscribers -> [on: BOOLEAN, cur: SubIds \cup {"none"}, count: Int]]
    /\ sub \in [SubIds -> [owner: Subscribers \cup {"none"}, types: SUBSET Kinds,
                           isActive: BOOLEAN]]
    /\ heard \in [SubIds -> SUBSET Kinds]
    /\ queue \cup got \subseteq (1 .. MaxEvents) \X SubIds
    /\ emitted \in 0 .. MaxEvents

(* Nothing is queued for a client that is gone: whatever order of          *)
(* subscribing twice, cancelling, timing out and emitting came before.     *)
QueueHasOwner == \A item \in queue : client[sub[item[2]].owner].on

(* An event queued for a client that keeps a subscription is delivered, at *)
(* any number of events per run of the queue.                              *)
QueuedIsDelivered ==
    \A n \in 1 .. MaxEvents, i \in SubIds :
        <<n, i>> \in queue ~>
            <<n, i>> \notin queue \/ client[sub[i].owner].cur = "none"

=============================================================================
