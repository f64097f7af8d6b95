-------------------------- MODULE WebSocketServer --------------------------
(***************************************************************************)
(* FusionWebSocketServer (relayer/src/websocket-server.ts): sockets that   *)
(* pass the origin check become clients, subscribe to event types with     *)
(* filters, receive broadcasts and are pinged every 30 seconds.  The peer  *)
(* at the other end may vanish without closing the connection, and frames, *)
(* pongs and the close event arrive in any order.                          *)
(***************************************************************************)
EXTENDS Naturals, Sequences, FiniteSets

CONSTANTS
    Sockets,     \* connections ever opened
    Trusted,     \* those whose Origin is on the allowlist
    WsKinds,     \* event types
    WsOrders,    \* order hashes
    MaxFrames    \* bound: events broadcast

VARIABLES
    link,        \* the connection: idle, open, closed
    peer,        \* is somebody there to answer
    registered,  \* clients
    alive,       \* isAlive
    ping,        \* sockets with a ping on its way or a pong on its way back
    wants,       \* subscriptions of a client
    filter,      \* orderFilters of a client
    served,      \* <<socket, kind, order>> sent over an open connection
    since,       \* what a client could have asked for since it connected
    frames       \* number of broadcasts

wsVars == <<link, peer, registered, alive, ping, wants, filter, served, since, frames>>
conn == <<link, peer, registered, alive, ping>>
data == <<wants, filter, served, since, frames>>

-----------------------------------------------------------------------------
(* handleConnection: a socket without an allowed Origin is closed before   *)
(* it is registered.                                                       *)
isSocketOriginAllowed(s) == s \in Trusted

handleConnection(s) ==
    /\ link[s] = "idle"
    /\ IF isSocketOriginAllowed(s)
       THEN /\ link' = [link EXCEPT ![s] = "open"]
            /\ registered' = registered \cup {s}
            /\ alive' = [alive EXCEPT ![s] = TRUE]
       ELSE /\ link' = [link EXCEPT ![s] = "closed"]
            /\ UNCHANGED <<registered, alive>>
    /\ UNCHANGED <<peer, ping, data>>

PeerVanishes(s) ==
    /\ link[s] = "open" /\ s \in peer
    /\ peer' = peer \ {s}
    /\ UNCHANGED <<link, registered, alive, ping, data>>

(* The close event of a connection.                                        *)
onClose(s) ==
    /\ link[s] = "open" /\ s \in peer
    /\ link' = [link EXCEPT ![s] = "closed"]
    /\ registered' = registered \ {s}
    /\ UNCHANGED <<peer, alive, ping, data>>

onPong(s) ==
    /\ s \in ping /\ s \in peer /\ link[s] = "open"
    /\ ping' = ping \ {s}
    /\ alive' = [alive EXCEPT ![s] = TRUE]
    /\ UNCHANGED <<link, peer, registered, data>>

(* startPingInterval: clients that did not answer the last ping are        *)
(* terminated, the others are pinged.                                      *)
AfterPing_StillAlive(s) == alive[s]
AfterPing(s) == FALSE

pingInterval ==
    /\ registered # {}
    /\ LET dead == {s \in registered : ~ alive[s]}
           rest == registered \ dead
       IN  /\ registered' = rest
           /\ link' = [s \in Sockets |-> IF s \in dead THEN "closed" ELSE link[s]]
           /\ alive' = [s \in Sockets |-> IF s \in rest THEN AfterPing(s) ELSE alive[s]]
           /\ ping' = ping \cup rest
    /\ UNCHANGED <<peer, data>>

(* stop(): every connection is closed and forgotten.                       *)
stop ==
    /\ registered # {}
    /\ link' = [s \in Sockets |-> IF s \in registered THEN "closed" ELSE link[s]]
    /\ registered' = {}
    /\ UNCHANGED <<peer, alive, ping, data>>

-----------------------------------------------------------------------------
(* handleSubscribe adds to what the client has; handleUnsubscribe removes, *)
(* and a client left without order filters is sent every order again.      *)
handleSubscribe(s, kinds, orders) ==
    /\ s \in registered /\ s \in peer
    /\ wants' = [wants EXCEPT ![s] = @ \cup kinds]
    /\ filter' = [filter EXCEPT ![s] = @ \cup orders]
    /\ since' = [since EXCEPT ![s] = @ \cup kinds]
    /\ UNCHANGED <<conn, served, frames>>

handleUnsubscribe(s, kinds, orders) ==
    /\ s \in registered /\ s \in peer
    /\ wants' = [wants EXCEPT ![s] = @ \ kinds]
    /\ filter' = [filter EXCEPT ![s] = @ \ orders]
    /\ UNCHANGED <<conn, served, since, frames>>

shouldSendToClient_FilterOnly(s, kind, order) ==
    filter[s] = {} \/ order \in filter[s]
shouldSendToClient(s, kind, order) ==
    /\ kind \in wants[s]
    /\ shouldSendToClient_FilterOnly(s, kind, order)

(* broadcast, with sendMessage's test of the connection.                   *)
broadcast(kind, order) ==
    /\ frames < MaxFrames
    /\ frames' = frames + 1
    /\ served' = served \cup
          {<<s, kind, order>> : s \in {c \in registered :
              link[c] = "open" /\ shouldSendToClient(c, kind, order)}}
    /\ UNCHANGED <<conn, wants, filter, since>>

WsInit ==
    /\ link = [s \in Sockets |-> "idle"]
    /\ peer = Sockets /\ registered = {} /\ ping = {}
    /\ alive = [s \in Sockets |-> FALSE]
    /\ wants = [s \in Sockets |-> {}] /\ filter = [s \in Sockets |-> {}]
    /\ since = [s \in Sockets |-> {}]
    /\ served = {} /\ frames = 0

WsNext ==
    \/ \E s \in Sockets :
          \/ handleConnection(s) \/ PeerVanishes(s) \/ onClose(s) \/ onPong(s)
          \/ \E kinds \in SUBSET WsKinds, orders \in SUBSET WsOrders :
                handleSubscribe(s, kinds, orders) \/ handleUnsubscribe(s, kinds, orders)
    \/ pingInterval
    \/ stop
    \/ \E kind \in WsKinds, order \in WsOrders : broadcast(kind, order)

(* The interval keeps firing.                                              *)
WsFairness == WF_wsVars(pingInterval)

-----------------------------------------------------------------------------
(* The shapes of the server's state.                                       *)
WsTypeOK ==
    /\ link \in [Sockets -> {"idle", "open", "closed"}]
    /\ registered \cup peer \cup ping \subseteq Sockets
    /\ alive \in [Sockets -> BOOLEAN]
    /\ wants \in [Sockets -> SUBSET WsKinds] /\ filter \in [Sockets -> SUBSET WsOrders]
    /\ since \in [Sockets -> SUBSET WsKinds]
    /\ served \subseteq Sockets \X WsKinds \X WsOrders
    /\ frames \in 0 .. MaxFrames

(* Only sockets of the allowlist are ever served, and only event types     *)
(* they asked for at some point of their connection.                       *)
ServedAskedFor ==
    \A f \in served : f[1] \in Trusted /\ f[2] \in since[f[1]]

(* A connection whose peer vanished is dropped: the server does not keep   *)
(* broadcasting to it for ever.                                            *)
VanishedPeerDropped ==
    \A s \in Sockets : s \in registered /\ s \notin peer ~> s \notin registered

=============================================================================
