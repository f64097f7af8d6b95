---------------------------- MODULE OrderService ----------------------------
(***************************************************************************)
(* The coordinator's record of one announced order: the state machine      *)
(* (state-machine/order-machine.ts), OrderService.advance and the          *)
(* statements of OrdersRepository behind it, and the callers that race on  *)
(* the row: the listeners' OrderEventApplier, the restart catch-up         *)
(* (EthereumListener.handleCreated, ChainEventProcessor.apply), the lock   *)
(* routes and SecretService.reveal.                                        *)
(*                                                                         *)
(* A handler is a chain of awaits: resolve the order, load the row and     *)
(* judge the edge, write.  Other handlers run between any two of them.     *)
(* Chain events may be delivered late, repeatedly and in any order.  Of    *)
(* the order_events table the last applied and the last refused transition *)
(* are kept.                                                               *)
(***************************************************************************)
EXTENDS Naturals, FiniteSets

CONSTANTS
    Handlers,   \* requests and event callbacks in progress at one time
    SrcChain    \* "ethereum" for eth_to_xlm, "stellar" for xlm_to_eth

ASSUME OrderServiceAssumption == SrcChain \in {"ethereum", "stellar"}

VARIABLES
    row,      \* the orders row
    events,   \* order_events: the last applied and the last refused transition
    handler,  \* per handler: the edge it is applying and how far it got
    legs,     \* external: each leg's escrow on its chain
    expired,  \* external: the legs whose timelock has passed
    boundTo,  \* external: the leg whose order id the hashlock commits to
    gapOk,    \* external: the locks' timelocks keep the safety gap
    settled,  \* history: the terminal outcomes ever written to the row
    raced     \* history: some edge was written onto a row that had moved

chainVars == <<legs, expired, boundTo, gapOk>>
vars == <<row, events, handler, legs, expired, boundTo, gapOk, settled, raced>>

Legs == {"src", "dst"}
Ethereum == IF SrcChain = "ethereum" THEN "src" ELSE "dst"

-----------------------------------------------------------------------------
(* order-machine.ts                                                        *)
Statuses == {"announced", "src_locked", "dst_locked", "secret_revealed",
             "completed", "refunded", "failed", "expired"}
Edges == {"escrow", "secret_relay", "secret", "claim", "refund"}

ACTION_TARGET_STATUS_NamedAfterAction ==
    [escrow |-> "src_locked", secret_relay |-> "dst_locked",
     secret |-> "secret_revealed", claim |-> "claimed",
     refund |-> "refunded"]
ACTION_TARGET_STATUS ==
    [escrow |-> "src_locked", secret_relay |-> "dst_locked",
     secret |-> "secret_revealed", claim |-> "completed",
     refund |-> "refunded"]

LEGAL_SOURCES_RevealBeforeEscrow(edge) ==
    [escrow       |-> {"announced"},
     secret_relay |-> {"src_locked"},
     secret       |-> {"announced", "src_locked", "dst_locked"},
     claim        |-> {"secret_revealed"},
     refund       |-> {"src_locked", "dst_locked", "secret_revealed", "expired"}]
    [edge]
LEGAL_SOURCES_RefundAfterClaim(edge) ==
    [escrow       |-> {"announced"},
     secret_relay |-> {"src_locked"},
     secret       |-> {"src_locked", "dst_locked"},
     claim        |-> {"secret_revealed"},
     refund       |-> {"src_locked", "dst_locked", "secret_revealed",
                       "completed", "expired"}]
    [edge]
LEGAL_SOURCES(edge) ==
    [escrow       |-> {"announced"},
     secret_relay |-> {"src_locked"},
     secret       |-> {"src_locked", "dst_locked"},
     claim        |-> {"secret_revealed"},
     refund       |-> {"src_locked", "dst_locked", "secret_revealed", "expired"}]
    [edge]

STATUS_RANK(status) ==
    CASE status = "announced" -> 0
      [] status = "src_locked" -> 1
      [] status = "dst_locked" -> 2
      [] status = "secret_revealed" -> 3
      [] OTHER -> 4

canTransition(from, edge) == from \in LEGAL_SOURCES(edge)

(* The statuses no edge leaves, `fail` and `expire` included.              *)
isTerminal(status) == status \in {"completed", "refunded", "failed"}

(* The codes of a refused transition, tried in the order of the source.    *)
ORDER_FAILURE_CODES ==
    {"secret_before_escrow", "secret_relay_before_escrow",
     "claim_before_secret", "refund_after_claim", "late_step",
     "repeated_step", "conflicting_step", "already_settled", "not_allowed"}

classifyIllegalTransition(from, edge) ==
    IF edge = "refund" /\ from = "completed" THEN "refund_after_claim"
    ELSE IF edge = "claim" /\ from # "secret_revealed"
         THEN "claim_before_secret"
    ELSE IF edge = "secret" /\ from = "announced"
         THEN "secret_before_escrow"
    ELSE IF edge = "secret_relay" /\ from = "announced"
         THEN "secret_relay_before_escrow"
    ELSE IF STATUS_RANK(ACTION_TARGET_STATUS[edge]) < STATUS_RANK(from)
         THEN "late_step"
    ELSE IF isTerminal(from) THEN "already_settled"
    ELSE IF from = ACTION_TARGET_STATUS[edge] THEN "repeated_step"
    ELSE "not_allowed"

evaluateTransition(from, edge) ==
    IF canTransition(from, edge)
    THEN "none" ELSE classifyIllegalTransition(from, edge)

(* What the handlers read and write of the orders row.                     *)
OrderRow == [status: Statuses, srcOrderId: Legs \cup {"none"},
             dstOrderId: Legs \cup {"none"}, preimage: BOOLEAN]

-----------------------------------------------------------------------------
(* A handler between two awaits: the edge it is about to judge ("load") or *)
(* to write ("write"), the leg it speaks of, the edge that follows in the  *)
(* same handler, and the status the judgement was based on.                *)
Idle == [phase |-> "idle", edge |-> "none", leg |-> "none",
         next |-> "none", seen |-> "none"]
Load(edge, leg, next) == [phase |-> "load", edge |-> edge, leg |-> leg,
                          next |-> next, seen |-> "none"]

Starts(h, edge, leg, next) ==
    /\ handler[h] = Idle
    /\ handler' = [handler EXCEPT ![h] = Load(edge, leg, next)]
    /\ UNCHANGED <<row, events, settled, raced, chainVars>>

LockEdge(leg) == IF leg = "src" THEN "escrow" ELSE "secret_relay"

(* applyLock: the order is found by its hashlock, and the chain that       *)
(* emitted the event decides the edge.  The /src-locked and /dst-locked    *)
(* routes record the same lock for a client.                               *)
applyLock(h, leg) ==
    /\ legs[leg] # "none"
    /\ Starts(h, LockEdge(leg), leg, "none")

(* handleCreated, the catch-up path: whatever leg the Ethereum escrow is,  *)
(* it is recorded as the source lock.                                      *)
handleCreated(h) ==
    /\ legs[Ethereum] # "none"
    /\ Starts(h, "escrow", Ethereum, "none")

(* resolveOrder: by the recorded on-chain id, or, for Soroban events only, *)
(* by the hashlock they carry.                                             *)
Recorded(leg) ==
    \/ leg = "src" /\ row.srcOrderId = "src"
    \/ leg = "dst" /\ row.dstOrderId = "dst"
resolveOrder(leg) == leg # Ethereum \/ Recorded(leg)

(* applyClaim relays the preimage, unless the row has it, then settles.    *)
applyClaim(h, leg) ==
    /\ legs[leg] = "claimed"
    /\ resolveOrder(leg)
    /\ IF row.preimage
       THEN Starts(h, "claim", leg, "none")
       ELSE Starts(h, "secret", leg, "claim")

(* applyRefund, and ChainEventProcessor.apply for a refund seen during     *)
(* catch-up.                                                               *)
applyRefund(h, leg) ==
    /\ legs[leg] = "refunded"
    /\ resolveOrder(leg)
    /\ Starts(h, "refund", leg, "none")

(* evaluateSecretWindow over the timelocks the row knows.                  *)
evaluateSecretWindow ==
    /\ row.srcOrderId # "none" => row.srcOrderId \notin expired
    /\ row.dstOrderId # "none" => row.dstOrderId \notin expired

(* SecretService.reveal, called by POST /secrets with any preimage of the  *)
(* order and by the catch-up for a claimed event: the preimage must hash   *)
(* to the hashlock together with a recorded order id.                      *)
AfterReveal == "none"

reveal(h) ==
    /\ boundTo \in {row.srcOrderId, row.dstOrderId} \ {"none"}
    /\ ~row.preimage
    /\ evaluateSecretWindow
    /\ Starts(h, "secret", boundTo, AfterReveal)

-----------------------------------------------------------------------------
(* advance: load the row, then decide redelivery, conflict, refusal or     *)
(* write.  A lock's timelock is compared with the other leg's before the   *)
(* first write is awaited.                                                 *)
isSameStep(task) ==
    CASE task.edge = "escrow" -> row.srcOrderId = task.leg
      [] task.edge = "secret_relay" -> row.dstOrderId = task.leg
      [] task.edge = "secret" -> row.preimage
      [] OTHER -> TRUE

assertTimelocksAtCreation(task) ==
    LET other == IF task.edge = "escrow" THEN row.dstOrderId
                                         ELSE row.srcOrderId
    IN  task.edge \in {"escrow", "secret_relay"} /\ other # "none"
        => gapOk /\ task.leg # other

NextEdge(task) ==
    IF task.next = "none" THEN Idle ELSE Load(task.next, task.leg, "none")

(* Why advance refuses the edge, or "none".  A refusal is persisted and    *)
(* ends the handler, except that a redelivery goes on to the next edge; a  *)
(* timelock that breaks the safety gap leaves no trace.                    *)
Refusal(task) ==
    IF row.status = ACTION_TARGET_STATUS[task.edge]
    THEN IF isSameStep(task) THEN "repeated_step" ELSE "conflicting_step"
    ELSE evaluateTransition(row.status, task.edge)

persistRejection(code) ==
    events' = IF code = "none" THEN events
                               ELSE [events EXCEPT !.refused = code]

advance(h) ==
    LET task == handler[h]
        code == Refusal(task)
        after == IF code = "repeated_step" THEN NextEdge(task)
                 ELSE IF code = "none" /\ assertTimelocksAtCreation(task)
                      THEN [task EXCEPT !.phase = "write", !.seen = row.status]
                      ELSE Idle
    IN  /\ task.phase = "load"
        /\ handler' = [handler EXCEPT ![h] = after]
        /\ persistRejection(code)
        /\ UNCHANGED <<row, settled, raced, chainVars>>

(* The UPDATE each edge runs.  The lock statements keep a status that has  *)
(* moved on; updateSecret and updateStatus overwrite whatever they find.   *)
updateRow(task) ==
    CASE task.edge = "escrow" ->
           [row EXCEPT !.srcOrderId = task.leg,
                       !.status = IF @ = "announced" THEN "src_locked" ELSE @]
      [] task.edge = "secret_relay" ->
           [row EXCEPT !.dstOrderId = task.leg,
                       !.status = IF @ \in {"announced", "src_locked"}
                                  THEN "dst_locked" ELSE @]
      [] task.edge = "secret" ->
           [row EXCEPT !.preimage = TRUE, !.status = "secret_revealed"]
      [] OTHER -> [row EXCEPT !.status = ACTION_TARGET_STATUS[task.edge]]

(* recordTransition: the audit trail names the edge's target, whatever the *)
(* statement left in the row.                                              *)
recordTransition(task) ==
    events' = [events EXCEPT !.applied = ACTION_TARGET_STATUS[task.edge]]

write(h) ==
    LET task == handler[h] IN
    /\ task.phase = "write"
    /\ row' = updateRow(task)
    /\ recordTransition(task)
    /\ settled' = settled \cup ({row'.status} \cap {"completed", "refunded"})
    /\ raced' = (raced \/ row.status # task.seen)
    /\ handler' = [handler EXCEPT ![h] = NextEdge(task)]
    /\ UNCHANGED chainVars

-----------------------------------------------------------------------------
(* The chains, external to the coordinator: each leg is locked, then       *)
(* claimed before its timelock or refunded after it.  The Ethereum escrow  *)
(* opens for sha256(preimage), the Soroban one for a hash that includes    *)
(* its own order id.                                                       *)
LockLeg(leg) ==
    /\ legs[leg] = "none"
    /\ legs' = [legs EXCEPT ![leg] = "locked"]
    /\ UNCHANGED <<row, events, handler, expired, boundTo, gapOk, settled, raced>>

ClaimLeg(leg) ==
    /\ legs[leg] = "locked"
    /\ leg \notin expired
    /\ boundTo = IF leg = Ethereum THEN "none" ELSE leg
    /\ legs' = [legs EXCEPT ![leg] = "claimed"]
    /\ UNCHANGED <<row, events, handler, expired, boundTo, gapOk, settled, raced>>

RefundLeg(leg) ==
    /\ legs[leg] = "locked"
    /\ leg \in expired
    /\ legs' = [legs EXCEPT ![leg] = "refunded"]
    /\ UNCHANGED <<row, events, handler, expired, boundTo, gapOk, settled, raced>>

TimelockPasses(leg) ==
    /\ legs[leg] # "none"
    /\ leg \notin expired
    /\ expired' = expired \cup {leg}
    /\ UNCHANGED <<row, events, handler, legs, boundTo, gapOk, settled, raced>>

(* announce has inserted the row; the order id a hashlock commits to, and  *)
(* the timelocks, are whatever the two parties chose.                      *)
Init ==
    /\ row = [status |-> "announced", srcOrderId |-> "none",
              dstOrderId |-> "none", preimage |-> FALSE]
    /\ events = [applied |-> "announced", refused |-> "none"]
    /\ handler = [h \in Handlers |-> Idle]
    /\ legs = [leg \in Legs |-> "none"]
    /\ expired = {}
    /\ boundTo \in Legs \cup {"none"}
    /\ gapOk \in BOOLEAN
    /\ settled = {}
    /\ raced = FALSE

Next ==
    \/ \E h \in Handlers :
          \/ \E leg \in Legs :
                \/ applyLock(h, leg)
                \/ applyClaim(h, leg)
                \/ applyRefund(h, leg)
          \/ handleCreated(h)
          \/ reveal(h)
          \/ advance(h)
          \/ write(h)
    \/ \E leg \in Legs :
          \/ LockLeg(leg)
          \/ ClaimLeg(leg)
          \/ RefundLeg(leg)
          \/ TimelockPasses(leg)

Spec == Init /\ [][Next]_vars

-----------------------------------------------------------------------------
(* The shapes of the row and of the handlers.                              *)
TypeOK ==
    /\ row \in OrderRow
    /\ events \in [applied: Statuses,
                   refused: ORDER_FAILURE_CODES \cup {"none"}]
    /\ handler \in [Handlers ->
           [phase: {"idle", "load", "write"}, edge: Edges \cup {"none"},
            leg: Legs \cup {"none"}, next: {"none", "claim"},
            seen: Statuses \cup {"none"}]]
    /\ legs \in [Legs -> {"none", "locked", "claimed", "refunded"}]
    /\ expired \subseteq Legs
    /\ boundTo \in Legs \cup {"none"}
    /\ gapOk \in BOOLEAN
    /\ settled \subseteq {"completed", "refunded"}
    /\ raced \in BOOLEAN

(* The row is a cache of on-chain truth (order-machine.ts), however the    *)
(* handlers that wrote it were interleaved: it says completed only when a  *)
(* leg was claimed and refunded only when one was refunded; it holds a     *)
(* preimage only after the source escrow, and is completed only with one;  *)
(* and it never holds both legs when their timelocks violate the safety    *)
(* gap, which each lock checks against the row it read.  The audit trail   *)
(* agrees with it: its last applied transition ends in the row's status as *)
(* long as no write landed on a row that had moved, it reports a refund    *)
(* after a claim only for an order that was completed, and a late step     *)
(* only for one that was escrowed.                                         *)
RowFollowsChains ==
    /\ "completed" \in settled => \E leg \in Legs : legs[leg] = "claimed"
    /\ "refunded" \in settled => \E leg \in Legs : legs[leg] = "refunded"
    /\ row.preimage => row.srcOrderId # "none"
    /\ row.status = "completed" => row.preimage
    /\ row.srcOrderId # "none" /\ row.dstOrderId # "none" => gapOk
    /\ ~raced => events.applied = row.status
    /\ events.refused = "refund_after_claim" => "completed" \in settled
    /\ events.refused = "late_step" => row.srcOrderId # "none"

(* As long as no write lands on a row that moved since it was judged, late *)
(* and repeated events never move an order backwards and never change a    *)
(* settled outcome.                                                        *)
Forward ==
    ~raced' => /\ STATUS_RANK(row'.status) >= STATUS_RANK(row.status)
               /\ row.status \in {"completed", "refunded"}
                  => row'.status = row.status
StatusMovesForward == [][Forward]_vars

(* "a late or out-of-order chain event can never ... settle it twice"      *)
(* (order-machine.ts), for every interleaving of the handlers.             *)
SettlesOnce == Cardinality(settled) <= 1

=============================================================================
