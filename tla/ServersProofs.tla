---------------------------- MODULE ServersProofs ----------------------------
(***************************************************************************)
(* What the books of the two servers keep, for any number of orders,       *)
(* blocks, quotes, rows and records: first the coordinator's row, which    *)
(* follows the chains and never moves backwards however many handlers race *)
(* on it and in either direction of the swap, then the other books.        *)
(***************************************************************************)
EXTENDS MCServers, Sequences, LedgerProofs, FiniteSetTheorems

-----------------------------------------------------------------------------
(* OrderService.                                                           *)

\* A handler acts on a fact of the chains that stays true: a claim or refund
\* it was told of happened, and an edge it is about to write was legal in the
\* status it saw, with the source escrow, the safety gap and the preimage in
\* place that the edge builds on.
Grounded(task) ==
    /\ task.phase # "idle" => task.leg \in Legs /\ task.edge \in Edges
    /\ task.edge = "claim" => \E leg \in Legs : legs[leg] = "claimed"
    /\ task.next = "claim" => \E leg \in Legs : legs[leg] = "claimed"
    /\ task.edge = "refund" => \E leg \in Legs : legs[leg] = "refunded"
    /\ task.phase = "write" =>
         /\ canTransition(task.seen, task.edge)
         /\ task.edge # "escrow" => row.srcOrderId # "none"
         /\ task.edge = "secret_relay" => gapOk
         /\ task.edge = "claim" => row.preimage

HandlersGrounded == \A h \in Handlers : Grounded(handler[h])

\* What the row's fields say of each other and of the chains.
RowGrounded ==
    /\ row.status \notin {"failed", "expired"}
    /\ row.status # "announced" => row.srcOrderId # "none"
    /\ row.preimage => row.srcOrderId # "none"
    /\ row.status \in {"secret_revealed", "completed"} => row.preimage
    /\ row.dstOrderId # "none" => gapOk
    /\ row.status \in {"completed", "refunded"} => row.status \in settled
    /\ "completed" \in settled => \E leg \in Legs : legs[leg] = "claimed"
    /\ "refunded" \in settled => \E leg \in Legs : legs[leg] = "refunded"

\* The audit trail's last entries are true of the row and of its past.
RefusalTrue(code) ==
    /\ code = "refund_after_claim" => "completed" \in settled
    /\ code = "late_step" => row.srcOrderId # "none"
TrailGrounded ==
    /\ ~raced => events.applied = row.status
    /\ RefusalTrue(events.refused)

\* The inductive invariant: what a row may hold depends on what the handlers
\* that are half way carry, and the other way round.
ServiceInv == TypeOK /\ HandlersGrounded /\ RowGrounded /\ TrailGrounded

TaskType == [phase: {"idle", "load", "write"}, edge: Edges \cup {"none"},
             leg: Legs \cup {"none"}, next: {"none", "claim"},
             seen: Statuses \cup {"none"}]
EventsType == [applied: Statuses, refused: ORDER_FAILURE_CODES \cup {"none"}]

\* What a record of the state machine answers for each edge.
LEMMA Targets ==
    /\ ACTION_TARGET_STATUS["escrow"] = "src_locked"
    /\ ACTION_TARGET_STATUS["secret_relay"] = "dst_locked"
    /\ ACTION_TARGET_STATUS["secret"] = "secret_revealed"
    /\ ACTION_TARGET_STATUS["claim"] = "completed"
    /\ ACTION_TARGET_STATUS["refund"] = "refunded"
  BY DEF ACTION_TARGET_STATUS

LEMMA Sources ==
    /\ LEGAL_SOURCES("escrow") = {"announced"}
    /\ LEGAL_SOURCES("secret_relay") = {"src_locked"}
    /\ LEGAL_SOURCES("secret") = {"src_locked", "dst_locked"}
    /\ LEGAL_SOURCES("claim") = {"secret_revealed"}
    /\ LEGAL_SOURCES("refund") = {"src_locked", "dst_locked", "secret_revealed", "expired"}
  BY DEF LEGAL_SOURCES

\* Initially the order is announced and every handler idle.
LEMMA ServiceInvInit == Init => ServiceInv
<1> SUFFICES ASSUME Init PROVE ServiceInv
  OBVIOUS
<1>1. Idle \in TaskType /\ Grounded(Idle)
  BY DEF Idle, TaskType, Grounded
<1>2. HandlersGrounded /\ handler \in [Handlers -> TaskType]
  BY <1>1 DEF Init, HandlersGrounded
<1>3. RowGrounded
  BY DEF Init, RowGrounded
<1>4. row \in OrderRow
  BY DEF Init, Statuses, OrderRow
<1>5. events \in EventsType /\ TrailGrounded
  BY DEF Init, EventsType, Statuses, TrailGrounded, RefusalTrue
<1>6. TypeOK
  BY <1>2, <1>4, <1>5 DEF Init, TypeOK, TaskType, EventsType
<1> QED
  BY <1>2, <1>3, <1>5, <1>6 DEF ServiceInv

-----------------------------------------------------------------------------
(* Steps of a handler that do not touch the row.                           *)

LEMMA HandlerMoves ==
    ASSUME ServiceInv, NEW h \in Handlers, NEW task \in TaskType, Grounded(task),
           handler' = [handler EXCEPT ![h] = task],
           events' = events
             \/ \E code \in ORDER_FAILURE_CODES :
                   RefusalTrue(code) /\ events' = [events EXCEPT !.refused = code],
           UNCHANGED <<row, settled, raced, chainVars>>
    PROVE  ServiceInv'
<1>1. handler \in [Handlers -> TaskType]
  BY DEF ServiceInv, TypeOK, TaskType
<1>2. /\ handler' \in [Handlers -> TaskType] /\ handler'[h] = task
      /\ \A g \in Handlers : g # h => handler'[g] = handler[g]
  BY <1>1
<1>3. /\ events' \in EventsType /\ events'.applied = events.applied
      /\ RefusalTrue(events'.refused)
  <2>1. events \in EventsType /\ RefusalTrue(events.refused)
    BY DEF ServiceInv, TypeOK, EventsType, TrailGrounded
  <2> QED BY <2>1 DEF EventsType
<1>4. TypeOK'
  BY <1>2, <1>3 DEF ServiceInv, TypeOK, TaskType, EventsType, chainVars
<1>5. HandlersGrounded'
  BY <1>2 DEF ServiceInv, HandlersGrounded, Grounded, chainVars
<1>6. RowGrounded'
  BY DEF ServiceInv, RowGrounded, chainVars
<1>7. TrailGrounded'
  BY <1>3 DEF ServiceInv, TrailGrounded, RefusalTrue
<1> QED
  BY <1>4, <1>5, <1>6, <1>7 DEF ServiceInv

\* A handler starts on an edge the chains have made true.
LEMMA HandlerStarts ==
    ASSUME ServiceInv, NEW h \in Handlers, NEW edge \in Edges, NEW leg \in Legs,
           NEW next \in {"none", "claim"}, Starts(h, edge, leg, next),
           edge = "claim" \/ next = "claim" => legs[leg] = "claimed",
           edge = "refund" => legs[leg] = "refunded"
    PROVE  ServiceInv'
<1>1. Load(edge, leg, next) \in TaskType /\ Grounded(Load(edge, leg, next))
  BY DEF Load, TaskType, Grounded
<1> QED
  BY <1>1, HandlerMoves DEF Starts

\* The edge that follows in a handler is as grounded as the one before.
LEMMA NextEdgeGrounded ==
    ASSUME NEW task \in TaskType, Grounded(task), task.phase # "idle"
    PROVE  NextEdge(task) \in TaskType /\ Grounded(NextEdge(task))
<1>1. CASE task.next = "none"
  BY <1>1 DEF NextEdge, Idle, TaskType, Grounded
<1>2. CASE task.next = "claim"
  BY <1>2 DEF NextEdge, Load, TaskType, Grounded, Edges
<1> QED
  BY <1>1, <1>2 DEF TaskType

\* What advance writes of a refusal is true of the row it read.
LEMMA RefusalIsTrue ==
    ASSUME ServiceInv, NEW task \in TaskType, task.edge \in Edges
    PROVE  /\ Refusal(task) \in ORDER_FAILURE_CODES \cup {"none"}
           /\ RefusalTrue(Refusal(task))
           /\ Refusal(task) = "none" => canTransition(row.status, task.edge)
<1> DEFINE from == row.status
           edge == task.edge
           code == classifyIllegalTransition(from, edge)
<1>1. /\ from \in Statuses
      /\ from = "completed" => "completed" \in settled
      /\ from # "announced" => row.srcOrderId # "none"
  BY DEF ServiceInv, TypeOK, RowGrounded, OrderRow
<1>2. CASE from = ACTION_TARGET_STATUS[edge]
  BY <1>2 DEF Refusal, ORDER_FAILURE_CODES, RefusalTrue
<1>3. CASE canTransition(from, edge) /\ from # ACTION_TARGET_STATUS[edge]
  BY <1>3 DEF Refusal, evaluateTransition, RefusalTrue
<1>4. CASE ~canTransition(from, edge) /\ from # ACTION_TARGET_STATUS[edge]
  <2>1. Refusal(task) = code
    BY <1>4 DEF Refusal, evaluateTransition
  <2>2. code \in ORDER_FAILURE_CODES
    BY DEF classifyIllegalTransition, ORDER_FAILURE_CODES
  <2>3. code = "refund_after_claim" => from = "completed"
    BY DEF classifyIllegalTransition
  <2>4. code = "late_step" => STATUS_RANK(ACTION_TARGET_STATUS[edge]) < STATUS_RANK(from)
    BY DEF classifyIllegalTransition
  <2>5. STATUS_RANK(ACTION_TARGET_STATUS[edge]) \in Nat \ {0} /\ STATUS_RANK("announced") = 0
    BY Targets DEF STATUS_RANK, Edges
  <2>6. code = "late_step" => from # "announced"
    BY <2>4, <2>5
  <2>7. code # "none"
    BY <2>2 DEF ORDER_FAILURE_CODES
  <2> QED BY <1>1, <2>1, <2>2, <2>3, <2>6, <2>7 DEF RefusalTrue
<1> QED BY <1>2, <1>3, <1>4

\* advance only judges: an edge reaches the write with what it builds on.
LEMMA HandlerAdvances ==
    ASSUME ServiceInv, NEW h \in Handlers, advance(h)
    PROVE  ServiceInv'
<1> DEFINE task == handler[h]
           judged == [task EXCEPT !.phase = "write", !.seen = row.status]
           audited == \/ events' = events
                      \/ \E code \in ORDER_FAILURE_CODES :
                            RefusalTrue(code) /\ events' = [events EXCEPT !.refused = code]
<1>1. /\ task \in TaskType /\ Grounded(task) /\ task.phase = "load"
      /\ task.leg \in Legs /\ task.edge \in Edges
      /\ row.status \in Statuses
  BY DEF advance, ServiceInv, TypeOK, OrderRow, TaskType, HandlersGrounded, Grounded
<1>2. UNCHANGED <<row, settled, raced, chainVars>> /\ audited
  <2>1. persistRejection(Refusal(task)) /\ UNCHANGED <<row, settled, raced, chainVars>>
    BY DEF advance
  <2>2. /\ Refusal(task) \in ORDER_FAILURE_CODES \cup {"none"}
        /\ RefusalTrue(Refusal(task))
    BY <1>1, RefusalIsTrue
  <2>3. CASE Refusal(task) = "none"
    BY <2>1, <2>3 DEF persistRejection
  <2>4. CASE Refusal(task) # "none"
    BY <2>1, <2>2, <2>4 DEF persistRejection
  <2> QED BY <2>1, <2>3, <2>4
<1>3. CASE handler' = [handler EXCEPT ![h] = Idle]
  <2>1. Idle \in TaskType /\ Grounded(Idle)
    BY DEF Idle, TaskType, Grounded
  <2> QED BY <1>2, <1>3, <2>1, HandlerMoves
<1>4. CASE handler' = [handler EXCEPT ![h] = NextEdge(task)]
  <2>1. NextEdge(task) \in TaskType /\ Grounded(NextEdge(task))
    BY <1>1, NextEdgeGrounded
  <2> QED BY <1>2, <1>4, <2>1, HandlerMoves
<1>5. CASE /\ handler' = [handler EXCEPT ![h] = judged]
           /\ canTransition(row.status, task.edge) /\ assertTimelocksAtCreation(task)
  <2>1. /\ judged \in TaskType /\ judged.phase = "write" /\ judged.seen = row.status
        /\ judged.edge = task.edge /\ judged.leg = task.leg /\ judged.next = task.next
    BY <1>1 DEF TaskType
  <2> HIDE DEF judged
  <2>2. task.edge # "escrow" => row.srcOrderId # "none"
    BY <1>1, <1>5, Sources DEF canTransition, ServiceInv, RowGrounded, Edges
  <2>3. task.edge = "secret_relay" => gapOk
    BY <1>5, <2>2 DEF assertTimelocksAtCreation
  <2>4. task.edge = "claim" => row.preimage
    BY <1>5, Sources DEF canTransition, ServiceInv, RowGrounded
  <2>5. Grounded(judged)
    BY <1>1, <1>5, <2>1, <2>2, <2>3, <2>4 DEF Grounded
  <2> QED BY <1>2, <1>5, <2>1, <2>5, HandlerMoves
<1>6. Refusal(task) = "none" => canTransition(row.status, task.edge)
  BY <1>1, RefusalIsTrue
<1> QED
  BY <1>3, <1>4, <1>5, <1>6 DEF advance

-----------------------------------------------------------------------------
(* Steps of the chains.                                                    *)

LEMMA ChainStep ==
    ASSUME ServiceInv, NEW leg \in Legs,
           LockLeg(leg) \/ ClaimLeg(leg) \/ RefundLeg(leg) \/ TimelockPasses(leg)
    PROVE  ServiceInv'
<1>1. UNCHANGED <<row, events, handler, boundTo, gapOk, settled, raced>>
  BY DEF LockLeg, ClaimLeg, RefundLeg, TimelockPasses
<1>2. legs \in [Legs -> {"none", "locked", "claimed", "refunded"}]
  BY DEF ServiceInv, TypeOK
<1>3. /\ legs' \in [Legs -> {"none", "locked", "claimed", "refunded"}]
      /\ \A l \in Legs : legs[l] \in {"claimed", "refunded"} => legs'[l] = legs[l]
  BY <1>2 DEF LockLeg, ClaimLeg, RefundLeg, TimelockPasses
<1>4. TypeOK'
  <2>1. expired' \subseteq Legs
    BY DEF ServiceInv, TypeOK, LockLeg, ClaimLeg, RefundLeg, TimelockPasses
  <2> QED BY <1>1, <1>3, <2>1 DEF ServiceInv, TypeOK
<1>5. /\ (\E l \in Legs : legs[l] = "claimed") => \E l \in Legs : legs'[l] = "claimed"
      /\ (\E l \in Legs : legs[l] = "refunded") => \E l \in Legs : legs'[l] = "refunded"
  BY <1>3
<1>6. HandlersGrounded'
  BY <1>1, <1>5 DEF ServiceInv, HandlersGrounded, Grounded
<1>7. RowGrounded'
  BY <1>1, <1>5 DEF ServiceInv, RowGrounded
<1>8. TrailGrounded'
  BY <1>1 DEF ServiceInv, TrailGrounded, RefusalTrue
<1> QED
  BY <1>4, <1>6, <1>7, <1>8 DEF ServiceInv

-----------------------------------------------------------------------------
(* The UPDATE statements.                                                  *)

\* What each statement writes, whatever row it finds.
LEMMA UpdateRowFacts ==
    ASSUME row \in OrderRow, NEW task \in TaskType, task.leg \in Legs, task.edge \in Edges
    PROVE  LET new == updateRow(task) IN
           /\ new \in OrderRow
           /\ new.srcOrderId = IF task.edge = "escrow" THEN task.leg ELSE row.srcOrderId
           /\ new.dstOrderId = IF task.edge = "secret_relay" THEN task.leg ELSE row.dstOrderId
           /\ new.preimage = IF task.edge = "secret" THEN TRUE ELSE row.preimage
           /\ new.status =
                CASE task.edge = "escrow" ->
                       IF row.status = "announced" THEN "src_locked" ELSE row.status
                  [] task.edge = "secret_relay" ->
                       IF row.status \in {"announced", "src_locked"} THEN "dst_locked"
                       ELSE row.status
                  [] task.edge = "secret" -> "secret_revealed"
                  [] task.edge = "claim" -> "completed"
                  [] OTHER -> "refunded"
<1>1. CASE task.edge = "escrow"
  BY <1>1 DEF updateRow, OrderRow, Statuses
<1>2. CASE task.edge = "secret_relay"
  BY <1>2 DEF updateRow, OrderRow, Statuses
<1>3. CASE task.edge = "secret"
  BY <1>3 DEF updateRow, OrderRow, Statuses
<1>4. CASE task.edge = "claim"
  BY <1>4, Targets DEF updateRow, OrderRow, Statuses
<1>5. CASE task.edge = "refund"
  BY <1>5, Targets DEF updateRow, OrderRow, Statuses
<1> QED
  BY <1>1, <1>2, <1>3, <1>4, <1>5 DEF Edges

LEMMA WriteStep ==
    ASSUME ServiceInv, NEW h \in Handlers, write(h)
    PROVE  ServiceInv'
<1> DEFINE task == handler[h]
<1>1. /\ task \in TaskType /\ Grounded(task) /\ task.phase = "write"
      /\ task.leg \in Legs /\ task.edge \in Edges
      /\ row \in OrderRow /\ handler \in [Handlers -> TaskType]
  BY DEF write, ServiceInv, TypeOK, TaskType, OrderRow, HandlersGrounded, Grounded
<1>2. /\ row' = updateRow(task)
      /\ settled' = settled \cup ({row'.status} \cap {"completed", "refunded"})
      /\ raced' = (raced \/ row.status # task.seen)
      /\ handler' = [handler EXCEPT ![h] = NextEdge(task)]
      /\ events' = [events EXCEPT !.applied = ACTION_TARGET_STATUS[task.edge]]
      /\ UNCHANGED <<legs, expired, boundTo, gapOk>>
  BY DEF write, recordTransition, chainVars
<1>3. /\ row' \in OrderRow
      /\ row'.srcOrderId = IF task.edge = "escrow" THEN task.leg ELSE row.srcOrderId
      /\ row'.dstOrderId = IF task.edge = "secret_relay" THEN task.leg ELSE row.dstOrderId
      /\ row'.preimage = IF task.edge = "secret" THEN TRUE ELSE row.preimage
      /\ row'.status =
           CASE task.edge = "escrow" ->
                  IF row.status = "announced" THEN "src_locked" ELSE row.status
             [] task.edge = "secret_relay" ->
                  IF row.status \in {"announced", "src_locked"} THEN "dst_locked"
                  ELSE row.status
             [] task.edge = "secret" -> "secret_revealed"
             [] task.edge = "claim" -> "completed"
             [] OTHER -> "refunded"
  BY <1>1, <1>2, UpdateRowFacts
<1>4. NextEdge(task) \in TaskType /\ Grounded(NextEdge(task)) /\ NextEdge(task).phase # "write"
  BY <1>1, NextEdgeGrounded DEF NextEdge, Idle, Load
<1>5. TypeOK'
  <2>1. handler' \in [Handlers -> TaskType]
    BY <1>1, <1>2, <1>4
  <2>2. raced' \in BOOLEAN /\ settled' \subseteq {"completed", "refunded"}
    BY <1>2 DEF ServiceInv, TypeOK
  <2>3. events' \in EventsType
    <3>1. events \in EventsType
      BY DEF ServiceInv, TypeOK, EventsType
    <3>2. ACTION_TARGET_STATUS[task.edge] \in Statuses
      BY <1>1, Targets DEF Edges, Statuses
    <3> QED BY <1>2, <3>1, <3>2 DEF EventsType
  <2> QED BY <1>2, <1>3, <2>1, <2>2, <2>3 DEF ServiceInv, TypeOK, TaskType, OrderRow, EventsType
<1>6. /\ row.srcOrderId # "none" => row'.srcOrderId # "none"
      /\ row.preimage => row'.preimage
      /\ row'.srcOrderId # "none"
  BY <1>1, <1>3 DEF Grounded, Legs
<1>7. HandlersGrounded'
  <2> SUFFICES ASSUME NEW g \in Handlers PROVE Grounded(handler[g])'
    BY DEF HandlersGrounded
  <2>1. CASE g = h
    <3>1. handler'[g] = NextEdge(task)
      BY <1>1, <1>2, <2>1
    <3> QED BY <1>2, <1>4, <3>1 DEF Grounded
  <2>2. CASE g # h
    <3>1. handler'[g] = handler[g] /\ Grounded(handler[g])
      BY <1>1, <1>2, <2>2 DEF ServiceInv, HandlersGrounded
    <3> QED BY <1>2, <1>6, <3>1 DEF Grounded, canTransition, LEGAL_SOURCES
  <2> QED BY <2>1, <2>2
<1>8. RowGrounded'
  <2>1. /\ task.edge = "secret_relay" => gapOk
        /\ task.edge = "claim" => row.preimage /\ \E leg \in Legs : legs[leg] = "claimed"
        /\ task.edge = "refund" => \E leg \in Legs : legs[leg] = "refunded"
    BY <1>1 DEF Grounded
  <2>2. CASE task.edge = "escrow"
    BY <1>2, <1>3, <1>6, <2>2 DEF ServiceInv, RowGrounded
  <2>3. CASE task.edge = "secret_relay"
    BY <1>2, <1>3, <1>6, <2>1, <2>3 DEF ServiceInv, RowGrounded
  <2>4. CASE task.edge = "secret"
    BY <1>2, <1>3, <1>6, <2>4 DEF ServiceInv, RowGrounded
  <2>5. CASE task.edge = "claim"
    BY <1>2, <1>3, <1>6, <2>1, <2>5 DEF ServiceInv, RowGrounded
  <2>6. CASE task.edge = "refund"
    BY <1>2, <1>3, <1>6, <2>1, <2>6 DEF ServiceInv, RowGrounded
  <2> QED BY <1>1, <2>2, <2>3, <2>4, <2>5, <2>6 DEF Edges
<1>9. TrailGrounded'
  <2>1. /\ events'.applied = ACTION_TARGET_STATUS[task.edge]
        /\ events'.refused = events.refused
    BY <1>2 DEF ServiceInv, TypeOK
  <2>2. RefusalTrue(events.refused)'
    BY <1>2, <1>6, <2>1 DEF ServiceInv, TrailGrounded, RefusalTrue
  <2>3. ~raced' => row.status \in LEGAL_SOURCES(task.edge)
    BY <1>1, <1>2 DEF Grounded, canTransition
  <2>4. ~raced' => row'.status = ACTION_TARGET_STATUS[task.edge]
    BY <1>1, <1>3, <2>3, Sources, Targets DEF Edges
  <2> QED BY <2>1, <2>2, <2>4 DEF TrailGrounded
<1> QED
  BY <1>5, <1>7, <1>8, <1>9 DEF ServiceInv

-----------------------------------------------------------------------------
LEMMA ServiceInvStep == ServiceInv /\ [Next]_vars => ServiceInv'
<1> SUFFICES ASSUME ServiceInv, [Next]_vars PROVE ServiceInv'
  OBVIOUS
<1> USE DEF Edges, Legs
<1>1. ASSUME NEW h \in Handlers, NEW leg \in Legs, applyLock(h, leg)
      PROVE  ServiceInv'
  <2>1. LockEdge(leg) \in {"escrow", "secret_relay"}
    BY DEF LockEdge
  <2> QED BY <1>1, <2>1, HandlerStarts DEF applyLock
<1>2. ASSUME NEW h \in Handlers, NEW leg \in Legs, applyClaim(h, leg)
      PROVE  ServiceInv'
  BY <1>2, HandlerStarts DEF applyClaim
<1>3. ASSUME NEW h \in Handlers, NEW leg \in Legs, applyRefund(h, leg)
      PROVE  ServiceInv'
  BY <1>3, HandlerStarts DEF applyRefund
<1>4. ASSUME NEW h \in Handlers, handleCreated(h)
      PROVE  ServiceInv'
  BY <1>4, HandlerStarts DEF handleCreated, Ethereum
<1>5. ASSUME NEW h \in Handlers, reveal(h)
      PROVE  ServiceInv'
  <2>1. boundTo \in Legs
    BY <1>5 DEF reveal, ServiceInv, TypeOK
  <2> QED BY <1>5, <2>1, HandlerStarts DEF reveal, AfterReveal
<1>6. CASE UNCHANGED vars
  BY <1>6 DEF vars, ServiceInv, TypeOK, HandlersGrounded, Grounded, RowGrounded,
              TrailGrounded, RefusalTrue
<1> QED
  BY <1>1, <1>2, <1>3, <1>4, <1>5, <1>6, HandlerAdvances, WriteStep, ChainStep DEF Next

\* The coordinator's row and its handlers keep their shapes.
THEOREM TypeCorrect == Spec => []TypeOK
<1>1. ServiceInv => TypeOK
  BY DEF ServiceInv
<1> QED
  BY <1>1, ServiceInvInit, ServiceInvStep, PTL DEF Spec

\* However the handlers interleave, the row is completed or refunded only
\* after the chains were, completed only with a preimage, never holds a
\* preimage before the source escrow, nor two legs without the safety gap;
\* and the audit trail's last entries are true of it.
THEOREM RowIsCacheOfChains == Spec => []RowFollowsChains
<1>1. ServiceInv => RowFollowsChains
  BY DEF ServiceInv, RowGrounded, TrailGrounded, RefusalTrue, RowFollowsChains
<1> QED
  BY <1>1, ServiceInvInit, ServiceInvStep, PTL DEF Spec

\* As long as no write lands on a row that moved since it was judged, the
\* status only rises and a settled outcome stays.
THEOREM StatusNeverFallsBack == Spec => StatusMovesForward
<1>1. ServiceInv /\ [Next]_vars => [Forward]_vars
  <2> SUFFICES ASSUME ServiceInv, [Next]_vars, ~raced' PROVE Forward
    BY DEF Forward
  <2>1. CASE row' = row
    <3>1. STATUS_RANK(row.status) \in Nat
      BY DEF STATUS_RANK
    <3> QED BY <2>1, <3>1 DEF Forward
  <2>2. ASSUME NEW h \in Handlers, write(h) PROVE Forward
    <3> DEFINE task == handler[h]
    <3>1. /\ task \in TaskType /\ Grounded(task) /\ task.phase = "write"
          /\ task.leg \in Legs /\ task.edge \in Edges /\ row \in OrderRow
      BY <2>2 DEF write, ServiceInv, TypeOK, TaskType, OrderRow, HandlersGrounded, Grounded
    <3>2. row' = updateRow(task) /\ row.status = task.seen
      BY <2>2 DEF write
    <3>3. row.status \in LEGAL_SOURCES(task.edge)
      BY <3>1, <3>2 DEF Grounded, canTransition
    <3>4. row'.status =
           CASE task.edge = "escrow" ->
                  IF row.status = "announced" THEN "src_locked" ELSE row.status
             [] task.edge = "secret_relay" ->
                  IF row.status \in {"announced", "src_locked"} THEN "dst_locked"
                  ELSE row.status
             [] task.edge = "secret" -> "secret_revealed"
             [] task.edge = "claim" -> "completed"
             [] OTHER -> "refunded"
      BY <3>1, <3>2, UpdateRowFacts
    <3> QED BY <3>1, <3>3, <3>4, Sources DEF Forward, STATUS_RANK, Edges
  <2>3. row' = row \/ \E h \in Handlers : write(h)
    BY DEF Next, vars, applyLock, applyClaim, applyRefund, handleCreated, reveal, Starts,
           advance, LockLeg, ClaimLeg, RefundLeg, TimelockPasses
  <2> QED BY <2>1, <2>2, <2>3
<1> QED
  BY <1>1, ServiceInvInit, ServiceInvStep, PTL DEF Spec, StatusMovesForward

-----------------------------------------------------------------------------
(* ChainCatchUp.                                                           *)

Blocks == 1..Len(ethLogs)
LogType == Seq([order: Swaps, kind: {"lock", "claim", "refund"}])

\* The shapes of the tables, the logs and the saved positions.
Shapes ==
    /\ swap \in [Swaps -> {"none", "announced", "src_locked", "completed", "refunded"}]
    /\ ethLogs \in LogType /\ Len(ethLogs) <= MaxBlock
    /\ processed \subseteq Blocks
    /\ applied \subseteq 1..MaxBlock /\ failed \subseteq 1..MaxBlock
    /\ ledger \in 0..MaxBlock /\ boots \in 0..MaxBoots
    /\ cursor \in [Catch!Chains -> 0..Catch!None] /\ origin \in [Catch!Chains -> 0..Catch!None]
    /\ cursor["ethereum"] # Catch!None => cursor["ethereum"] <= Len(ethLogs)

RunType == [at: {"off", "locks", "settle", "second", "arming", "watching"},
            pos: Nat, to: Nat, seen: SUBSET Nat]

\* The range that is caught up begins at the saved cursor and ends at a head
\* that was read.
RunSound ==
    /\ run \in RunType
    /\ run.at \in {"locks", "settle", "second"} =>
          /\ cursor["ethereum"] # Catch!None
          /\ cursor["ethereum"] <= run.pos /\ cursor["ethereum"] <= run.to
          /\ run.pos <= run.to + 1 /\ run.to <= Len(ethLogs)
    /\ run.at = "second" => run.pos \in 1..run.to

\* The escrow's log: of one order nothing before its lock, and not both a
\* claim and a refund; a row is completed only after a claim.
LogSound ==
    /\ \A a, b \in Blocks :
          /\ ethLogs[a].order = ethLogs[b].order
          /\ ethLogs[a].kind = "claim"
          => ethLogs[b].kind # "refund"
    /\ \A o \in Swaps : swap[o] = "completed" =>
          \E a \in Blocks : ethLogs[a] = Catch!Event(o, "claim")

\* Orders the listener is answerable for: announced before their lock at a,
\* which was mined after the first cursor was saved.
Followed(o, a) ==
    /\ o \notin unseen /\ swap[o] # "none"
    /\ a > origin["ethereum"] /\ ethLogs[a] = Catch!Event(o, "lock")

\* Blocks whose locks, and whose refunds, have reached their rows.
LocksDone(a) ==
    \/ cursor["ethereum"] # Catch!None /\ a <= cursor["ethereum"]
    \/ run.at = "locks" /\ a < run.pos
    \/ run.at \in {"settle", "second"} /\ a <= run.to
RefundsDone(b) ==
    \/ b \in processed
    \/ cursor["ethereum"] # Catch!None /\ b <= cursor["ethereum"]
    \/ run.at = "settle" /\ b < run.pos
    \/ run.at = "second" /\ b <= run.pos

\* Whatever is behind a cursor, marked, or passed in the current range is on
\* its row: first the locks of a range, then its refunds.
RowsCaughtUp ==
    \A o \in Swaps, a \in Blocks : Followed(o, a) =>
        /\ LocksDone(a) => swap[o] # "announced"
        /\ \A b \in Blocks : /\ b >= a /\ RefundsDone(b)
                             /\ ethLogs[b] = Catch!Event(o, "refund")
                             => swap[o] = "refunded"

\* Soroban: the loop resumes at or before the saved cursor.
Reached == applied \cup failed
PollSound ==
    /\ poll \in [at: {"off", "idle", "batch"}, from: 0..Catch!None, to: 0..MaxBlock, pos: Nat]
    /\ origin["soroban"] = Catch!None <=> cursor["soroban"] = Catch!None
    /\ cursor["soroban"] # Catch!None => origin["soroban"] + 1..cursor["soroban"] \subseteq Reached
    /\ poll.at = "idle" /\ poll.from = Catch!None => cursor["soroban"] = Catch!None
    /\ poll.at # "off" /\ poll.from # Catch!None /\ cursor["soroban"] # Catch!None =>
          poll.from <= cursor["soroban"]
    /\ poll.at = "batch" =>
          /\ poll.from # Catch!None /\ poll.pos > poll.from /\ poll.to <= ledger
          /\ poll.from + 1..poll.pos - 1 \subseteq Reached

\* The inductive invariant of the listeners.
CatchInv == Shapes /\ RunSound /\ LogSound /\ RowsCaughtUp /\ PollSound

LEMMA CatchInvInit == Catch!CatchInit => CatchInv
<1> SUFFICES ASSUME Catch!CatchInit PROVE CatchInv
  OBVIOUS
<1>1. MaxBlock \in Nat /\ MaxBoots \in Nat /\ Catch!None \in Nat
  BY ServersAssumption DEF Catch!None
<1>2. Shapes
  BY <1>1 DEF Catch!CatchInit, Shapes, Blocks, LogType, Catch!Chains
<1>3. RunSound
  BY <1>1 DEF Catch!CatchInit, RunSound, RunType, Catch!Off
<1>4. LogSound /\ RowsCaughtUp
  BY <1>1 DEF Catch!CatchInit, LogSound, RowsCaughtUp, Blocks
<1>5. PollSound
  BY <1>1 DEF Catch!CatchInit, PollSound, Catch!PollOff, Catch!Chains
<1> QED BY <1>2, <1>3, <1>4, <1>5 DEF CatchInv

\* Steps that leave the Soroban loop alone.
LEMMA PollKept ==
    ASSUME PollSound, UNCHANGED <<poll, applied, failed>>,
           ledger \in Nat, ledger' \in Nat, ledger <= ledger',
           cursor'["soroban"] = cursor["soroban"], origin'["soroban"] = origin["soroban"]
    PROVE  PollSound'
  BY ServersAssumption DEF PollSound, Reached

\* Steps that leave log, rows and the progress of the listener alone.
LEMMA RowsKept ==
    ASSUME LogSound, RowsCaughtUp, RunSound, UNCHANGED <<swap, ethLogs, unseen, processed, run>>,
           cursor'["ethereum"] = cursor["ethereum"], origin'["ethereum"] = origin["ethereum"]
    PROVE  LogSound' /\ RowsCaughtUp' /\ RunSound'
  BY DEF LogSound, RowsCaughtUp, Followed, LocksDone, RefundsDone, RunSound, Blocks, Catch!Event

\* What the other lemmas take from the shapes.
LEMMA ShapeFacts ==
    ASSUME Shapes, RunSound
    PROVE  /\ Len(ethLogs) \in Nat /\ Len(ethLogs) <= MaxBlock
           /\ MaxBlock \in Nat /\ Catch!None \in Nat /\ Catch!None > MaxBlock
           /\ "ethereum" \in Catch!Chains /\ "soroban" \in Catch!Chains
           /\ cursor["ethereum"] \in Nat /\ cursor["soroban"] \in Nat
           /\ origin["ethereum"] \in Nat /\ origin["soroban"] \in Nat
           /\ ledger \in Nat
           /\ run.pos \in Nat /\ run.to \in Nat
           /\ \A b \in Blocks : /\ ethLogs[b] \in [order: Swaps, kind: {"lock", "claim", "refund"}]
                                /\ ethLogs[b].order \in Swaps
                                /\ ethLogs[b].kind \in {"lock", "claim", "refund"}
                                /\ ethLogs[b] = Catch!Event(ethLogs[b].order, ethLogs[b].kind)
<1>1. MaxBlock \in Nat /\ Catch!None \in Nat /\ Catch!None > MaxBlock
  BY ServersAssumption DEF Catch!None
<1> DEFINE E == [order: Swaps, kind: {"lock", "claim", "refund"}]
<1>2. ethLogs \in Seq(E)
  BY DEF Shapes, LogType
<1>3. \A b \in Blocks : ethLogs[b] \in E
  <2> HIDE DEF E
  <2> QED BY <1>2 DEF Blocks
<1>4. \A b \in Blocks : /\ ethLogs[b].order \in Swaps
                        /\ ethLogs[b].kind \in {"lock", "claim", "refund"}
                        /\ ethLogs[b] = Catch!Event(ethLogs[b].order, ethLogs[b].kind)
  BY <1>3 DEF Catch!Event
<1>5. "ethereum" \in Catch!Chains /\ "soroban" \in Catch!Chains
  BY DEF Catch!Chains
<1>6. /\ cursor["ethereum"] \in Nat /\ cursor["soroban"] \in Nat
      /\ origin["ethereum"] \in Nat /\ origin["soroban"] \in Nat
  BY <1>1, <1>5 DEF Shapes
<1>7. ledger \in Nat /\ Len(ethLogs) \in Nat /\ Len(ethLogs) <= MaxBlock
  BY <1>1, <1>2 DEF Shapes
<1>8. run.pos \in Nat /\ run.to \in Nat
  BY DEF RunSound, RunType
<1> QED BY <1>1, <1>3, <1>4, <1>5, <1>6, <1>7, <1>8

\* The saved positions after one of them is set.
LEMMA PositionSet ==
    ASSUME NEW f \in [Catch!Chains -> 0..Catch!None], NEW c \in Catch!Chains, NEW v \in 0..Catch!None,
           NEW g, g = [f EXCEPT ![c] = v]
    PROVE  /\ g \in [Catch!Chains -> 0..Catch!None] /\ g[c] = v
           /\ \A d \in Catch!Chains : d # c => g[d] = f[d]
  OBVIOUS

LEMMA StartStep ==
    ASSUME CatchInv, Catch!start
    PROVE  CatchInv'
<1>0. Shapes /\ RunSound /\ LogSound /\ RowsCaughtUp /\ PollSound
  BY DEF CatchInv
<1> USE ShapeFacts, <1>0
<1>c1. /\ boots' = boots + 1 /\ boots < MaxBoots
       /\ UNCHANGED <<swap, processed, ethLogs, ledger, unseen, applied, poll, failed>>
  BY DEF Catch!start, Catch!chainLogs, Catch!sorVars
<1>c2. MaxBoots \in Nat /\ boots \in 0..MaxBoots
  BY ServersAssumption DEF Shapes
<1>c. /\ boots' \in 0..MaxBoots
      /\ UNCHANGED <<swap, processed, ethLogs, ledger, unseen, applied, poll, failed>>
  BY <1>c1, <1>c2
<1>1. CASE cursor["ethereum"] = Catch!None
  <2>1. /\ cursor' = [cursor EXCEPT !["ethereum"] = Len(ethLogs)]
        /\ origin' = [origin EXCEPT !["ethereum"] = Len(ethLogs)]
        /\ run' = [at |-> "arming", pos |-> 0, to |-> 0, seen |-> {}]
    BY <1>1 DEF Catch!start, Catch!Off
  <2>2. /\ cursor' \in [Catch!Chains -> 0..Catch!None] /\ cursor'["ethereum"] = Len(ethLogs)
        /\ cursor'["soroban"] = cursor["soroban"]
        /\ origin' \in [Catch!Chains -> 0..Catch!None] /\ origin'["ethereum"] = Len(ethLogs)
        /\ origin'["soroban"] = origin["soroban"]
    <3>1. /\ cursor \in [Catch!Chains -> 0..Catch!None] /\ origin \in [Catch!Chains -> 0..Catch!None]
          /\ Len(ethLogs) \in 0..Catch!None
      BY DEF Shapes
    <3> QED BY <2>1, <3>1, PositionSet
  <2>3. run' = [at |-> "arming", pos |-> 0, to |-> 0, seen |-> {}]
    BY <2>1
  <2>4. Shapes'
    BY <1>c, <2>2 DEF Shapes, Blocks, LogType
  <2>5. RunSound'
    BY <2>3 DEF RunSound, RunType
  <2>6. PollSound'
    BY <1>c, <2>2, PollKept
  <2>7. LogSound' /\ RowsCaughtUp'
    <3>1. LogSound'
      BY <1>c DEF LogSound, Blocks, Catch!Event
    <3>2. ASSUME NEW o \in Swaps, NEW a \in Blocks' PROVE ~Followed(o, a)'
      BY <1>c, <2>2, a \in 1..Len(ethLogs), Len(ethLogs) \in Nat DEF Followed, Blocks
    <3> QED BY <3>1, <3>2 DEF RowsCaughtUp
  <2> QED BY <2>4, <2>5, <2>6, <2>7 DEF CatchInv
<1>2. CASE cursor["ethereum"] # Catch!None
  <2>1. /\ run' = [at |-> "locks", pos |-> cursor["ethereum"], to |-> Len(ethLogs), seen |-> {}]
        /\ UNCHANGED <<cursor, origin>>
    BY <1>2 DEF Catch!start
  <2>3. cursor["ethereum"] <= Len(ethLogs)
    BY <1>2 DEF Shapes
  <2>4. Shapes'
    BY <1>c, <2>1 DEF Shapes, Blocks, LogType
  <2>5. RunSound'
    BY <1>c, <1>2, <2>1, <2>3 DEF RunSound, RunType
  <2>6. PollSound'
    BY <1>c, <2>1, PollKept
  <2>7. LogSound' /\ RowsCaughtUp'
    <3>1. LogSound' /\ Blocks' = Blocks
      BY <1>c DEF LogSound, Blocks, Catch!Event
    <3>2. \A o \in Swaps, a \in Blocks : Followed(o, a)' => Followed(o, a)
      BY <1>c, <2>1 DEF Followed, Catch!Event
    <3>3. \A a \in Blocks : LocksDone(a)' => LocksDone(a)
      BY <1>c, <1>2, <2>1 DEF LocksDone, Blocks
    <3>4. \A a \in Blocks : RefundsDone(a)' => RefundsDone(a)
      BY <1>c, <1>2, <2>1 DEF RefundsDone, Blocks
    <3> QED BY <1>c, <3>1, <3>2, <3>3, <3>4 DEF RowsCaughtUp, Catch!Event
  <2> QED BY <2>4, <2>5, <2>6, <2>7 DEF CatchInv
<1> QED BY <1>1, <1>2

\* Steps on the rows: they move forward, and whatever becomes done by the step
\* is done on the row.
LEMMA RowsAdvance ==
    ASSUME RowsCaughtUp, UNCHANGED ethLogs,
           \A o \in Swaps, a \in Blocks : Followed(o, a)' => Followed(o, a),
           \A o \in Swaps : /\ swap[o] \notin {"none", "announced"} => swap'[o] \notin {"none", "announced"}
                            /\ swap[o] = "refunded" => swap'[o] = "refunded",
           \A o \in Swaps, a \in Blocks :
               Followed(o, a) /\ LocksDone(a)' /\ ~LocksDone(a) => swap'[o] # "announced",
           \A o \in Swaps, a \in Blocks, b \in Blocks :
               /\ Followed(o, a) /\ b >= a /\ ethLogs[b] = Catch!Event(o, "refund")
               /\ RefundsDone(b)' /\ ~RefundsDone(b)
               => swap'[o] = "refunded"
    PROVE  RowsCaughtUp'
<1>1. Blocks' = Blocks
  BY DEF Blocks
<1>2. ASSUME NEW o \in Swaps, NEW a \in Blocks, Followed(o, a)'
      PROVE  /\ LocksDone(a)' => swap'[o] # "announced"
             /\ \A b \in Blocks : /\ b >= a /\ RefundsDone(b)'
                                  /\ ethLogs[b] = Catch!Event(o, "refund")
                                  => swap'[o] = "refunded"
  <2>1. Followed(o, a)
    BY <1>2
  <2>2. swap[o] # "none"
    BY <2>1 DEF Followed
  <2>3. LocksDone(a) => swap[o] # "announced"
    BY <2>1 DEF RowsCaughtUp
  <2>4. LocksDone(a)' => swap'[o] # "announced"
    BY <2>1, <2>2, <2>3
  <2>5. ASSUME NEW b \in Blocks, b >= a, RefundsDone(b)', ethLogs[b] = Catch!Event(o, "refund")
        PROVE  swap'[o] = "refunded"
    <3>1. CASE RefundsDone(b)
      BY <2>1, <2>5, <3>1 DEF RowsCaughtUp
    <3>2. CASE ~RefundsDone(b)
      BY <2>1, <2>5, <3>2
    <3> QED BY <3>1, <3>2
  <2> QED BY <2>4, <2>5
<1> QED BY <1>1, <1>2 DEF RowsCaughtUp, Catch!Event

\* A row only moves along announced, src_locked and one of the two ends.
LEMMA RowMoves ==
    ASSUME Shapes, NEW o \in Swaps
    PROVE  /\ Catch!recordSrcLock(o) \in [Swaps -> {"none", "announced", "src_locked", "completed", "refunded"}]
           /\ \A p \in Swaps : p # o => Catch!recordSrcLock(o)[p] = swap[p]
           /\ Catch!recordSrcLock(o)[o] = IF swap[o] = "announced" THEN "src_locked" ELSE swap[o]
           /\ Catch!recordRefund(o) \in [Swaps -> {"none", "announced", "src_locked", "completed", "refunded"}]
           /\ \A p \in Swaps : p # o => Catch!recordRefund(o)[p] = swap[p]
           /\ Catch!recordRefund(o)[o] = IF swap[o] = "src_locked" THEN "refunded" ELSE swap[o]
           /\ Catch!recordClaim(o) \in [Swaps -> {"none", "announced", "src_locked", "completed", "refunded"}]
           /\ \A p \in Swaps : p # o => Catch!recordClaim(o)[p] = swap[p]
           /\ Catch!recordClaim(o)[o] = IF swap[o] = "src_locked" THEN "completed" ELSE swap[o]
  BY DEF Shapes, Catch!recordSrcLock, Catch!recordRefund, Catch!recordClaim

LEMMA HandleCreatedStep ==
    ASSUME CatchInv, Catch!handleCreated
    PROVE  CatchInv'
<1>0. Shapes /\ RunSound /\ LogSound /\ RowsCaughtUp /\ PollSound
  BY DEF CatchInv
<1> USE ShapeFacts, <1>0
<1>c. /\ run.at = "locks"
      /\ UNCHANGED <<processed, cursor, ethLogs, ledger, boots, origin, unseen, applied, poll, failed>>
  BY DEF Catch!handleCreated, Catch!chainLogs, Catch!history, Catch!sorVars
<1>p. PollSound'
  BY <1>c, PollKept
<1>r. /\ cursor["ethereum"] # Catch!None
      /\ cursor["ethereum"] <= run.pos /\ cursor["ethereum"] <= run.to
      /\ run.pos <= run.to + 1 /\ run.to <= Len(ethLogs)
  BY <1>c DEF RunSound, RunType
<1>1. CASE run.pos <= run.to
  <2>1. run' = [run EXCEPT !.pos = @ + 1]
    BY <1>1, <1>c DEF Catch!handleCreated
  <2>2. run' \in RunType
        /\ run'.at = "locks" /\ run'.pos = run.pos + 1 /\ run'.to = run.to
    BY <2>1, <1>c DEF RunSound, RunType
  <2>3. RunSound'
    BY <1>1, <1>c, <1>r, <2>2 DEF RunSound, RunType
  <2>4. /\ swap' \in [Swaps -> {"none", "announced", "src_locked", "completed", "refunded"}]
        /\ \A o \in Swaps : \/ swap'[o] = swap[o]
                            \/ swap[o] = "announced" /\ swap'[o] = "src_locked"
        /\ \A o \in Swaps : run.pos \in Blocks /\ ethLogs[run.pos] = Catch!Event(o, "lock") =>
              swap'[o] # "announced"
    <3>1. CASE Catch!InRange({"lock"})
      <4>1. run.pos \in Blocks /\ ethLogs[run.pos].kind = "lock"
        BY <3>1, <1>r DEF Catch!InRange, Blocks
      <4>2. swap' = Catch!recordSrcLock(ethLogs[run.pos].order)
        BY <1>1, <1>c, <3>1 DEF Catch!handleCreated
      <4>3. PICK p \in Swaps : p = ethLogs[run.pos].order
        BY <4>1
      <4>4. swap' = Catch!recordSrcLock(p)
        BY <4>2, <4>3
      <4>5. \A o \in Swaps : ethLogs[run.pos] = Catch!Event(o, "lock") => o = p
        BY <4>3 DEF Catch!Event
      <4>6. swap'[p] # "announced"
        BY <4>4, RowMoves
      <4> QED BY <4>4, <4>5, <4>6, RowMoves
    <3>2. CASE ~Catch!InRange({"lock"})
      <4>1. swap' = swap
        BY <1>1, <1>c, <3>2 DEF Catch!handleCreated
      <4>2. ASSUME NEW o \in Swaps, run.pos \in Blocks, ethLogs[run.pos] = Catch!Event(o, "lock")
            PROVE  FALSE
        BY <3>2, <4>2, <1>1 DEF Catch!InRange, Blocks, Catch!Event
      <4> QED BY <4>1, <4>2 DEF Shapes
    <3> QED BY <3>1, <3>2
  <2>5. Shapes'
    BY <1>c, <2>4 DEF Shapes, Blocks, LogType
  <2>6. LogSound'
    BY <1>c, <2>4 DEF LogSound, Blocks, Catch!Event
  <2>7. RowsCaughtUp'
    <3>1. \A o \in Swaps, a \in Blocks : Followed(o, a)' => Followed(o, a)
      BY <1>c, <2>4 DEF Followed, Catch!Event
    <3>2. \A a \in Blocks : LocksDone(a)' => LocksDone(a) \/ a = run.pos
      BY <1>c, <2>2 DEF LocksDone, Blocks
    <3>3. \A b \in Blocks : RefundsDone(b)' => RefundsDone(b)
      BY <1>c, <2>2 DEF RefundsDone, Blocks
    <3>4. \A o \in Swaps, a \in Blocks :
            Followed(o, a) /\ LocksDone(a)' /\ ~LocksDone(a) => swap'[o] # "announced"
      BY <3>2, <2>4 DEF Followed
    <3> QED BY <1>c, <2>4, <3>1, <3>3, <3>4, RowsAdvance
  <2> QED BY <1>p, <2>3, <2>5, <2>6, <2>7 DEF CatchInv
<1>2. CASE ~(run.pos <= run.to)
  <2>1. run' = [run EXCEPT !.at = "settle", !.pos = cursor["ethereum"]] /\ UNCHANGED swap
    BY <1>2, <1>c DEF Catch!handleCreated
  <2>2. run' \in RunType
        /\ run'.at = "settle" /\ run'.pos = cursor["ethereum"] /\ run'.to = run.to
    BY <2>1, <1>c DEF RunSound, RunType
  <2>3. RunSound'
    BY <1>2, <1>c, <1>r, <2>2 DEF RunSound, RunType
  <2>5. Shapes'
    BY <1>c, <2>1 DEF Shapes, Blocks, LogType
  <2>6. LogSound'
    BY <1>c, <2>1 DEF LogSound, Blocks, Catch!Event
  <2>7. RowsCaughtUp'
    <3>1. \A o \in Swaps, a \in Blocks : Followed(o, a)' => Followed(o, a)
      BY <1>c, <2>1 DEF Followed, Catch!Event
    <3>2. \A a \in Blocks : LocksDone(a)' => LocksDone(a)
      BY <1>c, <1>2, <1>r, <2>2 DEF LocksDone, Blocks
    <3>3. \A b \in Blocks : RefundsDone(b)' => RefundsDone(b)
      BY <1>c, <1>r, <2>2 DEF RefundsDone, Blocks
    <3> QED BY <1>c, <2>1, <3>1, <3>2, <3>3, RowsAdvance
  <2> QED BY <1>p, <2>3, <2>5, <2>6, <2>7 DEF CatchInv
<1> QED BY <1>1, <1>2

\* process applies a settlement before it marks it, so that a marked refund is
\* on its row.
LEMMA ProcessStep ==
    ASSUME CatchInv, Catch!process
    PROVE  CatchInv'
<1>0. Shapes /\ RunSound /\ LogSound /\ RowsCaughtUp /\ PollSound
  BY DEF CatchInv
<1> USE ShapeFacts, <1>0
<1>c. /\ run.at \in {"settle", "second"}
      /\ UNCHANGED <<cursor, ethLogs, ledger, boots, origin, unseen, applied, poll, failed>>
  BY DEF Catch!process, Catch!chainLogs, Catch!history, Catch!sorVars
<1>p. PollSound'
  BY <1>c, PollKept
<1>r. /\ cursor["ethereum"] # Catch!None
      /\ cursor["ethereum"] <= run.pos /\ cursor["ethereum"] <= run.to
      /\ run.pos <= run.to + 1 /\ run.to <= Len(ethLogs)
  BY <1>c DEF RunSound, RunType
<1>1. CASE /\ run.at = "settle" /\ Catch!Needed
           /\ run' = [run EXCEPT !.at = "second"]
           /\ swap' = Catch!applySettlement(ethLogs[run.pos])
           /\ UNCHANGED processed
  <2>1. run.pos \in 1..run.to /\ run.pos \in Blocks
    BY <1>1, <1>r DEF Catch!Needed, Catch!InRange, Blocks
  <2>2. run' \in RunType
        /\ run'.at = "second" /\ run'.pos = run.pos /\ run'.to = run.to
    BY <1>1 DEF RunSound, RunType
  <2>3. RunSound'
    BY <1>c, <1>r, <2>1, <2>2 DEF RunSound, RunType
  <2>4. /\ swap' \in [Swaps -> {"none", "announced", "src_locked", "completed", "refunded"}]
        /\ \A o \in Swaps : \/ swap'[o] = swap[o]
                            \/ swap[o] = "src_locked" /\ swap'[o] = "refunded"
        /\ \A o \in Swaps : ethLogs[run.pos] = Catch!Event(o, "refund") =>
              swap'[o] = IF swap[o] = "src_locked" THEN "refunded" ELSE swap[o]
    <3>1. PICK p \in Swaps : p = ethLogs[run.pos].order
      BY <2>1
    <3>2. CASE ethLogs[run.pos].kind = "refund"
      <4>1. swap' = Catch!recordRefund(p)
        BY <1>1, <3>1, <3>2 DEF Catch!applySettlement
      <4>2. \A o \in Swaps : ethLogs[run.pos] = Catch!Event(o, "refund") => o = p
        BY <3>1 DEF Catch!Event
      <4> QED BY <4>1, <4>2, RowMoves
    <3>3. CASE ethLogs[run.pos].kind # "refund"
      <4>1. swap' = swap
        BY <1>1, <3>3 DEF Catch!applySettlement
      <4>2. \A o \in Swaps : ethLogs[run.pos] # Catch!Event(o, "refund")
        BY <3>3 DEF Catch!Event
      <4> QED BY <4>1, <4>2 DEF Shapes
    <3> QED BY <3>2, <3>3
  <2>5. Shapes'
    BY <1>c, <1>1, <2>4 DEF Shapes, Blocks, LogType
  <2>6. LogSound'
    BY <1>c, <2>4 DEF LogSound, Blocks, Catch!Event
  <2>7. RowsCaughtUp'
    <3>1. \A o \in Swaps, a \in Blocks : Followed(o, a)' => Followed(o, a)
      BY <1>c, <2>4 DEF Followed, Catch!Event
    <3>2. \A a \in Blocks : LocksDone(a)' => LocksDone(a)
      BY <1>c, <1>1, <2>2 DEF LocksDone, Blocks
    <3>3. \A b \in Blocks : RefundsDone(b)' => RefundsDone(b) \/ b = run.pos
      BY <1>c, <1>1, <2>2 DEF RefundsDone, Blocks
    <3>4. ASSUME NEW o \in Swaps, NEW a \in Blocks, Followed(o, a), run.pos >= a,
                 ethLogs[run.pos] = Catch!Event(o, "refund")
          PROVE  swap'[o] = "refunded"
      <4>1. LocksDone(a)
        BY <3>4, <1>1, <2>1, a \in Nat DEF LocksDone, Blocks
      <4>2. swap[o] \notin {"none", "announced"}
        BY <3>4, <4>1 DEF RowsCaughtUp, Followed
      <4>3. swap[o] # "completed"
        <5>1. SUFFICES ASSUME swap[o] = "completed" PROVE FALSE
          OBVIOUS
        <5>2. PICK c \in Blocks : ethLogs[c] = Catch!Event(o, "claim")
          BY <5>1 DEF LogSound
        <5>3. /\ ethLogs[c].order = o /\ ethLogs[c].kind = "claim"
              /\ ethLogs[run.pos].order = o /\ ethLogs[run.pos].kind = "refund"
          BY <5>2, <3>4 DEF Catch!Event
        <5> QED BY <5>2, <5>3, <2>1 DEF LogSound
      <4>4. swap[o] \in {"src_locked", "refunded"}
        BY <4>2, <4>3 DEF Shapes
      <4> QED BY <4>4, <3>4, <2>4
    <3>5. \A o \in Swaps, a \in Blocks, b \in Blocks :
             /\ Followed(o, a) /\ b >= a /\ ethLogs[b] = Catch!Event(o, "refund")
             /\ RefundsDone(b)' /\ ~RefundsDone(b)
             => swap'[o] = "refunded"
      BY <3>3, <3>4
    <3> QED BY <1>c, <2>4, <3>1, <3>2, <3>5, RowsAdvance
  <2> QED BY <1>p, <2>3, <2>5, <2>6, <2>7 DEF CatchInv
<1>2. CASE /\ run.at = "second"
           /\ run' = [run EXCEPT !.at = "settle", !.pos = @ + 1]
           /\ processed' = processed \cup {run.pos} /\ UNCHANGED swap
  <2>1. run.pos \in 1..run.to /\ run.pos \in Blocks
    BY <1>2, <1>r DEF RunSound, Blocks
  <2>2. run' \in RunType
        /\ run'.at = "settle" /\ run'.pos = run.pos + 1 /\ run'.to = run.to
    <3>1. run \in RunType /\ run.pos + 1 \in Nat
      BY DEF RunSound
    <3>2. run' = [run EXCEPT !.at = "settle", !.pos = @ + 1]
      BY <1>2
    <3> QED BY ONLY <3>1, <3>2 DEF RunType
  <2>3. RunSound'
    BY <1>c, <1>r, <2>1, <2>2 DEF RunSound, RunType
  <2>5. Shapes'
    BY <1>c, <1>2, <2>1 DEF Shapes, Blocks, LogType
  <2>6. LogSound'
    BY <1>c, <1>2 DEF LogSound, Blocks, Catch!Event
  <2>7. RowsCaughtUp'
    <3>1. \A o \in Swaps, a \in Blocks : Followed(o, a)' => Followed(o, a)
      BY <1>c, <1>2 DEF Followed, Catch!Event
    <3>2. \A a \in Blocks : LocksDone(a)' => LocksDone(a)
      BY <1>c, <1>2, <2>2 DEF LocksDone, Blocks
    <3>3. \A b \in Blocks : RefundsDone(b)' => RefundsDone(b)
      BY <1>c, <1>2, <2>2 DEF RefundsDone, Blocks
    <3> QED BY <1>c, <1>2, <3>1, <3>2, <3>3, RowsAdvance
  <2> QED BY <1>p, <2>3, <2>5, <2>6, <2>7 DEF CatchInv
<1>3. CASE /\ run.at = "settle" /\ run.pos <= run.to /\ ~Catch!Needed
           /\ run' = [run EXCEPT !.pos = @ + 1]
           /\ UNCHANGED <<swap, processed>>
  <2>2. run' \in RunType
        /\ run'.at = "settle" /\ run'.pos = run.pos + 1 /\ run'.to = run.to
    <3>1. run \in RunType /\ run.pos + 1 \in Nat
      BY DEF RunSound
    <3>2. run' = [run EXCEPT !.pos = @ + 1] /\ run.at = "settle"
      BY <1>3
    <3> QED BY ONLY <3>1, <3>2 DEF RunType
  <2>3. RunSound'
    BY <1>c, <1>r, <1>3, <2>2 DEF RunSound
  <2>5. Shapes'
    BY <1>c, <1>3 DEF Shapes, Blocks, LogType
  <2>6. LogSound'
    BY <1>c, <1>3 DEF LogSound, Blocks, Catch!Event
  <2>7. RowsCaughtUp'
    <3>1. \A o \in Swaps, a \in Blocks : Followed(o, a)' => Followed(o, a)
      BY <1>c, <1>3 DEF Followed, Catch!Event
    <3>2. \A a \in Blocks : LocksDone(a)' => LocksDone(a)
      BY <1>c, <1>3, <2>2 DEF LocksDone, Blocks
    <3>3. \A b \in Blocks : RefundsDone(b)' => RefundsDone(b) \/ b = run.pos
      BY <1>c, <1>3, <2>2 DEF RefundsDone, Blocks
    <3>4. ASSUME NEW o \in Swaps, run.pos \in Blocks, ethLogs[run.pos] = Catch!Event(o, "refund")
          PROVE  RefundsDone(run.pos)
      <4>1. Catch!InRange({"claim", "refund"})
        BY <3>4, <1>3 DEF Catch!InRange, Blocks, Catch!Event
      <4> QED BY <4>1, <1>3 DEF Catch!Needed, RefundsDone
    <3>5. \A o \in Swaps, b \in Blocks :
             ethLogs[b] = Catch!Event(o, "refund") /\ RefundsDone(b)' => RefundsDone(b)
      BY <3>3, <3>4
    <3> QED BY <1>c, <1>3, <3>1, <3>2, <3>5, RowsAdvance
  <2> QED BY <1>p, <2>3, <2>5, <2>6, <2>7 DEF CatchInv
<1> QED BY <1>1, <1>2, <1>3 DEF Catch!process, Catch!FirstStep

\* advance: the whole range was handled, so its end may become the cursor.
LEMMA AdvanceStep ==
    ASSUME CatchInv, Catch!advance
    PROVE  CatchInv'
<1>0. Shapes /\ RunSound /\ LogSound /\ RowsCaughtUp /\ PollSound
  BY DEF CatchInv
<1> USE ShapeFacts, <1>0
<1>c. /\ run.at = "settle" /\ run.pos > run.to
      /\ run' = [run EXCEPT !.at = "arming"]
      /\ UNCHANGED <<swap, processed, ethLogs, ledger, boots, origin, unseen, applied, poll, failed>>
  BY DEF Catch!advance, Catch!chainLogs, Catch!history, Catch!sorVars
<1>r. /\ cursor["ethereum"] # Catch!None
      /\ cursor["ethereum"] <= run.pos /\ cursor["ethereum"] <= run.to
      /\ run.pos <= run.to + 1 /\ run.to <= Len(ethLogs)
  BY <1>c DEF RunSound, RunType
<1>1. run' \in RunType
      /\ run'.at = "arming"
  <2>1. run' = [run EXCEPT !.at = "arming"]
    BY <1>c
  <2> QED BY <2>1 DEF RunSound, RunType
<1>2. cursor' = [cursor EXCEPT !["ethereum"] = run.to]
  BY <1>r DEF Catch!advance, Catch!saveChainCursor
<1>3. /\ cursor' \in [Catch!Chains -> 0..Catch!None] /\ cursor'["ethereum"] = run.to
      /\ cursor'["soroban"] = cursor["soroban"]
  <2>1. cursor \in [Catch!Chains -> 0..Catch!None] /\ run.to \in 0..Catch!None
    BY <1>r DEF Shapes
  <2> QED BY <1>2, <2>1, PositionSet
<1>4. Shapes'
  BY <1>c, <1>r, <1>3 DEF Shapes, Blocks, LogType
<1>5. RunSound'
  BY <1>1 DEF RunSound, RunType
<1>6. PollSound'
  BY <1>c, <1>3, PollKept
<1>7. LogSound'
  BY <1>c DEF LogSound, Blocks, Catch!Event
<1>8. RowsCaughtUp'
  <2>1. \A o \in Swaps, a \in Blocks : Followed(o, a)' => Followed(o, a)
    BY <1>c DEF Followed, Catch!Event
  <2>2. \A a \in Blocks : LocksDone(a)' => LocksDone(a)
    BY <1>c, <1>1, <1>3 DEF LocksDone, Blocks
  <2>3. \A b \in Blocks : RefundsDone(b)' => RefundsDone(b)
    BY <1>c, <1>1, <1>3 DEF RefundsDone, Blocks
  <2> QED BY <1>c, <2>1, <2>2, <2>3, RowsAdvance
<1> QED BY <1>4, <1>5, <1>6, <1>7, <1>8 DEF CatchInv

\* watchEvent, and a crash: nothing that was done is undone.
LEMMA ListenerMoves ==
    ASSUME CatchInv, run' \in [at: {"off", "watching"}, pos: Nat, to: Nat, seen: SUBSET Nat],
           UNCHANGED <<swap, processed, cursor, ethLogs, ledger, boots, origin, unseen, applied, failed>>,
           PollSound'
    PROVE  CatchInv'
<1>0. Shapes /\ RunSound /\ LogSound /\ RowsCaughtUp /\ PollSound
  BY DEF CatchInv
<1>1. run'.at \in {"off", "watching"}
  OBVIOUS
<1>4. Shapes'
  BY <1>0 DEF Shapes, Blocks, LogType
<1>5. RunSound'
  BY <1>1 DEF RunSound, RunType
<1>7. LogSound'
  BY <1>0 DEF LogSound, Blocks, Catch!Event
<1>8. RowsCaughtUp'
  <2>1. \A o \in Swaps, a \in Blocks : Followed(o, a)' => Followed(o, a)
    BY DEF Followed, Catch!Event
  <2>2. \A a \in Blocks : LocksDone(a)' => LocksDone(a)
    BY <1>1 DEF LocksDone, Blocks
  <2>3. \A b \in Blocks : RefundsDone(b)' => RefundsDone(b)
    BY <1>1 DEF RefundsDone, Blocks
  <2> QED BY <1>0, <2>1, <2>2, <2>3, RowsAdvance
<1> QED BY <1>4, <1>5, <1>7, <1>8 DEF CatchInv

LEMMA WatchEventStep ==
    ASSUME CatchInv, Catch!watchEvent
    PROVE  CatchInv'
<1>0. Shapes /\ RunSound /\ LogSound /\ RowsCaughtUp /\ PollSound
  BY DEF CatchInv
<1>1. /\ run' = [at |-> "watching", pos |-> Len(ethLogs), to |-> 0, seen |-> {}]
      /\ UNCHANGED <<swap, processed, cursor, ethLogs, ledger, boots, origin, unseen, applied, failed, poll>>
  BY DEF Catch!watchEvent, Catch!chainLogs, Catch!history, Catch!sorVars
<1>2. run' \in [at: {"off", "watching"}, pos: Nat, to: Nat, seen: SUBSET Nat]
  BY <1>0, <1>1, ShapeFacts
<1>3. PollSound'
  BY <1>0, <1>1, ShapeFacts, PollKept
<1> QED BY <1>1, <1>2, <1>3, ListenerMoves

LEMMA CrashStep ==
    ASSUME CatchInv, Catch!Crash
    PROVE  CatchInv'
<1>0. Shapes /\ RunSound /\ LogSound /\ RowsCaughtUp /\ PollSound
  BY DEF CatchInv
<1>1. /\ run' = [at |-> "off", pos |-> 0, to |-> 0, seen |-> {}]
      /\ poll' = [at |-> "off", from |-> Catch!None, to |-> 0, pos |-> 0]
      /\ UNCHANGED <<swap, processed, cursor, ethLogs, ledger, boots, origin, unseen, applied, failed>>
  BY DEF Catch!Crash, Catch!chainLogs, Catch!history, Catch!Off, Catch!PollOff
<1>2. run' \in [at: {"off", "watching"}, pos: Nat, to: Nat, seen: SUBSET Nat]
  BY <1>1
<1>3. PollSound'
  BY <1>0, <1>1, ShapeFacts DEF PollSound, Reached
<1> QED BY <1>1, <1>2, <1>3, ListenerMoves

\* onLogs: the watchers' path applies the same moves and leaves the cursor.
LEMMA OnLogsStep ==
    ASSUME CatchInv, NEW b \in Blocks, Catch!onLogs(b)
    PROVE  CatchInv'
<1>0. Shapes /\ RunSound /\ LogSound /\ RowsCaughtUp /\ PollSound
  BY DEF CatchInv
<1> USE ShapeFacts, <1>0
<1>c. /\ run.at = "watching" /\ swap' = Catch!applyLive(ethLogs[b])
      /\ run' = [run EXCEPT !.seen = @ \cup {b}]
      /\ Catch!saveChainCursor("ethereum", cursor["ethereum"])
      /\ UNCHANGED <<processed, ethLogs, ledger, boots, origin, unseen, applied, poll, failed>>
  BY DEF Catch!onLogs, Catch!chainLogs, Catch!history, Catch!sorVars, Catch!CursorAfterLog
<1>1. run' \in RunType
      /\ run'.at = "watching"
  <2>1. run' = [run EXCEPT !.seen = @ \cup {b}] /\ b \in Nat /\ run.at = "watching"
    BY <1>c DEF Blocks
  <2> QED BY <2>1 DEF RunSound, RunType
<1>2. cursor' = cursor
  <2>1. cursor \in [Catch!Chains -> 0..Catch!None]
    BY DEF Shapes
  <2>2. cursor' = [cursor EXCEPT !["ethereum"] = cursor["ethereum"]]
    BY <1>c, <2>1 DEF Catch!saveChainCursor
  <2> QED BY <2>1, <2>2
<1>3. PICK p \in Swaps : p = ethLogs[b].order
  OBVIOUS
<1>4. \/ swap' = Catch!recordSrcLock(p) \/ swap' = Catch!recordRefund(p)
      \/ ethLogs[b] = Catch!Event(p, "claim") /\ swap' = Catch!recordClaim(p)
  BY <1>c, <1>3 DEF Catch!applyLive
<1>5. /\ swap' \in [Swaps -> {"none", "announced", "src_locked", "completed", "refunded"}]
      /\ \A o \in Swaps : \/ swap'[o] = swap[o]
                          \/ swap[o] = "announced" /\ swap'[o] = "src_locked"
                          \/ swap[o] = "src_locked" /\ swap'[o] = "refunded"
                          \/ swap[o] = "src_locked" /\ swap'[o] = "completed"
                             /\ ethLogs[b] = Catch!Event(o, "claim")
  <2>1. CASE swap' = Catch!recordSrcLock(p)
    BY <2>1, RowMoves
  <2>2. CASE swap' = Catch!recordRefund(p)
    BY <2>2, RowMoves
  <2>3. CASE ethLogs[b] = Catch!Event(p, "claim") /\ swap' = Catch!recordClaim(p)
    BY <2>3, RowMoves
  <2> QED BY <1>4, <2>1, <2>2, <2>3
<1>6. Shapes'
  BY <1>c, <1>2, <1>5 DEF Shapes, Blocks, LogType
<1>7. RunSound'
  BY <1>1 DEF RunSound, RunType
<1>8. PollSound'
  BY <1>c, <1>2, PollKept
<1>9. LogSound'
  <2>1. \A o \in Swaps : swap'[o] = "completed" =>
           \E a \in Blocks : ethLogs[a] = Catch!Event(o, "claim")
    BY <1>5 DEF LogSound
  <2> QED BY <1>c, <2>1 DEF LogSound, Blocks, Catch!Event
<1>10. RowsCaughtUp'
  <2>1. \A o \in Swaps, a \in Blocks : Followed(o, a)' => Followed(o, a)
    BY <1>c, <1>2, <1>5 DEF Followed, Catch!Event
  <2>2. \A a \in Blocks : LocksDone(a)' => LocksDone(a)
    BY <1>c, <1>1, <1>2 DEF LocksDone, Blocks
  <2>3. \A d \in Blocks : RefundsDone(d)' => RefundsDone(d)
    BY <1>c, <1>1, <1>2 DEF RefundsDone, Blocks
  <2>4. \A o \in Swaps : /\ swap[o] \notin {"none", "announced"} => swap'[o] \notin {"none", "announced"}
                         /\ swap[o] = "refunded" => swap'[o] = "refunded"
    BY <1>5
  <2> QED BY <1>c, <2>1, <2>2, <2>3, <2>4, RowsAdvance
<1> QED BY <1>6, <1>7, <1>8, <1>9, <1>10 DEF CatchInv

\* sorobanStart and getEvents.
LEMMA SorobanReads ==
    ASSUME CatchInv, Catch!sorobanStart \/ Catch!getEvents
    PROVE  CatchInv'
<1>0. Shapes /\ RunSound /\ LogSound /\ RowsCaughtUp /\ PollSound
  BY DEF CatchInv
<1>1. UNCHANGED <<swap, processed, applied, cursor, ethLogs, ledger, run, boots, origin, unseen, failed>>
  BY DEF Catch!sorobanStart, Catch!getEvents, Catch!chainLogs, Catch!history
<1>2. LogSound' /\ RowsCaughtUp' /\ RunSound'
  BY <1>0, <1>1, RowsKept
<1>3. Shapes'
  BY <1>0, <1>1 DEF Shapes, Blocks, LogType
<1>4. /\ MaxBlock \in Nat /\ Catch!None \in Nat /\ Catch!None > MaxBlock
      /\ cursor["soroban"] \in 0..Catch!None /\ ledger \in 0..MaxBlock
  BY <1>0, ShapeFacts DEF Shapes
<1>5. CASE Catch!sorobanStart
  <2>1. poll' = [at |-> "idle", from |-> cursor["soroban"], to |-> 0, pos |-> 0]
    BY <1>5 DEF Catch!sorobanStart, Catch!PollOff
  <2>2. PollSound'
    BY <1>0, <1>1, <1>4, <2>1 DEF PollSound, Reached
  <2> QED BY <1>2, <1>3, <2>2 DEF CatchInv
<1>6. CASE Catch!getEvents
  <2> DEFINE first == IF poll.from # Catch!None THEN poll.from
                      ELSE IF ledger < 2 THEN 0
                      ELSE ledger - 2
  <2>1. poll.at = "idle" /\ poll' = [at |-> "batch", from |-> first, pos |-> first + 1, to |-> ledger]
    BY <1>6 DEF Catch!getEvents
  <2>2. poll.from \in 0..Catch!None
    BY <1>0 DEF PollSound
  <2>3. /\ first \in 0..MaxBlock
        /\ poll.from # Catch!None => first = poll.from
    BY <1>4, <2>2 DEF Catch!None
  <2>4. poll.from = Catch!None => cursor["soroban"] = Catch!None
    BY <1>0, <2>1 DEF PollSound
  <2>5. poll.from # Catch!None /\ cursor["soroban"] # Catch!None => poll.from <= cursor["soroban"]
    BY <1>0, <2>1 DEF PollSound
  <2> HIDE DEF first
  <2>6. poll' \in [at: {"off", "idle", "batch"}, from: 0..Catch!None, to: 0..MaxBlock, pos: Nat]
        /\ poll'.at = "batch" /\ poll'.from = first /\ poll'.pos = first + 1 /\ poll'.to = ledger
        /\ first # Catch!None
    BY <1>4, <2>1, <2>3
  <2>7. first + 1..(first + 1) - 1 = {}
    BY <1>4, <2>3
  <2>8. PollSound'
    BY <1>0, <1>1, <1>4, <2>3, <2>4, <2>5, <2>6, <2>7 DEF PollSound, Reached
  <2> QED BY <1>2, <1>3, <2>8 DEF CatchInv
<1> QED BY <1>5, <1>6

\* applySoroban: an event of the batch is applied, or its storage error logged.
LEMMA ApplySorobanStep ==
    ASSUME CatchInv, Catch!applySoroban
    PROVE  CatchInv'
<1>0. Shapes /\ RunSound /\ LogSound /\ RowsCaughtUp /\ PollSound
  BY DEF CatchInv
<1>1. /\ poll.at = "batch" /\ poll.pos <= poll.to
      /\ poll' = [poll EXCEPT !.pos = @ + 1]
      /\ \/ applied' = applied \cup {poll.pos} /\ failed' = failed
         \/ failed' = failed \cup {poll.pos} /\ applied' = applied
      /\ UNCHANGED <<swap, processed, cursor, ethLogs, ledger, run, boots, origin, unseen>>
  BY DEF Catch!applySoroban, Catch!chainLogs, Catch!history
<1>2. LogSound' /\ RowsCaughtUp' /\ RunSound'
  BY <1>0, <1>1, RowsKept
<1>3. /\ MaxBlock \in Nat /\ Catch!None \in Nat /\ ledger \in 0..MaxBlock
  BY <1>0, ShapeFacts DEF Shapes
<1>4. /\ poll.from \in Nat /\ poll.from # Catch!None /\ poll.pos > poll.from
      /\ poll.pos \in 1..MaxBlock /\ poll.to <= ledger /\ poll.to \in Nat /\ poll.pos \in Nat
  BY <1>0, <1>1, <1>3 DEF PollSound
<1>5. Shapes'
  BY <1>0, <1>1, <1>4 DEF Shapes, Blocks, LogType
<1>6. poll' \in [at: {"off", "idle", "batch"}, from: 0..Catch!None, to: 0..MaxBlock, pos: Nat]
      /\ poll'.at = "batch" /\ poll'.from = poll.from /\ poll'.pos = poll.pos + 1 /\ poll'.to = poll.to
  <2>1. poll' = [poll EXCEPT !.pos = @ + 1] /\ poll.at = "batch"
    BY <1>1
  <2>2. poll \in [at: {"off", "idle", "batch"}, from: 0..Catch!None, to: 0..MaxBlock, pos: Nat]
    BY <1>0 DEF PollSound
  <2> QED BY ONLY <2>1, <2>2
<1>7. Reached' = Reached \cup {poll.pos}
  BY <1>1 DEF Reached
<1>8. poll.from + 1..(poll.pos + 1) - 1 \subseteq Reached'
  <2>1. poll.from + 1..poll.pos - 1 \subseteq Reached
    BY <1>0, <1>1 DEF PollSound
  <2>2. \A n \in poll.from + 1..(poll.pos + 1) - 1 : n = poll.pos \/ n \in poll.from + 1..poll.pos - 1
    BY <1>4
  <2> QED BY <1>7, <2>1, <2>2
<1>9. PollSound'
  <2>1. cursor["soroban"] # Catch!None => origin["soroban"] + 1..cursor["soroban"] \subseteq Reached'
    BY <1>0, <1>7 DEF PollSound
  <2>2. /\ origin["soroban"] = Catch!None <=> cursor["soroban"] = Catch!None
        /\ cursor["soroban"] # Catch!None => poll.from <= cursor["soroban"]
    BY <1>0, <1>1, <1>4 DEF PollSound
  <2> QED BY <1>1, <1>4, <1>6, <1>8, <2>1, <2>2 DEF PollSound
<1> QED BY <1>2, <1>5, <1>9 DEF CatchInv

\* saveSorobanCursor: the batch was handled, so its end may become the cursor.
LEMMA SaveSorobanStep ==
    ASSUME CatchInv, Catch!saveSorobanCursor
    PROVE  CatchInv'
<1>0. Shapes /\ RunSound /\ LogSound /\ RowsCaughtUp /\ PollSound
  BY DEF CatchInv
<1> DEFINE c == cursor["soroban"]
           g == origin["soroban"]
<1>1. /\ poll.at = "batch" /\ poll.pos > poll.to
      /\ poll' = [at |-> "idle", from |-> poll.to, to |-> 0, pos |-> 0]
      /\ cursor' = [cursor EXCEPT !["soroban"] =
                       IF c = Catch!None \/ poll.to >= c THEN poll.to ELSE c]
      /\ origin' = [origin EXCEPT !["soroban"] = IF g = Catch!None THEN poll.from ELSE g]
      /\ UNCHANGED <<swap, processed, applied, ethLogs, ledger, run, boots, unseen, failed>>
  BY DEF Catch!saveSorobanCursor, Catch!saveChainCursor, Catch!BatchHandled, Catch!PollOff, Catch!chainLogs
<1>2. /\ MaxBlock \in Nat /\ Catch!None \in Nat /\ Catch!None > MaxBlock /\ ledger \in 0..MaxBlock
      /\ c \in 0..Catch!None /\ g \in 0..Catch!None
      /\ "ethereum" \in Catch!Chains /\ "soroban" \in Catch!Chains
      /\ cursor \in [Catch!Chains -> 0..Catch!None] /\ origin \in [Catch!Chains -> 0..Catch!None]
  BY <1>0, ShapeFacts DEF Shapes
<1>3. /\ poll.from \in 0..Catch!None /\ poll.from # Catch!None /\ poll.pos > poll.from
      /\ poll.to \in 0..MaxBlock /\ poll.to <= ledger /\ poll.pos \in Nat
      /\ g = Catch!None <=> c = Catch!None
      /\ c # Catch!None => poll.from <= c
      /\ c # Catch!None => g + 1..c \subseteq Reached
      /\ poll.from + 1..poll.pos - 1 \subseteq Reached
  BY <1>0, <1>1 DEF PollSound
<1> DEFINE d == IF c = Catch!None \/ poll.to >= c THEN poll.to ELSE c
           h == IF g = Catch!None THEN poll.from ELSE g
<1>4. d \in 0..Catch!None /\ d # Catch!None /\ h \in 0..Catch!None /\ h # Catch!None /\ poll.to <= d
  BY <1>2, <1>3
<1>5. h + 1..d \subseteq Reached
  <2>1. \A n \in poll.from + 1..poll.to : n \in Reached
    BY <1>1, <1>2, <1>3
  <2>2. CASE c = Catch!None
    BY <1>3, <2>1, <2>2
  <2>3. CASE c # Catch!None /\ poll.to >= c
    <3>1. \A n \in g + 1..poll.to : n \in g + 1..c \/ n \in poll.from + 1..poll.to
      BY <1>2, <1>3, <2>3
    <3> QED BY <1>3, <2>1, <2>3, <3>1
  <2>4. CASE c # Catch!None /\ ~(poll.to >= c)
    BY <1>3, <2>4
  <2> QED BY <2>2, <2>3, <2>4
<1> HIDE DEF c, g, d, h
<1>6. /\ cursor' \in [Catch!Chains -> 0..Catch!None] /\ cursor'["soroban"] = d
      /\ origin' \in [Catch!Chains -> 0..Catch!None] /\ origin'["soroban"] = h
      /\ cursor'["ethereum"] = cursor["ethereum"] /\ origin'["ethereum"] = origin["ethereum"]
  <2>1. cursor' = [cursor EXCEPT !["soroban"] = d] /\ origin' = [origin EXCEPT !["soroban"] = h]
    BY <1>1 DEF d, h
  <2> QED BY <1>2, <1>4, <2>1, PositionSet
<1>7. LogSound' /\ RowsCaughtUp' /\ RunSound'
  BY <1>0, <1>1, <1>6, RowsKept
<1>8. Shapes'
  BY <1>0, <1>1, <1>6 DEF Shapes, Blocks, LogType
<1>9. PollSound'
  <2>1. Reached' = Reached
    BY <1>1 DEF Reached
  <2>2. poll' = [at |-> "idle", from |-> poll.to, to |-> 0, pos |-> 0]
    BY <1>1
  <2>3. poll' \in [at: {"off", "idle", "batch"}, from: 0..Catch!None, to: 0..MaxBlock, pos: Nat]
        /\ poll'.at = "idle" /\ poll'.from = poll.to
    BY <1>2, <1>3, <2>2
  <2> QED BY <1>2, <1>3, <1>4, <1>5, <1>6, <2>1, <2>3 DEF PollSound
<1> QED BY <1>7, <1>8, <1>9 DEF CatchInv

\* announce: an order whose lock is already mined is unseen, so nothing is
\* owed to it.
LEMMA AnnounceCatchStep ==
    ASSUME CatchInv, NEW o \in Swaps, Catch!announce(o)
    PROVE  CatchInv'
<1>0. Shapes /\ RunSound /\ LogSound /\ RowsCaughtUp /\ PollSound
  BY DEF CatchInv
<1>1. /\ swap[o] = "none" /\ swap' = [swap EXCEPT ![o] = "announced"]
      /\ unseen' = IF \E i \in Blocks : ethLogs[i] = Catch!Event(o, "lock") THEN unseen \cup {o} ELSE unseen
      /\ UNCHANGED <<processed, cursor, ethLogs, ledger, run, boots, origin, applied, poll, failed>>
  BY DEF Catch!announce, Catch!chainLogs, Catch!sorVars, Catch!Contains, Blocks
<1>2. /\ swap' \in [Swaps -> {"none", "announced", "src_locked", "completed", "refunded"}]
      /\ swap'[o] = "announced" /\ \A p \in Swaps : p # o => swap'[p] = swap[p]
  BY <1>0, <1>1 DEF Shapes
<1>3. PollSound'
  BY <1>0, <1>1, ShapeFacts, PollKept
<1>4. Shapes' /\ RunSound'
  BY <1>0, <1>1, <1>2 DEF Shapes, RunSound, Blocks, LogType
<1>5. LogSound'
  BY <1>0, <1>1, <1>2 DEF LogSound, Blocks, Catch!Event
<1>6. RowsCaughtUp'
  <2>1. ASSUME NEW p \in Swaps, NEW a \in Blocks, Followed(p, a)' PROVE p # o /\ Followed(p, a)
    <3>1. p \notin unseen' /\ a > origin["ethereum"] /\ ethLogs[a] = Catch!Event(p, "lock") /\ swap'[p] # "none"
      BY <2>1, <1>1 DEF Followed, Catch!Event
    <3>2. p # o
      BY <1>1, <3>1
    <3>3. p \notin unseen
      BY <1>1, <3>1
    <3> QED BY <1>2, <3>1, <3>2, <3>3 DEF Followed
  <2>2. \A a \in Blocks : /\ LocksDone(a)' <=> LocksDone(a)
                          /\ RefundsDone(a)' <=> RefundsDone(a)
    BY <1>1 DEF LocksDone, RefundsDone
  <2>3. Blocks' = Blocks
    BY <1>1 DEF Blocks
  <2>4. ASSUME NEW p \in Swaps, NEW a \in Blocks, Followed(p, a)'
        PROVE  /\ LocksDone(a)' => swap'[p] # "announced"
               /\ \A b \in Blocks : /\ b >= a /\ RefundsDone(b)'
                                    /\ ethLogs[b] = Catch!Event(p, "refund")
                                    => swap'[p] = "refunded"
    BY <1>0, <1>2, <2>1, <2>2, <2>4 DEF RowsCaughtUp
  <2> QED BY <1>1, <2>3, <2>4 DEF RowsCaughtUp, Catch!Event
<1> QED BY <1>3, <1>4, <1>5, <1>6 DEF CatchInv

\* Mine: a new block is behind no position.
LEMMA MineStep ==
    ASSUME CatchInv, NEW o \in Swaps, Catch!Mine(o)
    PROVE  CatchInv'
<1>0. Shapes /\ RunSound /\ LogSound /\ RowsCaughtUp /\ PollSound
  BY DEF CatchInv
<1> DEFINE logged(k) == \E i \in Blocks : ethLogs[i] = Catch!Event(o, k)
<1>1. PICK kind \in {"lock", "claim", "refund"} :
         /\ IF kind = "lock" THEN ~logged("lock")
            ELSE logged("lock") /\ ~logged("claim") /\ ~logged("refund")
         /\ ethLogs' = Append(ethLogs, Catch!Event(o, kind))
  BY DEF Catch!Mine, Catch!Contains, Blocks
<1>2. /\ Len(ethLogs) < MaxBlock
      /\ UNCHANGED <<swap, processed, cursor, ledger, run, boots, origin, unseen, applied, poll, failed>>
  BY DEF Catch!Mine, Catch!history, Catch!sorVars
<1>n. PICK n \in Nat : n = Len(ethLogs) + 1
  BY <1>0, ShapeFacts
<1> DEFINE E == [order: Swaps, kind: {"lock", "claim", "refund"}]
<1>3. /\ Catch!Event(o, kind) \in E /\ ethLogs \in Seq(E)
      /\ Catch!Event(o, kind).order = o /\ Catch!Event(o, kind).kind = kind
  BY <1>0, <1>1 DEF Catch!Event, Shapes, LogType
<1>4. /\ ethLogs' \in Seq(E) /\ Len(ethLogs') = n /\ ethLogs'[n] = Catch!Event(o, kind)
      /\ Len(ethLogs) \in Nat
      /\ \A i \in 1..Len(ethLogs) : ethLogs'[i] = ethLogs[i]
  <2> HIDE DEF E
  <2> QED BY <1>1, <1>3, <1>n
<1>5. /\ Blocks \subseteq Blocks' /\ n \in Blocks' /\ Blocks' \ Blocks = {n}
      /\ \A i \in Blocks : i \in Nat /\ i < n /\ ethLogs'[i] = ethLogs[i]
  BY <1>4, <1>n DEF Blocks
<1>6. PollSound'
  BY <1>0, <1>2, ShapeFacts, PollKept
<1>7. Shapes'
  <2>1. ethLogs' \in LogType'
    BY <1>4 DEF LogType
  <2>2. Len(ethLogs') <= MaxBlock
    BY <1>2, <1>4, <1>n, <1>0, ShapeFacts
  <2>3. processed' \subseteq Blocks'
    BY <1>0, <1>2, <1>5 DEF Shapes
  <2>4. cursor'["ethereum"] # Catch!None => cursor'["ethereum"] <= Len(ethLogs')
    BY <1>0, <1>2, <1>4, <1>n, ShapeFacts DEF Shapes
  <2> QED BY <1>0, <1>2, <2>1, <2>2, <2>3, <2>4 DEF Shapes
<1>8. RunSound'
  BY <1>0, <1>2, <1>4, <1>n, ShapeFacts DEF RunSound
<1>9. LogSound'
  <2>1. ASSUME NEW a \in Blocks', NEW b \in Blocks', ethLogs'[a].order = ethLogs'[b].order,
               ethLogs'[a].kind = "claim", ethLogs'[b].kind = "refund"
        PROVE  FALSE
    <3>1. CASE a \in Blocks /\ b \in Blocks
      BY <1>0, <1>5, <2>1, <3>1 DEF LogSound
    <3>2. CASE a = n /\ b \in Blocks
      <4>1. kind = "claim" /\ ethLogs[b].order = o /\ ethLogs[b].kind = "refund"
        BY <1>3, <1>4, <1>5, <2>1, <3>2
      <4>2. ethLogs[b] = Catch!Event(o, "refund")
        BY <4>1, <3>2, <1>0, ShapeFacts
      <4> QED BY <4>1, <4>2, <1>1, <3>2
    <3>3. CASE b = n /\ a \in Blocks
      <4>1. kind = "refund" /\ ethLogs[a].order = o /\ ethLogs[a].kind = "claim"
        BY <1>3, <1>4, <1>5, <2>1, <3>3
      <4>2. ethLogs[a] = Catch!Event(o, "claim")
        BY <4>1, <3>3, <1>0, ShapeFacts
      <4> QED BY <4>1, <4>2, <1>1, <3>3
    <3>4. ~(a = n /\ b = n)
      BY <2>1
    <3> QED BY <1>5, <3>1, <3>2, <3>3, <3>4
  <2>2. \A p \in Swaps : swap'[p] = "completed" =>
           \E a \in Blocks' : ethLogs'[a] = Catch!Event(p, "claim")
    BY <1>0, <1>2, <1>5 DEF LogSound
  <2> QED BY <2>1, <2>2 DEF LogSound, Catch!Event
<1>10. RowsCaughtUp'
  <2>1. ~LocksDone(n)' /\ ~RefundsDone(n)'
    <3>1. /\ cursor["ethereum"] # Catch!None => cursor["ethereum"] < n
          /\ run.at \in {"locks", "settle", "second"} => run.to < n /\ run.pos <= n
          /\ run.at = "second" => run.pos < n
      BY <1>0, <1>n, ShapeFacts DEF Shapes, RunSound
    <3>2. n \notin processed
      BY <1>0, <1>5 DEF Shapes
    <3>3. /\ n \in Nat /\ run.to \in Nat /\ run.pos \in Nat /\ cursor["ethereum"] \in Nat
      BY <1>0, <1>4, ShapeFacts
    <3> QED BY <1>2, <3>1, <3>2, <3>3 DEF LocksDone, RefundsDone
  <2>2. \A a \in Blocks : /\ LocksDone(a)' <=> LocksDone(a)
                          /\ RefundsDone(a)' <=> RefundsDone(a)
    BY <1>2 DEF LocksDone, RefundsDone
  <2>3. \A p \in Swaps, a \in Blocks : Followed(p, a)' => Followed(p, a)
    BY <1>2, <1>5 DEF Followed, Catch!Event
  <2>4. ASSUME NEW p \in Swaps, NEW a \in Blocks', Followed(p, a)'
        PROVE  /\ LocksDone(a)' => swap'[p] # "announced"
               /\ \A b \in Blocks' : /\ b >= a /\ RefundsDone(b)'
                                     /\ ethLogs'[b] = Catch!Event(p, "refund")
                                     => swap'[p] = "refunded"
    <3>1. CASE a = n
      <4>1. \A b \in Blocks' : b >= a => b = n
        BY <1>5, <3>1
      <4> QED BY <2>1, <3>1, <4>1
    <3>2. CASE a \in Blocks
      BY <1>0, <1>2, <1>5, <2>1, <2>2, <2>3, <2>4, <3>2 DEF RowsCaughtUp
    <3> QED BY <1>5, <3>1, <3>2
  <2> QED BY <2>4 DEF RowsCaughtUp, Catch!Event
<1> QED BY <1>6, <1>7, <1>8, <1>9, <1>10 DEF CatchInv

LEMMA CloseLedgerStep ==
    ASSUME CatchInv, Catch!CloseLedger
    PROVE  CatchInv'
<1>0. Shapes /\ RunSound /\ LogSound /\ RowsCaughtUp /\ PollSound
  BY DEF CatchInv
<1>1. /\ ledger < MaxBlock /\ ledger' = ledger + 1
      /\ UNCHANGED <<swap, processed, cursor, ethLogs, run, boots, origin, unseen, applied, poll, failed>>
  BY DEF Catch!CloseLedger, Catch!history, Catch!sorVars
<1>2. ledger \in Nat /\ ledger' \in 0..MaxBlock /\ ledger' \in Nat /\ ledger <= ledger'
  BY <1>0, <1>1, ShapeFacts
<1>3. Shapes'
  BY <1>0, <1>1, <1>2 DEF Shapes, Blocks, LogType
<1>4. LogSound' /\ RowsCaughtUp' /\ RunSound'
  BY <1>0, <1>1, RowsKept
<1>5. PollSound'
  BY <1>0, <1>1, <1>2, PollKept
<1> QED BY <1>3, <1>4, <1>5 DEF CatchInv

\* Every step keeps the invariant.
LEMMA CatchInvNext == CatchInv /\ [Catch!CatchNext]_Catch!catchVars => CatchInv'
<1> SUFFICES ASSUME CatchInv, [Catch!CatchNext]_Catch!catchVars PROVE CatchInv'
  OBVIOUS
<1>1. CASE Catch!CatchNext
  <2>1. ASSUME NEW b \in 1..Len(ethLogs), Catch!onLogs(b) PROVE CatchInv'
    BY <2>1, OnLogsStep DEF Blocks
  <2> QED BY <1>1, <2>1, StartStep, HandleCreatedStep, ProcessStep, AdvanceStep, WatchEventStep,
        SorobanReads, ApplySorobanStep, SaveSorobanStep, AnnounceCatchStep, MineStep,
        CloseLedgerStep, CrashStep DEF Catch!CatchNext
<1>2. CASE UNCHANGED Catch!catchVars
  <2>1. UNCHANGED <<swap, processed, applied, cursor, ethLogs, ledger, run, poll, boots, origin, unseen, failed>>
    BY <1>2 DEF Catch!catchVars
  <2>2. Shapes /\ RunSound /\ LogSound /\ RowsCaughtUp /\ PollSound
    BY DEF CatchInv
  <2>3. Shapes'
    BY <2>1, <2>2 DEF Shapes, Blocks, LogType
  <2>4. LogSound' /\ RowsCaughtUp' /\ RunSound'
    BY <2>1, <2>2, RowsKept
  <2>5. PollSound'
    BY <2>1, <2>2, ShapeFacts, PollKept
  <2> QED BY <2>3, <2>4, <2>5 DEF CatchInv
<1> QED BY <1>1, <1>2

\* What the invariant says of the promise.
LEMMA CatchInvPromise == CatchInv => Catch!CatchTypeOK /\ NothingLostBehindCursor
<1> SUFFICES ASSUME CatchInv PROVE Catch!CatchTypeOK /\ NothingLostBehindCursor
  OBVIOUS
<1>0. Shapes /\ RunSound /\ LogSound /\ RowsCaughtUp /\ PollSound
  BY DEF CatchInv
<1>1. Catch!CatchTypeOK
  <2>1. processed \cup applied \cup failed \subseteq 1..MaxBlock
    BY <1>0, ShapeFacts DEF Shapes, Blocks
  <2>2. run.at \in {"off", "locks", "settle", "second", "arming", "watching"}
    BY <1>0 DEF RunSound, RunType
  <2>3. poll.at \in {"off", "idle", "batch"}
    BY <1>0 DEF PollSound
  <2> QED BY <1>0, <2>1, <2>2, <2>3 DEF Catch!CatchTypeOK, Shapes
<1>2. ASSUME NEW b \in 1..Len(ethLogs), ethLogs[b].kind = "refund",
             cursor["ethereum"] # Catch!None, b <= cursor["ethereum"],
             ethLogs[b].order \notin unseen, swap[ethLogs[b].order] # "none",
             NEW a \in 1..b, a > origin["ethereum"], ethLogs[a] = Catch!Event(ethLogs[b].order, "lock")
      PROVE  swap[ethLogs[b].order] = "refunded"
  <2>1. PICK o \in Swaps : o = ethLogs[b].order
    BY <1>0, ShapeFacts DEF Blocks
  <2>2. a \in Blocks /\ b \in Blocks /\ b >= a
    BY <1>0, ShapeFacts DEF Blocks
  <2>3. Followed(o, a)
    BY <1>2, <2>1 DEF Followed
  <2>4. RefundsDone(b)
    BY <1>2 DEF RefundsDone
  <2>5. ethLogs[b] = Catch!Event(o, "refund")
    BY <1>0, <1>2, <2>1, <2>2, ShapeFacts
  <2> QED BY <1>0, <2>1, <2>2, <2>3, <2>4, <2>5 DEF RowsCaughtUp
<1>3. cursor["soroban"] # Catch!None => origin["soroban"] + 1..cursor["soroban"] \subseteq applied \cup failed
  BY <1>0 DEF PollSound, Reached
<1> QED BY <1>1, <1>2, <1>3 DEF NothingLostBehindCursor, Catch!NothingLostBehindCursor

\* ChainEventProcessor and the listeners: whatever the process died between,
\* a refund behind the saved cursor is on its row, and a Soroban event behind
\* the saved cursor was applied unless the database failed.
THEOREM NothingIsLost == Catch!CatchSpec => []NothingLostBehindCursor
<1>1. Catch!CatchSpec => []CatchInv
  BY CatchInvInit, CatchInvNext, PTL DEF Catch!CatchSpec
<1> QED BY <1>1, CatchInvPromise, PTL

-----------------------------------------------------------------------------
(* QuoteBook.                                                              *)

QAmounts == QuoteAmounts \cup {Book!NoAmount}
Waiting == [at: {"fetching", "sampled"}, since: Nat, amount: QAmounts, price: Book!Prices]

\* A price is not of the future, and what is built on it ends one cache
\* lifetime and one fetch timeout after it was sampled.
Recent(price, expiresAt) ==
    price # Book!NoPrice => price <= clock /\ expiresAt <= price + (CacheTtl + FetchTimeout)

\* A request waits no longer than its abort signal, and a price it was given
\* was sampled while it waited.
AskSound ==
    /\ ask \in [Askers -> {Book!Idle} \cup Waiting]
    /\ \A a \in Askers : ask[a] # Book!Idle =>
          /\ ask[a].since <= clock /\ clock <= ask[a].since + FetchTimeout
          /\ ask[a].price # Book!NoPrice => ask[a].since <= ask[a].price /\ ask[a].price <= clock

QuotesSound ==
    /\ clock \in 0..MaxClock
    /\ cache.price \in Book!Prices /\ cache.expiresAt \in Nat /\ Recent(cache.price, cache.expiresAt)
    /\ \A q \in quotes : /\ q.price \in Book!Prices /\ q.expiresAt \in Nat /\ q.amount \in QAmounts
                         /\ Recent(q.price, q.expiresAt)

\* On SQLite no announcement is ever caught between lookup and insert.
RowsUnique ==
    /\ gate \in [Announcers -> {Book!Idle} \cup [at: {"looked_up"}, hashlock: Hashlocks]]
    /\ \A r \in rows : r.hashlock \in Hashlocks /\ r.by \in Announcers
    /\ store = "sqlite" => \A b \in Announcers : gate[b] = Book!Idle
    /\ Book!OneOrderPerHashlock

QuoteInv == AskSound /\ QuotesSound /\ RowsUnique

LEMMA QuoteConstants ==
    /\ MaxClock \in Nat /\ CacheTtl \in Nat /\ FetchTimeout \in Nat
    /\ Book!NoPrice \in Nat /\ Book!NoPrice > MaxClock /\ Book!Prices = 0..Book!NoPrice
    /\ Book!NoAmount \in QAmounts
  BY ServersAssumption DEF Book!NoPrice, Book!Prices, QAmounts

LEMMA QuoteInvInit == Book!QuoteInit => QuoteInv
<1> SUFFICES ASSUME Book!QuoteInit PROVE QuoteInv
  OBVIOUS
<1>1. AskSound
  BY DEF Book!QuoteInit, AskSound
<1>2. QuotesSound
  BY QuoteConstants DEF Book!QuoteInit, QuotesSound, Recent, Book!NoCache
<1>3. RowsUnique
  BY DEF Book!QuoteInit, RowsUnique, Book!OneOrderPerHashlock
<1> QED BY <1>1, <1>2, <1>3 DEF QuoteInv

\* Steps that issue at most one quote, for a price that is recent.
LEMMA QuoteIssued ==
    ASSUME QuotesSound, UNCHANGED clock, NEW price \in Book!Prices, NEW expiresAt \in Nat,
           NEW amount \in QAmounts, Recent(price, expiresAt), Book!issueQuote(price, expiresAt, amount),
           cache' = cache \/ cache' = [price |-> price, expiresAt |-> expiresAt]
    PROVE  QuotesSound'
<1> DEFINE new == [id |-> Book!Cardinality(quotes) + 1, price |-> price,
                   expiresAt |-> expiresAt, amount |-> amount]
<1>1. quotes' = quotes \cup {new}
  BY DEF Book!issueQuote
<1>2. new.price = price /\ new.expiresAt = expiresAt /\ new.amount = amount
  OBVIOUS
<1> HIDE DEF new
<1>3. \A p, e : Recent(p, e)' <=> Recent(p, e)
  BY DEF Recent
<1>4. \A q \in quotes' : /\ q.price \in Book!Prices /\ q.expiresAt \in Nat /\ q.amount \in QAmounts
                         /\ Recent(q.price, q.expiresAt)'
  BY <1>1, <1>2, <1>3 DEF QuotesSound
<1>5. cache'.price \in Book!Prices /\ cache'.expiresAt \in Nat /\ Recent(cache'.price, cache'.expiresAt)
  BY DEF QuotesSound
<1> QED BY <1>3, <1>4, <1>5 DEF QuotesSound, Recent

LEMMA GateKept ==
    ASSUME RowsUnique, UNCHANGED <<gate, rows, store>>
    PROVE  RowsUnique'
  BY DEF RowsUnique, Book!OneOrderPerHashlock

\* quoteEthXlm: a live cache entry is reissued, or the request starts to wait.
LEMMA AskStep ==
    ASSUME QuoteInv, NEW a \in Askers, NEW amount \in QAmounts, Book!quoteEthXlm(a, amount)
    PROVE  QuoteInv'
<1>0. AskSound /\ QuotesSound /\ RowsUnique
  BY DEF QuoteInv
<1>1. UNCHANGED <<clock, store, cache, gate, rows>> /\ ask[a] = Book!Idle
  BY DEF Book!quoteEthXlm
<1>2. RowsUnique'
  BY <1>0, <1>1, GateKept
<1>3. CASE cache # Book!NoCache /\ clock < cache.expiresAt
  <2>1. Book!issueQuote(cache.price, cache.expiresAt, amount) /\ UNCHANGED ask
    BY <1>3 DEF Book!quoteEthXlm, Book!ReissueExpiry
  <2>2. QuotesSound'
    <3>1. cache.price \in Book!Prices /\ cache.expiresAt \in Nat /\ Recent(cache.price, cache.expiresAt)
      BY <1>0 DEF QuotesSound
    <3> QED BY <1>0, <1>1, <2>1, <3>1, QuoteIssued
  <2>3. AskSound'
    BY <1>0, <1>1, <2>1 DEF AskSound
  <2> QED BY <1>2, <2>2, <2>3 DEF QuoteInv
<1>4. CASE ~(cache # Book!NoCache /\ clock < cache.expiresAt)
  <2> DEFINE w == [at |-> "fetching", since |-> clock, amount |-> amount, price |-> Book!NoPrice]
  <2>1. ask' = [ask EXCEPT ![a] = w] /\ UNCHANGED quotes
    BY <1>4 DEF Book!quoteEthXlm
  <2>2. clock \in 0..MaxClock
    BY <1>0 DEF QuotesSound
  <2>3. w \in Waiting /\ w.since = clock /\ w.price = Book!NoPrice
    BY <2>2, QuoteConstants DEF Waiting
  <2> HIDE DEF w
  <2>4. ask' \in [Askers -> {Book!Idle} \cup Waiting] /\ ask'[a] = w
        /\ \A b \in Askers : b # a => ask'[b] = ask[b]
    BY <1>0, <2>1, <2>3 DEF AskSound
  <2>5. AskSound'
    BY <1>0, <1>1, <2>2, <2>3, <2>4, QuoteConstants DEF AskSound
  <2>6. QuotesSound'
    BY <1>0, <1>1, <2>1 DEF QuotesSound, Recent
  <2> QED BY <1>2, <2>5, <2>6 DEF QuoteInv
<1> QED BY <1>3, <1>4

LEMMA SamplePriceStep ==
    ASSUME QuoteInv, NEW a \in Askers, Book!SamplePrice(a)
    PROVE  QuoteInv'
<1>0. AskSound /\ QuotesSound /\ RowsUnique
  BY DEF QuoteInv
<1>1. /\ UNCHANGED <<clock, store, cache, quotes, gate, rows>> /\ ask[a].at = "fetching"
      /\ ask' = [ask EXCEPT ![a] = [at |-> "sampled", since |-> ask[a].since,
                                    amount |-> ask[a].amount, price |-> clock]]
  BY DEF Book!SamplePrice
<1>2. RowsUnique'
  BY <1>0, <1>1, GateKept
<1>3. QuotesSound'
  BY <1>0, <1>1 DEF QuotesSound, Recent
<1>4. clock \in 0..MaxClock /\ clock \in Book!Prices
  BY <1>0, QuoteConstants DEF QuotesSound
<1>5. ask[a] # Book!Idle /\ ask[a] \in Waiting
  BY <1>0, <1>1 DEF AskSound, Book!Idle
<1>6. PICK w \in Waiting : /\ w = [at |-> "sampled", since |-> ask[a].since,
                                   amount |-> ask[a].amount, price |-> clock]
                           /\ w.since = ask[a].since /\ w.price = clock
  <2>1. ask[a].since \in Nat /\ ask[a].amount \in QAmounts
    BY <1>5 DEF Waiting
  <2> DEFINE w == [at |-> "sampled", since |-> ask[a].since, amount |-> ask[a].amount, price |-> clock]
  <2>2. w \in Waiting /\ w.since = ask[a].since /\ w.price = clock
    BY <1>4, <2>1 DEF Waiting
  <2> QED BY <2>2
<1>7. ask' \in [Askers -> {Book!Idle} \cup Waiting] /\ ask'[a] = w
      /\ \A b \in Askers : b # a => ask'[b] = ask[b]
  BY <1>0, <1>1, <1>6 DEF AskSound
<1>8. ask[a].since \in Nat /\ ask[a].since <= clock /\ clock <= ask[a].since + FetchTimeout
  BY <1>0, <1>5 DEF AskSound, Waiting
<1>9. AskSound'
  BY <1>0, <1>1, <1>4, <1>6, <1>7, <1>8 DEF AskSound
<1> QED BY <1>2, <1>3, <1>9 DEF QuoteInv

\* FetchReturns: the entry ends one lifetime after the answer, which came at
\* most one timeout after the price was sampled.
LEMMA FetchReturnsStep ==
    ASSUME QuoteInv, NEW a \in Askers, Book!FetchReturns(a)
    PROVE  QuoteInv'
<1>0. AskSound /\ QuotesSound /\ RowsUnique
  BY DEF QuoteInv
<1>1. /\ UNCHANGED <<clock, store, gate, rows>> /\ ask[a].at \in {"fetching", "sampled"}
      /\ ask' = [ask EXCEPT ![a] = Book!Idle]
  BY DEF Book!FetchReturns
<1>2. PICK price \in {ask[a].price, Book!NoPrice} :
          /\ cache' = [price |-> price, expiresAt |-> clock + CacheTtl]
          /\ Book!issueQuote(price, clock + CacheTtl, ask[a].amount)
  BY DEF Book!FetchReturns
<1>3. RowsUnique'
  BY <1>0, <1>1, GateKept
<1>4. ask[a] # Book!Idle /\ ask[a] \in Waiting
  BY <1>0, <1>1 DEF AskSound, Book!Idle
<1>5. /\ ask[a].since \in Nat /\ ask[a].amount \in QAmounts /\ ask[a].price \in Book!Prices
      /\ ask[a].since <= clock /\ clock <= ask[a].since + FetchTimeout
      /\ ask[a].price # Book!NoPrice => ask[a].since <= ask[a].price /\ ask[a].price <= clock
  BY <1>0, <1>4 DEF AskSound, Waiting
<1>6. clock \in Nat /\ clock + CacheTtl \in Nat
  BY <1>0, QuoteConstants DEF QuotesSound
<1>7. price \in Book!Prices /\ Recent(price, clock + CacheTtl)
  BY <1>5, <1>6, QuoteConstants DEF Recent
<1>8. QuotesSound'
  BY <1>0, <1>1, <1>2, <1>5, <1>6, <1>7, QuoteIssued
<1>9. AskSound'
  BY <1>0, <1>1 DEF AskSound
<1> QED BY <1>3, <1>8, <1>9 DEF QuoteInv

\* announce and insertOrder.
LEMMA QuoteAnnounceStep ==
    ASSUME QuoteInv, NEW b \in Announcers, NEW hashlock \in Hashlocks, NEW quoteId, NEW amount,
           Book!announce(b, hashlock, quoteId, amount)
    PROVE  QuoteInv'
<1>0. AskSound /\ QuotesSound /\ RowsUnique
  BY DEF QuoteInv
<1>1. /\ UNCHANGED <<clock, store, ask, cache, quotes>> /\ \A r \in rows : r.hashlock # hashlock
  BY DEF Book!announce, Book!findByHashlock
<1>2. AskSound' /\ QuotesSound'
  BY <1>0, <1>1 DEF AskSound, QuotesSound, Recent
<1>3. CASE store = "sqlite"
  <2>1. rows' = rows \cup {[hashlock |-> hashlock, by |-> b]} /\ UNCHANGED gate
    BY <1>3 DEF Book!announce
  <2>2. RowsUnique'
    BY <1>0, <1>1, <1>3, <2>1 DEF RowsUnique, Book!OneOrderPerHashlock
  <2> QED BY <1>2, <2>2 DEF QuoteInv
<1>4. CASE store # "sqlite"
  <2>1. gate' = [gate EXCEPT ![b] = [at |-> "looked_up", hashlock |-> hashlock]] /\ UNCHANGED rows
    BY <1>4 DEF Book!announce
  <2>2. RowsUnique'
    BY <1>0, <1>1, <1>4, <2>1 DEF RowsUnique, Book!OneOrderPerHashlock
  <2> QED BY <1>2, <2>2 DEF QuoteInv
<1> QED BY <1>3, <1>4

LEMMA InsertOrderStep ==
    ASSUME QuoteInv, NEW b \in Announcers, Book!insertOrder(b)
    PROVE  QuoteInv'
<1>0. AskSound /\ QuotesSound /\ RowsUnique
  BY DEF QuoteInv
<1>1. /\ UNCHANGED <<clock, store, ask, cache, quotes>> /\ gate[b].at = "looked_up"
      /\ rows' = rows \cup {[hashlock |-> gate[b].hashlock, by |-> b]}
      /\ gate' = [gate EXCEPT ![b] = Book!Idle]
  BY DEF Book!insertOrder
<1>2. AskSound' /\ QuotesSound'
  BY <1>0, <1>1 DEF AskSound, QuotesSound, Recent
<1>3. gate[b] # Book!Idle
  BY <1>1 DEF Book!Idle
<1>4. gate[b].hashlock \in Hashlocks /\ store # "sqlite"
  BY <1>0, <1>3 DEF RowsUnique
<1>5. RowsUnique'
  BY <1>0, <1>1, <1>4 DEF RowsUnique, Book!OneOrderPerHashlock
<1> QED BY <1>2, <1>5 DEF QuoteInv

LEMMA QuoteRestartStep ==
    ASSUME QuoteInv, Book!RestartCoordinator
    PROVE  QuoteInv'
<1>0. AskSound /\ QuotesSound /\ RowsUnique
  BY DEF QuoteInv
<1>1. AskSound'
  BY DEF AskSound, Book!RestartCoordinator
<1>2. QuotesSound'
  BY <1>0, QuoteConstants DEF QuotesSound, Recent, Book!RestartCoordinator, Book!NoCache
<1>3. RowsUnique'
  BY <1>0 DEF RowsUnique, Book!OneOrderPerHashlock, Book!RestartCoordinator
<1> QED BY <1>1, <1>2, <1>3 DEF QuoteInv

LEMMA QuotePassTimeStep ==
    ASSUME QuoteInv, Book!PassTime
    PROVE  QuoteInv'
<1>0. AskSound /\ QuotesSound /\ RowsUnique
  BY DEF QuoteInv
<1>1. /\ clock < MaxClock /\ clock' = clock + 1
      /\ \A a \in Askers : ask[a] # Book!Idle => clock < ask[a].since + FetchTimeout
      /\ UNCHANGED <<store, ask, cache, quotes, gate, rows>>
  BY DEF Book!PassTime
<1>2. clock \in Nat
  BY <1>0, QuoteConstants DEF QuotesSound
<1>3. ASSUME NEW a \in Askers, ask[a] # Book!Idle
      PROVE  /\ ask[a].since <= clock' /\ clock' <= ask[a].since + FetchTimeout
             /\ ask[a].price # Book!NoPrice => ask[a].since <= ask[a].price /\ ask[a].price <= clock'
  <2>1. ask[a].since \in Nat /\ ask[a].price \in Nat
    BY <1>0, <1>3, QuoteConstants DEF AskSound, Waiting
  <2> QED BY <1>0, <1>1, <1>2, <1>3, <2>1, QuoteConstants DEF AskSound
<1>4. AskSound'
  BY <1>0, <1>1, <1>3 DEF AskSound
<1>5. QuotesSound'
  BY <1>0, <1>1, <1>2, QuoteConstants DEF QuotesSound, Recent
<1>6. RowsUnique'
  BY <1>0, <1>1, GateKept
<1> QED BY <1>4, <1>5, <1>6 DEF QuoteInv

LEMMA QuoteInvNext == QuoteInv /\ [Book!QuoteNext]_Book!quoteVars => QuoteInv'
<1> SUFFICES ASSUME QuoteInv, [Book!QuoteNext]_Book!quoteVars PROVE QuoteInv'
  OBVIOUS
<1>1. ASSUME NEW a \in Askers, Book!quotesRoute(a) PROVE QuoteInv'
  BY <1>1, AskStep DEF Book!quotesRoute, QAmounts
<1>2. CASE UNCHANGED Book!quoteVars
  BY <1>2 DEF Book!quoteVars, QuoteInv, AskSound, QuotesSound, RowsUnique, Recent, Book!OneOrderPerHashlock
<1> QED BY <1>1, <1>2, SamplePriceStep, FetchReturnsStep, QuoteAnnounceStep, InsertOrderStep,
     QuoteRestartStep, QuotePassTimeStep DEF Book!QuoteNext

LEMMA QuoteInvPromise == QuoteInv => Book!QuoteTypeOK /\ AnnouncedOnFreshQuotes
<1> SUFFICES ASSUME QuoteInv PROVE Book!QuoteTypeOK /\ AnnouncedOnFreshQuotes
  OBVIOUS
<1>0. AskSound /\ QuotesSound /\ RowsUnique
  BY DEF QuoteInv
<1>1. Book!QuoteTypeOK
  BY <1>0 DEF Book!QuoteTypeOK, QuotesSound, RowsUnique, QAmounts
<1>2. ASSUME NEW q \in quotes, Book!Fresh(q), q.price # Book!NoPrice
      PROVE  clock - q.price <= CacheTtl + FetchTimeout
  <2>1. /\ clock \in Nat /\ q.price \in Nat /\ q.expiresAt \in Nat
        /\ clock <= q.expiresAt /\ q.expiresAt <= q.price + (CacheTtl + FetchTimeout)
    BY <1>0, <1>2, QuoteConstants DEF QuotesSound, Recent, Book!Fresh
  <2> QED BY <2>1, QuoteConstants
<1> QED BY <1>0, <1>1, <1>2 DEF AnnouncedOnFreshQuotes, Book!FreshQuotesAreRecent, RowsUnique

\* QuoteService.assertFresh and OrderService.announce: however requests, slow
\* fetches, reissues, announcements and restarts interleave, a quote that still
\* passes carries a price no older than one cache lifetime and one fetch
\* timeout, and on SQLite two orders never share a hashlock.
THEOREM FreshQuotesTheorem == Book!QuoteSpec => []AnnouncedOnFreshQuotes
<1>1. Book!QuoteSpec => []QuoteInv
  BY QuoteInvInit, QuoteInvNext, PTL DEF Book!QuoteSpec
<1> QED BY <1>1, QuoteInvPromise, PTL

-----------------------------------------------------------------------------
(* SubmissionStore.                                                        *)

SavedStatuses == Store!Live \cup Store!Terminal \cup {"none"}
SavedRecord == [status: SavedStatuses, at: Nat]
Paying == {"pending", "succeeded"}

StoreShapes ==
    /\ records \in [StoreKeys -> SavedRecord] /\ file \in [StoreKeys -> SavedRecord]
    /\ saving \in [at: {"idle", "write", "saved"}, then: StoreKeys \cup {"none"}]
    /\ driver \subseteq StoreKeys \X {"map", "lost"}
    /\ tx \in [StoreKeys -> {"none", "landed", "dead"}]
    /\ landed \in [StoreKeys -> Nat] /\ ends \in Nat
    /\ newer \in [StoreKeys -> SUBSET StoreKeys] /\ excused \subseteq StoreKeys

\* The clock of ended records is ahead of them all; one in flight has no time.
Dated(recs) ==
    \A k \in StoreKeys : /\ recs[k].at <= ends
                         /\ recs[k].status = "in_flight" => recs[k].at = 0

\* A stager belongs to the record in flight that started it.
StagerSound(k) ==
    /\ <<k, "lost">> \notin driver
    /\ <<k, "map">> \in driver => records[k].status = "in_flight"

\* What paid is remembered as pending or succeeded, in memory and in the file;
\* a key about to be sent was not paid, and the file already says so.
PaymentSound(k) ==
    /\ landed[k] <= 1
    /\ landed[k] = 1 => /\ tx[k] = "landed"
                        /\ records[k].status \in Paying /\ file[k].status \in Paying
    /\ saving.then = k => /\ records[k].status = "pending" /\ landed[k] = 0
                          /\ saving.at = "saved" => file[k].status = "pending"

\* A success on file is the one in memory; whatever ended after it is in newer,
\* and newer is smaller than the window that prune keeps.
After(recs, k) ==
    {j \in StoreKeys : recs[j].status \in Store!Terminal /\ recs[j].at > recs[k].at}
WindowSound(k) ==
    /\ file[k].status = "succeeded" => records[k] = file[k] /\ After(file, k) \subseteq newer[k]
    /\ records[k].status = "succeeded" => After(records, k) \subseteq newer[k]
    /\ Store!Cardinality(newer[k]) < MaxRecords

\* The inductive invariant of the store.
StoreInv ==
    /\ StoreShapes /\ Dated(records) /\ Dated(file)
    /\ saving.at = "idle" => saving.then = "none"
    /\ \A k \in StoreKeys \ excused : StagerSound(k) /\ PaymentSound(k) /\ WindowSound(k)

\* Sets of keys are finite, and a part is not larger than the whole.
LEMMA KeySets ==
    ASSUME NEW S, NEW T, T \subseteq StoreKeys, S \subseteq T
    PROVE  /\ Store!Cardinality(S) \in Nat /\ Store!Cardinality(T) \in Nat
           /\ Store!Cardinality(S) <= Store!Cardinality(T)
           /\ Store!Cardinality({}) = 0
<1>1. \A U : Store!Cardinality(U) = Cardinality(U)
  BY DEF Store!Cardinality, Cardinality
<1>2. IsFiniteSet(StoreKeys)
  BY ServersAssumption
<1>3. IsFiniteSet(T)
  BY <1>2, FS_Subset
<1> QED BY <1>1, <1>3, FS_Subset, FS_CardinalityType, FS_EmptySet

LEMMA StatusFacts ==
    /\ Store!Live = {"in_flight", "pending"}
    /\ Store!Terminal = {"succeeded", "failed", "staging_failed"}
    /\ SavedStatuses = {"in_flight", "pending", "succeeded", "failed", "staging_failed", "none"}
    /\ Store!NoRecord \in SavedRecord /\ Store!NoRecord.status = "none" /\ Store!NoRecord.at = 0
    /\ "none" \notin StoreKeys /\ MaxRecords \in Nat \ {0}
  BY ServersAssumption DEF Store!Live, Store!Terminal, SavedStatuses, SavedRecord, Store!NoRecord

LEMMA StoreInvInit == Store!StoreInit => StoreInv
<1> SUFFICES ASSUME Store!StoreInit PROVE StoreInv
  OBVIOUS
<1>1. /\ records = [k \in StoreKeys |-> Store!NoRecord] /\ file = [k \in StoreKeys |-> Store!NoRecord]
      /\ saving = [at |-> "idle", then |-> "none"] /\ driver = {}
      /\ tx = [k \in StoreKeys |-> "none"] /\ landed = [k \in StoreKeys |-> 0]
      /\ ends = 0 /\ newer = [k \in StoreKeys |-> {}] /\ excused = {}
  BY DEF Store!StoreInit, Store!Nothing, Store!Idle
<1>2. StoreShapes
  BY <1>1, StatusFacts DEF StoreShapes
<1>3. Dated(records) /\ Dated(file)
  BY <1>1, StatusFacts DEF Dated
<1>4. ASSUME NEW k \in StoreKeys PROVE StagerSound(k) /\ PaymentSound(k) /\ WindowSound(k)
  <2>1. StagerSound(k) /\ PaymentSound(k)
    BY <1>1, StatusFacts DEF StagerSound, PaymentSound
  <2>2. Store!Cardinality({}) = 0
    BY KeySets
  <2>3. WindowSound(k)
    BY <1>1, <2>2, StatusFacts DEF WindowSound
  <2> QED BY <2>1, <2>3
<1> QED BY <1>1, <1>2, <1>3, <1>4 DEF StoreInv

\* prune keeps a success as long as fewer records than the window ended after it.
LEMMA PruneKeeps ==
    ASSUME StoreInv, NEW k \in StoreKeys
    PROVE  /\ Store!prune(records)[k] \in {records[k], Store!NoRecord}
           /\ records[k].status \notin Store!Terminal => Store!prune(records)[k] = records[k]
           /\ k \notin excused /\ records[k].status = "succeeded" => Store!prune(records)[k] = records[k]
<1> DEFINE old == Store!Cardinality({j \in StoreKeys : records[j].status \in Store!Terminal
                                                       /\ records[j].at > records[k].at})
<1>1. Store!prune(records)[k] =
        IF records[k].status \in Store!Terminal /\ old >= MaxRecords THEN Store!NoRecord ELSE records[k]
  BY DEF Store!prune
<1>2. ASSUME k \notin excused, records[k].status = "succeeded" PROVE old < MaxRecords /\ old \in Nat
  <2>1. After(records, k) \subseteq newer[k] /\ Store!Cardinality(newer[k]) < MaxRecords
    BY <1>2 DEF StoreInv, WindowSound
  <2>2. newer[k] \subseteq StoreKeys
    BY DEF StoreInv, StoreShapes
  <2>3. old = Store!Cardinality(After(records, k))
    BY DEF After
  <2> HIDE DEF old
  <2>4. old \in Nat /\ Store!Cardinality(newer[k]) \in Nat /\ old <= Store!Cardinality(newer[k])
    BY <2>1, <2>2, <2>3, KeySets
  <2> QED BY <2>1, <2>4, StatusFacts
<1> HIDE DEF old
<1>3. k \notin excused /\ records[k].status = "succeeded" => Store!prune(records)[k] = records[k]
  BY <1>1, <1>2, StatusFacts
<1> QED BY <1>1, <1>3

LEMMA SaveStep ==
    ASSUME StoreInv, Store!save
    PROVE  StoreInv'
<1>0. StoreShapes /\ Dated(records) /\ Dated(file)
  BY DEF StoreInv
<1>1. /\ saving.at = "write" /\ file' = Store!prune(records)
      /\ saving' = [saving EXCEPT !.at = "saved"]
      /\ UNCHANGED <<records, driver, tx, landed, ends, newer, excused>>
  BY DEF Store!save, Store!world, Store!past
<1>2. /\ saving' \in [at: {"idle", "write", "saved"}, then: StoreKeys \cup {"none"}]
      /\ saving'.at = "saved" /\ saving'.then = saving.then
  <2>1. saving \in [at: {"idle", "write", "saved"}, then: StoreKeys \cup {"none"}]
    BY <1>0 DEF StoreShapes
  <2> QED BY <1>1, <2>1
<1>3. \A k \in StoreKeys : records[k] \in SavedRecord
  BY <1>0 DEF StoreShapes
<1>4. file' \in [StoreKeys -> SavedRecord]
  <2>1. \A k \in StoreKeys : Store!prune(records)[k] \in SavedRecord
    BY <1>3, PruneKeeps, StatusFacts
  <2>2. Store!prune(records) = [k \in StoreKeys |-> Store!prune(records)[k]]
    BY DEF Store!prune
  <2> QED BY <1>1, <2>1, <2>2
<1>5. StoreShapes'
  BY <1>0, <1>1, <1>2, <1>4 DEF StoreShapes
<1>6. Dated(records)' /\ Dated(file)'
  <2>1. \A k \in StoreKeys : file'[k] \in {records[k], Store!NoRecord}
    BY <1>1, PruneKeeps
  <2>2. ends \in Nat
    BY <1>0 DEF StoreShapes
  <2> QED BY <1>0, <1>1, <2>1, <2>2, StatusFacts DEF Dated
<1>7. ASSUME NEW k \in StoreKeys, k \notin excused
      PROVE  StagerSound(k)' /\ PaymentSound(k)' /\ WindowSound(k)'
  <2>1. StagerSound(k) /\ PaymentSound(k) /\ WindowSound(k)
    BY <1>7 DEF StoreInv
  <2>2. /\ records[k].status \in Paying => file'[k] = records[k]
        /\ file'[k] \in {records[k], Store!NoRecord}
    BY <1>1, <1>7, PruneKeeps, StatusFacts DEF Paying
  <2>3. StagerSound(k)'
    BY <1>1, <2>1 DEF StagerSound
  <2>4. PaymentSound(k)'
    BY <1>1, <1>2, <2>1, <2>2 DEF PaymentSound, Paying
  <2>5. After(file, k)' \subseteq After(records, k) \/ file'[k].status # "succeeded"
    <3>1. SUFFICES ASSUME file'[k].status = "succeeded" PROVE After(file, k)' \subseteq After(records, k)
      OBVIOUS
    <3>2. file'[k] = records[k]
      BY <2>2, <3>1, StatusFacts
    <3>3. \A j \in StoreKeys : file'[j].status \in Store!Terminal => file'[j] = records[j]
      BY <1>1, PruneKeeps, StatusFacts
    <3> QED BY <3>2, <3>3 DEF After
  <2>6. After(records, k)' = After(records, k)
    BY <1>1 DEF After
  <2>7. WindowSound(k)'
    BY <1>1, <2>1, <2>2, <2>5, <2>6, StatusFacts DEF WindowSound
  <2> QED BY <2>3, <2>4, <2>7
<1> QED BY <1>1, <1>2, <1>5, <1>6, <1>7 DEF StoreInv

\* A failed save excuses every key: only the shapes are left to keep.
LEMMA SaveFailsStep ==
    ASSUME StoreInv, Store!saveFails
    PROVE  StoreInv'
<1>0. StoreShapes /\ Dated(records) /\ Dated(file)
  BY DEF StoreInv
<1>1. /\ saving' = [saving EXCEPT !.at = "saved"] /\ excused' = StoreKeys
      /\ UNCHANGED <<records, file, driver, tx, landed, ends, newer>>
  BY DEF Store!saveFails, Store!world, Store!past
<1>2. /\ saving' \in [at: {"idle", "write", "saved"}, then: StoreKeys \cup {"none"}]
      /\ saving'.at = "saved"
  <2>1. saving \in [at: {"idle", "write", "saved"}, then: StoreKeys \cup {"none"}]
    BY <1>0 DEF StoreShapes
  <2> QED BY <1>1, <2>1
<1>3. StoreShapes' /\ Dated(records)' /\ Dated(file)'
  BY <1>0, <1>1, <1>2 DEF StoreShapes, Dated
<1> QED BY <1>1, <1>2, <1>3 DEF StoreInv

\* What a step has to keep for a key that it does not concern.
LEMMA KeyKept ==
    ASSUME StoreInv, NEW k \in StoreKeys \ excused, k \notin excused',
           records'[k] = records[k], file' = file, tx'[k] = tx[k], landed'[k] = landed[k],
           saving'.then # k,
           <<k, "lost">> \in driver' => <<k, "lost">> \in driver,
           <<k, "map">> \in driver' => <<k, "map">> \in driver,
           \A j \in StoreKeys : j \notin newer'[k] /\ records'[j].status \in Store!Terminal => records'[j] = records[j],
           newer[k] \subseteq newer'[k], Store!Cardinality(newer'[k]) < MaxRecords
    PROVE  StagerSound(k)' /\ PaymentSound(k)' /\ WindowSound(k)'
<1>1. StagerSound(k) /\ PaymentSound(k) /\ WindowSound(k)
  BY DEF StoreInv
<1>2. StagerSound(k)'
  BY <1>1 DEF StagerSound
<1>3. PaymentSound(k)'
  BY <1>1 DEF PaymentSound
<1>4. After(file, k)' = After(file, k)
  BY DEF After
<1>5. After(records, k)' \subseteq newer'[k] \cup After(records, k)
  BY DEF After
<1>6. WindowSound(k)'
  BY <1>1, <1>4, <1>5 DEF WindowSound
<1> QED BY <1>2, <1>3, <1>6

\* broadcast: only a key that was not paid goes out, and the file knows of it.
LEMMA BroadcastStep ==
    ASSUME StoreInv, Store!broadcast
    PROVE  StoreInv'
<1>0. StoreShapes /\ Dated(records) /\ Dated(file)
  BY DEF StoreInv
<1>1. /\ saving.at = "saved" /\ saving' = [at |-> "idle", then |-> "none"]
      /\ UNCHANGED <<records, file, driver, ends, newer, excused>>
  BY DEF Store!broadcast, Store!past, Store!Idle
<1>2. Dated(records)' /\ Dated(file)'
  BY <1>0, <1>1 DEF Dated
<1>3. saving'.at = "idle" /\ saving'.then = "none"
  BY <1>1
<1>4. CASE saving.then \notin StoreKeys
  <2>1. UNCHANGED <<tx, landed>>
    BY <1>4 DEF Store!broadcast, Store!world
  <2>2. StoreShapes'
    BY <1>0, <1>1, <2>1 DEF StoreShapes
  <2>3. ASSUME NEW k \in StoreKeys \ excused' PROVE StagerSound(k)' /\ PaymentSound(k)' /\ WindowSound(k)'
    <3>1. k \in StoreKeys \ excused /\ Store!Cardinality(newer[k]) < MaxRecords
      BY <1>1, <2>3 DEF StoreInv, WindowSound
    <3> QED BY <1>1, <1>3, <2>1, <2>3, <3>1, KeyKept, StatusFacts
  <2> QED BY <1>2, <1>3, <2>2, <2>3 DEF StoreInv
<1>5. CASE saving.then \in StoreKeys
  <2>0. PICK s \in StoreKeys : s = saving.then
    BY <1>5
  <2>1. PICK fate \in {"landed", "dead"} :
          /\ tx' = [tx EXCEPT ![s] = fate]
          /\ landed' = [landed EXCEPT ![s] = IF fate = "landed" THEN landed[s] + 1 ELSE landed[s]]
    BY <1>5, <2>0 DEF Store!broadcast
  <2>2. /\ tx' \in [StoreKeys -> {"none", "landed", "dead"}] /\ landed' \in [StoreKeys -> Nat]
        /\ tx'[s] = fate /\ landed'[s] = IF fate = "landed" THEN landed[s] + 1 ELSE landed[s]
        /\ \A k \in StoreKeys : k # s => tx'[k] = tx[k] /\ landed'[k] = landed[k]
        /\ landed[s] \in Nat
    BY <1>0, <2>1 DEF StoreShapes
  <2>3. StoreShapes'
    BY <1>0, <1>1, <2>2 DEF StoreShapes
  <2>4. ASSUME NEW k \in StoreKeys \ excused' PROVE StagerSound(k)' /\ PaymentSound(k)' /\ WindowSound(k)'
    <3>0. k \in StoreKeys \ excused /\ StagerSound(k) /\ PaymentSound(k) /\ WindowSound(k)
      BY <1>1, <2>4 DEF StoreInv
    <3>1. CASE k # s
      <4>1. Store!Cardinality(newer[k]) < MaxRecords
        BY <3>0 DEF WindowSound
      <4> QED BY <1>1, <1>3, <2>2, <3>0, <3>1, <4>1, KeyKept, StatusFacts
    <3>2. CASE k = s
      <4>1. records[k].status = "pending" /\ landed[k] = 0 /\ file[k].status = "pending"
        BY <1>1, <2>0, <3>0, <3>2 DEF PaymentSound
      <4>2. StagerSound(k)' /\ WindowSound(k)'
        BY <1>1, <3>0 DEF StagerSound, WindowSound, After
      <4>3. PaymentSound(k)'
        BY <1>1, <1>3, <2>2, <3>2, <4>1, StatusFacts DEF PaymentSound, Paying
      <4> QED BY <4>2, <4>3
    <3> QED BY <3>1, <3>2
  <2> QED BY <1>2, <1>3, <2>3, <2>4 DEF StoreInv
<1> QED BY <1>4, <1>5

\* submit: the key was never paid, or was excused.
LEMMA SubmitStep ==
    ASSUME StoreInv, NEW s \in StoreKeys, Store!submit(s)
    PROVE  StoreInv'
<1>0. StoreShapes /\ Dated(records) /\ Dated(file)
  BY DEF StoreInv
<1>1. /\ records[s].status \in {"none", "staging_failed"}
      /\ records' = [records EXCEPT ![s] = [status |-> "in_flight", at |-> 0]]
      /\ driver' = driver \cup {<<s, "map">>}
      /\ tx' = [tx EXCEPT ![s] = "none"]
      /\ saving' = [at |-> "write", then |-> "none"]
      /\ UNCHANGED <<file, landed, ends, newer, excused>>
  BY DEF Store!submit, Store!persist, Store!past
<1>2. /\ records' \in [StoreKeys -> SavedRecord]
      /\ records'[s].status = "in_flight" /\ records'[s].at = 0
      /\ \A k \in StoreKeys : k # s => records'[k] = records[k]
  BY <1>0, <1>1, StatusFacts DEF StoreShapes, SavedRecord
<1>3. /\ tx' \in [StoreKeys -> {"none", "landed", "dead"}]
      /\ \A k \in StoreKeys : k # s => tx'[k] = tx[k]
  BY <1>0, <1>1 DEF StoreShapes
<1>4. saving'.at = "write" /\ saving'.then = "none"
  BY <1>1
<1>5. StoreShapes'
  BY <1>0, <1>1, <1>2, <1>3 DEF StoreShapes
<1>6. Dated(records)' /\ Dated(file)'
  <2>1. ends \in Nat
    BY <1>0 DEF StoreShapes
  <2> QED BY <1>0, <1>1, <1>2, <2>1 DEF Dated
<1>7. ASSUME NEW k \in StoreKeys \ excused' PROVE StagerSound(k)' /\ PaymentSound(k)' /\ WindowSound(k)'
  <2>0. k \in StoreKeys \ excused /\ StagerSound(k) /\ PaymentSound(k) /\ WindowSound(k)
    BY <1>1, <1>7 DEF StoreInv
  <2>1. Store!Cardinality(newer[k]) < MaxRecords
    BY <2>0 DEF WindowSound
  <2>2. \A j \in StoreKeys : records'[j].status \in Store!Terminal => records'[j] = records[j]
    BY <1>2, StatusFacts
  <2>3. CASE k # s
    <3>1. \A x : <<k, x>> \in driver' => <<k, x>> \in driver
      BY <1>1, <2>3
    <3> QED BY <1>1, <1>2, <1>3, <1>4, <2>0, <2>1, <2>2, <2>3, <3>1, KeyKept, StatusFacts
  <2>4. CASE k = s
    <3>1. landed[k] # 1 /\ file[k].status # "succeeded"
      BY <1>1, <2>0, <2>4 DEF PaymentSound, WindowSound, Paying
    <3>2. StagerSound(k)'
      BY <1>1, <1>2, <2>0, <2>4 DEF StagerSound
    <3>3. PaymentSound(k)'
      BY <1>1, <1>4, <2>0, <3>1, StatusFacts DEF PaymentSound
    <3>4. WindowSound(k)'
      BY <1>1, <1>2, <2>1, <2>4, <3>1 DEF WindowSound
    <3> QED BY <3>2, <3>3, <3>4
  <2> QED BY <2>3, <2>4
<1> QED BY <1>4, <1>5, <1>6, <1>7 DEF StoreInv

\* staged: pending before the transaction is sent.
LEMMA StagedStep ==
    ASSUME StoreInv, NEW s \in StoreKeys, NEW of \in {"map", "lost"}, Store!staged(s, of)
    PROVE  StoreInv'
<1>0. StoreShapes /\ Dated(records) /\ Dated(file)
  BY DEF StoreInv
<1>1. /\ <<s, of>> \in driver /\ driver' = driver \ {<<s, of>>}
      /\ records' = IF of = "map" THEN [records EXCEPT ![s].status = "pending"] ELSE records
      /\ saving' = [at |-> "write", then |-> s]
      /\ UNCHANGED <<file, tx, landed, ends, newer, excused>>
  BY DEF Store!staged, Store!persist, Store!past, Store!world
<1>2. /\ records' \in [StoreKeys -> SavedRecord]
      /\ of = "map" => records'[s].status = "pending" /\ records'[s].at = records[s].at
      /\ of # "map" => records'[s] = records[s]
      /\ \A k \in StoreKeys : k # s => records'[k] = records[k]
  BY <1>0, <1>1, StatusFacts DEF StoreShapes, SavedRecord
<1>4. saving'.at = "write" /\ saving'.then = s
  BY <1>1
<1>5. StoreShapes'
  BY <1>0, <1>1, <1>2 DEF StoreShapes
<1>6. Dated(records)' /\ Dated(file)'
  BY <1>0, <1>1, <1>2 DEF Dated
<1>7. ASSUME NEW k \in StoreKeys \ excused' PROVE StagerSound(k)' /\ PaymentSound(k)' /\ WindowSound(k)'
  <2>0. k \in StoreKeys \ excused /\ StagerSound(k) /\ PaymentSound(k) /\ WindowSound(k)
    BY <1>1, <1>7 DEF StoreInv
  <2>1. Store!Cardinality(newer[k]) < MaxRecords
    BY <2>0 DEF WindowSound
  <2>2. \A j \in StoreKeys : records'[j].status \in Store!Terminal => records'[j] = records[j]
    BY <1>2, StatusFacts
  <2>3. CASE k # s
    BY <1>1, <1>2, <1>4, <2>0, <2>1, <2>2, <2>3, KeyKept
  <2>4. CASE k = s
    <3>0. of = "map" /\ records[k].status = "in_flight"
      BY <1>1, <2>0, <2>4 DEF StagerSound
    <3>1. landed[k] = 0 /\ file[k].status # "succeeded"
      <4>1. landed[k] \in Nat
        BY <1>0 DEF StoreShapes
      <4> QED BY <2>0, <3>0, <4>1 DEF PaymentSound, WindowSound, Paying
    <3>2. StagerSound(k)'
      BY <1>1, <2>0, <2>4, <3>0 DEF StagerSound
    <3>3. PaymentSound(k)'
      BY <1>1, <1>2, <1>4, <2>4, <3>0, <3>1 DEF PaymentSound
    <3>4. WindowSound(k)'
      BY <1>1, <1>2, <2>1, <2>4, <3>0, <3>1 DEF WindowSound
    <3> QED BY <3>2, <3>3, <3>4
  <2> QED BY <2>3, <2>4
<1> QED BY <1>4, <1>5, <1>6, <1>7 DEF StoreInv

\* A record ends: it is the newest, and every other ended one gains a newer.
LEMMA EndedStep ==
    ASSUME StoreInv, NEW s \in StoreKeys, NEW status \in Store!Terminal, Store!Ended(s, status),
           saving' = [at |-> "write", then |-> "none"],
           UNCHANGED <<file, tx, landed>>,
           driver' \subseteq driver,
           s \notin excused => /\ records[s].status \notin Store!Terminal
                               /\ <<s, "map">> \notin driver'
                               /\ landed[s] = 1 => status = "succeeded"
    PROVE  StoreInv'
<1>0. StoreShapes /\ Dated(records) /\ Dated(file)
  BY DEF StoreInv
<1>1. /\ ends' = ends + 1
      /\ records' = [records EXCEPT ![s] = [status |-> status, at |-> ends + 1]]
      /\ newer' = [j \in StoreKeys |-> IF j = s THEN {}
                                       ELSE IF records[j].status \in Store!Terminal THEN newer[j] \cup {s}
                                       ELSE newer[j]]
      /\ excused' = excused \cup {j \in StoreKeys : Store!Cardinality(newer'[j]) >= MaxRecords}
  BY DEF Store!Ended
<1>2. ends \in Nat /\ status \in SavedStatuses
  BY <1>0 DEF StoreShapes, SavedStatuses
<1>3. /\ records' \in [StoreKeys -> SavedRecord]
      /\ records'[s].status = status /\ records'[s].at = ends + 1
      /\ \A k \in StoreKeys : k # s => records'[k] = records[k]
  BY <1>0, <1>1, <1>2 DEF StoreShapes, SavedRecord
<1>4. saving'.at = "write" /\ saving'.then = "none"
  OBVIOUS
<1>5. /\ newer' \in [StoreKeys -> SUBSET StoreKeys] /\ excused' \subseteq StoreKeys
      /\ newer'[s] = {}
      /\ \A k \in StoreKeys : k # s => newer[k] \subseteq newer'[k]
      /\ \A k \in StoreKeys : k # s /\ records[k].status \in Store!Terminal => s \in newer'[k]
      /\ \A k \in StoreKeys : k # s /\ records[k].status \notin Store!Terminal => newer'[k] = newer[k]
  BY <1>0, <1>1 DEF StoreShapes
<1>6. StoreShapes'
  BY <1>0, <1>1, <1>2, <1>3, <1>4, <1>5 DEF StoreShapes
<1>7. Dated(records)' /\ Dated(file)'
  <2>1. \A k \in StoreKeys : records[k].at \in Nat /\ file[k].at \in Nat
    BY <1>0 DEF StoreShapes, SavedRecord
  <2>2. status # "in_flight"
    BY StatusFacts
  <2> QED BY <1>0, <1>1, <1>2, <1>3, <2>1, <2>2 DEF Dated
<1>8. ASSUME NEW k \in StoreKeys \ excused' PROVE StagerSound(k)' /\ PaymentSound(k)' /\ WindowSound(k)'
  <2>0. k \in StoreKeys \ excused /\ StagerSound(k) /\ PaymentSound(k) /\ WindowSound(k)
    BY <1>1, <1>8 DEF StoreInv
  <2>1. Store!Cardinality(newer'[k]) < MaxRecords
    <3>1. newer'[k] \subseteq StoreKeys
      BY <1>5
    <3>2. Store!Cardinality(newer'[k]) \in Nat
      BY <3>1, KeySets
    <3> QED BY <1>1, <1>8, <3>2, StatusFacts
  <2>3. CASE k # s
    <3>1. CASE records[k].status = "succeeded"
      <4>1. s \in newer'[k]
        BY <1>5, <2>3, <3>1, StatusFacts
      <4>2. \A j \in StoreKeys : j \notin newer'[k] => records'[j] = records[j]
        BY <1>3, <4>1
      <4> QED BY <1>3, <1>4, <1>5, <1>8, <2>0, <2>1, <2>3, <4>2, KeyKept, StatusFacts
    <3>2. CASE records[k].status # "succeeded"
      <4>1. StagerSound(k)'
        BY <1>3, <2>0, <2>3 DEF StagerSound
      <4>2. PaymentSound(k)'
        BY <1>3, <1>4, <2>0, <2>3, StatusFacts DEF PaymentSound
      <4>3. WindowSound(k)'
        BY <1>3, <2>0, <2>1, <2>3, <3>2 DEF WindowSound
      <4> QED BY <4>1, <4>2, <4>3
    <3> QED BY <3>1, <3>2
  <2>4. CASE k = s
    <3>1. file[k].status # "succeeded"
      BY <2>0, <2>4, StatusFacts DEF WindowSound
    <3>2. StagerSound(k)'
      BY <2>0, <2>4 DEF StagerSound
    <3>3. PaymentSound(k)'
      BY <1>3, <1>4, <2>0, <2>4, StatusFacts DEF PaymentSound, Paying
    <3>4. After(records, k)' = {}
      <4>1. \A j \in StoreKeys : ~(records'[j].at > records'[k].at)
        <5>1. \A j \in StoreKeys : records[j].at \in Nat /\ records[j].at <= ends
          BY <1>0 DEF StoreShapes, SavedRecord, Dated
        <5> QED BY <1>2, <1>3, <2>4, <5>1
      <4> QED BY <4>1 DEF After
    <3>5. WindowSound(k)'
      BY <2>1, <3>1, <3>4 DEF WindowSound
    <3> QED BY <3>2, <3>3, <3>5
  <2> QED BY <2>3, <2>4
<1> QED BY <1>4, <1>6, <1>7, <1>8 DEF StoreInv

LEMMA StagingFailsStep ==
    ASSUME StoreInv, NEW s \in StoreKeys, Store!stagingFails(s)
    PROVE  StoreInv'
<1>1. /\ <<s, "map">> \in driver /\ driver' = driver \ {<<s, "map">>}
      /\ Store!Ended(s, "staging_failed")
      /\ saving' = [at |-> "write", then |-> "none"]
      /\ UNCHANGED <<file, tx, landed>>
  BY DEF Store!stagingFails, Store!persist, Store!world
<1>2. s \notin excused => records[s].status = "in_flight" /\ landed[s] # 1
  BY <1>1 DEF StoreInv, StagerSound, PaymentSound, Paying
<1> QED BY <1>1, <1>2, EndedStep, StatusFacts

LEMMA StoreSettleStep ==
    ASSUME StoreInv, NEW s \in StoreKeys, Store!settle(s)
    PROVE  StoreInv'
<1>1. /\ records[s].status = "pending" /\ tx[s] \in {"landed", "dead"}
      /\ Store!Ended(s, IF tx[s] = "landed" THEN "succeeded" ELSE "failed")
      /\ saving' = [at |-> "write", then |-> "none"]
      /\ UNCHANGED <<file, driver, tx, landed>>
  BY DEF Store!settle, Store!persist, Store!world
<1>2. PICK status \in Store!Terminal : status = IF tx[s] = "landed" THEN "succeeded" ELSE "failed"
  BY StatusFacts
<1>3. s \notin excused => <<s, "map">> \notin driver /\ (landed[s] = 1 => status = "succeeded")
  BY <1>1, <1>2 DEF StoreInv, StagerSound, PaymentSound
<1> QED BY <1>1, <1>2, <1>3, EndedStep, StatusFacts

\* forget: a key it leaves alone was not paid, and no stager of it runs.
LEMMA ForgetStep ==
    ASSUME StoreInv, NEW s \in StoreKeys, NEW force \in BOOLEAN, Store!forget(s, force)
    PROVE  StoreInv'
<1>0. StoreShapes /\ Dated(records) /\ Dated(file)
  BY DEF StoreInv
<1>1. /\ force \/ records[s].status \notin {"succeeded", "pending"}
      /\ records' = [records EXCEPT ![s] = Store!NoRecord]
      /\ excused' = IF force \/ records[s].status = "in_flight" THEN excused \cup {s} ELSE excused
      /\ driver' = {IF d[1] = s THEN <<s, "lost">> ELSE d : d \in driver}
      /\ saving' = [at |-> "write", then |-> "none"]
      /\ UNCHANGED <<file, tx, landed, ends, newer>>
  BY DEF Store!forget, Store!persist, Store!past, Store!world
<1>2. /\ records' \in [StoreKeys -> SavedRecord]
      /\ records'[s].status = "none" /\ records'[s].at = 0
      /\ \A k \in StoreKeys : k # s => records'[k] = records[k]
  BY <1>0, <1>1, StatusFacts DEF StoreShapes
<1>3. driver' \subseteq StoreKeys \X {"map", "lost"}
  <2>1. \A d \in driver : d \in StoreKeys \X {"map", "lost"}
    BY <1>0 DEF StoreShapes
  <2>2. <<s, "lost">> \in StoreKeys \X {"map", "lost"}
    OBVIOUS
  <2> QED BY <1>1, <2>1, <2>2
<1>4. saving'.at = "write" /\ saving'.then = "none"
  BY <1>1
<1>5. StoreShapes'
  BY <1>0, <1>1, <1>2, <1>3 DEF StoreShapes
<1>6. Dated(records)' /\ Dated(file)'
  <2>1. ends \in Nat
    BY <1>0 DEF StoreShapes
  <2> QED BY <1>0, <1>1, <1>2, <2>1 DEF Dated
<1>7. ASSUME NEW k \in StoreKeys \ excused' PROVE StagerSound(k)' /\ PaymentSound(k)' /\ WindowSound(k)'
  <2>0. k \in StoreKeys \ excused /\ StagerSound(k) /\ PaymentSound(k) /\ WindowSound(k)
    BY <1>1, <1>7 DEF StoreInv
  <2>1. Store!Cardinality(newer[k]) < MaxRecords
    BY <2>0 DEF WindowSound
  <2>2. \A j \in StoreKeys : records'[j].status \in Store!Terminal => records'[j] = records[j]
    BY <1>2, StatusFacts
  <2>3. CASE k # s
    <3>1. \A x : <<k, x>> \in driver' => <<k, x>> \in driver
      BY <1>1, <2>3
    <3> QED BY <1>1, <1>2, <1>4, <1>7, <2>0, <2>1, <2>2, <2>3, <3>1, KeyKept, StatusFacts
  <2>4. CASE k = s
    <3>0. records[k].status \notin {"succeeded", "pending", "in_flight"}
      BY <1>1, <1>7, <2>4
    <3>1. landed[k] # 1 /\ file[k].status # "succeeded"
      BY <2>0, <3>0 DEF PaymentSound, WindowSound, Paying
    <3>2. \A d \in driver : d[1] # s
      <4>1. \A d \in driver : d = <<d[1], d[2]>> /\ d[2] \in {"map", "lost"}
        BY <1>0 DEF StoreShapes
      <4> QED BY <2>0, <2>4, <3>0, <4>1 DEF StagerSound
    <3>3. driver' = driver
      BY <1>1, <3>2
    <3>4. StagerSound(k)'
      BY <2>0, <3>0, <3>3 DEF StagerSound
    <3>5. PaymentSound(k)'
      BY <1>1, <1>4, <2>0, <3>1, StatusFacts DEF PaymentSound
    <3>6. WindowSound(k)'
      BY <1>1, <1>2, <2>1, <2>4, <3>1 DEF WindowSound
    <3> QED BY <3>4, <3>5, <3>6
  <2> QED BY <2>3, <2>4
<1> QED BY <1>4, <1>5, <1>6, <1>7 DEF StoreInv

\* restore: what the file kept is enough to go on without paying twice.
LEMMA RestoreStep ==
    ASSUME StoreInv, Store!restore
    PROVE  StoreInv'
<1>0. StoreShapes /\ Dated(records) /\ Dated(file)
  BY DEF StoreInv
<1>1. /\ records' = [k \in StoreKeys |-> Store!normalizePersistedStatus(file[k])]
      /\ tx' = [k \in StoreKeys |-> IF tx[k] = "none" THEN "dead" ELSE tx[k]]
      /\ driver' = {} /\ saving' = [at |-> "idle", then |-> "none"]
      /\ UNCHANGED <<file, landed, ends, newer, excused>>
  BY DEF Store!restore, Store!past, Store!Idle
<1>2. /\ records' \in [StoreKeys -> SavedRecord]
      /\ \A k \in StoreKeys : /\ records'[k].at = file[k].at
                              /\ IF file[k].status = "in_flight" THEN records'[k].status = "staging_failed"
                                 ELSE records'[k] = file[k]
  <2>1. ASSUME NEW r \in SavedRecord
        PROVE  LET n == Store!normalizePersistedStatus(r) IN
               /\ n \in SavedRecord /\ n.at = r.at
               /\ IF r.status = "in_flight" THEN n.status = "staging_failed" ELSE n = r
    BY StatusFacts DEF Store!normalizePersistedStatus, SavedRecord
  <2>2. \A k \in StoreKeys : file[k] \in SavedRecord /\ records'[k] = Store!normalizePersistedStatus(file[k])
    BY <1>0, <1>1 DEF StoreShapes
  <2>3. \A k \in StoreKeys : Store!normalizePersistedStatus(file[k]) \in SavedRecord
    BY <2>1, <2>2
  <2> QED BY <1>1, <2>1, <2>2, <2>3
<1>3. /\ tx' \in [StoreKeys -> {"none", "landed", "dead"}]
      /\ \A k \in StoreKeys : tx[k] = "landed" => tx'[k] = "landed"
  BY <1>0, <1>1 DEF StoreShapes
<1>4. saving'.at = "idle" /\ saving'.then = "none"
  BY <1>1
<1>5. StoreShapes'
  BY <1>0, <1>1, <1>2, <1>3 DEF StoreShapes
<1>6. Dated(records)' /\ Dated(file)'
  BY <1>0, <1>1, <1>2 DEF Dated
<1>7. ASSUME NEW k \in StoreKeys \ excused' PROVE StagerSound(k)' /\ PaymentSound(k)' /\ WindowSound(k)'
  <2>0. k \in StoreKeys \ excused /\ StagerSound(k) /\ PaymentSound(k) /\ WindowSound(k)
    BY <1>1, <1>7 DEF StoreInv
  <2>1. StagerSound(k)'
    BY <1>1 DEF StagerSound
  <2>2. PaymentSound(k)'
    BY <1>1, <1>2, <1>3, <1>4, <2>0, StatusFacts DEF PaymentSound, Paying
  <2>3. records'[k].status = "succeeded" => file[k].status = "succeeded" /\ records'[k] = file[k]
    BY <1>2
  <2>4. After(records, k)' \subseteq After(file, k)
    <3>1. ASSUME NEW j \in StoreKeys, records'[j].status \in Store!Terminal, records'[j].at > records'[k].at
          PROVE  file[j].status \in Store!Terminal /\ file[j].at > file[k].at
      <4>1. file[j].at > file[k].at /\ file[k].at \in Nat /\ file[j].at \in Nat
        BY <1>0, <1>2, <3>1 DEF StoreShapes, SavedRecord
      <4>2. file[j].status # "in_flight"
        BY <1>0, <4>1 DEF Dated
      <4> QED BY <1>2, <3>1, <4>1, <4>2
    <3> QED BY <3>1 DEF After
  <2>5. After(file, k)' = After(file, k)
    BY <1>1 DEF After
  <2>6. WindowSound(k)'
    BY <1>1, <1>2, <2>0, <2>3, <2>4, <2>5 DEF WindowSound
  <2> QED BY <2>1, <2>2, <2>6
<1> QED BY <1>4, <1>5, <1>6, <1>7 DEF StoreInv

LEMMA StoreInvNext == StoreInv /\ [Store!StoreNext]_Store!storeVars => StoreInv'
<1> SUFFICES ASSUME StoreInv, [Store!StoreNext]_Store!storeVars PROVE StoreInv'
  OBVIOUS
<1>1. CASE UNCHANGED Store!storeVars
  <2>1. UNCHANGED <<records, file, saving, driver, tx, landed, ends, newer, excused>>
    BY <1>1 DEF Store!storeVars
  <2>2. StoreShapes' /\ Dated(records)' /\ Dated(file)'
    BY <2>1 DEF StoreInv, StoreShapes, Dated
  <2>3. ASSUME NEW k \in StoreKeys \ excused' PROVE StagerSound(k)' /\ PaymentSound(k)' /\ WindowSound(k)'
    <3>1. StagerSound(k) /\ PaymentSound(k) /\ WindowSound(k)
      BY <2>1, <2>3 DEF StoreInv
    <3> QED BY <2>1, <3>1 DEF StagerSound, PaymentSound, WindowSound, After
  <2> QED BY <2>1, <2>2, <2>3 DEF StoreInv
<1> QED BY <1>1, SaveStep, SaveFailsStep, BroadcastStep, RestoreStep, SubmitStep, StagedStep,
     StagingFailsStep, StoreSettleStep, ForgetStep DEF Store!StoreNext

LEMMA StoreInvPromise == StoreInv => Store!StoreTypeOK /\ PaidOnceWithinWindow
<1> SUFFICES ASSUME StoreInv PROVE Store!StoreTypeOK /\ PaidOnceWithinWindow
  OBVIOUS
<1>1. Store!StoreTypeOK
  <2>1. StoreShapes
    BY DEF StoreInv
  <2>2. \A k \in StoreKeys : records[k].status \in SavedStatuses /\ file[k].status \in SavedStatuses
    BY <2>1 DEF StoreShapes, SavedRecord
  <2> QED BY <2>1, <2>2 DEF Store!StoreTypeOK, StoreShapes, SavedStatuses
<1>2. PaidOnceWithinWindow
  BY DEF StoreInv, PaymentSound, PaidOnceWithinWindow, Store!PaidOnceWithinWindow
<1> QED BY <1>1, <1>2

\* RelaySubmissionTracker over FileSubmissionStore: across failed saves,
\* restarts at every step and pruning, a key pays at most once unless it was
\* forgotten while live, a save failed, or as many keys ended after it as the
\* file keeps.
THEOREM PaidOnceTheorem == Store!StoreSpec => []PaidOnceWithinWindow
<1>1. Store!StoreSpec => []StoreInv
  BY StoreInvInit, StoreInvNext, PTL DEF Store!StoreSpec
<1> QED BY <1>1, StoreInvPromise, PTL

-----------------------------------------------------------------------------
(* OrderHistory.                                                           *)

LEMMA PageConstants ==
    /\ MaxSecond \in Nat /\ PublicIds \subseteq Nat /\ PageSize \in Nat \ {0}
    /\ Pages!NoCursor \notin Pages!Row
    /\ Pages!Cursor = Pages!Row \cup {Pages!NoCursor}
  BY ServersAssumption DEF Pages!NoCursor, Pages!Row, Pages!Cursor

\* Rows are told apart by their ids.
Unique(R) == R \subseteq Pages!Row /\ \A q, r \in R : q.id = r.id => q = r

\* How many rows of R come before r on a page.
Above(R, r) == {q \in R : Pages!Newer(q, r)}

\* Newer is a strict order of rows with different ids, and total on them.
LEMMA NewerOrders ==
    ASSUME NEW R, Unique(R), NEW p \in R, NEW q \in R, NEW r \in R
    PROVE  /\ ~Pages!Newer(r, r)
           /\ Pages!Newer(p, q) /\ Pages!Newer(q, r) => Pages!Newer(p, r)
           /\ q # r => Pages!Newer(q, r) \/ Pages!Newer(r, q)
           /\ Pages!Newer(q, r) <=> Pages!Older(r, q)
<1>1. \A x \in R : x.at \in Nat /\ x.id \in Nat
  <2>1. \A x \in Pages!Row : x.at \in 0..MaxSecond /\ x.id \in PublicIds
    BY DEF Pages!Row
  <2>2. MaxSecond \in Nat /\ \A i \in PublicIds : i \in Nat
    BY PageConstants
  <2>3. \A x \in R : x \in Pages!Row
    BY DEF Unique
  <2> QED BY <2>1, <2>2, <2>3
<1>2. q # r => q.id # r.id
  BY DEF Unique
<1> QED BY <1>1, <1>2 DEF Pages!Newer, Pages!Older

\* The rank of a row: smaller for the newer of two rows.
LEMMA RankGrows ==
    ASSUME NEW R, Unique(R), IsFiniteSet(R), NEW q \in R, NEW r \in R, Pages!Newer(q, r)
    PROVE  Cardinality(Above(R, q)) < Cardinality(Above(R, r))
<1>1. Above(R, q) \subseteq Above(R, r) /\ q \in Above(R, r) /\ q \notin Above(R, q)
  BY NewerOrders DEF Above
<1>2. IsFiniteSet(Above(R, r)) /\ IsFiniteSet(Above(R, q))
  BY FS_Subset DEF Above
<1>3. /\ Cardinality(Above(R, q)) \in Nat /\ Cardinality(Above(R, r)) \in Nat
      /\ Cardinality(Above(R, q)) <= Cardinality(Above(R, r))
      /\ Cardinality(Above(R, q)) = Cardinality(Above(R, r)) => Above(R, q) = Above(R, r)
  BY <1>1, <1>2, FS_Subset, FS_CardinalityType
<1> QED BY <1>1, <1>3

\* A part of the rows of bounded rank that is not empty has an oldest row.
LEMMA OldestExists ==
    ASSUME NEW R, Unique(R), IsFiniteSet(R), NEW P, P \subseteq R, P # {}
    PROVE  \E r \in P : \A q \in P \ {r} : Pages!Newer(q, r)
<1> DEFINE rank(r) == Cardinality(Above(R, r))
           top == Cardinality(R)
           T == {top - rank(r) : r \in P}
<1>1. \A r \in R : rank(r) \in Nat /\ top \in Nat /\ rank(r) <= top
  <2>1. \A r \in R : Above(R, r) \subseteq R
    BY DEF Above
  <2> QED BY <2>1, FS_Subset, FS_CardinalityType
<1>2. T \subseteq Nat /\ T # {}
  <2> HIDE DEF rank, top
  <2> QED BY <1>1
<1>3. PICK t \in T : \A u \in T : t <= u
  BY <1>2, LeastNatural
<1>4. PICK r \in P : t = top - rank(r)
  BY <1>3
<1>5. ASSUME NEW q \in P \ {r} PROVE Pages!Newer(q, r)
  <2>1. t <= top - rank(q)
    BY <1>3
  <2>2. rank(q) <= rank(r)
    <3> HIDE DEF rank, top, T
    <3> QED BY <1>1, <1>4, <2>1
  <2>3. Pages!Newer(r, q) => rank(r) < rank(q)
    BY RankGrows
  <2>4. Pages!Newer(q, r) \/ Pages!Newer(r, q)
    BY NewerOrders
  <2>5. rank(q) \in Nat /\ rank(r) \in Nat
    BY <1>1
  <2> HIDE DEF rank
  <2> QED BY <2>2, <2>3, <2>4, <2>5
<1> QED BY <1>5

LEMMA LastIsOldest ==
    ASSUME NEW R, Unique(R), IsFiniteSet(R), NEW P, P \subseteq R, P # {}
    PROVE  Pages!Last(P) \in P /\ \A q \in P \ {Pages!Last(P)} : Pages!Newer(q, Pages!Last(P))
  BY OldestExists DEF Pages!Last

\* historyRoute: every row that the question asked for is on the page, or older
\* than the token for the next one.
LEMMA RouteIsComplete ==
    ASSUME Unique(table), IsFiniteSet(table), NEW user \in Users, NEW c \in Pages!Cursor,
           Pages!historyRoute(user, c).ok,
           NEW r \in table, r.user = user, c = Pages!NoCursor \/ Pages!Older(r, c)
    PROVE  LET h == Pages!historyRoute(user, c) IN
           r \in h.page \/ (h.next # Pages!NoCursor /\ Pages!Older(r, h.next))
<1> DEFINE R == {q \in table : q.user = user /\ (c = Pages!NoCursor \/ Pages!Older(q, c))}
           rank(q) == Cardinality(Above(R, q))
           res == {q \in R : rank(q) < PageSize + 1}
           more == Cardinality(res) > PageSize
           page == IF more THEN res \ {Pages!Last(res)} ELSE res
           next == IF more THEN Pages!Last(page) ELSE Pages!NoCursor
<1>1. Unique(R) /\ IsFiniteSet(R) /\ r \in R
  BY FS_Subset DEF Unique
<1>2. \A U : Pages!Cardinality(U) = Cardinality(U)
  BY DEF Pages!Cardinality, Cardinality
<1>3. Pages!findByAddressPage(user, c, PageSize + 1) = res
  BY <1>2 DEF Pages!findByAddressPage, Above
<1>4. Pages!historyRoute(user, c) = [ok |-> TRUE, page |-> page, next |-> next]
  BY <1>2, <1>3 DEF Pages!historyRoute
<1> HIDE DEF R
<1>5. \A q \in R : rank(q) \in Nat
  <2>1. \A q \in R : Above(R, q) \subseteq R
    BY DEF Above
  <2> QED BY <1>1, <2>1, FS_Subset, FS_CardinalityType
<1>6. \A p, q \in R : Pages!Newer(p, q) => rank(p) < rank(q)
  BY <1>1, RankGrows
<1> HIDE DEF rank
<1>7. res \subseteq R /\ IsFiniteSet(res) /\ Cardinality(res) \in Nat
  BY <1>1, FS_Subset, FS_CardinalityType
<1>8. CASE ~more
  <2>1. SUFFICES ASSUME r \notin res PROVE FALSE
    BY <1>4, <1>8
  <2> DEFINE T == {rank(q) : q \in R \ res}
  <2>2. T \subseteq Nat /\ T # {}
    BY <1>1, <1>5, <2>1
  <2>3. PICK t \in T : \A u \in T : t <= u
    BY <2>2, LeastNatural
  <2>4. PICK x \in R \ res : t = rank(x)
    BY <2>3
  <2>5. \A q \in Above(R, x) : q \in res
    <3>1. SUFFICES ASSUME NEW q \in R, Pages!Newer(q, x), q \notin res PROVE FALSE
      BY DEF Above
    <3>2. rank(q) < rank(x) /\ rank(x) <= rank(q)
      BY <1>6, <2>3, <2>4, <3>1
    <3> QED BY <1>5, <2>4, <3>1, <3>2
  <2>6. Cardinality(Above(R, x)) <= Cardinality(res)
    BY <1>7, <2>5, FS_Subset
  <2>7. rank(x) <= Cardinality(res) /\ rank(x) \in Nat /\ ~(rank(x) < PageSize + 1)
    BY <1>5, <2>4, <2>6 DEF rank
  <2> HIDE DEF res
  <2> QED BY <1>7, <1>8, <2>7, PageConstants
<1>9. CASE more
  <2> DEFINE L == Pages!Last(res)
             M == Pages!Last(res \ {L})
  <2>1. res # {}
    BY <1>9, FS_EmptySet, PageConstants
  <2>2. L \in res /\ \A q \in res \ {L} : Pages!Newer(q, L)
    BY <1>1, <1>7, <2>1, LastIsOldest
  <2>3. res \ {L} # {}
    <3>1. SUFFICES ASSUME res = {L} PROVE FALSE
      BY <2>2
    <3>2. Cardinality({L}) = 1
      BY FS_Singleton
    <3> HIDE DEF res, L
    <3> QED BY <1>9, <3>1, <3>2, PageConstants
  <2>4. M \in res \ {L} /\ \A q \in (res \ {L}) \ {M} : Pages!Newer(q, M)
    BY <1>1, <1>7, <2>3, LastIsOldest
  <2>5. Pages!historyRoute(user, c).page = res \ {L} /\ Pages!historyRoute(user, c).next = M
    BY <1>4, <1>9
  <2>6. M # Pages!NoCursor
    BY <1>1, <1>7, <2>4, PageConstants DEF Unique
  <2>7. ASSUME r \notin res \ {L} PROVE Pages!Newer(M, r)
    <3>1. CASE r = L
      BY <2>2, <2>4, <3>1
    <3>2. CASE r \notin res
      <4>1. M \in R /\ M # r
        BY <1>7, <2>4, <3>2
      <4>2. Pages!Newer(M, r) \/ Pages!Newer(r, M)
        BY <1>1, <4>1, NewerOrders
      <4>3. Pages!Newer(r, M) => rank(r) < rank(M)
        BY <1>1, <1>6, <4>1
      <4>4. rank(M) < PageSize + 1 /\ ~(rank(r) < PageSize + 1)
        BY <1>1, <2>4, <3>2
      <4>5. rank(M) \in Nat /\ rank(r) \in Nat
        BY <1>1, <1>5, <4>1
      <4> HIDE DEF M, L, res
      <4> QED BY <4>2, <4>3, <4>4, <4>5, PageConstants
    <3> QED BY <2>7, <3>1, <3>2
  <2>8. M \in R
    BY <1>7, <2>4
  <2>9. Pages!Newer(M, r) => Pages!Older(r, M)
    BY <1>1, <2>8, NewerOrders
  <2> HIDE DEF M, L, res
  <2> QED BY <2>5, <2>6, <2>7, <2>9
<1> QED BY <1>8, <1>9

Answers == [ok: BOOLEAN, page: SUBSET Pages!Row, next: Pages!Cursor]
Sent == [at: {"sent"}, user: Users, cursor: Pages!Cursor, stale: BOOLEAN]
Answered == [at: {"answered"}, stale: BOOLEAN, answer: Answers]

PageShapes ==
    /\ second \in 0..MaxSecond /\ Unique(table) /\ IsFiniteSet(table)
    /\ account \in Users /\ list \subseteq Pages!Row /\ nextCursor \in Pages!Cursor
    /\ stopped \in BOOLEAN /\ loading \in BOOLEAN /\ crossed \in BOOLEAN
    /\ fetch \in [Fetches -> {Pages!NoFetch} \cup Sent \cup Answered]
    /\ wanted \subseteq table /\ \A r \in wanted : r.user = account

\* The request that no later one has overtaken.
Latest(f) == fetch[f] # Pages!NoFetch /\ fetch[f].stale = FALSE

\* Every row of the walk is shown, or still ahead of the token.
Covered(shown, c) ==
    \A r \in wanted : r \in shown \/ (c # Pages!NoCursor /\ Pages!Older(r, c))

\* What the latest request asks for, or brings, together with what is shown.
RequestSound(f) ==
    /\ fetch[f].at = "sent" =>
          /\ fetch[f].user = account
          /\ fetch[f].cursor = Pages!NoCursor \/ Covered(list, fetch[f].cursor)
    /\ fetch[f].at = "answered" /\ fetch[f].answer.ok =>
          Covered(list \cup fetch[f].answer.page, fetch[f].answer.next)

\* The inductive invariant of the walk: at most one request is the latest,
\* "Load more" is offered only when none is, and then the token covers the rest.
PageInv ==
    /\ PageShapes
    /\ \A f, g \in Fetches : Latest(f) /\ Latest(g) => f = g
    /\ crossed = FALSE => \A f \in Fetches : Latest(f) => RequestSound(f)
    /\ crossed = FALSE /\ loading = FALSE /\ stopped = FALSE => \A f \in Fetches : ~Latest(f)
    /\ crossed = FALSE /\ stopped = FALSE /\ (\A f \in Fetches : ~Latest(f)) => Covered(list, nextCursor)

LEMMA PageInvInit == Pages!PageInit => PageInv
<1> SUFFICES ASSUME Pages!PageInit PROVE PageInv
  OBVIOUS
<1>1. /\ second = 0 /\ table = {} /\ account \in Users /\ list = {} /\ nextCursor = Pages!NoCursor
      /\ stopped = FALSE /\ loading = FALSE /\ fetch = [f \in Fetches |-> Pages!NoFetch]
      /\ wanted = {} /\ crossed = FALSE
  BY DEF Pages!PageInit
<1>2. Unique(table) /\ IsFiniteSet(table)
  BY <1>1, FS_EmptySet DEF Unique
<1>3. PageShapes
  <2>1. 0 \in 0..MaxSecond /\ Pages!NoCursor \in Pages!Cursor
    BY PageConstants
  <2>2. fetch \in [Fetches -> {Pages!NoFetch} \cup Sent \cup Answered]
    BY <1>1
  <2> QED BY <1>1, <1>2, <2>1, <2>2 DEF PageShapes
<1>4. \A f \in Fetches : ~Latest(f)
  BY <1>1 DEF Latest
<1> QED BY <1>1, <1>3, <1>4 DEF PageInv, Covered

\* A request is one of three shapes.
LEMMA FetchShape ==
    ASSUME PageShapes, NEW f \in Fetches
    PROVE  /\ fetch[f] \in {Pages!NoFetch} \cup Sent \cup Answered
           /\ fetch[f].at \in {"idle", "sent", "answered"}
           /\ fetch[f].at = "idle" <=> fetch[f] = Pages!NoFetch
           /\ fetch[f].at = "sent" => fetch[f] \in Sent
           /\ fetch[f].at = "answered" => fetch[f] \in Answered
<1>1. fetch[f] \in {Pages!NoFetch} \cup Sent \cup Answered
  BY DEF PageShapes
<1>2. Pages!NoFetch.at = "idle"
  BY DEF Pages!NoFetch
<1>3. \A x \in Sent : x.at = "sent"
  BY DEF Sent
<1>4. \A x \in Answered : x.at = "answered"
  BY DEF Answered
<1> QED BY <1>1, <1>2, <1>3, <1>4

\* Ask makes the new request the latest one.
LEMMA AskIsLatest ==
    ASSUME PageShapes, NEW f \in Fetches, NEW user \in Users, NEW c \in Pages!Cursor,
           fetch' = Pages!Ask(f, user, c)
    PROVE  /\ fetch' \in [Fetches -> {Pages!NoFetch} \cup Sent \cup Answered]
           /\ fetch'[f] = [at |-> "sent", user |-> user, cursor |-> c, stale |-> FALSE]
           /\ \A g \in Fetches : Latest(g)' <=> g = f
<1> DEFINE x == [at |-> "sent", user |-> user, cursor |-> c, stale |-> FALSE]
<1>1. x \in Sent /\ x.at = "sent" /\ x.stale = FALSE
  BY DEF Sent
<1>2. ASSUME NEW g \in Fetches, g # f, fetch[g] # Pages!NoFetch
      PROVE  /\ [fetch[g] EXCEPT !.stale = TRUE] \in Sent \cup Answered
             /\ [fetch[g] EXCEPT !.stale = TRUE].stale = TRUE
  <2>1. CASE fetch[g] \in Sent
    BY <2>1 DEF Sent
  <2>2. CASE fetch[g] \in Answered
    BY <2>2 DEF Answered
  <2> QED BY <1>2, <2>1, <2>2, FetchShape
<1>3. fetch' = [g \in Fetches |-> IF g = f THEN x
                                  ELSE IF fetch[g] = Pages!NoFetch THEN Pages!NoFetch
                                  ELSE [fetch[g] EXCEPT !.stale = TRUE]]
  BY DEF Pages!Ask
<1>4. x # Pages!NoFetch
  <2>1. Pages!NoFetch.at = "idle"
    BY DEF Pages!NoFetch
  <2> QED BY <1>1, <2>1
<1> HIDE DEF x
<1>5. \A g \in Fetches : /\ g = f => fetch'[g] = x
                         /\ g # f /\ fetch[g] = Pages!NoFetch => fetch'[g] = Pages!NoFetch
                         /\ g # f /\ fetch[g] # Pages!NoFetch =>
                               fetch'[g] \in Sent \cup Answered /\ fetch'[g].stale = TRUE
  BY <1>2, <1>3
<1>6. fetch' \in [Fetches -> {Pages!NoFetch} \cup Sent \cup Answered]
  BY <1>1, <1>2, <1>3
<1>7. \A g \in Fetches : Latest(g)' <=> g = f
  BY <1>1, <1>4, <1>5 DEF Latest
<1> QED BY <1>5, <1>6, <1>7 DEF x

\* refreshFromCoordinator and switchAccount start a walk; the request asks for
\* the first page.
LEMMA WalkBegins ==
    ASSUME PageInv, NEW f \in Fetches, NEW user \in Users,
           fetch' = Pages!Ask(f, user, Pages!NoCursor), account' = user,
           wanted' = {r \in table : r.user = user}, crossed' = FALSE, loading' = TRUE,
           UNCHANGED <<second, table, list, nextCursor, stopped>>
    PROVE  PageInv'
<1>0. PageShapes
  BY DEF PageInv
<1>1. /\ fetch' \in [Fetches -> {Pages!NoFetch} \cup Sent \cup Answered]
      /\ fetch'[f] = [at |-> "sent", user |-> user, cursor |-> Pages!NoCursor, stale |-> FALSE]
      /\ \A g \in Fetches : Latest(g)' <=> g = f
  BY <1>0, AskIsLatest, PageConstants
<1>2. PageShapes'
  BY <1>0, <1>1 DEF PageShapes, Unique
<1>3. RequestSound(f)'
  <2>1. fetch'[f].at = "sent" /\ fetch'[f].user = user /\ fetch'[f].cursor = Pages!NoCursor
    BY <1>1
  <2> QED BY <2>1 DEF RequestSound
<1> QED BY <1>1, <1>2, <1>3 DEF PageInv

LEMMA LoadMoreStep ==
    ASSUME PageInv, NEW f \in Fetches, Pages!loadMoreFromCoordinator(f)
    PROVE  PageInv'
<1>0. PageShapes
  BY DEF PageInv
<1>1. /\ ~loading /\ ~stopped /\ fetch' = Pages!Ask(f, account, nextCursor)
      /\ loading' = TRUE
      /\ UNCHANGED <<second, table, account, list, nextCursor, stopped, wanted, crossed>>
  BY DEF Pages!loadMoreFromCoordinator
<1>2. account \in Users /\ nextCursor \in Pages!Cursor /\ loading = FALSE /\ stopped = FALSE
  BY <1>0, <1>1 DEF PageShapes
<1>3. /\ fetch' \in [Fetches -> {Pages!NoFetch} \cup Sent \cup Answered]
      /\ fetch'[f] = [at |-> "sent", user |-> account, cursor |-> nextCursor, stale |-> FALSE]
      /\ \A g \in Fetches : Latest(g)' <=> g = f
  BY <1>0, <1>1, <1>2, AskIsLatest
<1>4. PageShapes'
  BY <1>0, <1>1, <1>3 DEF PageShapes, Unique
<1>5. crossed = FALSE => RequestSound(f)'
  <2>1. fetch'[f].at = "sent" /\ fetch'[f].user = account /\ fetch'[f].cursor = nextCursor
    BY <1>3
  <2>2. crossed = FALSE => Covered(list, nextCursor)
    BY <1>2 DEF PageInv
  <2>3. Covered(list, nextCursor)' <=> Covered(list, nextCursor)
    BY <1>1 DEF Covered
  <2> QED BY <1>1, <2>1, <2>2, <2>3 DEF RequestSound
<1> QED BY <1>1, <1>3, <1>4, <1>5 DEF PageInv

\* historyRoute answers with rows of the table.
LEMMA RouteShape ==
    ASSUME Unique(table), IsFiniteSet(table), NEW user \in Users, NEW c \in Pages!Cursor
    PROVE  Pages!historyRoute(user, c) \in Answers
<1> DEFINE res == Pages!findByAddressPage(user, c, PageSize + 1)
           more == Pages!Cardinality(res) > PageSize
           page == IF more THEN res \ {Pages!Last(res)} ELSE res
           next == IF more THEN Pages!Last(page) ELSE Pages!NoCursor
<1>1. res \subseteq table
  BY DEF Pages!findByAddressPage
<1>2. page \subseteq table /\ page \subseteq Pages!Row
  BY <1>1 DEF Unique
<1>3. next \in Pages!Cursor
  <2>1. CASE ~more
    BY <2>1, PageConstants
  <2>2. CASE more
    <3>1. \A U : Pages!Cardinality(U) = Cardinality(U)
      BY DEF Pages!Cardinality, Cardinality
    <3>2. page # {}
      <4>1. SUFFICES ASSUME res \subseteq {Pages!Last(res)} PROVE FALSE
        BY <2>2
      <4>2. Cardinality(res) <= 1 /\ Cardinality(res) \in Nat
        <5> DEFINE one == {Pages!Last(res)}
        <5>1. IsFiniteSet(one) /\ Cardinality(one) = 1
          BY FS_Singleton
        <5>2. res \subseteq one
          BY <4>1
        <5> HIDE DEF res, one
        <5> QED BY <5>1, <5>2, FS_Subset, FS_CardinalityType
      <4> HIDE DEF res
      <4> QED BY <2>2, <3>1, <4>2, PageConstants
    <3>3. Pages!Last(page) \in page
      BY <1>2, <3>2, LastIsOldest
    <3> HIDE DEF page
    <3> QED BY <1>2, <2>2, <3>3, PageConstants
  <2> QED BY <2>1, <2>2
<1>4. \/ Pages!historyRoute(user, c) = [ok |-> TRUE, page |-> page, next |-> next]
      \/ Pages!historyRoute(user, c) = [ok |-> FALSE, page |-> {}, next |-> Pages!NoCursor]
  BY DEF Pages!historyRoute
<1> HIDE DEF page, next
<1>5. Pages!NoCursor \in Pages!Cursor /\ {} \in SUBSET Pages!Row /\ page \in SUBSET Pages!Row
  BY <1>2, PageConstants
<1>6. ASSUME NEW p \in SUBSET Pages!Row, NEW d \in Pages!Cursor, NEW t \in BOOLEAN
      PROVE  [ok |-> t, page |-> p, next |-> d] \in Answers
  BY DEF Answers
<1> QED BY <1>3, <1>4, <1>5, <1>6

LEMMA ServeStep ==
    ASSUME PageInv, NEW f \in Fetches, Pages!serve(f)
    PROVE  PageInv'
<1>0. PageShapes
  BY DEF PageInv
<1>1. /\ fetch[f].at = "sent"
      /\ fetch' = [fetch EXCEPT ![f] = [at |-> "answered", stale |-> fetch[f].stale,
                                        answer |-> Pages!historyRoute(fetch[f].user, fetch[f].cursor)]]
      /\ UNCHANGED <<second, table, account, list, nextCursor, stopped, loading, wanted, crossed>>
  BY DEF Pages!serve, Pages!view
<1>2. PICK user \in Users, c \in Pages!Cursor, b \in BOOLEAN :
         user = fetch[f].user /\ c = fetch[f].cursor /\ b = fetch[f].stale
  <2>1. fetch[f] \in Sent
    BY <1>0, <1>1, FetchShape
  <2> QED BY <2>1 DEF Sent
<1> DEFINE h == Pages!historyRoute(user, c)
           x == [at |-> "answered", stale |-> b, answer |-> h]
<1>3. h \in Answers
  BY <1>0, RouteShape DEF PageShapes
<1>4. x \in Answered /\ x.at = "answered" /\ x.stale = b /\ x.answer = h /\ x # Pages!NoFetch
  <2>1. Pages!NoFetch.at = "idle"
    BY DEF Pages!NoFetch
  <2> HIDE DEF h
  <2>2. x \in Answered /\ x.at = "answered" /\ x.stale = b /\ x.answer = h
    BY <1>3 DEF Answered
  <2> QED BY <2>1, <2>2
<1>5. fetch' = [fetch EXCEPT ![f] = x]
  BY <1>1, <1>2
<1> HIDE DEF x, h
<1>6. /\ fetch' \in [Fetches -> {Pages!NoFetch} \cup Sent \cup Answered] /\ fetch'[f] = x
      /\ \A g \in Fetches : g # f => fetch'[g] = fetch[g]
  BY <1>0, <1>4, <1>5 DEF PageShapes
<1>7. PageShapes'
  BY <1>0, <1>1, <1>6 DEF PageShapes, Unique
<1>8. \A g \in Fetches : Latest(g)' <=> Latest(g)
  <2>1. fetch[f] # Pages!NoFetch
    BY <1>0, <1>1, FetchShape
  <2> QED BY <1>2, <1>4, <1>6, <2>1 DEF Latest
<1>9. \A L, d : Covered(L, d)' <=> Covered(L, d)
  BY <1>1 DEF Covered
<1>10. ASSUME crossed = FALSE, NEW g \in Fetches, Latest(g) PROVE RequestSound(g)'
  <2>0. RequestSound(g)
    BY <1>10 DEF PageInv
  <2>1. CASE g # f
    BY <1>1, <1>6, <2>0, <2>1 DEF RequestSound, Covered
  <2>2. CASE g = f
    <3>1. user = account /\ (c = Pages!NoCursor \/ Covered(list, c))
      BY <1>1, <1>2, <2>0, <2>2 DEF RequestSound
    <3>2. ASSUME h.ok, NEW r \in wanted
          PROVE  r \in list \cup h.page \/ (h.next # Pages!NoCursor /\ Pages!Older(r, h.next))
      <4>1. r \in list \/ c = Pages!NoCursor \/ Pages!Older(r, c)
        BY <3>1 DEF Covered
      <4>2. r \in table /\ r.user = user
        BY <1>0, <3>1 DEF PageShapes
      <4> QED BY <1>0, <3>2, <4>1, <4>2, RouteIsComplete DEF PageShapes, h
    <3>3. fetch'[g].at = "answered" /\ fetch'[g].answer = h
      BY <1>4, <1>6, <2>2
    <3> QED BY <1>1, <3>2, <3>3 DEF RequestSound, Covered
  <2> QED BY <2>1, <2>2
<1>11. /\ \A g, k \in Fetches : Latest(g)' /\ Latest(k)' => g = k
       /\ crossed = FALSE /\ loading = FALSE /\ stopped = FALSE => \A g \in Fetches : ~Latest(g)'
       /\ crossed = FALSE /\ stopped = FALSE /\ (\A g \in Fetches : ~Latest(g)') => Covered(list, nextCursor)
  BY <1>8 DEF PageInv
<1>12. Covered(list, nextCursor)' <=> Covered(list, nextCursor)
  BY <1>1 DEF Covered
<1> QED BY <1>1, <1>7, <1>8, <1>10, <1>11, <1>12 DEF PageInv

\* An answer, or a failure, arrives: its slot becomes free.
LEMMA SlotFreed ==
    ASSUME PageShapes, NEW f \in Fetches, fetch' = [fetch EXCEPT ![f] = Pages!NoFetch]
    PROVE  /\ fetch' \in [Fetches -> {Pages!NoFetch} \cup Sent \cup Answered]
           /\ \A g \in Fetches : g # f => fetch'[g] = fetch[g]
           /\ \A g \in Fetches : Latest(g)' <=> Latest(g) /\ g # f
<1>1. /\ fetch' \in [Fetches -> {Pages!NoFetch} \cup Sent \cup Answered] /\ fetch'[f] = Pages!NoFetch
      /\ \A g \in Fetches : g # f => fetch'[g] = fetch[g]
  BY DEF PageShapes
<1> QED BY <1>1 DEF Latest

LEMMA ReceivePageStep ==
    ASSUME PageInv, NEW f \in Fetches, Pages!receivePage(f)
    PROVE  PageInv'
<1>0. PageShapes
  BY DEF PageInv
<1> DEFINE got == fetch[f]
<1>1. /\ got.at = "answered" /\ fetch' = [fetch EXCEPT ![f] = Pages!NoFetch]
      /\ crossed' = (crossed \/ got.stale) /\ loading' = FALSE
      /\ IF got.answer.ok
         THEN /\ list' = list \cup got.answer.page
              /\ nextCursor' = got.answer.next
              /\ stopped' = FALSE
         ELSE /\ stopped' = TRUE
              /\ UNCHANGED <<list, nextCursor>>
      /\ UNCHANGED <<second, table, account, wanted>>
  BY DEF Pages!receivePage, Pages!mergeHistoryPage
<1>2. got \in Answered /\ got # Pages!NoFetch
  BY <1>0, <1>1, FetchShape
<1>3. got.stale \in BOOLEAN /\ got.answer \in Answers
  BY <1>2 DEF Answered
<1>4. got.answer.page \subseteq Pages!Row /\ got.answer.next \in Pages!Cursor /\ got.answer.ok \in BOOLEAN
  BY <1>3 DEF Answers
<1>5. /\ fetch' \in [Fetches -> {Pages!NoFetch} \cup Sent \cup Answered]
      /\ \A g \in Fetches : g # f => fetch'[g] = fetch[g]
      /\ \A g \in Fetches : Latest(g)' <=> Latest(g) /\ g # f
  BY <1>0, <1>1, SlotFreed
<1>6. crossed' \in BOOLEAN /\ (crossed' = FALSE => crossed = FALSE /\ got.stale = FALSE)
  BY <1>0, <1>1, <1>3 DEF PageShapes
<1>7. list' \subseteq Pages!Row /\ nextCursor' \in Pages!Cursor /\ stopped' \in BOOLEAN
  BY <1>0, <1>1, <1>4 DEF PageShapes
<1>8. PageShapes'
  BY <1>0, <1>1, <1>5, <1>6, <1>7 DEF PageShapes, Unique
<1>9. crossed' = FALSE => \A g \in Fetches : ~Latest(g)'
  <2>1. crossed' = FALSE => Latest(f)
    BY <1>2, <1>6 DEF Latest
  <2> QED BY <1>5, <2>1 DEF PageInv
<1>10. crossed' = FALSE /\ stopped' = FALSE => Covered(list, nextCursor)'
  <2>1. SUFFICES ASSUME crossed' = FALSE, stopped' = FALSE PROVE Covered(list, nextCursor)'
    OBVIOUS
  <2>2. got.answer.ok /\ list' = list \cup got.answer.page /\ nextCursor' = got.answer.next
    BY <1>1, <2>1
  <2>3. Latest(f) /\ crossed = FALSE
    BY <1>2, <1>6, <2>1 DEF Latest
  <2>4. Covered(list \cup got.answer.page, got.answer.next)
    BY <1>1, <2>2, <2>3 DEF PageInv, RequestSound
  <2> QED BY <1>1, <2>2, <2>4 DEF Covered
<1>11. \A g, k \in Fetches : Latest(g)' /\ Latest(k)' => g = k
  BY <1>5 DEF PageInv
<1> QED BY <1>8, <1>9, <1>10, <1>11 DEF PageInv

LEMMA LostPageStep ==
    ASSUME PageInv, NEW f \in Fetches, Pages!lostPage(f)
    PROVE  PageInv'
<1>0. PageShapes
  BY DEF PageInv
<1>1. /\ fetch' = [fetch EXCEPT ![f] = Pages!NoFetch] /\ stopped' = TRUE /\ loading' = FALSE
      /\ UNCHANGED <<second, table, account, list, nextCursor, wanted, crossed>>
  BY DEF Pages!lostPage
<1>5. /\ fetch' \in [Fetches -> {Pages!NoFetch} \cup Sent \cup Answered]
      /\ \A g \in Fetches : g # f => fetch'[g] = fetch[g]
      /\ \A g \in Fetches : Latest(g)' <=> Latest(g) /\ g # f
  BY <1>0, <1>1, SlotFreed
<1>6. PageShapes'
  BY <1>0, <1>1, <1>5 DEF PageShapes, Unique
<1>7. crossed = FALSE => \A g \in Fetches : Latest(g)' => RequestSound(g)'
  <2>1. SUFFICES ASSUME crossed = FALSE, NEW g \in Fetches, Latest(g)' PROVE RequestSound(g)'
    OBVIOUS
  <2>2. Latest(g) /\ g # f /\ fetch'[g] = fetch[g]
    BY <1>5, <2>1
  <2>3. RequestSound(g)
    BY <2>1, <2>2 DEF PageInv
  <2> QED BY <1>1, <2>2, <2>3 DEF RequestSound, Covered
<1>8. \A g, k \in Fetches : Latest(g)' /\ Latest(k)' => g = k
  BY <1>5 DEF PageInv
<1> QED BY <1>1, <1>6, <1>7, <1>8 DEF PageInv

\* Steps of the coordinator alone: rows are added, the clock moves.
LEMMA PageTableSteps ==
    ASSUME PageInv, Unique(table'), IsFiniteSet(table'), table \subseteq table', second' \in 0..MaxSecond,
           UNCHANGED <<account, list, nextCursor, stopped, loading, fetch, wanted, crossed>>
    PROVE  PageInv'
<1>0. PageShapes
  BY DEF PageInv
<1>1. PageShapes'
  BY <1>0 DEF PageShapes, Unique
<1>2. \A f \in Fetches : Latest(f)' <=> Latest(f)
  BY DEF Latest
<1>3. \A f \in Fetches : RequestSound(f) => RequestSound(f)'
  BY DEF RequestSound, Covered
<1>4. Covered(list, nextCursor)' <=> Covered(list, nextCursor)
  BY DEF Covered
<1> QED BY <1>1, <1>2, <1>3, <1>4 DEF PageInv

LEMMA PageInvNext == PageInv /\ [Pages!PageNext]_Pages!pageVars => PageInv'
<1> SUFFICES ASSUME PageInv, [Pages!PageNext]_Pages!pageVars PROVE PageInv'
  OBVIOUS
<1>0. PageShapes
  BY DEF PageInv
<1>1. ASSUME NEW user \in Users, NEW id \in PublicIds, Pages!announce(user, id) PROVE PageInv'
  <2> DEFINE row0 == [user |-> user, at |-> second, id |-> id]
  <2>1. /\ \A r \in table : r.id # id
        /\ table' = table \cup {row0}
        /\ UNCHANGED <<second, account, list, nextCursor, stopped, loading, fetch, wanted, crossed>>
    BY <1>1 DEF Pages!announce, Pages!view
  <2>2. row0 \in Pages!Row /\ row0.id = id
    BY <1>0 DEF PageShapes, Pages!Row
  <2> HIDE DEF row0
  <2>3. Unique(table')
    BY <1>0, <2>1, <2>2 DEF PageShapes, Unique
  <2>4. IsFiniteSet(table')
    BY <1>0, <2>1, FS_AddElement DEF PageShapes
  <2>5. second' \in 0..MaxSecond /\ table \subseteq table'
    BY <1>0, <2>1 DEF PageShapes
  <2> QED BY <2>1, <2>3, <2>4, <2>5, PageTableSteps
<1>2. ASSUME NEW f \in Fetches, Pages!refreshFromCoordinator(f) PROVE PageInv'
  BY <1>0, <1>2, WalkBegins DEF Pages!refreshFromCoordinator, PageShapes
<1>3. ASSUME NEW f \in Fetches, NEW user \in Users, Pages!switchAccount(user, f) PROVE PageInv'
  BY <1>3, WalkBegins DEF Pages!switchAccount
<1>4. ASSUME Pages!Tick PROVE PageInv'
  <2>1. second < MaxSecond /\ second' = second + 1
        /\ UNCHANGED <<table, account, list, nextCursor, stopped, loading, fetch, wanted, crossed>>
    BY <1>4 DEF Pages!Tick, Pages!view
  <2>2. second \in 0..MaxSecond /\ Unique(table) /\ IsFiniteSet(table) /\ MaxSecond \in Nat
    BY <1>0, PageConstants DEF PageShapes
  <2>3. second' \in 0..MaxSecond /\ Unique(table') /\ IsFiniteSet(table') /\ table \subseteq table'
    BY <2>1, <2>2
  <2> QED BY <2>1, <2>3, PageTableSteps
<1>5. ASSUME UNCHANGED Pages!pageVars PROVE PageInv'
  <2>1. UNCHANGED <<second, table, account, list, nextCursor, stopped, loading, fetch, wanted, crossed>>
    BY <1>5 DEF Pages!pageVars
  <2>2. second' \in 0..MaxSecond /\ Unique(table') /\ IsFiniteSet(table') /\ table \subseteq table'
    BY <1>0, <2>1 DEF PageShapes
  <2> QED BY <2>1, <2>2, PageTableSteps
<1> QED BY <1>1, <1>2, <1>3, <1>4, <1>5, LoadMoreStep, ServeStep, ReceivePageStep, LostPageStep
     DEF Pages!PageNext

LEMMA PageInvPromise == PageInv => Pages!PageTypeOK /\ WalkIsComplete
<1> SUFFICES ASSUME PageInv PROVE Pages!PageTypeOK /\ WalkIsComplete
  OBVIOUS
<1>0. PageShapes
  BY DEF PageInv
<1>1. Pages!PageTypeOK
  <2>1. \A f \in Fetches : fetch[f].at \in {"idle", "sent", "answered"}
    BY <1>0, FetchShape
  <2> QED BY <1>0, <2>1 DEF Pages!PageTypeOK, PageShapes, Unique
<1>2. ASSUME nextCursor = Pages!NoCursor, ~stopped, ~crossed, \A f \in Fetches : fetch[f] = Pages!NoFetch
      PROVE  wanted \subseteq list
  <2>1. stopped = FALSE /\ crossed = FALSE
    BY <1>0, <1>2 DEF PageShapes
  <2>2. \A f \in Fetches : ~Latest(f)
    BY <1>2 DEF Latest
  <2>3. Covered(list, nextCursor)
    BY <2>1, <2>2 DEF PageInv
  <2> QED BY <1>2, <2>3 DEF Covered
<1> QED BY <1>1, <1>2 DEF WalkIsComplete, Pages!WalkIsComplete

\* mergeHistoryPage and the history cursor: for any page size, a walk that
\* reached its last page shows every order its wallet had when the walk began,
\* whatever was announced meanwhile, unless an overtaken answer came in.
THEOREM WalkTheorem == Pages!PageSpec => []WalkIsComplete
<1>1. Pages!PageSpec => []PageInv
  BY PageInvInit, PageInvNext, PTL DEF Pages!PageSpec
<1> QED BY <1>1, PageInvPromise, PTL
-----------------------------------------------------------------------------
(* EventHistory.                                                           *)

KeepStep(array, cutoff, n, first) ==
    IF array[n] >= cutoff THEN Append(first, array[n]) ELSE first

\* The filter of archiveOldEvents, one event after the other.
KeepPart(array, cutoff, h, n) ==
    h = [i \in 0 .. n |-> IF i = 0 THEN <<>> ELSE KeepStep(array, cutoff, i, h[i - 1])]
KeepLevels(array, cutoff) ==
    CHOOSE s : s = [i \in Nat |-> IF i = 0 THEN <<>> ELSE KeepStep(array, cutoff, i, s[i - 1])]

LEMMA KeepExists ==
    ASSUME NEW array, NEW cutoff
    PROVE  \A n \in Nat : \E h : KeepPart(array, cutoff, h, n)
<1> DEFINE S == {n \in Nat : \E h : KeepPart(array, cutoff, h, n)}
<1>1. 0 \in S
  <2> DEFINE h == [i \in 0 .. 0 |-> <<>>]
  <2>1. KeepPart(array, cutoff, h, 0)
    BY DEF KeepPart
  <2> QED BY <2>1
<1>2. ASSUME NEW n \in Nat, n \in S
      PROVE  n + 1 \in S
  <2>1. PICK h : KeepPart(array, cutoff, h, n)
    BY <1>2
  <2> DEFINE k == [i \in 0 .. (n + 1) |->
                     IF i = n + 1 THEN KeepStep(array, cutoff, n + 1, h[n]) ELSE h[i]]
  <2>2. \A i \in 0 .. n : h[i] = IF i = 0 THEN <<>> ELSE KeepStep(array, cutoff, i, h[i - 1])
    BY <2>1 DEF KeepPart
  <2>3. \A i \in 0 .. (n + 1) : k[i] = IF i = 0 THEN <<>> ELSE KeepStep(array, cutoff, i, k[i - 1])
    BY <2>2
  <2>4. KeepPart(array, cutoff, k, n + 1)
    BY <2>3 DEF KeepPart
  <2> QED BY <2>4
<1>3. Nat \subseteq S
  <2> HIDE DEF S
  <2> QED BY <1>1, <1>2, SetInduction
<1> QED BY <1>3

LEMMA KeepUnique ==
    ASSUME NEW array, NEW cutoff, NEW g, NEW h, NEW m \in Nat, NEW n \in Nat,
           KeepPart(array, cutoff, g, m), KeepPart(array, cutoff, h, n)
    PROVE  \A i \in Nat : i <= m /\ i <= n => g[i] = h[i]
<1> DEFINE S == {i \in Nat : i <= m /\ i <= n => g[i] = h[i]}
<1>1. \A i \in 0 .. m : g[i] = IF i = 0 THEN <<>> ELSE KeepStep(array, cutoff, i, g[i - 1])
  BY DEF KeepPart
<1>2. \A i \in 0 .. n : h[i] = IF i = 0 THEN <<>> ELSE KeepStep(array, cutoff, i, h[i - 1])
  BY DEF KeepPart
<1>3. 0 \in S
  BY <1>1, <1>2
<1>4. \A i \in Nat : i \in S => i + 1 \in S
  BY <1>1, <1>2
<1>5. Nat \subseteq S
  <2> HIDE DEF S
  <2> QED BY <1>3, <1>4, SetInduction
<1> QED BY <1>5

LEMMA KeepRecursion ==
    ASSUME NEW array, NEW cutoff, NEW n \in Nat
    PROVE  KeepLevels(array, cutoff)[n] =
             IF n = 0 THEN <<>> ELSE KeepStep(array, cutoff, n, KeepLevels(array, cutoff)[n - 1])
<1> DEFINE P(m) == CHOOSE h : KeepPart(array, cutoff, h, m)
           g == [i \in Nat |-> P(i)[i]]
           Solves(s) == s = [i \in Nat |-> IF i = 0 THEN <<>> ELSE KeepStep(array, cutoff, i, s[i - 1])]
           s0 == CHOOSE s : Solves(s)
<1>1. \A m \in Nat : KeepPart(array, cutoff, P(m), m)
  BY KeepExists
<1>2. \A i \in Nat : g[i] = IF i = 0 THEN <<>> ELSE KeepStep(array, cutoff, i, g[i - 1])
  <2> TAKE i \in Nat
  <2>1. P(i)[i] = IF i = 0 THEN <<>> ELSE KeepStep(array, cutoff, i, P(i)[i - 1])
    <3>1. PICK h : h = P(i) /\ KeepPart(array, cutoff, h, i)
      BY <1>1
    <3>2. h[i] = IF i = 0 THEN <<>> ELSE KeepStep(array, cutoff, i, h[i - 1])
      <4> HIDE DEF P
      <4>1. i \in 0 .. i
        OBVIOUS
      <4>2. \A j \in 0 .. i : h[j] = IF j = 0 THEN <<>> ELSE KeepStep(array, cutoff, j, h[j - 1])
        BY <3>1 DEF KeepPart
      <4> QED BY <4>1, <4>2
    <3> HIDE DEF P
    <3> QED BY <3>1, <3>2
  <2>2. i # 0 => P(i)[i - 1] = P(i - 1)[i - 1]
    BY <1>1, KeepUnique
  <2> QED BY <2>1, <2>2
<1>3. Solves(g)
  <2>1. g = [i \in Nat |-> g[i]]
    OBVIOUS
  <2> HIDE DEF g
  <2> QED BY <1>2, <2>1
<1>4. Solves(s0)
  <2> HIDE DEF Solves, g
  <2> QED BY <1>3
<1>5. \A m \in Nat : s0[m] = IF m = 0 THEN <<>> ELSE KeepStep(array, cutoff, m, s0[m - 1])
  <2> HIDE DEF s0
  <2> QED BY <1>4
<1>6. KeepLevels(array, cutoff) = s0
  BY DEF KeepLevels
<1> HIDE DEF s0
<1> QED BY <1>5, <1>6

\* How many events of an array that follows event b are before the cutoff.
Skipped(b, cutoff) == IF cutoff <= b + 1 THEN 0 ELSE cutoff - b - 1

\* An array follows event b when its events come one after the other from there.
Follows(array, b) == \A i \in 1 .. Len(array) : array[i] = b + i

\* What is left of an array of n events that follows b when k of them are old.
Leaves(rest, n, b, k) ==
    /\ k >= n => rest = <<>>
    /\ k < n => Len(rest) = n - k /\ \A j \in 1 .. Len(rest) : rest[j] = b + k + j

\* What the filter keeps: the events from the cutoff on, and of an array of
\* consecutive events its end.
LEMMA KeepFacts ==
    ASSUME NEW array \in Seq(Nat), NEW cutoff \in Nat, NEW rest,
           rest = Hist!NotOlder(array, cutoff)
    PROVE  /\ rest \in Seq(Nat) /\ Len(rest) <= Len(array)
           /\ \A j \in 1 .. Len(rest) : \E i \in 1 .. Len(array) :
                 rest[j] = array[i] /\ array[i] >= cutoff
           /\ \A b \in Nat : Follows(array, b) => Leaves(rest, Len(array), b, Skipped(b, cutoff))
<1> DEFINE F(n) == KeepLevels(array, cutoff)[n]
           L == Len(array)
           K(b) == Skipped(b, cutoff)
           A(n) == /\ F(n) \in Seq(Nat) /\ Len(F(n)) <= n
                   /\ \A j \in 1 .. Len(F(n)) : \E i \in 1 .. n :
                         F(n)[j] = array[i] /\ array[i] >= cutoff
           B(n, b) == /\ K(b) >= n => F(n) = <<>>
                      /\ K(b) < n => /\ Len(F(n)) = n - K(b)
                                     /\ \A j \in 1 .. Len(F(n)) : F(n)[j] = b + K(b) + j
           C(n) == \A b \in Nat : (\A i \in 1 .. L : array[i] = b + i) => B(n, b)
           S == {n \in Nat : n <= L => A(n) /\ C(n)}
<1>1. L \in Nat /\ \A i \in 1 .. L : array[i] \in Nat
  OBVIOUS
<1>2. Hist!NotOlder(array, cutoff) = F(L)
  BY DEF Hist!NotOlder, KeepLevels, KeepStep
<1>3. F(0) = <<>>
  BY KeepRecursion
<1>4. \A n \in Nat : F(n + 1) = IF array[n + 1] >= cutoff THEN Append(F(n), array[n + 1])
                                ELSE F(n)
  <2> TAKE n \in Nat
  <2>1. n + 1 \in Nat /\ n + 1 # 0 /\ (n + 1) - 1 = n
    OBVIOUS
  <2>2. F(n + 1) = KeepStep(array, cutoff, n + 1, F(n))
    BY <2>1, KeepRecursion
  <2> HIDE DEF F
  <2> QED BY <2>2 DEF KeepStep
<1> HIDE DEF F, L
<1>5. \A b \in Nat : K(b) \in Nat /\ \A i \in Nat \ {0} : b + i >= cutoff <=> i > K(b)
  <2> TAKE b \in Nat
  <2>1. CASE cutoff <= b + 1
    BY <2>1 DEF Skipped
  <2>2. CASE ~ (cutoff <= b + 1)
    BY <2>2 DEF Skipped
  <2> QED BY <2>1, <2>2
<1> HIDE DEF K
<1>6. 0 \in S
  <2>1. A(0)
    <3>1. <<>> \in Seq(Nat) /\ Len(<<>>) = 0 /\ 1 .. 0 = {}
      OBVIOUS
    <3>2. F(0) \in Seq(Nat) /\ Len(F(0)) = 0 /\ 1 .. Len(F(0)) = {}
      BY <1>3, <3>1
    <3> QED BY <3>2
  <2>2. C(0)
    BY <1>3, <1>5
  <2> QED BY <2>1, <2>2
<1>7. ASSUME NEW n \in Nat, n \in S, n + 1 <= L
      PROVE  A(n + 1) /\ C(n + 1)
  <2>0. A(n) /\ C(n)
    BY <1>1, <1>7
  <2>1. PICK e, x, y :
           /\ e \in Nat /\ x \in Seq(Nat) /\ e = array[n + 1] /\ x = F(n) /\ y = F(n + 1)
           /\ y = IF e >= cutoff THEN Append(x, e) ELSE x
    <3>1. array[n + 1] \in Nat
      BY <1>1, <1>7
    <3>2. F(n) \in Seq(Nat)
      BY <2>0
    <3>3. F(n + 1) = IF array[n + 1] >= cutoff THEN Append(F(n), array[n + 1]) ELSE F(n)
      BY <1>4
    <3> QED BY <3>1, <3>2, <3>3
  <2>2. /\ Len(x) \in Nat /\ Len(x) <= n
        /\ \A j \in 1 .. Len(x) : \E i \in 1 .. n : x[j] = array[i] /\ array[i] >= cutoff
    BY <2>0, <2>1
  <2>3. /\ Append(x, e) \in Seq(Nat) /\ Len(Append(x, e)) = Len(x) + 1
        /\ \A j \in 1 .. Len(x) : Append(x, e)[j] = x[j]
        /\ Append(x, e)[Len(x) + 1] = e
    BY <2>1
  <2>4. y \in Seq(Nat) /\ Len(y) <= n + 1
    <3>1. CASE e >= cutoff
      <4>1. y = Append(x, e)
        BY <2>1, <3>1
      <4> QED BY <2>2, <2>3, <4>1
    <3>2. CASE ~ (e >= cutoff)
      <4>1. y = x
        BY <2>1, <3>2
      <4> QED BY <2>1, <2>2, <4>1
    <3> QED BY <3>1, <3>2
  <2>5. ASSUME NEW j \in 1 .. Len(y)
        PROVE  \E i \in 1 .. (n + 1) : y[j] = array[i] /\ array[i] >= cutoff
    <3>1. CASE j \in 1 .. Len(x)
      <4>1. y[j] = x[j]
        BY <2>1, <2>3, <3>1
      <4>2. PICK i \in 1 .. n : x[j] = array[i] /\ array[i] >= cutoff
        BY <2>2, <3>1
      <4>3. i \in 1 .. (n + 1)
        OBVIOUS
      <4> QED BY <4>1, <4>2, <4>3
    <3>2. CASE j \notin 1 .. Len(x)
      <4>1. e >= cutoff /\ y = Append(x, e) /\ j = Len(x) + 1
        BY <2>1, <2>2, <2>3, <3>2
      <4>2. n + 1 \in 1 .. (n + 1) /\ y[j] = array[n + 1] /\ array[n + 1] >= cutoff
        BY <2>1, <2>3, <4>1
      <4> QED BY <4>2
    <3> QED BY <3>1, <3>2
  <2>6. A(n + 1)
    BY <2>1, <2>4, <2>5
  <2>7. ASSUME NEW b \in Nat, \A i \in 1 .. L : array[i] = b + i
        PROVE  B(n + 1, b)
    <3>1. PICK k \in Nat : k = K(b) /\ (e >= cutoff <=> n + 1 > k)
      <4>1. e = b + (n + 1)
        BY <1>1, <1>7, <2>1, <2>7
      <4>2. n + 1 \in Nat \ {0}
        OBVIOUS
      <4>3. K(b) \in Nat /\ (b + (n + 1) >= cutoff <=> n + 1 > K(b))
        BY <1>5, <4>2
      <4> QED BY <4>1, <4>3
    <3>2. /\ k >= n => x = <<>>
          /\ k < n => Len(x) = n - k /\ \A j \in 1 .. Len(x) : x[j] = b + k + j
      BY <2>0, <2>1, <2>7, <3>1
    <3>3. e = b + (n + 1)
      BY <1>1, <1>7, <2>1, <2>7
    <3>4. k >= n + 1 => y = <<>>
      BY <2>1, <3>1, <3>2
    <3>5. ASSUME k < n + 1
          PROVE  Len(y) = (n + 1) - k /\ \A j \in 1 .. Len(y) : y[j] = b + k + j
      <4>1. y = Append(x, e)
        BY <2>1, <3>1, <3>5
      <4>2. Len(x) = n - k /\ \A j \in 1 .. Len(x) : x[j] = b + k + j
        <5>1. CASE k < n
          BY <3>2, <5>1
        <5>2. CASE k = n
          <6>1. x = <<>> /\ Len(x) = 0
            BY <3>2, <5>2
          <6> QED BY <5>2, <6>1
        <5> QED BY <3>5, <5>1, <5>2
      <4>3. Len(y) = Len(x) + 1 /\ y[Len(x) + 1] = e
            /\ \A j \in 1 .. Len(x) : y[j] = x[j]
        BY <2>3, <4>1
      <4>4. Len(y) = (n + 1) - k
        BY <2>2, <4>2, <4>3
      <4>5. ASSUME NEW j \in 1 .. Len(y) PROVE y[j] = b + k + j
        <5>1. CASE j \in 1 .. Len(x)
          BY <4>2, <4>3, <5>1
        <5>2. CASE j \notin 1 .. Len(x)
          <6>1. j = Len(x) + 1 /\ j = n - k + 1
            BY <2>2, <4>2, <4>3, <5>2
          <6>2. y[j] = e
            BY <4>3, <6>1
          <6>3. e = b + k + (n - k + 1)
            BY <3>3
          <6> QED BY <6>1, <6>2, <6>3
        <5> QED BY <5>1, <5>2
      <4> QED BY <4>4, <4>5
    <3> QED BY <2>1, <3>1, <3>4, <3>5
  <2>8. C(n + 1)
    BY <2>7
  <2> QED BY <2>6, <2>8
<1>8. \A n \in Nat : n \in S => n + 1 \in S
  <2> TAKE n \in Nat
  <2> SUFFICES ASSUME n \in S, n + 1 <= L PROVE A(n + 1) /\ C(n + 1)
    OBVIOUS
  <2> HIDE DEF A, C, S
  <2> QED BY <1>7
<1>9. Nat \subseteq S
  <2> HIDE DEF S
  <2> QED BY <1>6, <1>8, SetInduction
<1>10. A(L) /\ C(L)
  <2> HIDE DEF A, C
  <2> QED BY <1>1, <1>9
<1>11. /\ rest \in Seq(Nat) /\ Len(rest) <= L
       /\ \A j \in 1 .. Len(rest) : \E i \in 1 .. L : rest[j] = array[i] /\ array[i] >= cutoff
  BY <1>2, <1>10
<1>12. \A b \in Nat : (\A i \in 1 .. L : array[i] = b + i) =>
          /\ K(b) >= L => rest = <<>>
          /\ K(b) < L => Len(rest) = L - K(b) /\ \A j \in 1 .. Len(rest) : rest[j] = b + K(b) + j
  BY <1>2, <1>10
<1>13. \A b \in Nat : Follows(array, b) => Leaves(rest, L, b, K(b))
  BY <1>12 DEF Follows, Leaves, L
<1> QED BY <1>11, <1>13 DEF K, L

-----------------------------------------------------------------------------
(* The history.                                                            *)

HistShapes ==
    /\ memory \in Seq(Nat) /\ Len(memory) <= MaxMemory
    /\ \A i \in 1 .. Len(memory) : memory[i] \in 1 .. MaxHistory /\ memory[i] \in index
    /\ index \subseteq 1 .. MaxHistory /\ persisted \subseteq 1 .. MaxHistory
    /\ replaying \subseteq 1 .. MaxHistory
    /\ archives \in [1 .. MaxDay -> SUBSET (1 .. MaxHistory)]
    /\ born \in 0 .. MaxHistory /\ day \in 1 .. MaxDay
    /\ reordered \in BOOLEAN /\ rewritten \in BOOLEAN

\* Until a query turns the array round, memory holds the latest events, one
\* after the other.
LatestInMemory ==
    ~ reordered =>
        /\ Len(memory) <= born
        /\ \A i \in 1 .. Len(memory) : memory[i] = (born - Len(memory)) + i

\* Until an archive is overwritten, the disk holds all the others.
OthersOnDisk ==
    ~ reordered /\ ~ rewritten => Hist!OnDisk = 1 .. (born - Len(memory))

HistInv == HistShapes /\ LatestInMemory /\ OthersOnDisk

LEMMA HistConstants ==
    /\ MaxHistory \in Nat /\ MaxDay \in Nat \ {0} /\ MaxMemory \in Nat
    /\ MaxMemory \div 2 \in 1 .. MaxMemory
    /\ \A n \in Nat : \A s \in Seq(Nat) : Len(s) = n => Hist!Range(s) = {s[i] : i \in 1 .. n}
<1>1. MaxHistory \in Nat /\ MaxDay \in Nat \ {0} /\ MaxMemory \in Nat \ {0, 1}
  BY ServersAssumption
<1>2. MaxMemory \div 2 \in 1 .. MaxMemory
  BY <1>1
<1>3. \A s \in Seq(Nat) : Hist!Range(s) = {s[i] : i \in 1 .. Len(s)}
  BY DEF Hist!Range
<1> QED BY <1>1, <1>2, <1>3

\* What a stretch of a sequence is.
LEMMA ShorterSeq ==
    ASSUME NEW s \in Seq(Nat), NEW m \in 1 .. Len(s), NEW n \in 1 .. Len(s), m <= n + 1
    PROVE  /\ SubSeq(s, m, n) \in Seq(Nat) /\ Len(SubSeq(s, m, n)) = n - m + 1
           /\ \A j \in 1 .. Len(SubSeq(s, m, n)) : SubSeq(s, m, n)[j] = s[m + j - 1]
<1>1. Len(s) \in Nat /\ n - m + 1 \in Nat
  OBVIOUS
<1>2. SubSeq(s, m, n) = [j \in 1 .. (n - m + 1) |-> s[j + m - 1]]
  OBVIOUS
<1>3. \A j \in 1 .. (n - m + 1) : j + m - 1 \in 1 .. Len(s) /\ j + m - 1 = m + j - 1
  BY <1>1
<1>4. SubSeq(s, m, n) \in [1 .. (n - m + 1) -> Nat]
  BY <1>2, <1>3
<1>5. SubSeq(s, m, n) \in Seq(Nat) /\ Len(SubSeq(s, m, n)) = n - m + 1
  BY <1>1, <1>4
<1> QED BY <1>2, <1>3, <1>5

LEMMA HistInvInit == Hist!HistInit => HistInv
<1> SUFFICES ASSUME Hist!HistInit PROVE HistInv
  OBVIOUS
<1> USE HistConstants
<1>1. memory = <<>> /\ memory \in Seq(Nat) /\ Len(memory) = 0 /\ 1 .. 0 = {}
  BY DEF Hist!HistInit
<1>2. HistShapes
  <2>1. 1 .. Len(memory) = {} /\ Len(memory) <= MaxMemory
    BY <1>1
  <2>2. /\ index = {} /\ persisted = {} /\ replaying = {} /\ born = 0 /\ day = 1
        /\ archives = [d \in 1 .. MaxDay |-> {}] /\ reordered = FALSE /\ rewritten = FALSE
    BY DEF Hist!HistInit
  <2>3. born \in 0 .. MaxHistory /\ day \in 1 .. MaxDay
    BY <2>2
  <2> QED BY <1>1, <2>1, <2>2, <2>3 DEF HistShapes
<1>3. LatestInMemory
  BY <1>1 DEF LatestInMemory, Hist!HistInit
<1>4. Hist!OnDisk = {} /\ born = 0
  BY DEF Hist!OnDisk, Hist!HistInit
<1>5. OthersOnDisk
  BY <1>1, <1>4 DEF OthersOnDisk
<1> QED BY <1>2, <1>3, <1>5 DEF HistInv

\* An event is appended; when memory overflows its first half goes to a file.
LEMMA AddEventStep ==
    ASSUME HistInv, Hist!addEvent
    PROVE  HistInv'
<1> USE HistConstants
<1> DEFINE half == MaxMemory \div 2
           array == Append(memory, born')
           L == Len(memory)
<1>1. /\ born' = born + 1 /\ born \in Nat /\ born' \in 1 .. MaxHistory
      /\ index' = index \cup {born'}
      /\ UNCHANGED <<archives, day, replaying, reordered, rewritten>>
  BY DEF Hist!addEvent, Hist!hints, HistInv, HistShapes
<1>2. memory \in Seq(Nat) /\ L \in Nat /\ L <= MaxMemory /\ half \in Nat \ {0} /\ half <= MaxMemory
  BY DEF HistInv, HistShapes
<1>3. /\ array \in Seq(Nat) /\ Len(array) = L + 1
      /\ \A i \in 1 .. L : array[i] = memory[i]
      /\ array[L + 1] = born'
  BY <1>1, <1>2
<1>4. \A i \in 1 .. (L + 1) : array[i] \in 1 .. MaxHistory /\ array[i] \in index'
  <2> TAKE i \in 1 .. (L + 1)
  <2>1. CASE i \in 1 .. L
    BY <1>1, <1>3, <2>1 DEF HistInv, HistShapes
  <2>2. CASE i = L + 1
    BY <1>1, <1>3, <2>2
  <2> QED BY <1>2, <2>1, <2>2
<1>5. ~ reordered => /\ L + 1 <= born'
                     /\ \A i \in 1 .. (L + 1) : array[i] = (born' - (L + 1)) + i
  <2> SUFFICES ASSUME ~ reordered
               PROVE  /\ L + 1 <= born'
                      /\ \A i \in 1 .. (L + 1) : array[i] = (born' - (L + 1)) + i
    OBVIOUS
  <2>1. L <= born /\ \A i \in 1 .. L : memory[i] = (born - L) + i
    BY DEF HistInv, LatestInMemory
  <2>2. ASSUME NEW i \in 1 .. (L + 1) PROVE array[i] = (born' - (L + 1)) + i
    <3>1. CASE i \in 1 .. L
      <4>1. array[i] = (born - L) + i
        BY <1>3, <2>1, <3>1
      <4> HIDE DEF L, array
      <4> QED BY <1>1, <1>2, <4>1
    <3>2. CASE i = L + 1
      <4>1. array[i] = born'
        BY <1>3, <3>2
      <4> HIDE DEF L, array
      <4> QED BY <1>1, <1>2, <3>2, <4>1
    <3> QED BY <1>2, <3>1, <3>2
  <2> HIDE DEF L
  <2> QED BY <1>1, <1>2, <2>1, <2>2
<1>6. ~ reordered /\ ~ rewritten => Hist!OnDisk = 1 .. (born - L)
  BY DEF HistInv, OthersOnDisk
<1>7. born' - (L + 1) = born - L
  BY <1>1, <1>2
<1>8. IF Len(array) > MaxMemory
      THEN /\ memory' = SubSeq(array, half + 1, Len(array))
           /\ persisted' = persisted \cup Hist!Range(SubSeq(array, 1, half))
      ELSE memory' = array /\ UNCHANGED persisted
  BY DEF Hist!addEvent, Hist!Spilled
<1> HIDE DEF array, L, half
<1>9. CASE ~ (Len(array) > MaxMemory)
  <2>1. memory' = array /\ UNCHANGED persisted /\ Len(memory') = L + 1
    BY <1>3, <1>8, <1>9
  <2>2. Hist!OnDisk' = Hist!OnDisk
    BY <1>1, <2>1 DEF Hist!OnDisk
  <2>3. L + 1 <= MaxMemory
    BY <1>2, <1>3, <1>9
  <2>4. HistShapes'
    BY <1>1, <1>3, <1>4, <2>1, <2>3 DEF HistInv, HistShapes
  <2>5. LatestInMemory'
    BY <1>1, <1>5, <2>1 DEF LatestInMemory
  <2>6. OthersOnDisk'
    BY <1>1, <1>6, <1>7, <2>1, <2>2 DEF OthersOnDisk
  <2> QED BY <2>4, <2>5, <2>6 DEF HistInv
<1>10. CASE Len(array) > MaxMemory
  <2>1. L = MaxMemory /\ Len(array) = L + 1
    BY <1>2, <1>3, <1>10
  <2>a. /\ 1 \in 1 .. Len(array) /\ half \in 1 .. Len(array) /\ 1 <= half + 1
        /\ half + 1 \in 1 .. Len(array) /\ L + 1 \in 1 .. Len(array)
        /\ half + 1 <= (L + 1) + 1
    BY <1>2, <2>1
  <2>2. PICK s \in Seq(Nat) : s = SubSeq(array, 1, half)
    BY <1>3, <2>a, ShorterSeq
  <2>3. Len(s) = half /\ \A i \in 1 .. half : s[i] = array[i]
    <3>1. /\ Len(s) = half - 1 + 1
          /\ \A j \in 1 .. Len(s) : s[j] = array[1 + j - 1]
      BY <1>3, <2>2, <2>a, ShorterSeq
    <3>2. half - 1 + 1 = half /\ \A j \in 1 .. half : 1 + j - 1 = j
      BY <1>2
    <3> QED BY <3>1, <3>2
  <2>4. persisted' = persisted \cup {array[i] : i \in 1 .. half}
    <3>1. Hist!Range(s) = {s[i] : i \in 1 .. half}
      BY <1>2, <2>3
    <3>2. Hist!Range(s) = {array[i] : i \in 1 .. half}
      BY <2>3, <3>1
    <3> QED BY <1>8, <1>10, <2>2, <3>2
  <2> DEFINE M == (L + 1) - half
  <2>5. M \in Nat /\ M <= MaxMemory /\ M <= L
    BY <1>2, <2>1
  <2>6. /\ memory' \in Seq(Nat) /\ Len(memory') = M
        /\ \A j \in 1 .. M : memory'[j] = array[half + j]
    <3>1. memory' = SubSeq(array, half + 1, L + 1) /\ half + 1 \in 1 .. (L + 1)
      BY <1>2, <1>8, <1>10, <2>1
    <3>2. /\ memory' \in Seq(Nat) /\ Len(memory') = (L + 1) - (half + 1) + 1
          /\ \A j \in 1 .. Len(memory') : memory'[j] = array[(half + 1) + j - 1]
      BY <1>3, <2>a, <3>1, ShorterSeq
    <3>3. Len(memory') = M
      BY <1>2, <3>2
    <3>4. \A j \in 1 .. M : (half + 1) + j - 1 = half + j
      BY <1>2
    <3> HIDE DEF M
    <3> QED BY <3>2, <3>3, <3>4
  <2>7. \A j \in 1 .. M : half + j \in 1 .. (L + 1)
    BY <1>2
  <2>8. HistShapes'
    <3>1. \A j \in 1 .. Len(memory') : memory'[j] \in 1 .. MaxHistory /\ memory'[j] \in index'
      BY <1>4, <2>6, <2>7
    <3>2. persisted' \subseteq 1 .. MaxHistory
      <4>1. \A i \in 1 .. half : i \in 1 .. (L + 1)
        BY <1>2, <2>1
      <4> QED BY <1>4, <2>4, <4>1 DEF HistInv, HistShapes
    <3>3. Len(memory') <= MaxMemory
      BY <2>5, <2>6
    <3> QED BY <1>1, <2>6, <3>1, <3>2, <3>3 DEF HistInv, HistShapes
  <2>9. LatestInMemory'
    <3> SUFFICES ASSUME ~ reordered'
                 PROVE  /\ Len(memory') <= born'
                        /\ \A j \in 1 .. Len(memory') : memory'[j] = (born' - Len(memory')) + j
      BY DEF LatestInMemory
    <3>1. L + 1 <= born' /\ \A i \in 1 .. (L + 1) : array[i] = (born' - (L + 1)) + i
      BY <1>1, <1>5
    <3>2. ASSUME NEW j \in 1 .. M PROVE memory'[j] = (born' - M) + j
      <4>1. memory'[j] = (born' - (L + 1)) + (half + j)
        BY <2>6, <2>7, <3>1
      <4>2. (born' - (L + 1)) + (half + j) = (born' - M) + j
        <5>1. born' \in Nat /\ L \in Nat /\ half \in Nat /\ j \in Nat
          BY <1>1, <1>2
        <5> HIDE DEF L, half
        <5> QED BY ONLY <5>1
      <4> HIDE DEF M
      <4> QED BY <4>1, <4>2
    <3>3. M <= born'
      BY <1>1, <1>2, <2>5, <3>1
    <3> HIDE DEF M
    <3> QED BY <2>6, <3>2, <3>3
  <2>10. OthersOnDisk'
    <3> SUFFICES ASSUME ~ reordered', ~ rewritten'
                 PROVE  Hist!OnDisk' = 1 .. (born' - Len(memory'))
      BY DEF OthersOnDisk
    <3>1. L + 1 <= born' /\ \A i \in 1 .. (L + 1) : array[i] = (born' - (L + 1)) + i
      BY <1>1, <1>5
    <3>2. Hist!OnDisk = 1 .. (born - L)
      BY <1>1, <1>6
    <3>3. Hist!OnDisk' = Hist!OnDisk \cup {array[i] : i \in 1 .. half}
      BY <1>1, <2>4 DEF Hist!OnDisk
    <3>4. {array[i] : i \in 1 .. half} = (born - L + 1) .. (born - L + half)
      <4>1. \A i \in 1 .. half : array[i] = (born - L) + i
        <5>1. \A i \in 1 .. half : i \in 1 .. (L + 1)
          BY <1>2, <2>1
        <5> QED BY <1>7, <3>1, <5>1
      <4>2. born - L \in Nat
        BY <1>1, <1>2, <3>1
      <4>3. ASSUME NEW e \in (born - L + 1) .. (born - L + half)
            PROVE  \E i \in 1 .. half : e = array[i]
        <5>1. e - (born - L) \in 1 .. half
          BY <1>2, <4>2
        <5>2. e = (born - L) + (e - (born - L))
          BY <4>2
        <5> QED BY <4>1, <5>1, <5>2
      <4>4. \A i \in 1 .. half : array[i] \in (born - L + 1) .. (born - L + half)
        BY <1>2, <4>1, <4>2
      <4> QED BY <4>3, <4>4
    <3>5. born' - M = born - L + half /\ born - L \in Nat
      BY <1>1, <1>2, <3>1
    <3>6. Hist!OnDisk' = 1 .. (born - L + half)
      <4>1. PICK a \in Nat : a = born - L
        BY <3>5
      <4>2. 1 .. a \cup ((a + 1) .. (a + half)) = 1 .. (a + half)
        BY <1>2
      <4> QED BY <3>2, <3>3, <3>4, <4>1, <4>2
    <3> HIDE DEF M
    <3> QED BY <2>6, <3>5, <3>6
  <2> QED BY <2>8, <2>9, <2>10 DEF HistInv
<1> QED BY <1>9, <1>10

\* A query that sorts memory rearranges it, and loses no promise but the order.
LEMMA QueryStep ==
    ASSUME HistInv, NEW asked, NEW order, Hist!queryEvents(asked, order)
    PROVE  HistInv'
<1> USE HistConstants
<1>1. /\ memory' \in Hist!sortEvents(memory, order) /\ reordered' = TRUE
      /\ UNCHANGED <<index, persisted, archives, day, born, replaying, rewritten>>
  BY DEF Hist!queryEvents
<1>2. memory \in Seq(Nat) /\ Len(memory) \in Nat
  BY DEF HistInv, HistShapes
<1>3. memory' \in [1 .. Len(memory) -> Hist!Range(memory)]
  BY <1>1 DEF Hist!sortEvents
<1>4. Hist!Range(memory) = {memory[i] : i \in 1 .. Len(memory)}
  BY <1>2
<1>5. Hist!Range(memory) \subseteq Nat
  BY <1>2, <1>4
<1>6. memory' \in Seq(Nat) /\ Len(memory') = Len(memory)
  BY <1>2, <1>3, <1>5
<1>7. \A i \in 1 .. Len(memory') : memory'[i] \in 1 .. MaxHistory /\ memory'[i] \in index'
  <2> TAKE i \in 1 .. Len(memory')
  <2>1. PICK k \in 1 .. Len(memory) : memory'[i] = memory[k]
    BY <1>3, <1>4, <1>6
  <2> QED BY <1>1, <2>1 DEF HistInv, HistShapes
<1>8. HistShapes'
  BY <1>1, <1>6, <1>7 DEF HistInv, HistShapes
<1> QED BY <1>1, <1>8 DEF HistInv, LatestInMemory, OthersOnDisk

\* Archiving takes the old events out of memory into the file of the day.
LEMMA ArchiveStep ==
    ASSUME HistInv, NEW cutoff \in 1 .. MaxHistory, Hist!archiveOldEvents(cutoff)
    PROVE  HistInv'
<1> USE HistConstants
<1> DEFINE L == Len(memory)
           old == {e \in Hist!Range(memory) : e < cutoff}
<1>1. /\ archives' = [archives EXCEPT ![day] = old]
      /\ rewritten' = (rewritten \/ archives[day] # {})
      /\ memory' = Hist!NotOlder(memory, cutoff)
      /\ index' = Hist!Range(memory')
      /\ UNCHANGED <<persisted, day, born, replaying, reordered>>
  BY DEF Hist!archiveOldEvents, Hist!rebuildIndex
<1>2. /\ memory \in Seq(Nat) /\ L \in Nat /\ L <= MaxMemory /\ cutoff \in Nat
      /\ born \in Nat /\ day \in 1 .. MaxDay
      /\ archives \in [1 .. MaxDay -> SUBSET (1 .. MaxHistory)]
      /\ \A i \in 1 .. L : memory[i] \in 1 .. MaxHistory
  BY DEF HistInv, HistShapes
<1>3. Hist!Range(memory) = {memory[i] : i \in 1 .. L}
  BY <1>2
<1>4. old \subseteq 1 .. MaxHistory
  BY <1>2, <1>3
<1>5. /\ memory' \in Seq(Nat) /\ Len(memory') <= L /\ Len(memory') \in Nat
      /\ \A j \in 1 .. Len(memory') : \E i \in 1 .. L :
            memory'[j] = memory[i] /\ memory[i] >= cutoff
  <2>1. memory' = Hist!NotOlder(memory, cutoff) /\ memory \in Seq(Nat) /\ cutoff \in Nat
    BY <1>1, <1>2
  <2>2. /\ memory' \in Seq(Nat) /\ Len(memory') <= L
        /\ \A j \in 1 .. Len(memory') : \E i \in 1 .. L :
              memory'[j] = memory[i] /\ memory[i] >= cutoff
    <3>1. PICK array, rest : /\ array \in Seq(Nat) /\ array = memory /\ rest = memory'
                             /\ rest = Hist!NotOlder(array, cutoff)
      BY <2>1
    <3>2. /\ rest \in Seq(Nat) /\ Len(rest) <= Len(array)
          /\ \A j \in 1 .. Len(rest) : \E i \in 1 .. Len(array) :
                rest[j] = array[i] /\ array[i] >= cutoff
      BY ONLY <2>1, <3>1, KeepFacts
    <3> QED BY <3>1, <3>2
  <2> QED BY <2>2
<1>6. index' = {memory'[j] : j \in 1 .. Len(memory')}
  BY <1>1, <1>5
<1>7. \A j \in 1 .. Len(memory') : memory'[j] \in 1 .. MaxHistory
  BY <1>2, <1>5
<1>8. HistShapes'
  <2>1. index' \subseteq 1 .. MaxHistory
        /\ \A j \in 1 .. Len(memory') : memory'[j] \in index'
    BY <1>6, <1>7
  <2>2. Len(memory') <= MaxMemory
    BY <1>2, <1>5
  <2>3. archives' \in [1 .. MaxDay -> SUBSET (1 .. MaxHistory)]
    <3> HIDE DEF old
    <3> QED BY <1>1, <1>2, <1>4
  <2>4. rewritten' \in BOOLEAN
    BY <1>1
  <2> QED BY <1>1, <1>5, <1>7, <2>1, <2>2, <2>3, <2>4 DEF HistInv, HistShapes
<1>9. ASSUME ~ reordered
      PROVE  /\ LatestInMemory'
             /\ L - Len(memory') \in Nat
             /\ old = (born - L + 1) .. (born - Len(memory')) /\ born - L \in Nat
  <2>1. L <= born /\ \A i \in 1 .. L : memory[i] = (born - L) + i
    BY <1>9 DEF HistInv, LatestInMemory
  <2>2. PICK b \in Nat : b = born - L /\ \A i \in 1 .. L : memory[i] = b + i
    <3>1. born - L \in Nat
      BY <1>2, <2>1
    <3> HIDE DEF L
    <3> QED BY <2>1, <3>1
  <2>3. PICK k \in Nat : k = Skipped(b, cutoff)
    <3>1. b \in Nat /\ cutoff \in Nat
      BY <1>2
    <3>2. Skipped(b, cutoff) \in Nat
      BY ONLY <3>1 DEF Skipped
    <3> QED BY <3>2
  <2>4. /\ k >= L => memory' = <<>>
        /\ k < L => /\ Len(memory') = L - k
                    /\ \A j \in 1 .. Len(memory') : memory'[j] = b + k + j
    <3>1. memory' = Hist!NotOlder(memory, cutoff) /\ memory \in Seq(Nat) /\ cutoff \in Nat
      BY <1>1, <1>2
    <3>2. Follows(memory, b)
      BY <2>2 DEF Follows
    <3>3. Leaves(memory', Len(memory), b, Skipped(b, cutoff))
      BY <3>1, <3>2, KeepFacts
    <3> QED BY <2>3, <3>3 DEF Leaves
  <2>5. PICK m \in Nat : m = (IF k >= L THEN L ELSE k) /\ m <= L
    BY <1>2
  <2>6. Len(memory') = L - m
    BY <1>2, <2>4, <2>5
  <2>7. \A i \in 1 .. L : memory[i] < cutoff <=> i <= m
    <3> TAKE i \in 1 .. L
    <3>1. memory[i] = b + i
      BY <2>2
    <3>2. b + i < cutoff <=> i <= k
      BY <1>2, <2>3 DEF Skipped
    <3>3. i <= k <=> i <= m
      BY <1>2, <2>5
    <3> QED BY <3>1, <3>2, <3>3
  <2>8. old = (b + 1) .. (b + m)
    <3>1. ASSUME NEW e \in old PROVE e \in (b + 1) .. (b + m)
      <4>1. PICK i \in 1 .. L : e = memory[i] /\ memory[i] < cutoff
        BY <1>3, <3>1
      <4> QED BY <2>2, <2>7, <4>1
    <3>2. ASSUME NEW e \in (b + 1) .. (b + m) PROVE e \in old
      <4>1. e - b \in 1 .. L /\ e - b <= m /\ b + (e - b) = e
        BY <1>2, <2>5
      <4>2. memory[e - b] = e /\ memory[e - b] < cutoff
        BY <2>2, <2>7, <4>1
      <4> QED BY <1>3, <4>1, <4>2
    <3> HIDE DEF old
    <3> QED BY <3>1, <3>2
  <2>9. ASSUME NEW j \in 1 .. Len(memory')
        PROVE  memory'[j] = (born - Len(memory')) + j
    <3>1. k < L
      BY <1>2, <2>4, <2>6, <2>9
    <3>2. memory'[j] = b + k + j
      BY <2>4, <2>9, <3>1
    <3>3. m = k
      BY <1>2, <2>5, <3>1
    <3>4. born - Len(memory') = b + k
      BY <1>2, <2>2, <2>6, <3>3
    <3> QED BY <3>2, <3>4
  <2>10. LatestInMemory'
    <3>1. Len(memory') <= born
      BY <1>2, <1>5, <2>1
    <3> QED BY <1>1, <2>9, <3>1 DEF LatestInMemory
  <2>11. born - Len(memory') = b + m /\ L - Len(memory') \in Nat
    BY <1>2, <2>2, <2>6
  <2> HIDE DEF old
  <2> QED BY <2>2, <2>8, <2>10, <2>11
<1>10. LatestInMemory'
  <2>1. CASE ~ reordered
    BY <1>9, <2>1
  <2>2. CASE reordered
    BY <1>1, <2>2 DEF LatestInMemory
  <2> QED BY <2>1, <2>2
<1>11. OthersOnDisk'
  <2> SUFFICES ASSUME ~ reordered', ~ rewritten'
               PROVE  Hist!OnDisk' = 1 .. (born' - Len(memory'))
    BY DEF OthersOnDisk
  <2>1. ~ reordered /\ ~ rewritten /\ archives[day] = {}
    BY <1>1 DEF HistInv, HistShapes
  <2>2. Hist!OnDisk = 1 .. (born - L)
    BY <2>1 DEF HistInv, OthersOnDisk
  <2> HIDE DEF old
  <2>3. Hist!OnDisk' = Hist!OnDisk \cup old
    <3>1. /\ archives'[day] = old
          /\ \A d \in 1 .. MaxDay : d # day => archives'[d] = archives[d]
      BY <1>1, <1>2
    <3>2. Hist!OnDisk' = persisted \cup UNION {archives'[d] : d \in 1 .. MaxDay}
      BY <1>1 DEF Hist!OnDisk
    <3>3. Hist!OnDisk = persisted \cup UNION {archives[d] : d \in 1 .. MaxDay}
      BY DEF Hist!OnDisk
    <3>4. ASSUME NEW e
          PROVE  (\E d \in 1 .. MaxDay : e \in archives'[d])
                    <=> (\E d \in 1 .. MaxDay : e \in archives[d]) \/ e \in old
      <4>1. ASSUME NEW d \in 1 .. MaxDay, e \in archives'[d]
            PROVE  (\E c \in 1 .. MaxDay : e \in archives[c]) \/ e \in old
        BY <3>1, <4>1
      <4>2. ASSUME NEW d \in 1 .. MaxDay, e \in archives[d]
            PROVE  \E c \in 1 .. MaxDay : e \in archives'[c]
        <5>1. d # day
          BY <2>1, <4>2
        <5> QED BY <3>1, <4>2, <5>1
      <4>3. e \in old => \E c \in 1 .. MaxDay : e \in archives'[c]
        BY <1>2, <3>1
      <4> QED BY <4>1, <4>2, <4>3
    <3>5. ASSUME NEW e
          PROVE  /\ e \in Hist!OnDisk' <=> e \in persisted \/ \E d \in 1 .. MaxDay : e \in archives'[d]
                 /\ e \in Hist!OnDisk <=> e \in persisted \/ \E d \in 1 .. MaxDay : e \in archives[d]
      BY <3>2, <3>3
    <3>6. \A e : e \in Hist!OnDisk' <=> e \in Hist!OnDisk \/ e \in old
      BY <3>4, <3>5
    <3> HIDE DEF Hist!OnDisk
    <3> QED BY <3>6
  <2>4. PICK a \in Nat, c \in Nat : a = born - L /\ c = born - Len(memory') /\ a <= c
    <3>1. born - L \in Nat /\ L - Len(memory') \in Nat
      BY <1>9, <2>1
    <3>2. born - Len(memory') \in Nat /\ born - L <= born - Len(memory')
      BY <1>2, <1>5, <3>1
    <3> HIDE DEF L
    <3> QED BY <3>1, <3>2
  <2>5. old = (a + 1) .. c
    BY <1>9, <2>1, <2>4
  <2>6. 1 .. a \cup ((a + 1) .. c) = 1 .. c
    BY <2>4
  <2>7. Hist!OnDisk' = 1 .. c /\ born' - Len(memory') = c
    BY <1>1, <2>2, <2>3, <2>4, <2>5, <2>6
  <2> QED BY <2>7
<1> QED BY <1>8, <1>10, <1>11 DEF HistInv

\* Days and replays leave the events alone.
LEMMA HistFrame ==
    ASSUME HistInv, UNCHANGED <<memory, index, persisted, archives, born, reordered, rewritten>>,
           day' \in 1 .. MaxDay, replaying' \subseteq 1 .. MaxHistory
    PROVE  HistInv'
<1>1. Hist!OnDisk' = Hist!OnDisk
  BY DEF Hist!OnDisk
<1> QED BY <1>1 DEF HistInv, HistShapes, LatestInMemory, OthersOnDisk

LEMMA HistInvNext == HistInv /\ [Hist!HistNext]_Hist!histVars => HistInv'
<1> SUFFICES ASSUME HistInv, [Hist!HistNext]_Hist!histVars PROVE HistInv'
  OBVIOUS
<1> USE HistConstants
<1>0. day \in 1 .. MaxDay /\ replaying \subseteq 1 .. MaxHistory
  BY DEF HistInv, HistShapes
<1>1. CASE UNCHANGED Hist!histVars
  BY <1>0, <1>1, HistFrame DEF Hist!histVars
<1>2. CASE Hist!NextDay
  BY <1>0, <1>2, HistFrame DEF Hist!NextDay, Hist!hints
<1>3. ASSUME NEW asked, Hist!startReplay(asked) PROVE HistInv'
  <2>1. memory \in Seq(Nat) /\ Len(memory) \in Nat
    BY DEF HistInv, HistShapes
  <2>2. Hist!Range(memory) = {memory[i] : i \in 1 .. Len(memory)}
    BY <2>1
  <2>3. Hist!Range(memory) \subseteq 1 .. MaxHistory /\ index \subseteq 1 .. MaxHistory
    BY <2>2 DEF HistInv, HistShapes
  <2>4. replaying' \subseteq 1 .. MaxHistory
    BY <1>3, <2>3 DEF Hist!startReplay, Hist!queryFromIndex
  <2> QED BY <1>0, <1>3, <2>4, HistFrame DEF Hist!startReplay, Hist!hints
<1>4. ASSUME NEW e, Hist!replayTimer(e) PROVE HistInv'
  BY <1>0, <1>4, HistFrame DEF Hist!replayTimer, Hist!hints
<1>5. CASE Hist!stopReplay
  BY <1>0, <1>5, HistFrame DEF Hist!stopReplay
<1> QED
  BY <1>1, <1>2, <1>3, <1>4, <1>5, AddEventStep, QueryStep, ArchiveStep DEF Hist!HistNext

LEMMA HistInvPromise == HistInv => Hist!HistTypeOK /\ Hist!HistoryComplete /\ Hist!MemoryIndexed
<1> SUFFICES ASSUME HistInv PROVE Hist!HistTypeOK /\ Hist!HistoryComplete /\ Hist!MemoryIndexed
  OBVIOUS
<1> USE HistConstants
<1>1. memory \in Seq(Nat) /\ Len(memory) \in Nat /\ born \in Nat
  BY DEF HistInv, HistShapes
<1>2. Hist!Range(memory) = {memory[i] : i \in 1 .. Len(memory)}
  BY <1>1
<1>3. Hist!HistTypeOK /\ Hist!MemoryIndexed
  BY <1>2 DEF HistInv, HistShapes, Hist!HistTypeOK, Hist!MemoryIndexed
<1>4. ASSUME ~ reordered, ~ rewritten
      PROVE  /\ Hist!Range(memory) \cup Hist!OnDisk = 1 .. born
             /\ \A e \in Hist!Range(memory), f \in Hist!OnDisk : f < e
  <2>1. PICK a \in Nat : /\ a = born - Len(memory) /\ Hist!OnDisk = 1 .. a
                         /\ \A i \in 1 .. Len(memory) : memory[i] = a + i
    BY <1>1, <1>4 DEF HistInv, LatestInMemory, OthersOnDisk
  <2>2. ASSUME NEW e \in (a + 1) .. born PROVE e \in Hist!Range(memory)
    <3>1. e - a \in 1 .. Len(memory) /\ a + (e - a) = e
      BY <1>1, <2>1
    <3> QED BY <1>2, <2>1, <3>1
  <2>3. \A i \in 1 .. Len(memory) : memory[i] \in (a + 1) .. born
    BY <1>1, <2>1
  <2>4. Hist!Range(memory) = (a + 1) .. born
    BY <1>2, <2>2, <2>3
  <2>5. 1 .. a \cup ((a + 1) .. born) = 1 .. born
    BY <1>1, <2>1
  <2>6. \A e \in (a + 1) .. born, f \in 1 .. a : f < e
    BY <1>1
  <2> QED BY <2>1, <2>4, <2>5, <2>6
<1> QED BY <1>3, <1>4 DEF Hist!HistoryComplete
-----------------------------------------------------------------------------
(* PartialFills.  The recursive definitions of the two trees have          *)
(* solutions, level by level.                                              *)

NodeStep(nodes) == IF Len(nodes) = 1 THEN nodes ELSE Fills!PairUp(nodes)
HashStep(nodes) == IF Len(nodes) = 1 THEN nodes ELSE Fills!PairHashes(nodes)

\* The levels of buildTree.
NodePart(leaves, h, n) ==
    h = [i \in 0 .. n |-> IF i = 0 THEN leaves ELSE NodeStep(h[i - 1])]
NodeLevels(leaves) ==
    CHOOSE s : s = [i \in Nat |-> IF i = 0 THEN leaves ELSE NodeStep(s[i - 1])]

LEMMA NodeExists ==
    ASSUME NEW leaves
    PROVE  \A n \in Nat : \E h : NodePart(leaves, h, n)
<1> DEFINE S == {n \in Nat : \E h : NodePart(leaves, h, n)}
<1>1. 0 \in S
  <2> DEFINE h == [i \in 0 .. 0 |-> leaves]
  <2>1. NodePart(leaves, h, 0)
    BY DEF NodePart
  <2> QED BY <2>1
<1>2. ASSUME NEW n \in Nat, n \in S
      PROVE  n + 1 \in S
  <2>1. PICK h : NodePart(leaves, h, n)
    BY <1>2
  <2> DEFINE k == [i \in 0 .. (n + 1) |->
                     IF i = n + 1 THEN NodeStep(h[n]) ELSE h[i]]
  <2>2. \A i \in 0 .. n : h[i] = IF i = 0 THEN leaves ELSE NodeStep(h[i - 1])
    BY <2>1 DEF NodePart
  <2>3. \A i \in 0 .. (n + 1) : k[i] = IF i = 0 THEN leaves ELSE NodeStep(k[i - 1])
    BY <2>2
  <2>4. NodePart(leaves, k, n + 1)
    BY <2>3 DEF NodePart
  <2> QED BY <2>4
<1>3. Nat \subseteq S
  <2> HIDE DEF S
  <2> QED BY <1>1, <1>2, SetInduction
<1> QED BY <1>3

LEMMA NodeUnique ==
    ASSUME NEW leaves, NEW g, NEW h, NEW m \in Nat, NEW n \in Nat,
           NodePart(leaves, g, m), NodePart(leaves, h, n)
    PROVE  \A i \in Nat : i <= m /\ i <= n => g[i] = h[i]
<1> DEFINE S == {i \in Nat : i <= m /\ i <= n => g[i] = h[i]}
<1>1. \A i \in 0 .. m : g[i] = IF i = 0 THEN leaves ELSE NodeStep(g[i - 1])
  BY DEF NodePart
<1>2. \A i \in 0 .. n : h[i] = IF i = 0 THEN leaves ELSE NodeStep(h[i - 1])
  BY DEF NodePart
<1>3. 0 \in S
  BY <1>1, <1>2
<1>4. \A i \in Nat : i \in S => i + 1 \in S
  BY <1>1, <1>2
<1>5. Nat \subseteq S
  <2> HIDE DEF S
  <2> QED BY <1>3, <1>4, SetInduction
<1> QED BY <1>5

LEMMA NodeRecursion ==
    ASSUME NEW leaves, NEW n \in Nat
    PROVE  NodeLevels(leaves)[n] =
             IF n = 0 THEN leaves ELSE NodeStep(NodeLevels(leaves)[n - 1])
<1> DEFINE P(m) == CHOOSE h : NodePart(leaves, h, m)
           g == [i \in Nat |-> P(i)[i]]
           Solves(s) == s = [i \in Nat |-> IF i = 0 THEN leaves ELSE NodeStep(s[i - 1])]
           s0 == CHOOSE s : Solves(s)
<1>1. \A m \in Nat : NodePart(leaves, P(m), m)
  BY NodeExists
<1>2. \A i \in Nat : g[i] = IF i = 0 THEN leaves ELSE NodeStep(g[i - 1])
  <2> TAKE i \in Nat
  <2>1. P(i)[i] = IF i = 0 THEN leaves ELSE NodeStep(P(i)[i - 1])
    <3>1. PICK h : h = P(i) /\ NodePart(leaves, h, i)
      BY <1>1
    <3>2. h[i] = IF i = 0 THEN leaves ELSE NodeStep(h[i - 1])
      <4> HIDE DEF P
      <4>1. i \in 0 .. i
        OBVIOUS
      <4>2. \A j \in 0 .. i : h[j] = IF j = 0 THEN leaves ELSE NodeStep(h[j - 1])
        BY <3>1 DEF NodePart
      <4> QED BY <4>1, <4>2
    <3> HIDE DEF P
    <3> QED BY <3>1, <3>2
  <2>2. i # 0 => P(i)[i - 1] = P(i - 1)[i - 1]
    BY <1>1, NodeUnique
  <2> QED BY <2>1, <2>2
<1>3. Solves(g)
  <2>1. g = [i \in Nat |-> g[i]]
    OBVIOUS
  <2> HIDE DEF g
  <2> QED BY <1>2, <2>1
<1>4. Solves(s0)
  <2> HIDE DEF Solves, g
  <2> QED BY <1>3
<1>5. \A m \in Nat : s0[m] = IF m = 0 THEN leaves ELSE NodeStep(s0[m - 1])
  <2> HIDE DEF s0
  <2> QED BY <1>4
<1>6. NodeLevels(leaves) = s0
  BY DEF NodeLevels
<1> HIDE DEF s0
<1> QED BY <1>5, <1>6

\* The levels of hashLockForMultipleFills.
HashPart(hashes, h, n) ==
    h = [i \in 0 .. n |-> IF i = 0 THEN hashes ELSE HashStep(h[i - 1])]
HashLevels(hashes) ==
    CHOOSE s : s = [i \in Nat |-> IF i = 0 THEN hashes ELSE HashStep(s[i - 1])]

LEMMA HashExists ==
    ASSUME NEW hashes
    PROVE  \A n \in Nat : \E h : HashPart(hashes, h, n)
<1> DEFINE S == {n \in Nat : \E h : HashPart(hashes, h, n)}
<1>1. 0 \in S
  <2> DEFINE h == [i \in 0 .. 0 |-> hashes]
  <2>1. HashPart(hashes, h, 0)
    BY DEF HashPart
  <2> QED BY <2>1
<1>2. ASSUME NEW n \in Nat, n \in S
      PROVE  n + 1 \in S
  <2>1. PICK h : HashPart(hashes, h, n)
    BY <1>2
  <2> DEFINE k == [i \in 0 .. (n + 1) |->
                     IF i = n + 1 THEN HashStep(h[n]) ELSE h[i]]
  <2>2. \A i \in 0 .. n : h[i] = IF i = 0 THEN hashes ELSE HashStep(h[i - 1])
    BY <2>1 DEF HashPart
  <2>3. \A i \in 0 .. (n + 1) : k[i] = IF i = 0 THEN hashes ELSE HashStep(k[i - 1])
    BY <2>2
  <2>4. HashPart(hashes, k, n + 1)
    BY <2>3 DEF HashPart
  <2> QED BY <2>4
<1>3. Nat \subseteq S
  <2> HIDE DEF S
  <2> QED BY <1>1, <1>2, SetInduction
<1> QED BY <1>3

LEMMA HashUnique ==
    ASSUME NEW hashes, NEW g, NEW h, NEW m \in Nat, NEW n \in Nat,
           HashPart(hashes, g, m), HashPart(hashes, h, n)
    PROVE  \A i \in Nat : i <= m /\ i <= n => g[i] = h[i]
<1> DEFINE S == {i \in Nat : i <= m /\ i <= n => g[i] = h[i]}
<1>1. \A i \in 0 .. m : g[i] = IF i = 0 THEN hashes ELSE HashStep(g[i - 1])
  BY DEF HashPart
<1>2. \A i \in 0 .. n : h[i] = IF i = 0 THEN hashes ELSE HashStep(h[i - 1])
  BY DEF HashPart
<1>3. 0 \in S
  BY <1>1, <1>2
<1>4. \A i \in Nat : i \in S => i + 1 \in S
  BY <1>1, <1>2
<1>5. Nat \subseteq S
  <2> HIDE DEF S
  <2> QED BY <1>3, <1>4, SetInduction
<1> QED BY <1>5

LEMMA HashRecursion ==
    ASSUME NEW hashes, NEW n \in Nat
    PROVE  HashLevels(hashes)[n] =
             IF n = 0 THEN hashes ELSE HashStep(HashLevels(hashes)[n - 1])
<1> DEFINE P(m) == CHOOSE h : HashPart(hashes, h, m)
           g == [i \in Nat |-> P(i)[i]]
           Solves(s) == s = [i \in Nat |-> IF i = 0 THEN hashes ELSE HashStep(s[i - 1])]
           s0 == CHOOSE s : Solves(s)
<1>1. \A m \in Nat : HashPart(hashes, P(m), m)
  BY HashExists
<1>2. \A i \in Nat : g[i] = IF i = 0 THEN hashes ELSE HashStep(g[i - 1])
  <2> TAKE i \in Nat
  <2>1. P(i)[i] = IF i = 0 THEN hashes ELSE HashStep(P(i)[i - 1])
    <3>1. PICK h : h = P(i) /\ HashPart(hashes, h, i)
      BY <1>1
    <3>2. h[i] = IF i = 0 THEN hashes ELSE HashStep(h[i - 1])
      <4> HIDE DEF P
      <4>1. i \in 0 .. i
        OBVIOUS
      <4>2. \A j \in 0 .. i : h[j] = IF j = 0 THEN hashes ELSE HashStep(h[j - 1])
        BY <3>1 DEF HashPart
      <4> QED BY <4>1, <4>2
    <3> HIDE DEF P
    <3> QED BY <3>1, <3>2
  <2>2. i # 0 => P(i)[i - 1] = P(i - 1)[i - 1]
    BY <1>1, HashUnique
  <2> QED BY <2>1, <2>2
<1>3. Solves(g)
  <2>1. g = [i \in Nat |-> g[i]]
    OBVIOUS
  <2> HIDE DEF g
  <2> QED BY <1>2, <2>1
<1>4. Solves(s0)
  <2> HIDE DEF Solves, g
  <2> QED BY <1>3
<1>5. \A m \in Nat : s0[m] = IF m = 0 THEN hashes ELSE HashStep(s0[m - 1])
  <2> HIDE DEF s0
  <2> QED BY <1>4
<1>6. HashLevels(hashes) = s0
  BY DEF HashLevels
<1> HIDE DEF s0
<1> QED BY <1>5, <1>6

-----------------------------------------------------------------------------
(* The two trees.                                                          *)

\* A level of nodes and a level of hashes with the same hashes.
SameLevel(x, y, m) ==
    /\ x = [i \in 1 .. m |-> x[i]] /\ y = [i \in 1 .. m |-> y[i]]
    /\ \A i \in 1 .. m : y[i] = x[i].hash

LEMMA LevelLength ==
    ASSUME NEW m \in Nat, NEW x, x = [i \in 1 .. m |-> x[i]]
    PROVE  Len(x) = m
<1>1. PICK S : S = {x[i] : i \in 1 .. m}
  OBVIOUS
<1>2. \A i \in 1 .. m : x[i] \in S
  BY <1>1
<1>3. x \in [1 .. m -> S]
  BY <1>2
<1> QED BY <1>3

\* Pairing keeps the levels alike: an odd last node is hashed with itself in both.
LEMMA SamePairs ==
    ASSUME NEW x, NEW y, NEW m \in Nat \ {0}, SameLevel(x, y, m)
    PROVE  \E p \in Nat \ {0} : SameLevel(NodeStep(x), HashStep(y), p)
<1>1. Len(x) = m /\ Len(y) = m
  BY LevelLength DEF SameLevel
<1>2. CASE m = 1
  BY <1>1, <1>2 DEF NodeStep, HashStep
<1>3. CASE m # 1
  <2> DEFINE p == (m + 1) \div 2
             u == Fills!PairUp(x)
             v == Fills!PairHashes(y)
  <2>1. p \in Nat \ {0} /\ \A k \in 1 .. p : 2 * k - 1 \in 1 .. m
    OBVIOUS
  <2>2. NodeStep(x) = u /\ HashStep(y) = v
    BY <1>1, <1>3 DEF NodeStep, HashStep
  <2>3. u = [k \in 1 .. p |->
                IF 2 * k <= m
                THEN Fills!Node(<<x[2 * k - 1].hash, x[2 * k].hash>>, <<x[2 * k - 1], x[2 * k]>>)
                ELSE Fills!Node(<<x[2 * k - 1].hash, x[2 * k - 1].hash>>, <<x[2 * k - 1]>>)]
    BY <1>1 DEF Fills!PairUp
  <2>4. v = [k \in 1 .. p |-> <<y[2 * k - 1], IF 2 * k <= m THEN y[2 * k] ELSE y[2 * k - 1]>>]
    BY <1>1 DEF Fills!PairHashes
  <2> HIDE DEF u, v, p
  <2>5. u = [k \in 1 .. p |-> u[k]] /\ v = [k \in 1 .. p |-> v[k]]
    BY <2>3, <2>4
  <2>6. ASSUME NEW k \in 1 .. p PROVE v[k] = u[k].hash
    <3>1. k \in Nat /\ 2 * k - 1 \in 1 .. m /\ y[2 * k - 1] = x[2 * k - 1].hash
      BY <2>1 DEF SameLevel
    <3>2. CASE 2 * k <= m
      <4>1. y[2 * k] = x[2 * k].hash
        <5>1. 2 * k \in 1 .. m
          BY <3>1, <3>2
        <5> QED BY <5>1 DEF SameLevel
      <4>2. u[k].hash = <<x[2 * k - 1].hash, x[2 * k].hash>>
        BY <2>3, <3>2 DEF Fills!Node
      <4>3. v[k] = <<y[2 * k - 1], y[2 * k]>>
        BY <2>4, <3>2
      <4> QED BY <3>1, <4>1, <4>2, <4>3
    <3>3. CASE ~ (2 * k <= m)
      <4>1. u[k].hash = <<x[2 * k - 1].hash, x[2 * k - 1].hash>>
        BY <2>3, <3>3 DEF Fills!Node
      <4>2. v[k] = <<y[2 * k - 1], y[2 * k - 1]>>
        BY <2>4, <3>3
      <4> QED BY <3>1, <4>1, <4>2
    <3> QED BY <3>2, <3>3
  <2> QED BY <2>1, <2>2, <2>5, <2>6 DEF SameLevel
<1> QED BY <1>2, <1>3

\* The hash lock published for an order is the root its proofs are checked
\* against, for any number of parts.
LEMMA TreesAgree ==
    ASSUME NEW n \in Nat \ {0}
    PROVE  Fills!hashLockForMultipleFills([i \in 1 .. n |-> <<i>>]) = Fills!Tree(n).hash
<1> DEFINE L == Fills!Leaves(n)
           H == [i \in 1 .. n |-> <<i>>]
           X(k) == NodeLevels(L)[k]
           Y(k) == HashLevels(H)[k]
           S == {k \in Nat : \E m \in Nat \ {0} : SameLevel(X(k), Y(k), m)}
<1>1. SameLevel(L, H, n)
  BY DEF Fills!Leaves, Fills!Node, SameLevel
<1>2. Len(L) = n /\ Len(H) = n
  <2>1. L = [i \in 1 .. n |-> L[i]] /\ H = [i \in 1 .. n |-> H[i]]
    BY <1>1 DEF SameLevel
  <2> HIDE DEF L, H
  <2> QED BY <2>1, LevelLength
<1>3. Fills!Tree(n) = X(n)[1]
  BY <1>2 DEF Fills!Tree, Fills!buildTree, NodeLevels, NodeStep
<1>4. Fills!hashLockForMultipleFills(H) = Y(n)[1]
  BY <1>2 DEF Fills!hashLockForMultipleFills, HashLevels, HashStep
<1> HIDE DEF L
<1>5. 0 \in S
  <2>1. X(0) = L /\ Y(0) = H
    BY NodeRecursion, HashRecursion
  <2> HIDE DEF X, Y, H
  <2> QED BY <1>1, <2>1
<1>6. ASSUME NEW k \in Nat, k \in S
      PROVE  k + 1 \in S
  <2>1. PICK m \in Nat \ {0} : SameLevel(X(k), Y(k), m)
    BY <1>6
  <2>2. X(k + 1) = NodeStep(X(k)) /\ Y(k + 1) = HashStep(Y(k))
    <3>1. k + 1 \in Nat /\ k + 1 # 0 /\ (k + 1) - 1 = k
      OBVIOUS
    <3> HIDE DEF H
    <3> QED BY <3>1, NodeRecursion, HashRecursion
  <2> HIDE DEF X, Y
  <2>3. \E p \in Nat \ {0} : SameLevel(X(k + 1), Y(k + 1), p)
    BY <2>1, <2>2, SamePairs
  <2> QED BY <2>3
<1>7. Nat \subseteq S
  <2> HIDE DEF S
  <2> QED BY <1>5, <1>6, SetInduction
<1>8. PICK m \in Nat \ {0} : SameLevel(X(n), Y(n), m)
  <2> HIDE DEF X, Y
  <2> QED BY <1>7
<1>9. Y(n)[1] = X(n)[1].hash
  <2> HIDE DEF X, Y
  <2> QED BY <1>8 DEF SameLevel
<1> HIDE DEF X, Y
<1> QED BY <1>3, <1>4, <1>9

\* Rounding down loses less than one unit per part, because the number of
\* parts divides 100.
LEMMA PartsAddUp ==
    ASSUME NEW n \in 1 .. 100, 100 % n = 0, NEW t \in Nat
    PROVE  /\ Fills!cumulativeAmount(t, n, n) <= t
           /\ t - Fills!cumulativeAmount(t, n, n) < n
<1>1. PICK k \in 1 .. 100 : k = 100 \div n /\ n * k = 100
  <2>1. n * (100 \div n) = 100 /\ 100 \div n \in Nat
    OBVIOUS
  <2>2. 100 \div n \in 1 .. 100
    BY <2>1
  <2> QED BY <2>1, <2>2
<1>2. PICK z \in Nat : z = t * k
  OBVIOUS
<1>3. PICK a \in Nat : a = z \div 100 /\ 100 * a <= z /\ z < 100 * a + 100
  OBVIOUS
<1>4. PICK b \in Nat : b = n * a
  OBVIOUS
<1>5. 100 * a = k * b
  BY <1>1, <1>4
<1>6. k * b <= k * t /\ k * t < k * (b + n)
  BY <1>1, <1>2, <1>3, <1>5
<1>7. \A c, d \in Nat : k * c <= k * d => c <= d
  BY <1>1
<1>8. \A c, d \in Nat : k * c < k * d => c < d
  BY <1>1
<1>9. b <= t /\ t < b + n
  <2>1. b + n \in Nat
    BY <1>4
  <2> QED BY <1>6, <1>7, <1>8, <2>1
<1>10. Fills!cumulativeAmount(t, n, n) = b
  BY <1>1, <1>2, <1>3, <1>4 DEF Fills!cumulativeAmount, Fills!fillAmount
<1> QED BY <1>9, <1>10

-----------------------------------------------------------------------------
(* The order book.                                                         *)

FillInv ==
    /\ book \in [FillOrders -> [status: {"none", "active"}, parts: Parts \cup {1},
                                total: Amounts \cup {1}]]
    /\ \A o \in FillOrders : \E Entries : fills[o] \in Seq(Entries)
    /\ DOMAIN fills = FillOrders
    /\ \A o \in FillOrders : Len(fills[o]) <= MaxFills
    /\ over \subseteq FillOrders

LEMMA FillConstants ==
    /\ MaxFills \in Nat
    /\ \A n \in Parts \cup {1} : n \in 1 .. 100 /\ 100 % n = 0
    /\ \A t \in Amounts \cup {1} : t \in Nat
<1>1. Parts \subseteq {p \in 1 .. 100 : 100 % p = 0} /\ Amounts \subseteq Nat \ {0}
      /\ MaxFills \in Nat
  BY ServersAssumption
<1>2. 100 % 1 = 0
  OBVIOUS
<1> QED BY <1>1, <1>2

LEMMA FillInvInit == Fills!FillInit => FillInv
<1> SUFFICES ASSUME Fills!FillInit PROVE FillInv
  OBVIOUS
<1>1. <<>> \in Seq({}) /\ Len(<<>>) = 0
  OBVIOUS
<1>2. \A o \in FillOrders : fills[o] = <<>>
  BY DEF Fills!FillInit
<1> QED BY <1>1, <1>2, FillConstants DEF FillInv, Fills!FillInit, Fills!NoFillOrder

LEMMA FillInvNext == FillInv /\ [Fills!FillNext]_Fills!fillVars => FillInv'
<1> SUFFICES ASSUME FillInv, [Fills!FillNext]_Fills!fillVars PROVE FillInv'
  OBVIOUS
<1> USE FillConstants
<1>1. CASE UNCHANGED Fills!fillVars
  BY <1>1 DEF FillInv, Fills!fillVars
<1>2. ASSUME NEW o \in FillOrders, NEW parts \in Parts, NEW total \in Amounts,
             Fills!initializePartialFillOrder(o, parts, total)
      PROVE  FillInv'
  <2>1. <<>> \in Seq({}) /\ Len(<<>>) = 0
    OBVIOUS
  <2>2. /\ book' = [book EXCEPT ![o] = [status |-> "active", parts |-> parts, total |-> total]]
        /\ fills' = [fills EXCEPT ![o] = <<>>] /\ UNCHANGED over
    BY <1>2 DEF Fills!initializePartialFillOrder
  <2>3. book' \in [FillOrders -> [status: {"none", "active"}, parts: Parts \cup {1},
                                  total: Amounts \cup {1}]]
    BY <2>2 DEF FillInv
  <2>4. \A p \in FillOrders : /\ \E Entries : fills'[p] \in Seq(Entries)
                              /\ Len(fills'[p]) <= MaxFills
    <3> TAKE p \in FillOrders
    <3>1. fills'[p] = IF p = o THEN <<>> ELSE fills[p]
      BY <2>2 DEF FillInv
    <3> QED BY <2>1, <3>1 DEF FillInv
  <2>5. DOMAIN fills' = FillOrders
    BY <2>2 DEF FillInv
  <2> QED BY <2>2, <2>3, <2>4, <2>5 DEF FillInv
<1>3. ASSUME NEW o \in FillOrders, NEW i, NEW amount, Fills!executePartialFill(o, i, amount)
      PROVE  FillInv'
  <2>1. PICK e : fills' = [fills EXCEPT ![o] = Append(fills[o], e)]
    BY <1>3 DEF Fills!executePartialFill
  <2>2. PICK Entries : fills[o] \in Seq(Entries)
    BY DEF FillInv
  <2>3. /\ Append(fills[o], e) \in Seq(Entries \cup {e})
        /\ Len(Append(fills[o], e)) = Len(fills[o]) + 1 /\ Len(fills[o]) \in Nat
    BY <2>2
  <2>4. Len(fills[o]) < MaxFills /\ UNCHANGED <<book, over>>
    BY <1>3 DEF Fills!executePartialFill
  <2>5. DOMAIN fills' = FillOrders
    BY <2>1 DEF FillInv
  <2>6. \A p \in FillOrders : /\ \E E : fills'[p] \in Seq(E)
                              /\ Len(fills'[p]) <= MaxFills
    <3> TAKE p \in FillOrders
    <3>1. fills'[p] = IF p = o THEN Append(fills[o], e) ELSE fills[p]
      BY <2>1 DEF FillInv
    <3>2. CASE p = o
      BY <2>3, <2>4, <3>1, <3>2
    <3>3. CASE p # o
      BY <3>1, <3>3 DEF FillInv
    <3> QED BY <3>2, <3>3
  <2> QED BY <2>4, <2>5, <2>6 DEF FillInv
<1>4. ASSUME NEW o \in FillOrders, Fills!AuctionEnds(o) PROVE FillInv'
  BY <1>4 DEF FillInv, Fills!AuctionEnds
<1> QED BY <1>1, <1>2, <1>3, <1>4 DEF Fills!FillNext

LEMMA FillInvPromise == FillInv => Fills!FillTypeOK /\ Fills!SplitIsSound
<1> SUFFICES ASSUME FillInv PROVE Fills!FillTypeOK /\ Fills!SplitIsSound
  OBVIOUS
<1>1. Fills!FillTypeOK
  BY DEF FillInv, Fills!FillTypeOK
<1>2. ASSUME NEW o \in FillOrders
      PROVE  LET n == book[o].parts
                 sum == Fills!cumulativeAmount(book[o].total, n, n)
             IN  /\ Fills!hashLockForMultipleFills([i \in 1 .. n |-> <<i>>]) = Fills!Tree(n).hash
                 /\ sum <= book[o].total /\ book[o].total - sum < n
  <2>1. PICK n, t : n = book[o].parts /\ t = book[o].total
    OBVIOUS
  <2>2. n \in Parts \cup {1} /\ t \in Amounts \cup {1}
    BY <2>1 DEF FillInv
  <2>3. n \in 1 .. 100 /\ 100 % n = 0 /\ t \in Nat /\ n \in Nat \ {0}
    BY <2>2, FillConstants
  <2>4. Fills!hashLockForMultipleFills([i \in 1 .. n |-> <<i>>]) = Fills!Tree(n).hash
    BY <2>3, TreesAgree
  <2>5. /\ Fills!cumulativeAmount(t, n, n) <= t
        /\ t - Fills!cumulativeAmount(t, n, n) < n
    BY <2>3, PartsAddUp
  <2> QED BY <2>1, <2>4, <2>5
<1>3. Fills!SplitIsSound
  BY <1>2 DEF Fills!SplitIsSound
<1> QED BY <1>1, <1>3
-----------------------------------------------------------------------------
(* FusionRpc.                                                              *)

\* What a client was served from x to y, for a count f per instant.
Between(f, x, y) ==
    SumTo([n \in 1 .. (MaxTime + 1) |-> IF x <= n - 1 /\ n - 1 <= y THEN f[n - 1] ELSE 0],
          MaxTime + 1)

LEMMA RpcConstants ==
    /\ MaxTime \in Nat /\ Window \in Nat /\ Lifetime \in Nat /\ HistorySize \in Nat
    /\ MaxListeners \in Nat /\ RateMax \in Nat \ {0}
BY ServersAssumption

\* The count of a stretch grows with the stretch and splits at an instant.
LEMMA BetweenFacts ==
    ASSUME NEW f \in [0 .. MaxTime -> Nat], NEW x \in Int, NEW y \in Int
    PROVE  /\ Between(f, x, y) \in Nat
           /\ \A z, w \in Int : z <= x /\ y <= w => Between(f, x, y) <= Between(f, z, w)
           /\ \A z \in Int : Between(f, x, y) <= Between(f, x, z - 1) + Between(f, z, y)
           /\ (\A t \in 0 .. MaxTime : x <= t /\ t <= y => f[t] = 0) => Between(f, x, y) = 0
<1> DEFINE N == MaxTime + 1
           M(a, b) == [n \in 1 .. N |-> IF a <= n - 1 /\ n - 1 <= b THEN f[n - 1] ELSE 0]
           zero == [n \in 1 .. N |-> 0]
<1>1. N \in Nat /\ \A n \in 1 .. N : n - 1 \in 0 .. MaxTime /\ f[n - 1] \in Nat
  BY RpcConstants
<1>2. \A a, b \in Int : M(a, b) \in [1 .. N -> Nat]
  BY <1>1
<1>3. zero \in [1 .. N -> Nat] /\ SumTo(zero, N) = 0
  <2>1. zero \in [1 .. N -> Nat] /\ \A i \in 1 .. N : zero[i] = 0
    OBVIOUS
  <2> HIDE DEF zero, N
  <2> QED BY <1>1, <2>1, SumToZero
<1>4. \A a, b \in Int : Between(f, a, b) = SumTo(M(a, b), N)
  BY DEF Between
<1>5. \A a, b \in Int : Between(f, a, b) \in Nat
  <2> TAKE a, b \in Int
  <2>1. M(a, b) \in [1 .. N -> Nat]
    BY <1>2
  <2>2. SumTo(M(a, b), N) \in Nat
    <3> HIDE DEF M, N
    <3> QED BY <1>1, <2>1, SumToNat
  <2> QED BY <1>4, <2>2
<1>6. ASSUME NEW z \in Int, NEW w \in Int, z <= x, y <= w
      PROVE  Between(f, x, y) <= Between(f, z, w)
  <2>1. M(x, y) \in [1 .. N -> Nat] /\ M(z, w) \in [1 .. N -> Nat]
    BY <1>2
  <2>2. \A i \in 1 .. N : M(x, y)[i] <= M(z, w)[i] + zero[i]
    BY <1>1, <1>6
  <2>3. SumTo(M(x, y), N) <= SumTo(M(z, w), N) + SumTo(zero, N)
    <3> HIDE DEF M, N, zero
    <3> QED BY <1>1, <1>3, <2>1, <2>2, SumToSplit
  <2> HIDE DEF M, N
  <2> QED BY <1>3, <1>4, <1>5, <2>3
<1>7. ASSUME NEW z \in Int
      PROVE  Between(f, x, y) <= Between(f, x, z - 1) + Between(f, z, y)
  <2>0. z - 1 \in Int
    OBVIOUS
  <2>1. /\ M(x, y) \in [1 .. N -> Nat] /\ M(x, z - 1) \in [1 .. N -> Nat]
        /\ M(z, y) \in [1 .. N -> Nat]
    BY <1>2, <2>0
  <2>2. \A i \in 1 .. N : M(x, y)[i] <= M(x, z - 1)[i] + M(z, y)[i]
    <3> TAKE i \in 1 .. N
    <3>1. i - 1 \in Int /\ f[i - 1] \in Nat
      BY <1>1
    <3>2. i - 1 <= z - 1 \/ z <= i - 1
      BY <3>1
    <3> QED BY <3>1, <3>2
  <2>3. SumTo(M(x, y), N) <= SumTo(M(x, z - 1), N) + SumTo(M(z, y), N)
    <3> HIDE DEF M, N
    <3> QED BY <1>1, <2>1, <2>2, SumToSplit
  <2> HIDE DEF M, N
  <2> QED BY <1>4, <2>0, <2>3
<1>8. ASSUME \A t \in 0 .. MaxTime : x <= t /\ t <= y => f[t] = 0
      PROVE  Between(f, x, y) = 0
  <2>1. \A i \in 1 .. N : M(x, y)[i] = 0
    BY <1>1, <1>8
  <2>2. SumTo(M(x, y), N) = 0
    <3> HIDE DEF M, N
    <3> QED BY <1>1, <2>1, SumToZero
  <2> QED BY <1>4, <2>2
<1> QED BY <1>5, <1>6, <1>7, <1>8

\* One more request at t counts in the stretches that contain t.
LEMMA BetweenBump ==
    ASSUME NEW f \in [0 .. MaxTime -> Nat], NEW t \in 0 .. MaxTime,
           NEW x \in Int, NEW y \in Int
    PROVE  Between([f EXCEPT ![t] = @ + 1], x, y) =
             Between(f, x, y) + (IF x <= t /\ t <= y THEN 1 ELSE 0)
<1> DEFINE N == MaxTime + 1
           g == [f EXCEPT ![t] = @ + 1]
           M(h) == [n \in 1 .. N |-> IF x <= n - 1 /\ n - 1 <= y THEN h[n - 1] ELSE 0]
<1>1. N \in Nat /\ t + 1 \in 1 .. N
      /\ \A n \in 1 .. N : n - 1 \in 0 .. MaxTime /\ f[n - 1] \in Nat
  BY RpcConstants
<1>2. /\ g \in [0 .. MaxTime -> Nat] /\ g[t] = f[t] + 1
      /\ \A u \in 0 .. MaxTime : u # t => g[u] = f[u]
  BY RpcConstants
<1> HIDE DEF g
<1>3. M(f) \in [1 .. N -> Nat] /\ M(g) \in [1 .. N -> Nat]
  BY <1>1, <1>2
<1>4. \A i \in 1 .. N : i # t + 1 => M(g)[i] = M(f)[i]
  BY <1>1, <1>2
<1>5. M(g)[t + 1] - M(f)[t + 1] = IF x <= t /\ t <= y THEN 1 ELSE 0
  BY <1>1, <1>2
<1>6. M(f)[t + 1] \in Nat /\ M(g)[t + 1] \in Nat
  BY <1>1, <1>3
<1>7. Between(f, x, y) = SumTo(M(f), N) /\ Between(g, x, y) = SumTo(M(g), N)
  BY DEF Between
<1> HIDE DEF M, N
<1>8. SumTo(M(g), N) = SumTo(M(f), N) + M(g)[t + 1] - M(f)[t + 1]
  BY <1>1, <1>3, <1>4, SumToUpdate
<1>9. SumTo(M(f), N) \in Nat /\ SumTo(M(g), N) \in Nat
  <2>1. N \in 0 .. N
    BY <1>1
  <2>2. SumTo(M(f), N) \in Nat
    BY <1>1, <1>3, <2>1, SumToNat
  <2>3. SumTo(M(g), N) \in Nat
    BY <1>1, <1>3, <2>1, SumToNat
  <2> QED BY <2>2, <2>3
<1>10. Between(g, x, y) = Between(f, x, y) + (IF x <= t /\ t <= y THEN 1 ELSE 0)
  BY <1>5, <1>6, <1>7, <1>8, <1>9
<1> QED BY <1>10 DEF g

-----------------------------------------------------------------------------
(* The rate limit of one client: f counts its requests per instant, l is   *)
(* its entry in rateLimits, `now' the clock.                               *)

\* Nothing is served after the clock or past the window; the current window
\* accounts for all that was served since it began; and the stretch of one
\* window's length before it was served no more than the limit, because only
\* one window reaches into it.
RateSound(f, l, now) ==
    /\ l.count \in Nat /\ l.resetTime \in Nat
    /\ \A t \in 0 .. MaxTime : t > now \/ t > l.resetTime => f[t] = 0
    /\ l = Rpc!Unlimited => \A t \in 0 .. MaxTime : f[t] = 0
    /\ l # Rpc!Unlimited =>
         /\ l.count \in 1 .. RateMax
         /\ l.resetTime - Window \in 0 .. now
         /\ Between(f, l.resetTime - Window, MaxTime + Window) <= l.count
         /\ Between(f, l.resetTime - 2 * Window, l.resetTime - Window - 1) <= RateMax
    /\ \A from \in 0 .. MaxTime : Between(f, from, from + Window) <= 2 * RateMax

\* The stretches around a window that began at s, when the window and the
\* stretch before it are both within the limit.
LEMMA AroundWindow ==
    ASSUME NEW g \in [0 .. MaxTime -> Nat], NEW s \in Nat,
           Between(g, s, MaxTime + Window) <= RateMax,
           Between(g, s - Window, s - 1) <= RateMax,
           NEW from \in 0 .. MaxTime, from + Window >= s
    PROVE  Between(g, from, from + Window) <= 2 * RateMax
<1> MaxTime \in Nat /\ Window \in Nat /\ RateMax \in Nat
  BY RpcConstants
<1> from \in Int /\ from + Window \in Int /\ s \in Int /\ s - 1 \in Int /\ s - Window \in Int
    /\ MaxTime + Window \in Int
  OBVIOUS
<1>1. Between(g, from, from + Window)
        <= Between(g, from, s - 1) + Between(g, s, from + Window)
  BY BetweenFacts
<1>2. Between(g, from, s - 1) <= Between(g, s - Window, s - 1)
  BY BetweenFacts
<1>3. Between(g, s, from + Window) <= Between(g, s, MaxTime + Window)
  BY BetweenFacts
<1>4. /\ Between(g, from, from + Window) \in Nat /\ Between(g, from, s - 1) \in Nat
      /\ Between(g, s, from + Window) \in Nat /\ Between(g, s - Window, s - 1) \in Nat
      /\ Between(g, s, MaxTime + Window) \in Nat
  BY BetweenFacts
<1> QED BY <1>1, <1>2, <1>3, <1>4

\* A request that checkRateLimit lets through keeps the account.
LEMMA RequestCounts ==
    ASSUME NEW f \in [0 .. MaxTime -> Nat], NEW now \in 0 .. MaxTime, NEW l, NEW m,
           RateSound(f, l, now),
           \/ /\ l = Rpc!Unlimited \/ now > l.resetTime
              /\ m.count = 1 /\ m.resetTime = now + Window
           \/ /\ l # Rpc!Unlimited /\ now <= l.resetTime /\ l.count < RateMax
              /\ m.count = l.count + 1 /\ m.resetTime = l.resetTime
    PROVE  RateSound([f EXCEPT ![now] = @ + 1], m, now)
<1> DEFINE g == [f EXCEPT ![now] = @ + 1]
           s == m.resetTime - Window
<1> MaxTime \in Nat /\ Window \in Nat /\ RateMax \in Nat \ {0}
  BY RpcConstants
<1>1. /\ g \in [0 .. MaxTime -> Nat]
      /\ \A u \in 0 .. MaxTime : u # now => g[u] = f[u]
  OBVIOUS
<1>2. \A x, y \in Int : Between(g, x, y) = Between(f, x, y) + (IF x <= now /\ now <= y THEN 1 ELSE 0)
  BY BetweenBump
<1> HIDE DEF g
<1>3. \A x, y \in Int : Between(f, x, y) \in Nat
  BY BetweenFacts
<1>3a. \A x, y \in Int : \/ Between(g, x, y) = Between(f, x, y)
                         \/ Between(g, x, y) = Between(f, x, y) + 1
  <2> TAKE x, y \in Int
  <2>1. Between(f, x, y) \in Nat
    BY <1>3
  <2>2. CASE x <= now /\ now <= y
    BY <1>2, <2>2
  <2>3. CASE ~ (x <= now /\ now <= y)
    BY <1>2, <2>1, <2>3
  <2> QED BY <2>2, <2>3
<1>4. /\ m.count \in 1 .. RateMax /\ m.resetTime \in Nat
      /\ s \in 0 .. now /\ now <= m.resetTime
      /\ m # Rpc!Unlimited
  <2>1. l.count \in Nat /\ l.resetTime \in Nat
    BY DEF RateSound
  <2>2. m.count \in 1 .. RateMax /\ m.resetTime \in Nat
    BY <2>1
  <2>3. m # Rpc!Unlimited
    <3>1. Rpc!Unlimited.count = 0
      BY DEF Rpc!Unlimited
    <3> QED BY <2>2, <3>1
  <2>4. l # Rpc!Unlimited => l.resetTime - Window \in 0 .. now
    BY DEF RateSound
  <2>5. s \in 0 .. now /\ now <= m.resetTime
    BY <2>1, <2>4
  <2> QED BY <2>2, <2>3, <2>5
<1>5. /\ Between(g, s, MaxTime + Window) <= m.count
      /\ Between(g, s - Window, s - 1) <= RateMax
  <2>0. s \in Int /\ s - Window \in Int /\ s - 1 \in Int /\ MaxTime + Window \in Int
    BY <1>4
  <2>1. CASE l = Rpc!Unlimited \/ now > l.resetTime
    <3>1. m.count = 1 /\ s = now
      <4>1. l.resetTime \in Nat
        BY DEF RateSound
      <4> QED BY <2>1, <4>1
    <3>2. \A t \in 0 .. MaxTime : s <= t /\ t <= MaxTime + Window => f[t] = 0
      BY <2>1, <3>1 DEF RateSound
    <3>3. Between(f, s, MaxTime + Window) = 0
      BY <2>0, <3>2, BetweenFacts
    <3>4. Between(f, s - Window, s - 1) <= RateMax
      <4>1. CASE l = Rpc!Unlimited
        <5>1. \A t \in 0 .. MaxTime : f[t] = 0
          BY <4>1 DEF RateSound
        <5>2. Between(f, s - Window, s - 1) = 0
          BY <2>0, <5>1, BetweenFacts
        <5> QED BY <5>2
      <4>2. CASE l # Rpc!Unlimited
        <5>1. /\ Between(f, l.resetTime - Window, MaxTime + Window) <= l.count
              /\ l.count \in 1 .. RateMax /\ l.resetTime \in Nat
          BY <4>2 DEF RateSound
        <5>2. l.resetTime - Window \in Int /\ l.resetTime - Window <= s - Window
              /\ s - 1 <= MaxTime + Window
          BY <2>1, <3>1, <4>2, <5>1
        <5>3. Between(f, s - Window, s - 1)
                <= Between(f, l.resetTime - Window, MaxTime + Window)
          BY <2>0, <5>2, BetweenFacts
        <5>4. Between(f, s - Window, s - 1) \in Nat
              /\ Between(f, l.resetTime - Window, MaxTime + Window) \in Nat
          BY <1>3, <2>0, <5>2
        <5> QED BY <5>1, <5>3, <5>4
      <4> QED BY <4>1, <4>2
    <3>5. Between(g, s, MaxTime + Window) = 0 + 1
      BY <1>2, <2>0, <3>1, <3>3
    <3>6. Between(g, s - Window, s - 1) = Between(f, s - Window, s - 1) + 0
      BY <1>2, <2>0, <3>1
    <3>7. Between(f, s - Window, s - 1) \in Nat
      BY <1>3, <2>0
    <3> HIDE DEF s
    <3> QED BY <3>1, <3>4, <3>5, <3>6, <3>7
  <2>2. CASE ~ (l = Rpc!Unlimited \/ now > l.resetTime)
    <3>1. /\ s = l.resetTime - Window /\ m.count = l.count + 1
          /\ s - Window = l.resetTime - 2 * Window /\ s - 1 = l.resetTime - Window - 1
          /\ l.count \in Nat /\ l # Rpc!Unlimited
      BY <2>2 DEF RateSound
    <3>2. /\ Between(f, s, MaxTime + Window) <= l.count
          /\ Between(f, s - Window, s - 1) <= RateMax
      BY <3>1 DEF RateSound
    <3>3. Between(f, s, MaxTime + Window) \in Nat /\ Between(f, s - Window, s - 1) \in Nat
      BY <1>3, <2>0
    <3>4. Between(g, s, MaxTime + Window) <= Between(f, s, MaxTime + Window) + 1
      <4> HIDE DEF s
      <4>1. \/ Between(g, s, MaxTime + Window) = Between(f, s, MaxTime + Window)
            \/ Between(g, s, MaxTime + Window) = Between(f, s, MaxTime + Window) + 1
        BY <1>3a, <2>0, Zenon
      <4> QED BY ONLY <3>3, <4>1
    <3>5. Between(g, s - Window, s - 1) = Between(f, s - Window, s - 1) + 0
      BY <1>2, <1>4, <2>0
    <3>6. Between(g, s, MaxTime + Window) \in Nat
      <4> HIDE DEF s
      <4>1. \/ Between(g, s, MaxTime + Window) = Between(f, s, MaxTime + Window)
            \/ Between(g, s, MaxTime + Window) = Between(f, s, MaxTime + Window) + 1
        BY <1>3a, <2>0, Zenon
      <4> QED BY ONLY <3>3, <4>1
    <3> HIDE DEF s
    <3> QED BY <3>1, <3>2, <3>3, <3>4, <3>5, <3>6
  <2> QED BY <2>1, <2>2
<1>6. ASSUME NEW from \in 0 .. MaxTime
      PROVE  Between(g, from, from + Window) <= 2 * RateMax
  <2>1. CASE from + Window >= s
    <3>1. Between(g, s, MaxTime + Window) <= RateMax
      <4>0. s \in Int /\ MaxTime + Window \in Int
        BY <1>4
      <4>1. Between(g, s, MaxTime + Window) \in Nat
        BY <1>1, <4>0, BetweenFacts
      <4> HIDE DEF s
      <4> QED BY <1>4, <1>5, <4>1
    <3>2. s \in Nat
      BY <1>4
    <3> HIDE DEF s
    <3> QED BY <1>1, <1>5, <2>1, <3>1, <3>2, AroundWindow
  <2>2. CASE from + Window < s
    <3>1. from \in Int /\ from + Window \in Int /\ from + Window < now
      BY <1>4, <2>2
    <3>2. Between(f, from, from + Window) \in Nat
      BY <1>3, <3>1
    <3>3. Between(g, from, from + Window) = Between(f, from, from + Window) + 0
      BY <1>2, <3>1
    <3> QED BY <3>2, <3>3 DEF RateSound
  <2> QED BY <1>4, <2>1, <2>2
<1>7. \A t \in 0 .. MaxTime : t > now \/ t > m.resetTime => g[t] = 0
  <2> TAKE t \in 0 .. MaxTime
  <2> SUFFICES ASSUME t > now \/ t > m.resetTime PROVE g[t] = 0
    OBVIOUS
  <2>1. t > now
    BY <1>4
  <2>2. f[t] = 0
    BY <2>1 DEF RateSound
  <2> QED BY <1>1, <2>1, <2>2
<1>8. /\ m.resetTime - Window = s /\ m.resetTime - 2 * Window = s - Window
      /\ m.resetTime - Window - 1 = s - 1
  BY <1>4
<1>9. RateSound(g, m, now)
  <2>1. /\ m.count \in Nat /\ m.resetTime - Window \in 0 .. now
    BY <1>4, <1>8
  <2>2. /\ Between(g, m.resetTime - Window, MaxTime + Window) <= m.count
        /\ Between(g, m.resetTime - 2 * Window, m.resetTime - Window - 1) <= RateMax
    <3> HIDE DEF s
    <3> QED BY ONLY <1>5, <1>8
  <2> HIDE DEF s
  <2> QED BY ONLY <1>4, <1>6, <1>7, <2>1, <2>2 DEF RateSound
<1> QED BY <1>9 DEF g

-----------------------------------------------------------------------------
(* The order book and its rate limit.                                      *)

RpcInv ==
    /\ time \in 0 .. MaxTime
    /\ completed \subseteq Hashes
    /\ \E Entries : history \in Seq(Entries)
    /\ Len(history) <= HistorySize
    /\ IsFiniteSet(listeners) /\ Cardinality(listeners) <= MaxListeners
    /\ served \in [RpcClients -> [0 .. MaxTime -> Nat]]
    /\ limits \in [RpcClients -> [count: Nat, resetTime: Nat]]
    /\ \A c \in RpcClients : RateSound(served[c], limits[c], time)

LEMMA RpcSizes ==
    /\ \A S : Rpc!Cardinality(S) = Cardinality(S)
    /\ Rpc!RateLimitHolds <=>
         \A c \in RpcClients : \A from \in 0 .. MaxTime :
            Between(served[c], from, from + Window) <= 2 * RateMax
<1>1. \A S : Rpc!Cardinality(S) = Cardinality(S)
  BY DEF Rpc!Cardinality, Cardinality
<1>2. \A c, x, y : Rpc!ServedBetween(c, x, y) = Between(served[c], x, y)
  BY DEF Rpc!ServedBetween, Rpc!ServedAt, Rpc!SumTo, SumTo, Between
<1> QED BY <1>1, <1>2 DEF Rpc!RateLimitHolds

LEMMA RpcInvInit == Rpc!RpcInit => RpcInv
<1> SUFFICES ASSUME Rpc!RpcInit PROVE RpcInv
  OBVIOUS
<1> USE RpcConstants
<1>1. /\ time = 0 /\ completed = {} /\ listeners = {} /\ history = <<>>
      /\ limits = [c \in RpcClients |-> Rpc!Unlimited]
      /\ served = [c \in RpcClients |-> [t \in 0 .. MaxTime |-> 0]]
  BY DEF Rpc!RpcInit
<1>2. /\ time \in 0 .. MaxTime /\ completed \subseteq Hashes
      /\ \E Entries : history \in Seq(Entries)
      /\ Len(history) <= HistorySize
  <2>1. history \in Seq({}) /\ Len(history) = 0
    BY <1>1
  <2> QED BY <1>1, <2>1
<1>3. IsFiniteSet(listeners) /\ Cardinality(listeners) <= MaxListeners
  BY <1>1, FS_EmptySet
<1>4. /\ served \in [RpcClients -> [0 .. MaxTime -> Nat]]
      /\ limits \in [RpcClients -> [count: Nat, resetTime: Nat]]
  BY <1>1 DEF Rpc!Unlimited
<1>5. ASSUME NEW c \in RpcClients
      PROVE  RateSound(served[c], limits[c], time)
  <2>1. served[c] \in [0 .. MaxTime -> Nat] /\ \A t \in 0 .. MaxTime : served[c][t] = 0
    BY <1>1, <1>4
  <2>2. limits[c] = Rpc!Unlimited /\ limits[c].count \in Nat /\ limits[c].resetTime \in Nat
    BY <1>1, <1>4
  <2>3. ASSUME NEW from \in 0 .. MaxTime
        PROVE  Between(served[c], from, from + Window) <= 2 * RateMax
    <3>1. from \in Int /\ from + Window \in Int
      OBVIOUS
    <3>2. Between(served[c], from, from + Window) = 0
      BY <2>1, <3>1, BetweenFacts
    <3> QED BY <3>2
  <2> QED BY <2>1, <2>2, <2>3 DEF RateSound
<1> QED BY <1>2, <1>3, <1>4, <1>5 DEF RpcInv

\* Time passes: what has not been served in the future stays unserved.
LEMMA RpcTickStep ==
    ASSUME RpcInv, Rpc!RpcTick
    PROVE  RpcInv'
<1> USE RpcConstants
<1>1. /\ time' = time + 1 /\ time' \in 0 .. MaxTime /\ time \in 0 .. MaxTime
      /\ UNCHANGED <<completed, listeners, history, limits, served>>
  BY DEF Rpc!RpcTick, RpcInv
<1>2. ASSUME NEW c \in RpcClients
      PROVE  RateSound(served'[c], limits'[c], time')
  <2>1. RateSound(served[c], limits[c], time)
    BY DEF RpcInv
  <2>2. PICK f, l : f = served[c] /\ l = limits[c]
    OBVIOUS
  <2>3. RateSound(f, l, time)
    BY <2>1, <2>2
  <2>4. l # Rpc!Unlimited => l.resetTime - Window \in 0 .. time'
    BY <1>1, <2>3 DEF RateSound
  <2>5. \A t \in 0 .. MaxTime : t > time' \/ t > l.resetTime => f[t] = 0
    BY <1>1, <2>3 DEF RateSound
  <2>6. RateSound(f, l, time')
    BY <2>3, <2>4, <2>5 DEF RateSound
  <2> QED BY <1>1, <2>2, <2>6
<1> QED BY <1>1, <1>2 DEF RpcInv

\* A request within the limit is counted in the window and at its instant.
LEMMA CheckRateLimitStep ==
    ASSUME RpcInv, NEW c \in RpcClients, Rpc!checkRateLimit(c), UNCHANGED time
    PROVE  /\ served' \in [RpcClients -> [0 .. MaxTime -> Nat]]
           /\ limits' \in [RpcClients -> [count: Nat, resetTime: Nat]]
           /\ \A d \in RpcClients : RateSound(served'[d], limits'[d], time')
<1> USE RpcConstants
<1>1. PICK f \in [0 .. MaxTime -> Nat], l \in [count: Nat, resetTime: Nat] :
         f = served[c] /\ l = limits[c] /\ RateSound(f, l, time)
  BY DEF RpcInv
<1>2. time \in 0 .. MaxTime
  BY DEF RpcInv
<1> DEFINE closed == l = Rpc!Unlimited \/ time > l.resetTime
           m == IF closed THEN [count |-> 1, resetTime |-> time + Window]
                ELSE [count |-> l.count + 1, resetTime |-> l.resetTime]
           g == [f EXCEPT ![time] = f[time] + 1]
<1>3. Rpc!WindowOver(c) = closed /\ (Rpc!UnderLimit(c) <=> l.count < RateMax)
  BY <1>1 DEF Rpc!WindowOver, Rpc!UnderLimit
<1>4. limits' = [limits EXCEPT ![c] = m] /\ served' = [served EXCEPT ![c] = g]
  <2>1. limits' = [limits EXCEPT ![c] =
                      IF Rpc!WindowOver(c) THEN [count |-> 1, resetTime |-> time + Window]
                      ELSE [count |-> limits[c].count + 1,
                            resetTime |-> limits[c].resetTime]]
    BY DEF Rpc!checkRateLimit
  <2>2. served' = [served EXCEPT ![c] = [served[c] EXCEPT ![time] = served[c][time] + 1]]
    BY DEF Rpc!checkRateLimit
  <2>3. limits[c] = l /\ served[c] = f /\ Rpc!WindowOver(c) = closed
    BY <1>1, <1>3
  <2> HIDE DEF closed
  <2> QED BY ONLY <2>1, <2>2, <2>3
<1>5. closed \/ l.count < RateMax
  BY <1>3 DEF Rpc!checkRateLimit
<1>6. /\ m \in [count: Nat, resetTime: Nat]
      /\ closed => m.count = 1 /\ m.resetTime = time + Window
      /\ ~ closed => m.count = l.count + 1 /\ m.resetTime = l.resetTime
  BY <1>1, <1>2
<1>7. g \in [0 .. MaxTime -> Nat]
  BY <1>1, <1>2
<1>8. RateSound(g, m, time)
  <2>1. ~ closed => l # Rpc!Unlimited /\ time <= l.resetTime
    BY <1>1, <1>2
  <2>2. closed => l = Rpc!Unlimited \/ time > l.resetTime
    OBVIOUS
  <2> HIDE DEF m, closed
  <2> QED BY <1>1, <1>2, <1>5, <1>6, <2>1, <2>2, RequestCounts
<1> HIDE DEF m, g, closed
<1> QED BY <1>4, <1>6, <1>7, <1>8 DEF RpcInv

\* There is room for a listener that is added.
LEMMA RpcListenersStep ==
    ASSUME RpcInv,
           \/ \E kinds, orders : Rpc!handleSubscribe(kinds, orders)
           \/ \E id : Rpc!handleUnsubscribe(id)
           \/ UNCHANGED listeners
    PROVE  IsFiniteSet(listeners') /\ Cardinality(listeners') <= MaxListeners
<1> USE RpcConstants
<1>0. IsFiniteSet(listeners) /\ Cardinality(listeners) <= MaxListeners
  BY DEF RpcInv
<1>1. ASSUME NEW kinds, NEW orders, Rpc!addEventListener(kinds, orders)
      PROVE  IsFiniteSet(listeners') /\ Cardinality(listeners') <= MaxListeners
  <2>1. Cardinality(listeners) < MaxListeners
    BY <1>1, RpcSizes DEF Rpc!addEventListener
  <2>2. PICK l : listeners' = listeners \cup {l}
    BY <1>1 DEF Rpc!addEventListener
  <2>3. IsFiniteSet(listeners') /\ Cardinality(listeners') <= Cardinality(listeners) + 1
    <3>1. Cardinality(listeners) \in Nat
      BY <1>0, FS_CardinalityType
    <3> QED BY <1>0, <2>2, <3>1, FS_AddElement
  <2>4. Cardinality(listeners) \in Nat /\ Cardinality(listeners') \in Nat
    BY <1>0, <2>3, FS_CardinalityType
  <2> QED BY <2>1, <2>3, <2>4
<1>2. ASSUME NEW id, Rpc!handleUnsubscribe(id)
      PROVE  IsFiniteSet(listeners') /\ Cardinality(listeners') <= MaxListeners
  <2>1. listeners' \subseteq listeners
    BY <1>2 DEF Rpc!handleUnsubscribe, Rpc!removeEventListener
  <2>2. IsFiniteSet(listeners') /\ Cardinality(listeners') <= Cardinality(listeners)
    BY <1>0, <2>1, FS_Subset
  <2>3. Cardinality(listeners) \in Nat /\ Cardinality(listeners') \in Nat
    BY <1>0, <2>2, FS_CardinalityType
  <2> QED BY <1>0, <2>2, <2>3
<1> QED BY <1>0, <1>1, <1>2 DEF Rpc!handleSubscribe

LEMMA RpcRequestStep ==
    ASSUME RpcInv, NEW c \in RpcClients, Rpc!handleRpcRequest(c)
    PROVE  RpcInv'
<1>1. Rpc!checkRateLimit(c) /\ UNCHANGED <<time, completed, history>>
  BY DEF Rpc!handleRpcRequest
<1>2. IsFiniteSet(listeners') /\ Cardinality(listeners') <= MaxListeners
  <2>1. \/ \E kinds, orders : Rpc!handleSubscribe(kinds, orders)
        \/ \E id : Rpc!handleUnsubscribe(id)
        \/ UNCHANGED listeners
    BY DEF Rpc!handleRpcRequest
  <2> QED BY <2>1, RpcListenersStep
<1>3. /\ served' \in [RpcClients -> [0 .. MaxTime -> Nat]]
      /\ limits' \in [RpcClients -> [count: Nat, resetTime: Nat]]
      /\ \A d \in RpcClients : RateSound(served'[d], limits'[d], time')
  BY <1>1, CheckRateLimitStep
<1> QED BY <1>1, <1>2, <1>3 DEF RpcInv

LEMMA RpcEmitStep ==
    ASSUME RpcInv, NEW kind, NEW order, Rpc!emitEvent(kind, order)
    PROVE  RpcInv'
<1> USE RpcConstants
<1>1. PICK Entries : history \in Seq(Entries)
  BY DEF RpcInv
<1>2. PICK e : history' = LET longer == Append(history, e)
                          IN  IF Len(longer) > HistorySize THEN Tail(longer) ELSE longer
  BY DEF Rpc!emitEvent
<1> DEFINE longer == Append(history, e)
<1>3. longer \in Seq(Entries \cup {e}) /\ Len(longer) = Len(history) + 1
  BY <1>1
<1>4. Len(history) \in Nat /\ Len(history) <= HistorySize
  BY <1>1 DEF RpcInv
<1>5. history' \in Seq(Entries \cup {e}) /\ Len(history') <= HistorySize
  <2>1. history' = IF Len(longer) > HistorySize THEN Tail(longer) ELSE longer
    BY <1>2
  <2> HIDE DEF longer
  <2> QED BY <1>3, <1>4, <2>1
<1>6. UNCHANGED <<time, completed, listeners, limits, served>>
  BY DEF Rpc!emitEvent
<1> QED BY <1>5, <1>6 DEF RpcInv

LEMMA RpcInvNext == RpcInv /\ [Rpc!RpcNext]_Rpc!rpcVars => RpcInv'
<1> SUFFICES ASSUME RpcInv, [Rpc!RpcNext]_Rpc!rpcVars PROVE RpcInv'
  OBVIOUS
<1>1. CASE UNCHANGED Rpc!rpcVars
  BY <1>1 DEF RpcInv, Rpc!rpcVars
<1>2. ASSUME NEW h \in Hashes,
             \/ \E hashCount \in 0 .. 1 : Rpc!addOrder(h, hashCount)
             \/ Rpc!submitSecret(h) \/ Rpc!completeOrder(h)
      PROVE  RpcInv'
  BY <1>2 DEF RpcInv, Rpc!addOrder, Rpc!submitSecret, Rpc!completeOrder
<1>3. CASE Rpc!clearExpiredOrders
  BY <1>3 DEF RpcInv, Rpc!clearExpiredOrders
<1>4. ASSUME NEW c \in RpcClients, Rpc!rateLimited(c) PROVE RpcInv'
  BY <1>4 DEF RpcInv, Rpc!rateLimited, Rpc!rpcVars
<1> QED
  BY <1>1, <1>2, <1>3, <1>4, RpcEmitStep, RpcRequestStep, RpcTickStep DEF Rpc!RpcNext

\* The completion and the deadline answer for an order, whatever is on record.
LEMMA RpcInvPromise ==
    RpcInv => Rpc!RpcTypeOK /\ Rpc!RateLimitHolds /\ Rpc!CompletedNeverPending
<1> SUFFICES ASSUME RpcInv
             PROVE  Rpc!RpcTypeOK /\ Rpc!RateLimitHolds /\ Rpc!CompletedNeverPending
  OBVIOUS
<1>1. Rpc!RpcTypeOK
  BY RpcSizes DEF RpcInv, Rpc!RpcTypeOK
<1>2. Rpc!RateLimitHolds
  BY RpcSizes DEF RpcInv, RateSound
<1>3. Rpc!CompletedNeverPending
  BY DEF Rpc!CompletedNeverPending, Rpc!getOrderStatus, Rpc!getMultipleOrderStatuses
<1> QED BY <1>1, <1>2, <1>3

-----------------------------------------------------------------------------
(* RelayerPricing.                                                         *)

\* Quotes are numbered in the order they are issued.  A quote whose term the
\* clock has not reached is still stored, and promises no more than its rate
\* gives.
QuoteSound(q) ==
    /\ q.id \in 1 .. Cardinality(issued)
    /\ q.validUntil \in Nat /\ q.toAmount \in Nat /\ q.minimum \in Nat
    /\ q.minimum <= q.toAmount
    /\ seconds < q.validUntil => q.id \in kept

QuotesStored ==
    /\ seconds \in 0 .. MaxSeconds
    /\ IsFiniteSet(issued)
    /\ kept \subseteq {q.id : q \in issued}
    /\ \A q \in issued : QuoteSound(q)
    /\ \A q, r \in issued : q.id = r.id => q = r

\* The two services hold different timers, and only those run.
TimersHeld ==
    /\ timers \in 0 .. MaxTimers
    /\ gasTimer \in 0 .. timers /\ monTimer \in 0 .. timers
    /\ gasTimer = monTimer => gasTimer = 0
    /\ Pricing!NoLeakedTimer
    /\ gasPrices \in Seq(GasPrices) /\ Len(gasPrices) <= GasHistory
    /\ health \in {"unknown", "healthy", "degraded"}

PricingInv == QuotesStored /\ TimersHeld

LEMMA PricingConstants ==
    /\ Validity \in Nat /\ GasHistory \in Nat /\ MaxSeconds \in Nat /\ MaxTimers \in Nat
    /\ \A p \in TokenPrices : p \in Nat /\ p > 0
    /\ SwapAmounts \subseteq Nat
    /\ \A S : Pricing!Cardinality(S) = Cardinality(S)
<1>1. \A S : Pricing!Cardinality(S) = Cardinality(S)
  BY DEF Pricing!Cardinality, Cardinality
<1> QED BY <1>1, ServersAssumption

LEMMA PricingInvInit == Pricing!PricingInit => PricingInv
<1> SUFFICES ASSUME Pricing!PricingInit PROVE PricingInv
  OBVIOUS
<1> USE PricingConstants
<1>1. QuotesStored
  BY FS_EmptySet DEF Pricing!PricingInit, QuotesStored
<1>2. gasPrices \in Seq(GasPrices) /\ Len(gasPrices) <= GasHistory
  BY DEF Pricing!PricingInit
<1>3. TimersHeld
  BY <1>2 DEF Pricing!PricingInit, TimersHeld, Pricing!NoLeakedTimer, Pricing!NoTimer
<1> QED BY <1>1, <1>3 DEF PricingInv

\* The rate times the amount is a whole number of units, and what is left
\* after the slippage is no more than that.
LEMMA RateAmounts ==
    ASSUME NEW amount \in Nat, NEW slippage \in 0 .. 500,
           NEW fromPrice \in Nat, NEW toPrice \in Nat, toPrice > 0
    PROVE  LET t == Pricing!baseToAmount(amount, fromPrice, toPrice)
           IN  /\ t \in Nat /\ Pricing!minimumReceived(t, slippage) \in Nat
               /\ Pricing!minimumReceived(t, slippage) <= t
<1>1. \A x, y \in Nat : x * y \in Nat
  OBVIOUS
<1>2. \A x \in Nat : x \div toPrice \in Nat
  OBVIOUS
<1>3. PICK t : t = Pricing!baseToAmount(amount, fromPrice, toPrice)
  OBVIOUS
<1>4. t \in Nat
  BY <1>1, <1>2, <1>3 DEF Pricing!baseToAmount
<1>5. PICK k \in Nat : k = 10000 - slippage /\ k <= 10000
  OBVIOUS
<1>6. t * k \in Nat /\ t * k <= t * 10000
  <2>1. \A a, b, c \in Nat : b <= c => a * b <= a * c
    OBVIOUS
  <2> QED BY <1>1, <1>4, <1>5, <2>1
<1>7. PICK z \in Nat : z = t * k /\ z <= t * 10000
  BY <1>6
<1>8. z \div 10000 \in Nat /\ z \div 10000 <= t
  BY <1>4, <1>7
<1>9. Pricing!minimumReceived(t, slippage) = z \div 10000
  BY <1>5, <1>7 DEF Pricing!minimumReceived
<1> QED BY <1>3, <1>4, <1>8, <1>9

\* A new quote takes the next number, so it disturbs no other.
LEMMA GetQuoteStep ==
    ASSUME PricingInv, NEW amount \in SwapAmounts, NEW slippage \in Slippages,
           NEW fromPrice \in TokenPrices, NEW toPrice \in TokenPrices,
           NEW crossChain \in BOOLEAN,
           Pricing!getQuote(amount, slippage, fromPrice, toPrice, crossChain)
    PROVE  PricingInv'
<1> USE PricingConstants
<1> DEFINE t == Pricing!baseToAmount(amount, fromPrice, toPrice)
           n == Cardinality(issued) + 1
           new == [id |-> n, amount |-> amount, toAmount |-> t,
                   minimum |-> Pricing!minimumReceived(t, slippage),
                   fee |-> Pricing!calculateFee(amount, crossChain),
                   validUntil |-> seconds + Validity]
<1>1. /\ slippage \in 0 .. 500 /\ issued' = issued \cup {new} /\ kept' = kept \cup {n}
      /\ UNCHANGED <<seconds, Pricing!clockVars>>
  BY DEF Pricing!getQuote, Pricing!validateQuoteRequest
<1>2. /\ amount \in Nat /\ fromPrice \in Nat /\ toPrice \in Nat /\ toPrice > 0
  OBVIOUS
<1>3. /\ t \in Nat /\ Pricing!minimumReceived(t, slippage) \in Nat
      /\ Pricing!minimumReceived(t, slippage) <= t
  BY <1>1, <1>2, RateAmounts
<1>4. IsFiniteSet(issued) /\ Cardinality(issued) \in Nat /\ seconds \in 0 .. MaxSeconds
  BY FS_CardinalityType DEF PricingInv, QuotesStored
<1>5. /\ new.id = n /\ new.validUntil \in Nat /\ new.toAmount \in Nat /\ new.minimum \in Nat
      /\ new.minimum <= new.toAmount /\ n \in Nat
  BY <1>3, <1>4
<1> HIDE DEF new
<1>6. new \notin issued
  BY <1>4, <1>5 DEF PricingInv, QuotesStored, QuoteSound
<1>7. IsFiniteSet(issued') /\ Cardinality(issued') = n
  BY <1>1, <1>4, <1>6, FS_AddElement
<1>8. \A q \in issued' : QuoteSound(q)'
  <2> TAKE q \in issued'
  <2>1. CASE q = new
    BY <1>1, <1>4, <1>5, <1>7, <2>1 DEF QuoteSound
  <2>2. CASE q \in issued
    <3>1. QuoteSound(q)
      BY <2>2 DEF PricingInv, QuotesStored
    <3> QED BY <1>1, <1>4, <1>7, <3>1 DEF QuoteSound
  <2> QED BY <1>1, <2>1, <2>2
<1>9. \A q, r \in issued' : q.id = r.id => q = r
  BY <1>1, <1>4, <1>5 DEF PricingInv, QuotesStored, QuoteSound
<1>10. kept' \subseteq {q.id : q \in issued'}
  BY <1>1, <1>5 DEF PricingInv, QuotesStored
<1>11. QuotesStored'
  BY <1>1, <1>4, <1>7, <1>8, <1>9, <1>10 DEF QuotesStored
<1>12. TimersHeld'
  BY <1>1 DEF PricingInv, TimersHeld, Pricing!NoLeakedTimer, Pricing!clockVars
<1> QED BY <1>11, <1>12 DEF PricingInv

\* Dropping quotes whose term is over, or letting time pass, takes no quote
\* away before its term.
LEMMA QuotesDrop ==
    ASSUME PricingInv, UNCHANGED <<issued, Pricing!clockVars>>, kept' \subseteq kept,
           seconds' \in 0 .. MaxSeconds, seconds <= seconds',
           \A q \in issued : seconds' < q.validUntil /\ q.id \in kept => q.id \in kept'
    PROVE  PricingInv'
<1> USE PricingConstants
<1>1. seconds \in 0 .. MaxSeconds /\ issued' = issued
  BY DEF PricingInv, QuotesStored
<1>2. \A q \in issued : QuoteSound(q)'
  <2> TAKE q \in issued
  <2>1. QuoteSound(q)
    BY DEF PricingInv, QuotesStored
  <2>2. seconds' < q.validUntil => q.id \in kept'
    BY <1>1, <2>1 DEF QuoteSound
  <2> QED BY <1>1, <2>1, <2>2 DEF QuoteSound
<1>3. QuotesStored'
  BY <1>1, <1>2 DEF PricingInv, QuotesStored
<1>4. TimersHeld'
  BY DEF PricingInv, TimersHeld, Pricing!NoLeakedTimer, Pricing!clockVars
<1> QED BY <1>3, <1>4 DEF PricingInv

LEMMA RepriceStep ==
    ASSUME PricingInv, NEW q \in issued, Pricing!updateQuotePricing(q)
    PROVE  PricingInv'
<1>1. /\ seconds > q.validUntil /\ kept' = kept \ {q.id}
      /\ UNCHANGED <<seconds, issued, Pricing!clockVars>>
  BY DEF Pricing!updateQuotePricing
<1>2. seconds \in 0 .. MaxSeconds /\ q.validUntil \in Nat
  BY DEF PricingInv, QuotesStored, QuoteSound
<1>3. \A r \in issued : r.validUntil \in Nat /\ (r.id = q.id => r = q)
  BY DEF PricingInv, QuotesStored, QuoteSound
<1>4. \A r \in issued : seconds' < r.validUntil /\ r.id \in kept => r.id \in kept'
  BY <1>1, <1>2, <1>3, PricingConstants
<1> QED BY <1>1, <1>2, <1>4, QuotesDrop, PricingConstants

LEMMA CleanupStep ==
    ASSUME PricingInv, Pricing!cleanupExpiredQuotes
    PROVE  PricingInv'
<1>1. /\ kept' = kept \ {q.id : q \in {r \in issued : r.validUntil <= seconds}}
      /\ UNCHANGED <<seconds, issued, Pricing!clockVars>>
  BY DEF Pricing!cleanupExpiredQuotes, Pricing!Expired
<1>2. seconds \in 0 .. MaxSeconds
  BY DEF PricingInv, QuotesStored
<1>3. \A q, r \in issued : r.validUntil \in Nat /\ (r.id = q.id => r = q)
  BY DEF PricingInv, QuotesStored, QuoteSound
<1>4. \A r \in issued : seconds' < r.validUntil /\ r.id \in kept => r.id \in kept'
  BY <1>1, <1>2, <1>3, PricingConstants
<1> QED BY <1>1, <1>2, <1>4, QuotesDrop, PricingConstants

LEMMA PassSecondStep ==
    ASSUME PricingInv, Pricing!PassSecond
    PROVE  PricingInv'
<1>1. /\ seconds' \in 0 .. MaxSeconds /\ seconds <= seconds'
      /\ UNCHANGED <<issued, kept, Pricing!clockVars>>
  BY PricingConstants DEF PricingInv, QuotesStored, Pricing!PassSecond
<1> QED BY <1>1, QuotesDrop

\* What the services do leaves the quotes alone.
LEMMA ServiceTimers ==
    ASSUME PricingInv, UNCHANGED Pricing!quoterVars, TimersHeld'
    PROVE  PricingInv'
BY DEF PricingInv, QuotesStored, QuoteSound, Pricing!quoterVars

LEMMA RecordedShape ==
    ASSUME PricingInv, NEW price \in GasPrices
    PROVE  /\ Pricing!Recorded(price) \in Seq(GasPrices)
           /\ Len(Pricing!Recorded(price)) <= GasHistory
<1> DEFINE longer == Append(gasPrices, price)
<1>1. gasPrices \in Seq(GasPrices) /\ Len(gasPrices) <= GasHistory /\ Len(gasPrices) \in Nat
  BY DEF PricingInv, TimersHeld
<1>2. longer \in Seq(GasPrices) /\ Len(longer) = Len(gasPrices) + 1
  BY <1>1
<1>3. Pricing!Recorded(price) = IF Len(longer) > GasHistory THEN Tail(longer) ELSE longer
  BY DEF Pricing!Recorded
<1> HIDE DEF longer
<1> QED BY <1>1, <1>2, <1>3, PricingConstants

LEMMA StartGasStep ==
    ASSUME PricingInv, NEW price \in GasPrices, Pricing!startGasTracker(price)
    PROVE  PricingInv'
<1> USE PricingConstants
<1>1. gasPrices' \in Seq(GasPrices) /\ Len(gasPrices') <= GasHistory
  BY RecordedShape DEF Pricing!startGasTracker
<1>2. TimersHeld'
  BY <1>1 DEF PricingInv, TimersHeld, Pricing!startGasTracker, Pricing!StillRunning,
              Pricing!NoLeakedTimer, Pricing!NoTimer
<1> QED BY <1>2, ServiceTimers DEF Pricing!startGasTracker

LEMMA UpdateGasStep ==
    ASSUME PricingInv, NEW price \in GasPrices, Pricing!updateGasPrices(price)
    PROVE  PricingInv'
<1>1. gasPrices' \in Seq(GasPrices) /\ Len(gasPrices') <= GasHistory
  BY RecordedShape DEF Pricing!updateGasPrices
<1>2. TimersHeld'
  BY <1>1 DEF PricingInv, TimersHeld, Pricing!updateGasPrices, Pricing!NoLeakedTimer
<1> QED BY <1>2, ServiceTimers DEF Pricing!updateGasPrices

LEMMA TimerSteps ==
    ASSUME PricingInv,
           \/ Pricing!stopGasTracker \/ Pricing!startMonitoring
           \/ Pricing!stopMonitoring \/ Pricing!collectMetrics
    PROVE  PricingInv'
<1> USE PricingConstants
<1> USE DEF PricingInv, TimersHeld, Pricing!NoLeakedTimer, Pricing!NoTimer
<1>1. CASE Pricing!stopGasTracker
  <2>1. TimersHeld'
    BY <1>1 DEF Pricing!stopGasTracker, Pricing!StillRunning
  <2> QED BY <1>1, <2>1, ServiceTimers DEF Pricing!stopGasTracker
<1>2. CASE Pricing!startMonitoring
  <2>1. TimersHeld'
    BY <1>2 DEF Pricing!startMonitoring
  <2> QED BY <1>2, <2>1, ServiceTimers DEF Pricing!startMonitoring
<1>3. CASE Pricing!stopMonitoring
  <2>1. TimersHeld'
    BY <1>3 DEF Pricing!stopMonitoring, Pricing!StillRunning
  <2> QED BY <1>3, <2>1, ServiceTimers DEF Pricing!stopMonitoring
<1>4. CASE Pricing!collectMetrics
  <2>1. TimersHeld'
    BY <1>4 DEF Pricing!collectMetrics
  <2> QED BY <1>4, <2>1, ServiceTimers DEF Pricing!collectMetrics
<1> QED BY <1>1, <1>2, <1>3, <1>4

LEMMA PricingInvNext == PricingInv /\ [Pricing!PricingNext]_Pricing!pricingVars => PricingInv'
<1> SUFFICES ASSUME PricingInv, [Pricing!PricingNext]_Pricing!pricingVars PROVE PricingInv'
  OBVIOUS
<1>1. CASE UNCHANGED Pricing!pricingVars
  BY <1>1 DEF PricingInv, QuotesStored, QuoteSound, TimersHeld, Pricing!NoLeakedTimer,
              Pricing!pricingVars
<1> QED
  BY <1>1, GetQuoteStep, RepriceStep, CleanupStep, PassSecondStep, StartGasStep,
     UpdateGasStep, TimerSteps
  DEF Pricing!PricingNext

LEMMA PricingInvPromise ==
    PricingInv => /\ Pricing!PricingTypeOK
                  /\ Pricing!QuotesKeepTheirTerm /\ Pricing!NoLeakedTimer
<1> SUFFICES ASSUME PricingInv
             PROVE  /\ Pricing!PricingTypeOK
                    /\ Pricing!QuotesKeepTheirTerm /\ Pricing!NoLeakedTimer
  OBVIOUS
<1>1. Pricing!NoLeakedTimer
  BY DEF PricingInv, TimersHeld
<1>2. running \subseteq 1 .. MaxTimers
  BY <1>1, PricingConstants DEF PricingInv, TimersHeld, Pricing!NoLeakedTimer, Pricing!NoTimer
<1>3. Pricing!PricingTypeOK
  BY <1>2 DEF PricingInv, QuotesStored, TimersHeld, Pricing!PricingTypeOK
<1>4. Pricing!QuotesKeepTheirTerm
  BY DEF PricingInv, QuotesStored, QuoteSound, Pricing!QuotesKeepTheirTerm
<1> QED BY <1>1, <1>3, <1>4

-----------------------------------------------------------------------------
(* The books together.                                                     *)

\* A step of the composition is a step of one book and leaves the others
\* alone.
LEMMA BooksApart ==
    ASSUME [MCNext]_<<part, coordinator, relayer>>
    PROVE  /\ [Next]_vars /\ [Catch!CatchNext]_Catch!catchVars
           /\ [Pages!PageNext]_Pages!pageVars /\ [Book!QuoteNext]_Book!quoteVars
           /\ [Store!StoreNext]_Store!storeVars /\ [Hist!HistNext]_Hist!histVars
           /\ [Fills!FillNext]_Fills!fillVars /\ [Rpc!RpcNext]_Rpc!rpcVars
           /\ [Pricing!PricingNext]_Pricing!pricingVars
<1>1. /\ Catch!catchVars = catchUp /\ Pages!pageVars = pages /\ Book!quoteVars = quoting
      /\ Store!storeVars = saved /\ Hist!histVars = eventLog /\ Fills!fillVars = partial
      /\ Rpc!rpcVars = rpc /\ Pricing!pricingVars = pricing
  BY DEF Catch!catchVars, catchUp, Pages!pageVars, pages, Book!quoteVars, quoting,
         Store!storeVars, saved, Hist!histVars, eventLog, Fills!fillVars, partial,
         Rpc!rpcVars, rpc, Pricing!pricingVars, pricing
<1>2. /\ (Catch!catchVars)' = catchUp' /\ (Pages!pageVars)' = pages'
      /\ (Book!quoteVars)' = quoting' /\ (Store!storeVars)' = saved'
      /\ (Hist!histVars)' = eventLog' /\ (Fills!fillVars)' = partial'
      /\ (Rpc!rpcVars)' = rpc' /\ (Pricing!pricingVars)' = pricing'
  BY DEF Catch!catchVars, catchUp, Pages!pageVars, pages, Book!quoteVars, quoting,
         Store!storeVars, saved, Hist!histVars, eventLog, Fills!fillVars, partial,
         Rpc!rpcVars, rpc, Pricing!pricingVars, pricing
<1>3. /\ UNCHANGED coordinator => UNCHANGED <<vars, catchUp, pages, quoting>>
      /\ UNCHANGED relayer => UNCHANGED <<saved, eventLog, partial, rpc, pricing>>
  BY DEF coordinator, relayer
<1>4. CASE MCNext
  BY <1>1, <1>2, <1>3, <1>4 DEF MCNext
<1>5. CASE UNCHANGED <<part, coordinator, relayer>>
  BY <1>1, <1>2, <1>3, <1>5
<1> QED BY <1>4, <1>5

\* Every book's invariant holds in the composition.
ServersInv ==
    /\ ServiceInv /\ CatchInv /\ PageInv /\ QuoteInv /\ StoreInv
    /\ HistInv /\ FillInv /\ RpcInv /\ PricingInv

LEMMA ServersInvariant == MCSpec => []ServersInv
<1>1. MCInit => ServersInv
  BY ServiceInvInit, CatchInvInit, PageInvInit, QuoteInvInit, StoreInvInit, HistInvInit,
     FillInvInit, RpcInvInit, PricingInvInit DEF MCInit, ServersInv
<1>2. ServersInv /\ [MCNext]_<<part, coordinator, relayer>> => ServersInv'
  BY BooksApart, ServiceInvStep, CatchInvNext, PageInvNext, QuoteInvNext, StoreInvNext,
     HistInvNext, FillInvNext, RpcInvNext, PricingInvNext DEF ServersInv
<1> QED BY <1>1, <1>2, PTL DEF MCSpec

\* The rows, cursors, pages, quotes, files, histories, listings, counters and
\* timers of both servers keep their shapes, for any number of each.
THEOREM ServersTypeCorrect == MCSpec => []ServersTypeOK
<1>1. ServersInv => ServersTypeOK
  BY CatchInvPromise, PageInvPromise, QuoteInvPromise, StoreInvPromise, HistInvPromise,
     FillInvPromise, RpcInvPromise, PricingInvPromise DEF ServersInv, ServiceInv, ServersTypeOK
<1> QED BY <1>1, ServersInvariant, PTL

\* EventHistoryManager.addEvent, persistOldestEvents and archiveOldEvents: for
\* any memory limit an event ever added is in memory, in a spilled file or in
\* an archive and the ones in memory are the newest, until a query sorts memory
\* in place or a day's archive is written a second time; and whatever is in
\* memory can be found through the index.
THEOREM HistoryTheorem == MCSpec => []HistoryComplete
<1>1. ServersInv => HistoryComplete
  BY HistInvPromise DEF ServersInv, HistoryComplete
<1> QED BY <1>1, ServersInvariant, PTL

\* MerkleTreeSecrets, FusionRpcHandler and the price services: for any
\* number of parts that divides 100, the cumulative amounts of a split never
\* exceed the order and fall short of it by less than a unit per part, and the
\* two ways to compute its hash lock agree; for any limit and window no stretch
\* of a window's length is served more than twice the limit; a completed order
\* is never pending again; a quote is served as issued for its whole term; and
\* no timer outlives its service.
THEOREM BookTheorem == MCSpec => []BookKeepsItsTerms
<1>1. ServersInv => BookKeepsItsTerms
  BY FillInvPromise, RpcInvPromise, PricingInvPromise DEF ServersInv, BookKeepsItsTerms
<1> QED BY <1>1, ServersInvariant, PTL
=============================================================================
