------------------------ MODULE RelayerPayoutsProofs ------------------------
(***************************************************************************)
(* The relayer pays the user of an XLM order once, and marks the order so  *)
(* only then, for any number of orders, of open requests, of overlapping   *)
(* watchdog scans and of restarts.  Its monitoring answers a payment with  *)
(* one HTLC while one poller lives, for any number of orders and starts,   *)
(* and its block poller skips no log, for any head, window and bindings.   *)
(***************************************************************************)
EXTENDS MCRelayer, FiniteSetTheorems, TLAPS

Gates == {"absent", "in_flight", "pending", "succeeded", "failed"}
CallRecord == [op: {"none", "process", "xlmToEth", "manual", "scan"},
               order: Orders \cup {"none"},
               at: {"idle", "store", "balance", "wait", "ok", "error", "busy", "timeout"},
               key: Keys \cup {<<>>}]

TrackerTypes ==
    /\ gate \in [Keys -> Gates]
    /\ tx \in [Keys -> {"none", "live", "landed", "dropped"}]
    /\ paid \in [Keys -> 0 .. MaxPayouts]
    /\ drv \in [Keys -> {"none", "staging", "polling"}]
    /\ call \in [Actors -> CallRecord]

\* The record of a key agrees with its driver and its transaction, and a key
\* of an XLM order paid exactly if its transaction landed.
KeyTrue(key) ==
    /\ drv[key] = "staging" <=> gate[key] = "in_flight"
    /\ drv[key] = "polling" => gate[key] = "pending"
    /\ gate[key] \in {"absent", "in_flight"} => tx[key] = "none"
    /\ gate[key] = "pending" => tx[key] # "none"
    /\ gate[key] = "succeeded" => tx[key] = "landed"
    /\ gate[key] = "failed" => tx[key] \in {"none", "dropped"}
    /\ key[1] \in EthOrders => tx[key] = "none"
    /\ key[1] \in XlmOrders => paid[key] = IF tx[key] = "landed" THEN 1 ELSE 0

KeysTrue == \A key \in Keys : KeyTrue(key)

\* The claim and the refund of an order are never both under way or done.
Holds(written) == written \in {"in_flight", "pending", "succeeded"}
LockExclusive ==
    \A o \in XlmOrders : ~ (Holds(gate[<<o, "claim">>]) /\ Holds(gate[<<o, "refund">>]))

\* A request works on the key of its order, and was told "ok" only about a
\* transaction that landed.
CallTrue(a) ==
    /\ call[a].op = "process" => call[a].key = <<call[a].order, "claim">>
    /\ call[a].op = "scan" => call[a].key = <<call[a].order, "refund">>
    /\ call[a].op \in {"xlmToEth", "manual", "scan"} => call[a].order \in XlmOrders
    /\ call[a].op = "process" => call[a].order \in Orders
    /\ call[a].at \in {"store", "balance"} => call[a].op = "xlmToEth"
    /\ call[a].at = "wait" => call[a].key \in Keys
    /\ call[a].at = "ok" => call[a].key \in Keys /\ gate[call[a].key] = "succeeded"

CallsTrue == \A a \in Actors : CallTrue(a)

TrackInv == TrackerTypes /\ KeysTrue /\ LockExclusive /\ CallsTrue

MapTypes ==
    /\ active \in [Orders -> [status: Statuses, hasTx: BOOLEAN, refunded: BOOLEAN]]
    /\ users \subseteq Orders /\ received \subseteq XlmOrders
    /\ htlc \subseteq XlmOrders
    /\ restarts \in 0 .. MaxRestarts

\* What the order map says of a payment is true.
MarksTrue == \A o \in XlmOrders : MarkedOnlyWhenPaid(o)

\* The inductive invariant.  MarksTrue needs CallsTrue (a handler marks what
\* it was told), CallsTrue needs KeysTrue, and LockExclusive is what makes
\* the two payments of an order exclude each other.
PayInv == TrackInv /\ MapTypes /\ MarksTrue

-----------------------------------------------------------------------------
\* The keys of an order.
LEMMA KeyFacts ==
    /\ \A o \in XlmOrders : /\ <<o, "claim">> \in Keys
                            /\ <<o, "refund">> \in Keys
                            /\ <<o, "payRefund">> \in Keys
    /\ \A o \in EthOrders : <<o, "claim">> \in Keys
    /\ \A key \in Keys :
          /\ key[1] \in Orders
          /\ key = <<key[1], key[2]>>
          /\ \/ key[1] \in XlmOrders /\ key[2] \in {"claim", "refund", "payRefund"}
             \/ key[1] \in EthOrders /\ key[2] = "claim"
<1>1. \A o \in XlmOrders : /\ <<o, "claim">> \in Keys
                           /\ <<o, "refund">> \in Keys
                           /\ <<o, "payRefund">> \in Keys
  BY DEF Keys
<1>2. \A o \in EthOrders : <<o, "claim">> \in Keys
  BY DEF Keys
<1>3. ASSUME NEW key \in Keys
      PROVE  /\ key[1] \in Orders
             /\ key = <<key[1], key[2]>>
             /\ \/ key[1] \in XlmOrders /\ key[2] \in {"claim", "refund", "payRefund"}
                \/ key[1] \in EthOrders /\ key[2] = "claim"
  <2>1. CASE key \in XlmOrders \X {"claim", "refund", "payRefund"}
    BY <2>1 DEF Orders
  <2>2. CASE key \in EthOrders \X {"claim"}
    BY <2>2 DEF Orders
  <2> QED BY <2>1, <2>2 DEF Keys
<1> QED
  BY <1>1, <1>2, <1>3

LEMMA PayInvInit == Init => PayInv
<1> SUFFICES ASSUME Init PROVE PayInv
  OBVIOUS
<1>1. TrackerTypes
  <2>1. NoCall \in CallRecord
    BY DEF NoCall, CallRecord
  <2> QED BY <2>1, RelayerAssumption DEF Init, TrackerTypes, Gates
<1>2. KeysTrue /\ LockExclusive
  BY KeyFacts DEF Init, KeysTrue, KeyTrue, LockExclusive, Holds
<1>3. CallsTrue
  BY DEF Init, CallsTrue, CallTrue, NoCall
<1>4. MapTypes
  BY RelayerAssumption DEF Init, MapTypes, Orders, NoOrder, Statuses
<1>5. MarksTrue
  BY DEF Init, MarksTrue, MarkedOnlyWhenPaid, NoOrder, Orders
<1> QED
  BY <1>1, <1>2, <1>3, <1>4, <1>5 DEF PayInv, TrackInv

-----------------------------------------------------------------------------
(* Steps of the tracker.                                                   *)

\* A finished payment stays finished: whatever the handlers marked stays true.
LEMMA MarksKept ==
    ASSUME PayInv, \A o \in XlmOrders : active'[o] = active[o],
           \A key \in Keys : key[1] \in XlmOrders /\ paid[key] = 1 => paid'[key] = 1
    PROVE  MarksTrue'
<1> SUFFICES ASSUME NEW o \in XlmOrders PROVE MarkedOnlyWhenPaid(o)'
  BY DEF MarksTrue
<1>1. MarkedOnlyWhenPaid(o)
  BY DEF PayInv, MarksTrue
<1>2. /\ <<o, "claim">> \in Keys /\ <<o, "refund">> \in Keys
      /\ <<o, "claim">>[1] \in XlmOrders /\ <<o, "refund">>[1] \in XlmOrders
  BY KeyFacts
<1> QED
  BY <1>1, <1>2 DEF MarkedOnlyWhenPaid

\* A step of one key: the others keep their records, and the calls learn of
\* a success only if there is one.
LEMMA OneKeyStep ==
    ASSUME TrackInv, TrackerTypes', NEW key \in Keys,
           \A k \in Keys \ {key} : /\ gate'[k] = gate[k] /\ tx'[k] = tx[k]
                                   /\ paid'[k] = paid[k] /\ drv'[k] = drv[k],
           KeyTrue(key)', CallsTrue',
           Holds(gate'[key]) => Holds(gate[key]) \/ ~ Blocked(key)
    PROVE  TrackInv'
<1>1. KeysTrue'
  <2> SUFFICES ASSUME NEW k \in Keys PROVE KeyTrue(k)'
    BY DEF KeysTrue
  <2>1. CASE k = key
    BY <2>1
  <2>2. CASE k # key
    BY <2>2 DEF TrackInv, KeysTrue, KeyTrue
  <2> QED BY <2>1, <2>2
<1>2. LockExclusive'
  <2> SUFFICES ASSUME NEW o \in XlmOrders,
                      Holds(gate'[<<o, "claim">>]), Holds(gate'[<<o, "refund">>])
               PROVE  FALSE
    BY DEF LockExclusive
  <2>1. <<o, "claim">> \in Keys /\ <<o, "refund">> \in Keys
    BY KeyFacts
  <2>2. CASE key = <<o, "claim">>
    <3>1. Holds(gate[<<o, "refund">>])
      BY <2>1, <2>2
    <3>2. Opposite(key) = {<<o, "refund">>}
      BY <2>2 DEF Opposite
    <3>3. Blocked(key)
      BY <2>1, <3>1, <3>2 DEF Blocked, Holds
    <3> QED BY <2>2, <3>1, <3>3 DEF TrackInv, LockExclusive
  <2>3. CASE key = <<o, "refund">>
    <3>1. Holds(gate[<<o, "claim">>])
      BY <2>1, <2>3
    <3>2. Opposite(key) = {<<o, "claim">>}
      BY <2>3 DEF Opposite
    <3>3. Blocked(key)
      BY <2>1, <3>1, <3>2 DEF Blocked, Holds
    <3> QED BY <2>3, <3>1, <3>3 DEF TrackInv, LockExclusive
  <2>4. CASE key # <<o, "claim">> /\ key # <<o, "refund">>
    BY <2>1, <2>4 DEF TrackInv, LockExclusive
  <2> QED BY <2>2, <2>3, <2>4
<1> QED
  BY <1>1, <1>2 DEF TrackInv

\* A step that rewrites one call and takes back no success.
LEMMA OneCallStep ==
    ASSUME TrackInv, NEW a \in Actors, NEW c \in CallRecord,
           call' = [call EXCEPT ![a] = c],
           \A k \in Keys : gate[k] = "succeeded" => gate'[k] = "succeeded",
           CallTrue(a)'
    PROVE  CallsTrue' /\ call' \in [Actors -> CallRecord]
<1>1. call \in [Actors -> CallRecord]
  BY DEF TrackInv, TrackerTypes
<1>2. call' \in [Actors -> CallRecord] /\ \A b \in Actors \ {a} : call'[b] = call[b]
  BY <1>1
<1>3. ASSUME NEW b \in Actors, b # a PROVE CallTrue(b)'
  <2>1. CallTrue(b) /\ call'[b] = call[b]
    BY <1>2, <1>3 DEF TrackInv, CallsTrue
  <2> QED BY <2>1 DEF CallTrue
<1> QED
  BY <1>2, <1>3 DEF CallsTrue

\* A step of a handler that touches neither the keys nor the chains.
LEMMA OnlyCallStep ==
    ASSUME TrackInv, NEW a \in Actors, NEW c \in CallRecord,
           call' = [call EXCEPT ![a] = c], UNCHANGED trackerVars, CallTrue(a)'
    PROVE  TrackInv'
<1>1. UNCHANGED <<gate, tx, paid, drv>>
  BY DEF trackerVars
<1>2. CallsTrue' /\ call' \in [Actors -> CallRecord]
  BY <1>1, OneCallStep
<1>3. KeysTrue' /\ LockExclusive'
  BY <1>1 DEF TrackInv, KeysTrue, KeyTrue, LockExclusive
<1> QED
  BY <1>1, <1>2, <1>3 DEF TrackInv, TrackerTypes

LEMMA HangupStep ==
    ASSUME TrackInv, NEW a \in Actors, Hangup(a), UNCHANGED trackerVars
    PROVE  TrackInv'
<1>1. NoCall \in CallRecord
  BY DEF NoCall, CallRecord
<1>2. call' = [call EXCEPT ![a] = NoCall] /\ call'[a] = NoCall
  BY DEF Hangup, TrackInv, TrackerTypes
<1>3. CallTrue(a)'
  BY <1>2 DEF CallTrue, NoCall
<1> QED
  BY <1>1, <1>2, <1>3, OnlyCallStep

\* submit() joins, attaches to, or starts the one transaction of a key; it
\* starts one only when the opposite key of the order is free.
LEMMA SubmitStep ==
    ASSUME TrackInv, NEW a \in Actors, NEW o \in Orders, NEW key \in Keys,
           NEW op \in {"process", "xlmToEth", "manual", "scan"},
           op = "process" => key = <<o, "claim">>,
           op = "scan" => key = <<o, "refund">>,
           op # "process" => o \in XlmOrders,
           submit(a, op, o, key)
    PROVE  TrackInv' /\ paid' = paid
<1> DEFINE c(at) == [op |-> op, order |-> o, at |-> at, key |-> key]
<1>1. /\ tx' = tx /\ paid' = paid
      /\ gate \in [Keys -> Gates] /\ drv \in [Keys -> {"none", "staging", "polling"}]
      /\ call \in [Actors -> CallRecord] /\ KeyTrue(key)
  BY DEF submit, TrackInv, TrackerTypes, KeysTrue
<1>2. ASSUME NEW at \in {"ok", "error", "wait", "busy"},
             call' = [call EXCEPT ![a] = c(at)],
             \A k \in Keys : gate[k] = "succeeded" => gate'[k] = "succeeded",
             at = "ok" => gate'[key] = "succeeded"
      PROVE  CallsTrue' /\ call' \in [Actors -> CallRecord]
  <2>1. c(at) \in CallRecord /\ call'[a] = c(at)
    BY <1>1, <1>2 DEF CallRecord
  <2>2. CallTrue(a)'
    BY <1>2, <2>1 DEF CallTrue
  <2> HIDE DEF c
  <2> QED BY <1>2, <2>1, <2>2, OneCallStep
<1>3. ASSUME NEW at \in {"ok", "error", "wait", "busy"},
             call' = [call EXCEPT ![a] = c(at)], UNCHANGED <<gate, drv>>,
             at = "ok" => gate[key] = "succeeded"
      PROVE  TrackInv'
  <2>1. CallsTrue' /\ call' \in [Actors -> CallRecord]
    BY <1>2, <1>3
  <2>2. KeysTrue' /\ LockExclusive'
    BY <1>1, <1>3 DEF TrackInv, KeysTrue, KeyTrue, LockExclusive
  <2> QED BY <1>1, <1>3, <2>1, <2>2 DEF TrackInv, TrackerTypes
<1>4. ASSUME NEW written \in Gates, NEW step \in {"staging", "polling"},
             call' = [call EXCEPT ![a] = c("wait")],
             gate' = [gate EXCEPT ![key] = written],
             drv' = [drv EXCEPT ![key] = step],
             gate[key] # "succeeded",
             KeyTrue(key)', written = "in_flight" => ~ Blocked(key),
             written # "in_flight" => written = gate[key]
      PROVE  TrackInv'
  <2>1. \A k \in Keys : gate[k] = "succeeded" => gate'[k] = "succeeded"
    BY <1>1, <1>4
  <2>2. CallsTrue' /\ call' \in [Actors -> CallRecord]
    BY <1>2, <1>4, <2>1
  <2>3. TrackerTypes'
    BY <1>1, <1>4, <2>2 DEF TrackInv, TrackerTypes
  <2>4. /\ \A k \in Keys \ {key} : /\ gate'[k] = gate[k] /\ tx'[k] = tx[k]
                                   /\ paid'[k] = paid[k] /\ drv'[k] = drv[k]
        /\ gate'[key] = written
    BY <1>1, <1>4
  <2>5. Holds(gate'[key]) => Holds(gate[key]) \/ ~ Blocked(key)
    BY <1>4, <2>4
  <2> QED BY <1>4, <2>2, <2>3, <2>4, <2>5, OneKeyStep
<1>5. CASE gate[key] = "succeeded"
  <2>1. call' = [call EXCEPT ![a] = c("ok")] /\ UNCHANGED <<gate, drv>>
    BY <1>5 DEF submit
  <2> QED BY <1>1, <1>3, <1>5, <2>1
<1>6. CASE gate[key] = "failed"
  <2>1. call' = [call EXCEPT ![a] = c("error")] /\ UNCHANGED <<gate, drv>>
    BY <1>6 DEF submit
  <2> QED BY <1>1, <1>3, <2>1
<1>7. CASE gate[key] \notin {"succeeded", "failed"} /\ drv[key] # "none"
  <2>1. call' = [call EXCEPT ![a] = c("wait")] /\ UNCHANGED <<gate, drv>>
    BY <1>7 DEF submit
  <2> QED BY <1>1, <1>3, <2>1
<1>8. CASE gate[key] = "pending" /\ drv[key] = "none"
  <2>1. /\ call' = [call EXCEPT ![a] = c("wait")]
        /\ gate' = [gate EXCEPT ![key] = "pending"]
        /\ drv' = [drv EXCEPT ![key] = "polling"]
    BY <1>8 DEF submit
  <2>2. gate'[key] = "pending" /\ drv'[key] = "polling"
    BY <1>1, <2>1
  <2>3. KeyTrue(key)'
    BY <1>1, <1>8, <2>2 DEF KeyTrue
  <2>4. "pending" \in Gates
    BY DEF Gates
  <2> HIDE DEF c
  <2> QED BY <1>1, <1>4, <1>8, <2>1, <2>3, <2>4
<1>9. CASE gate[key] \notin {"succeeded", "failed", "pending"} /\ drv[key] = "none" /\ Blocked(key)
  <2>1. call' = [call EXCEPT ![a] = c("busy")] /\ UNCHANGED <<gate, drv>>
    BY <1>9 DEF submit
  <2> QED BY <1>1, <1>3, <2>1
<1>10. CASE gate[key] \notin {"succeeded", "failed", "pending"} /\ drv[key] = "none" /\ ~ Blocked(key)
  <2>1. /\ call' = [call EXCEPT ![a] = c("wait")]
        /\ gate' = [gate EXCEPT ![key] = "in_flight"]
        /\ drv' = [drv EXCEPT ![key] = "staging"]
    BY <1>10 DEF submit
  <2>2. gate'[key] = "in_flight" /\ drv'[key] = "staging"
    BY <1>1, <2>1
  <2>3. gate[key] = "absent"
    BY <1>1, <1>10 DEF KeyTrue, Gates
  <2>4. KeyTrue(key)'
    BY <1>1, <2>2, <2>3 DEF KeyTrue
  <2>5. "in_flight" \in Gates
    BY DEF Gates
  <2> HIDE DEF c
  <2> QED BY <1>1, <1>4, <1>10, <2>1, <2>4, <2>5
<1> QED
  BY <1>1, <1>5, <1>6, <1>7, <1>8, <1>9, <1>10

\* The promise of a key resolves for everyone who waits for it.
LEMMA AnswerStep ==
    ASSUME TrackInv, NEW key \in Keys, NEW at \in {"ok", "error", "timeout"},
           Answer(key, at),
           \A k \in Keys : gate[k] = "succeeded" => gate'[k] = "succeeded",
           at = "ok" => gate'[key] = "succeeded"
    PROVE  CallsTrue' /\ call' \in [Actors -> CallRecord]
<1>1. call \in [Actors -> CallRecord]
  BY DEF TrackInv, TrackerTypes
<1>2. ASSUME NEW a \in Actors PROVE call'[a] \in CallRecord /\ CallTrue(a)'
  <2>1. call[a] \in CallRecord /\ CallTrue(a)
    BY <1>1 DEF TrackInv, CallsTrue
  <2>2. CASE call[a].at = "wait" /\ call[a].key = key
    <3>1. call'[a] = [call[a] EXCEPT !.at = at]
      BY <2>2 DEF Answer
    <3>2. /\ call'[a] \in CallRecord
          /\ call'[a].op = call[a].op /\ call'[a].order = call[a].order
          /\ call'[a].key = key /\ call'[a].at = at
      BY <2>1, <2>2, <3>1 DEF CallRecord
    <3> QED BY <2>1, <2>2, <3>2 DEF CallTrue
  <2>3. CASE ~ (call[a].at = "wait" /\ call[a].key = key)
    <3>1. call'[a] = call[a]
      BY <2>3 DEF Answer
    <3> QED BY <2>1, <3>1 DEF CallTrue
  <2> QED BY <2>2, <2>3
<1>3. call' = [a \in Actors |-> call'[a]]
  BY DEF Answer
<1> QED
  BY <1>2, <1>3 DEF CallsTrue

\* The end of a driven key.
LEMMA FinishStep ==
    ASSUME TrackInv, NEW key \in Keys,
           NEW written \in {"absent", "pending", "succeeded", "failed"},
           NEW at \in {"ok", "error", "timeout"},
           Finish(key, written, at), tx' = tx,
           paid' \in [Keys -> 0 .. MaxPayouts],
           \A k \in Keys \ {key} : paid'[k] = paid[k],
           gate[key] # "succeeded", Holds(written) => Holds(gate[key]),
           at = "ok" => written = "succeeded",
           gate'[key] = written /\ drv'[key] = "none" => KeyTrue(key)'
    PROVE  TrackInv'
<1>1. /\ gate \in [Keys -> Gates] /\ drv \in [Keys -> {"none", "staging", "polling"}]
      /\ gate' = [gate EXCEPT ![key] = written] /\ drv' = [drv EXCEPT ![key] = "none"]
      /\ Answer(key, at)
  BY DEF Finish, TrackInv, TrackerTypes
<1>2. /\ gate'[key] = written /\ drv'[key] = "none"
      /\ \A k \in Keys \ {key} : gate'[k] = gate[k] /\ drv'[k] = drv[k]
  BY <1>1
<1>3. CallsTrue' /\ call' \in [Actors -> CallRecord]
  BY <1>1, <1>2, AnswerStep
<1>4. TrackerTypes'
  BY <1>1, <1>3 DEF TrackInv, TrackerTypes, Gates
<1> QED
  BY <1>2, <1>3, <1>4, OneKeyStep

LEMMA TrackerStepKeeps ==
    ASSUME TrackInv, NEW key \in Keys, TrackerStep(key)
    PROVE  /\ TrackInv'
           /\ \A k \in Keys : k[1] \in XlmOrders => paid'[k] = paid[k]
<1>1. /\ KeyTrue(key) /\ gate \in [Keys -> Gates]
      /\ tx \in [Keys -> {"none", "live", "landed", "dropped"}]
      /\ paid \in [Keys -> 0 .. MaxPayouts]
      /\ drv \in [Keys -> {"none", "staging", "polling"}]
  BY DEF TrackInv, TrackerTypes, KeysTrue
<1>2. CASE StagingFails(key)
  <2>1. PICK written \in {"absent", "failed"} : Finish(key, written, "error")
    BY <1>2 DEF StagingFails
  <2>2. tx' = tx /\ paid' = paid /\ gate[key] = "in_flight" /\ tx[key] = "none"
    BY <1>1, <1>2 DEF StagingFails, KeyTrue
  <2>3. gate'[key] = written /\ drv'[key] = "none" => KeyTrue(key)'
    BY <1>1, <2>2 DEF KeyTrue
  <2> QED BY <1>1, <2>1, <2>2, <2>3, FinishStep DEF Holds
<1>3. CASE Staged(key)
  <2>1. /\ gate' = [gate EXCEPT ![key] = "pending"] /\ tx' = [tx EXCEPT ![key] = "live"]
        /\ drv' = [drv EXCEPT ![key] = "polling"] /\ UNCHANGED <<paid, call>>
        /\ gate[key] = "in_flight" /\ tx[key] = "none"
    BY <1>1, <1>3 DEF Staged, KeyTrue
  <2>2. /\ gate'[key] = "pending" /\ tx'[key] = "live" /\ drv'[key] = "polling"
        /\ \A k \in Keys \ {key} : gate'[k] = gate[k] /\ tx'[k] = tx[k] /\ drv'[k] = drv[k]
    BY <1>1, <2>1
  <2>3. key[1] \notin EthOrders
    BY <1>3, KeyFacts, RelayerAssumption DEF Staged
  <2>4. KeyTrue(key)'
    BY <1>1, <2>1, <2>2, <2>3 DEF KeyTrue
  <2>5. TrackerTypes'
    BY <1>1, <2>1 DEF TrackInv, TrackerTypes, Gates
  <2>6. CallsTrue'
    <3>1. SUFFICES ASSUME NEW a \in Actors PROVE CallTrue(a)'
      BY DEF CallsTrue
    <3>2. CallTrue(a) /\ call'[a] = call[a]
      BY <2>1 DEF TrackInv, CallsTrue
    <3> QED BY <2>1, <2>2, <3>2 DEF CallTrue
  <2>7. Holds(gate[key])
    BY <2>1 DEF Holds
  <2> QED BY <2>1, <2>2, <2>4, <2>5, <2>6, <2>7, OneKeyStep
<1>4. CASE submitIfCoordinatorQuoteMatches(key)
  <2>1. /\ paid' = [paid EXCEPT ![key] = @ + 1] /\ tx' = tx /\ paid[key] < MaxPayouts
        /\ Finish(key, "absent", "error") /\ key[1] \in EthOrders
        /\ gate[key] = "in_flight" /\ tx[key] = "none"
    BY <1>1, <1>4 DEF submitIfCoordinatorQuoteMatches, KeyTrue
  <2>2. /\ paid' \in [Keys -> 0 .. MaxPayouts]
        /\ \A k \in Keys \ {key} : paid'[k] = paid[k]
    <3>1. paid[key] + 1 \in 0 .. MaxPayouts
      BY <1>1, <2>1, RelayerAssumption
    <3> QED BY <1>1, <2>1, <3>1
  <2>3. key[1] \notin XlmOrders
    BY <2>1, RelayerAssumption
  <2>4. gate'[key] = "absent" /\ drv'[key] = "none" => KeyTrue(key)'
    BY <1>1, <2>1, <2>3 DEF KeyTrue
  <2>5. TrackInv'
    BY <2>1, <2>2, <2>4, FinishStep DEF Holds
  <2> QED BY <2>2, <2>3, <2>5
<1>5. CASE Polled(key)
  <2>1. tx' = tx /\ paid' = paid /\ gate[key] = "pending" /\ tx[key] # "none"
    BY <1>1, <1>5 DEF Polled, KeyTrue
  <2>2. PICK written \in {"pending", "succeeded", "failed"},
             at \in {"ok", "error", "timeout"} :
          /\ Finish(key, written, at)
          /\ at = "ok" => written = "succeeded"
          /\ written = "succeeded" => tx[key] = "landed"
          /\ written = "failed" => tx[key] = "dropped"
    BY <1>5 DEF Polled
  <2>3. gate'[key] = written /\ drv'[key] = "none" => KeyTrue(key)'
    BY <1>1, <2>1, <2>2 DEF KeyTrue
  <2> QED BY <1>1, <2>1, <2>2, <2>3, FinishStep DEF Holds
<1> QED
  BY <1>2, <1>3, <1>4, <1>5 DEF TrackerStep

LEMMA TxResolvesKeeps ==
    ASSUME TrackInv, NEW key \in Keys, TxResolves(key)
    PROVE  /\ TrackInv'
           /\ \A k \in Keys : k[1] \in XlmOrders /\ paid[k] = 1 => paid'[k] = 1
<1>1. /\ KeyTrue(key)
      /\ tx \in [Keys -> {"none", "live", "landed", "dropped"}]
      /\ paid \in [Keys -> 0 .. MaxPayouts]
      /\ UNCHANGED <<gate, drv, call>> /\ tx[key] = "live"
  BY DEF TrackInv, TrackerTypes, KeysTrue, TxResolves
<1>2. key[1] \in XlmOrders /\ key[1] \notin EthOrders /\ paid[key] = 0
  BY <1>1, KeyFacts, RelayerAssumption DEF KeyTrue
<1>3. \/ tx' = [tx EXCEPT ![key] = "landed"] /\ paid' = [paid EXCEPT ![key] = 1]
      \/ tx' = [tx EXCEPT ![key] = "dropped"] /\ paid' = paid
  BY <1>1, <1>2 DEF TxResolves
<1>4. 1 \in 0 .. MaxPayouts
  BY RelayerAssumption
<1>5. /\ tx' \in [Keys -> {"none", "live", "landed", "dropped"}]
      /\ paid' \in [Keys -> 0 .. MaxPayouts]
      /\ \A k \in Keys \ {key} : tx'[k] = tx[k] /\ paid'[k] = paid[k]
      /\ \/ tx'[key] = "landed" /\ paid'[key] = 1
         \/ tx'[key] = "dropped" /\ paid'[key] = 0
  BY <1>1, <1>2, <1>3, <1>4
<1>6. TrackerTypes'
  BY <1>1, <1>5 DEF TrackInv, TrackerTypes
<1>7. KeyTrue(key)'
  BY <1>1, <1>2, <1>5 DEF KeyTrue
<1>8. CallsTrue'
  BY <1>1 DEF TrackInv, CallsTrue, CallTrue
<1>9. TrackInv'
  BY <1>1, <1>5, <1>6, <1>7, <1>8, OneKeyStep
<1> QED
  BY <1>2, <1>5, <1>9

-----------------------------------------------------------------------------
(* Steps of the handlers, the pollers and the process.                     *)

MapRecord == [status: Statuses, hasTx: BOOLEAN, refunded: BOOLEAN]

\* Rewriting one entry of the order map is sound when what the new entry
\* says of a payment is true.
LEMMA OneOrderStep ==
    ASSUME PayInv, NEW o \in Orders, NEW rec \in MapRecord,
           active' = [active EXCEPT ![o] = rec], paid' = paid,
           o \in XlmOrders /\ (rec.status = "refunded" \/ rec.refunded)
               => paid[<<o, "refund">>] = 1,
           o \in XlmOrders /\ rec.status \in {"eth_tx_sent", "completed"}
               => paid[<<o, "claim">>] = 1
    PROVE  MarksTrue' /\ active' \in [Orders -> MapRecord]
<1>1. active \in [Orders -> MapRecord] /\ MarksTrue
  BY DEF PayInv, MapTypes, MapRecord
<1>2. /\ active'[o] = rec /\ active' \in [Orders -> MapRecord]
      /\ \A p \in Orders \ {o} : active'[p] = active[p]
  BY <1>1
<1>3. ASSUME NEW p \in XlmOrders PROVE MarkedOnlyWhenPaid(p)'
  <2>1. p \in Orders
    BY DEF Orders
  <2>2. CASE p = o
    BY <1>2, <2>2 DEF MarkedOnlyWhenPaid
  <2>3. CASE p # o
    <3>1. active'[p] = active[p] /\ MarkedOnlyWhenPaid(p)
      BY <1>1, <1>2, <2>1, <2>3 DEF MarksTrue
    <3> QED BY <3>1 DEF MarkedOnlyWhenPaid
  <2> QED BY <2>2, <2>3
<1> QED
  BY <1>2, <1>3 DEF MarksTrue

\* Who was told "ok" was paid.
LEMMA ToldIsPaid ==
    ASSUME TrackInv, NEW a \in Actors, call[a].at = "ok", call[a].key[1] \in XlmOrders
    PROVE  paid[call[a].key] = 1
  BY DEF TrackInv, CallsTrue, CallTrue, KeysTrue, KeyTrue

\* A caller's answer is written to the map under the status of its payment.
LEMMA MarkStep ==
    ASSUME PayInv, NEW a \in Actors, NEW o \in Orders, o = call[a].order,
           call[a].at = "ok", Hangup(a),
           UNCHANGED <<received, trackerVars, htlc, users, restarts>>,
           \/ /\ call[a].key = <<o, "claim">>
              /\ \E written \in {"eth_tx_sent", "completed"} :
                    active' = [active EXCEPT ![o].status = written]
           \/ /\ call[a].key = <<o, "refund">>
              /\ active' = [active EXCEPT ![o].status = "refunded", ![o].refunded = TRUE]
    PROVE  PayInv'
<1>1. /\ TrackInv /\ MapTypes /\ active \in [Orders -> MapRecord]
      /\ MarksTrue /\ paid' = paid
  BY DEF PayInv, MapTypes, MapRecord, trackerVars
<1>2. TrackInv'
  BY <1>1, HangupStep
<1>3. MarksTrue' /\ active' \in [Orders -> MapRecord]
  <2>1. CASE /\ call[a].key = <<o, "claim">>
             /\ \E written \in {"eth_tx_sent", "completed"} :
                   active' = [active EXCEPT ![o].status = written]
    <3>1. PICK written \in {"eth_tx_sent", "completed"} :
            active' = [active EXCEPT ![o].status = written]
      BY <2>1
    <3>2. PICK rec : rec = [active[o] EXCEPT !.status = written]
      OBVIOUS
    <3>3. /\ rec \in MapRecord /\ rec.status = written /\ rec.refunded = active[o].refunded
          /\ active' = [active EXCEPT ![o] = rec]
      BY <1>1, <3>1, <3>2 DEF MapRecord, Statuses
    <3>4. o \in XlmOrders => paid[<<o, "claim">>] = 1
      BY <1>1, <2>1, ToldIsPaid
    <3>5. o \in XlmOrders /\ rec.refunded => paid[<<o, "refund">>] = 1
      BY <1>1, <3>3 DEF MarksTrue, MarkedOnlyWhenPaid
    <3> QED BY <1>1, <3>1, <3>3, <3>4, <3>5, OneOrderStep
  <2>2. CASE /\ call[a].key = <<o, "refund">>
             /\ active' = [active EXCEPT ![o].status = "refunded", ![o].refunded = TRUE]
    <3>1. PICK rec : rec = [active[o] EXCEPT !.status = "refunded", !.refunded = TRUE]
      OBVIOUS
    <3>2. /\ rec \in MapRecord /\ rec.status = "refunded"
          /\ active' = [active EXCEPT ![o] = rec]
      <4>1. rec \in MapRecord /\ rec.status = "refunded"
        <5>1. active[o] \in MapRecord /\ "refunded" \in Statuses /\ TRUE \in BOOLEAN
          BY <1>1 DEF Statuses
        <5>2. rec = [status |-> "refunded", hasTx |-> active[o].hasTx, refunded |-> TRUE]
          BY <3>1, <5>1, Zenon DEF MapRecord
        <5> QED BY <5>1, <5>2 DEF MapRecord
      <4>2. active' = [active EXCEPT ![o] =
                          [active[o] EXCEPT !.status = "refunded", !.refunded = TRUE]]
        BY <1>1, <2>2
      <4> QED BY <3>1, <4>1, <4>2
    <3>3. o \in XlmOrders => paid[<<o, "refund">>] = 1
      BY <1>1, <2>2, ToldIsPaid
    <3> QED BY <1>1, <3>2, <3>3, OneOrderStep
  <2> QED BY <2>1, <2>2
<1> QED
  BY <1>1, <1>2, <1>3 DEF PayInv, MapTypes, MapRecord

\* A step that keeps the order map.
LEMMA MapKeptStep ==
    ASSUME PayInv, TrackInv', UNCHANGED <<active, received, htlc, users, restarts>>,
           \A k \in Keys : k[1] \in XlmOrders /\ paid[k] = 1 => paid'[k] = 1
    PROVE  PayInv'
<1>1. MarksTrue'
  BY MarksKept
<1> QED
  BY <1>1 DEF PayInv, MapTypes

\* A step that writes one entry of the map and nothing of the tracker.
LEMMA MapWriteStep ==
    ASSUME PayInv, TrackInv', paid' = paid, NEW o \in Orders, NEW rec \in MapRecord,
           active' = [active EXCEPT ![o] = rec],
           o \in XlmOrders /\ (rec.status = "refunded" \/ rec.refunded)
               => paid[<<o, "refund">>] = 1,
           o \in XlmOrders /\ rec.status \in {"eth_tx_sent", "completed"}
               => paid[<<o, "claim">>] = 1,
           UNCHANGED <<users, restarts>>, received' \subseteq XlmOrders,
           htlc' \subseteq XlmOrders
    PROVE  PayInv'
<1>1. MarksTrue' /\ active' \in [Orders -> MapRecord]
  BY OneOrderStep
<1> QED
  BY <1>1 DEF PayInv, MapTypes, MapRecord

\* With the tracker untouched its invariant stays.
LEMMA TrackerKept ==
    ASSUME TrackInv, UNCHANGED <<gate, tx, paid, drv, call>>
    PROVE  TrackInv'
<1>1. TrackerTypes'
  BY DEF TrackInv, TrackerTypes
<1>2. KeysTrue' /\ LockExclusive' /\ CallsTrue'
  BY DEF TrackInv, KeysTrue, KeyTrue, LockExclusive, CallsTrue, CallTrue
<1> QED
  BY <1>1, <1>2 DEF TrackInv

LEMMA ClientStepKeeps ==
    ASSUME PayInv, ClientStep
    PROVE  PayInv'
<1>1. /\ TrackInv /\ MapTypes /\ users \subseteq Orders /\ received \subseteq XlmOrders
      /\ active \in [Orders -> MapRecord] /\ Clients \subseteq Actors
      /\ call \in [Actors -> CallRecord] /\ XlmOrders \subseteq Orders
      /\ htlc \subseteq XlmOrders
  BY DEF PayInv, MapTypes, MapRecord, Actors, TrackInv, TrackerTypes, Orders
<1>2. ASSUME NEW o \in users, Create(o) PROVE PayInv'
  <2>1. PICK written \in createStatus(o) : active' = [active EXCEPT ![o] = [NoOrder EXCEPT !.status = written]]
    BY <1>2 DEF Create, storeActiveOrder
  <2>2. PICK rec : rec = [NoOrder EXCEPT !.status = written]
    OBVIOUS
  <2>3. written \in createEthToXlm \cup createXlmToEth
    BY <2>1 DEF createStatus
  <2>4. /\ rec \in MapRecord /\ ~ rec.refunded
        /\ rec.status \notin {"refunded", "eth_tx_sent", "completed"}
    BY <2>2, <2>3 DEF NoOrder, MapRecord, Statuses, PRE_DEPOSIT_STATUSES, createEthToXlm, createXlmToEth
  <2>5. UNCHANGED <<gate, tx, paid, drv, call, received, htlc, users, restarts>>
    BY <1>2 DEF Create, trackerVars
  <2>6. TrackInv'
    BY <1>1, <2>5, TrackerKept
  <2> QED BY <1>1, <2>1, <2>2, <2>4, <2>5, <2>6, MapWriteStep
<1>3. ASSUME NEW o \in users, UserSendsXlm(o) PROVE PayInv'
  <2>1. UNCHANGED <<gate, tx, paid, drv, call, active, htlc, users, restarts>>
    BY <1>3 DEF UserSendsXlm, trackerVars
  <2>2. TrackInv'
    BY <1>1, <2>1, TrackerKept
  <2>3. MarksTrue'
    BY <2>1, MarksKept
  <2>4. received' \subseteq XlmOrders
    BY <1>1, <1>3 DEF UserSendsXlm
  <2> QED BY <1>1, <2>1, <2>2, <2>3, <2>4 DEF PayInv, MapTypes
<1>4. ASSUME NEW a \in Clients, NEW o \in users, processXlmToEth(a, o) \/ processEthToXlm(a, o)
      PROVE  PayInv'
  <2>1. /\ submit(a, "process", o, <<o, "claim">>) /\ <<o, "claim">> \in Keys
        /\ UNCHANGED <<active, received, htlc, users, restarts>>
    BY <1>1, <1>4, KeyFacts DEF processXlmToEth, processEthToXlm
  <2>2. TrackInv' /\ paid' = paid
    BY <1>1, <2>1, SubmitStep
  <2> QED BY <2>1, <2>2, MapKeptStep
<1>5. ASSUME NEW a \in Clients, NEW o \in users, ManualRefund(a, o)
      PROVE  PayInv'
  <2>1. /\ submit(a, "manual", o, refundKey(o)) /\ refundKey(o) \in Keys
        /\ o \in XlmOrders /\ o \in Orders
        /\ UNCHANGED <<active, received, htlc, users, restarts>>
    BY <1>1, <1>5, KeyFacts DEF ManualRefund, refundKey
  <2>2. TrackInv' /\ paid' = paid
    BY <1>1, <2>1, SubmitStep
  <2> QED BY <2>1, <2>2, MapKeptStep
<1>6. ASSUME NEW a \in Clients, NEW o \in users, XlmToEthKnown(a, o)
      PROVE  PayInv'
  <2>1. /\ a \in Actors /\ o \in Orders /\ o \in XlmOrders
        /\ active' = [active EXCEPT ![o].hasTx = TRUE]
        /\ call' = [call EXCEPT ![a] = [op |-> "xlmToEth", order |-> o,
                                        at |-> "balance", key |-> <<>>]]
        /\ UNCHANGED <<received, trackerVars, htlc, users, restarts>>
    BY <1>1, <1>6 DEF XlmToEthKnown, PaymentNoted
  <2>2. PICK c : c = [op |-> "xlmToEth", order |-> o, at |-> "balance", key |-> <<>>]
    OBVIOUS
  <2>3. c \in CallRecord /\ call'[a] = c
    BY <1>1, <2>1, <2>2 DEF CallRecord
  <2>4. CallTrue(a)'
    BY <2>1, <2>2, <2>3 DEF CallTrue
  <2>5. TrackInv' /\ paid' = paid
    BY <1>1, <2>1, <2>2, <2>3, <2>4, OnlyCallStep DEF trackerVars
  <2>6. PICK rec : rec = [active[o] EXCEPT !.hasTx = TRUE]
    OBVIOUS
  <2>7. /\ rec \in MapRecord /\ rec.status = active[o].status
        /\ rec.refunded = active[o].refunded /\ active' = [active EXCEPT ![o] = rec]
    BY <1>1, <2>1, <2>6 DEF MapRecord
  <2>8. MarkedOnlyWhenPaid(o)
    BY <2>1 DEF PayInv, MarksTrue
  <2> QED BY <1>1, <2>1, <2>5, <2>7, <2>8, MapWriteStep DEF MarkedOnlyWhenPaid
<1>7. ASSUME NEW a \in Clients, NEW o \in users, XlmToEthUnknown(a, o)
      PROVE  PayInv'
  <2>1. /\ a \in Actors /\ o \in Orders /\ o \in XlmOrders
        /\ active' = [active EXCEPT ![o] = [NoOrder EXCEPT !.status = "awaiting_eth_release"]]
        /\ call' = [call EXCEPT ![a] = [op |-> "xlmToEth", order |-> o,
                                        at |-> "store", key |-> <<>>]]
        /\ UNCHANGED <<received, trackerVars, htlc, users, restarts>>
    BY <1>1, <1>7 DEF XlmToEthUnknown, storeActiveOrder
  <2>2. PICK c : c = [op |-> "xlmToEth", order |-> o, at |-> "store", key |-> <<>>]
    OBVIOUS
  <2>3. c \in CallRecord /\ call'[a] = c
    BY <1>1, <2>1, <2>2 DEF CallRecord
  <2>4. CallTrue(a)'
    BY <2>1, <2>2, <2>3 DEF CallTrue
  <2>5. TrackInv' /\ paid' = paid
    BY <1>1, <2>1, <2>2, <2>3, <2>4, OnlyCallStep DEF trackerVars
  <2>6. PICK rec : rec = [NoOrder EXCEPT !.status = "awaiting_eth_release"]
    OBVIOUS
  <2>7. rec \in MapRecord /\ rec.status = "awaiting_eth_release" /\ ~ rec.refunded
    BY <2>6 DEF MapRecord, NoOrder, Statuses
  <2> QED BY <1>1, <2>1, <2>5, <2>6, <2>7, MapWriteStep
<1> QED
  BY <1>2, <1>3, <1>4, <1>5, <1>6, <1>7 DEF ClientStep

\* A handler that hangs up and leaves everything else.
LEMMA PlainHangup ==
    ASSUME PayInv, NEW a \in Actors, Hangup(a),
           UNCHANGED <<active, received, trackerVars, htlc, users, restarts>>
    PROVE  PayInv'
<1>1. TrackInv' /\ paid' = paid
  BY HangupStep DEF PayInv, trackerVars
<1> QED
  BY <1>1, MapKeptStep

LEMMA HandlerStepKeeps ==
    ASSUME PayInv, NEW a \in Actors, HandlerStep(a)
    PROVE  PayInv'
<1>1. /\ TrackInv /\ MapTypes /\ CallTrue(a) /\ call[a] \in CallRecord
      /\ active \in [Orders -> MapRecord] /\ XlmOrders \subseteq Orders
      /\ call \in [Actors -> CallRecord]
      /\ received \subseteq XlmOrders /\ htlc \subseteq XlmOrders
  BY DEF PayInv, MapTypes, MapRecord, TrackInv, TrackerTypes, CallsTrue, Orders
<1>2. PICK o : o = call[a].order
  OBVIOUS
<1>3. CASE ProcessDone(a)
  <2>1. /\ o \in Orders /\ call[a].key = <<o, "claim">> /\ Hangup(a)
        /\ UNCHANGED <<received, trackerVars, htlc, users, restarts>>
    BY <1>1, <1>2, <1>3 DEF ProcessDone, CallTrue
  <2>2. CASE call[a].at = "ok"
    <3>1. active' = [active EXCEPT ![o].status = "completed"]
      BY <1>2, <1>3, <2>2 DEF ProcessDone, Settles
    <3> QED BY <1>2, <2>1, <2>2, <3>1, MarkStep
  <2>3. CASE call[a].at # "ok"
    <3>1. active' = active
      BY <1>3, <2>3 DEF ProcessDone, Settles
    <3> QED BY <2>1, <3>1, PlainHangup
  <2> QED BY <2>2, <2>3
<1>4. CASE XlmToEthStored(a)
  <2>1. /\ call[a].at = "store" /\ call[a].op = "xlmToEth" /\ o \in XlmOrders /\ o \in Orders
        /\ UNCHANGED <<received, trackerVars, htlc, users, restarts>>
    BY <1>1, <1>2, <1>4 DEF XlmToEthStored, CallTrue
  <2>2. CASE Hangup(a) /\ UNCHANGED active
    BY <2>1, <2>2, PlainHangup
  <2>3. CASE active' = PaymentNoted(o) /\ call' = [call EXCEPT ![a].at = "balance"]
    <3>1. PICK c : c = [call[a] EXCEPT !.at = "balance"]
      OBVIOUS
    <3>2. /\ c \in CallRecord /\ c.op = "xlmToEth" /\ c.order = o /\ c.at = "balance"
          /\ call' = [call EXCEPT ![a] = c] /\ call'[a] = c
      BY <1>1, <1>2, <2>1, <2>3, <3>1 DEF CallRecord
    <3>3. CallTrue(a)'
      BY <2>1, <3>2 DEF CallTrue
    <3>4. TrackInv' /\ paid' = paid
      BY <1>1, <2>1, <3>2, <3>3, OnlyCallStep DEF trackerVars
    <3>5. PICK rec : rec = [active[o] EXCEPT !.hasTx = TRUE]
      OBVIOUS
    <3>6. /\ rec \in MapRecord /\ rec.status = active[o].status
          /\ rec.refunded = active[o].refunded /\ active' = [active EXCEPT ![o] = rec]
      BY <1>1, <2>1, <2>3, <3>5 DEF MapRecord, PaymentNoted
    <3>7. MarkedOnlyWhenPaid(o)
      BY <2>1 DEF PayInv, MarksTrue
    <3> QED BY <1>1, <2>1, <3>4, <3>6, <3>7, MapWriteStep DEF MarkedOnlyWhenPaid
  <2> QED BY <1>2, <1>4, <2>2, <2>3 DEF XlmToEthStored
<1>5. CASE BalanceRead(a)
  <2>1. /\ call[a].at = "balance" /\ o \in XlmOrders /\ o \in Orders
        /\ UNCHANGED <<active, received, htlc, users, restarts>>
    BY <1>1, <1>2, <1>5 DEF BalanceRead, CallTrue
  <2>2. CASE Hangup(a) /\ UNCHANGED trackerVars
    BY <2>1, <2>2, PlainHangup
  <2>3. ASSUME NEW key \in {<<o, "claim">>, <<o, "refund">>}, submit(a, "xlmToEth", o, key)
        PROVE  PayInv'
    <3>1. key \in Keys
      BY <2>1, <2>3, KeyFacts
    <3>2. TrackInv' /\ paid' = paid
      BY <1>1, <2>1, <2>3, <3>1, SubmitStep
    <3> QED BY <2>1, <3>2, MapKeptStep
  <2> QED BY <1>2, <1>5, <2>2, <2>3 DEF BalanceRead, inlineRefund
<1>6. CASE ReleaseAnswered(a)
  <2>1. /\ call[a].key = <<o, "claim">> /\ o \in XlmOrders /\ o \in Orders
        /\ UNCHANGED <<received, htlc, users, restarts>>
    BY <1>1, <1>2, <1>6 DEF ReleaseAnswered, CallTrue
  <2>2. CASE /\ call[a].at = "ok" /\ Hangup(a) /\ UNCHANGED trackerVars
             /\ active' = [active EXCEPT ![o].status = "eth_tx_sent"]
    BY <1>2, <2>1, <2>2, MarkStep
  <2>3. CASE inlineRefund(a) /\ UNCHANGED active
    <3>1. submit(a, "xlmToEth", o, <<o, "refund">>) /\ <<o, "refund">> \in Keys
      BY <1>2, <2>1, <2>3, KeyFacts DEF inlineRefund
    <3>2. TrackInv' /\ paid' = paid
      BY <1>1, <2>1, <3>1, SubmitStep
    <3> QED BY <2>1, <2>3, <3>2, MapKeptStep
  <2>4. CASE Hangup(a) /\ UNCHANGED <<active, trackerVars>>
    BY <2>1, <2>4, PlainHangup
  <2> QED BY <1>2, <1>6, <2>2, <2>3, <2>4 DEF ReleaseAnswered
<1>7. CASE InlineRefundAnswered(a) \/ ScanAnswered(a)
  <2>1. /\ o \in Orders /\ call[a].key = <<o, "refund">> /\ Hangup(a)
        /\ UNCHANGED <<received, trackerVars, htlc, users, restarts>>
    BY <1>1, <1>2, <1>7 DEF InlineRefundAnswered, ScanAnswered, CallTrue
  <2>2. CASE call[a].at = "ok"
    <3>1. active' = [active EXCEPT ![o].status = "refunded", ![o].refunded = TRUE]
      BY <1>2, <1>7, <2>2 DEF InlineRefundAnswered, ScanAnswered, Settles
    <3> QED BY <1>2, <2>1, <2>2, <3>1, MarkStep
  <2>3. CASE call[a].at # "ok"
    <3>1. active' = active
      BY <1>7, <2>3 DEF InlineRefundAnswered, ScanAnswered, Settles
    <3> QED BY <2>1, <3>1, PlainHangup
  <2> QED BY <2>2, <2>3
<1>8. CASE ManualRefundAnswered(a)
  BY <1>8, PlainHangup DEF ManualRefundAnswered
<1> QED
  BY <1>3, <1>4, <1>5, <1>6, <1>7, <1>8 DEF HandlerStep

LEMMA ScanOrderKeeps ==
    ASSUME PayInv, NEW w \in Scans, NEW o \in XlmOrders, ScanOrder(w, o)
    PROVE  PayInv'
<1>1. /\ TrackInv /\ w \in Actors /\ o \in Orders /\ <<o, "refund">> \in Keys
      /\ submit(w, "scan", o, <<o, "refund">>)
      /\ UNCHANGED <<active, received, htlc, users, restarts>>
  BY KeyFacts DEF PayInv, ScanOrder, Actors, Orders
<1>2. TrackInv' /\ paid' = paid
  BY <1>1, SubmitStep
<1> QED
  BY <1>1, <1>2, MapKeptStep

\* The pollers overwrite statuses, never with one that claims a payment.
LEMMA PollerStepKeeps ==
    ASSUME PayInv, NEW o \in Orders, PollerStep(o)
    PROVE  PayInv'
<1>1. /\ TrackInv /\ MapTypes /\ active \in [Orders -> MapRecord]
      /\ received \subseteq XlmOrders /\ htlc \subseteq XlmOrders
  BY DEF PayInv, MapTypes, MapRecord
<1>2. UNCHANGED <<gate, tx, paid, drv, call, received, users, restarts>>
  BY DEF PollerStep, createETHHTLCForOrder, ETHHTLCAnswered, EscrowEvent,
         expireAbandonedOrders, trackerVars
<1>3. TrackInv' /\ htlc' \subseteq XlmOrders
  <2>1. TrackInv'
    BY <1>1, <1>2, TrackerKept
  <2>2. htlc' \subseteq XlmOrders
    BY <1>1 DEF PollerStep, createETHHTLCForOrder, ETHHTLCAnswered, EscrowEvent,
                expireAbandonedOrders
  <2> QED BY <2>1, <2>2
<1>4. CASE createETHHTLCForOrder(o)
  <2>1. active' = active
    BY <1>4 DEF createETHHTLCForOrder
  <2>2. MarksTrue'
    BY <1>2, <2>1, MarksKept
  <2> QED BY <1>1, <1>2, <1>3, <2>1, <2>2 DEF PayInv, MapTypes
<1>5. ASSUME NEW written \in Statuses \ {"refunded", "eth_tx_sent", "completed"},
             active' = [active EXCEPT ![o].status = written]
      PROVE  PayInv'
  <2>1. PICK rec : rec = [active[o] EXCEPT !.status = written]
    OBVIOUS
  <2>2. /\ rec \in MapRecord /\ rec.status = written /\ rec.refunded = active[o].refunded
        /\ active' = [active EXCEPT ![o] = rec]
    BY <1>1, <1>5, <2>1 DEF MapRecord
  <2>3. o \in XlmOrders => MarkedOnlyWhenPaid(o)
    BY DEF PayInv, MarksTrue
  <2> QED BY <1>1, <1>2, <1>3, <1>5, <2>2, <2>3, MapWriteStep DEF MarkedOnlyWhenPaid
<1>6. CASE ETHHTLCAnswered(o) \/ EscrowEvent(o) \/ expireAbandonedOrders(o)
  <2>1. \E written \in {"eth_htlc_created", "eth_htlc_failed", "expired"} \cup EscrowStatuses :
           active' = [active EXCEPT ![o].status = written]
    BY <1>6 DEF ETHHTLCAnswered, EscrowEvent, expireAbandonedOrders
  <2>2. {"eth_htlc_created", "eth_htlc_failed", "expired"} \cup EscrowStatuses
           \subseteq Statuses \ {"refunded", "eth_tx_sent", "completed"}
    BY DEF Statuses, EscrowStatuses
  <2> QED BY <1>5, <2>1, <2>2
<1> QED
  BY <1>4, <1>6 DEF PollerStep

\* A restart forgets the map and the promises, not the records.
LEMMA RestartKeeps ==
    ASSUME PayInv, Restart
    PROVE  PayInv'
<1>1. /\ TrackInv /\ MapTypes /\ gate \in [Keys -> Gates]
      /\ UNCHANGED <<users, received, tx, paid>>
      /\ \A k \in Keys : /\ drv'[k] = "none"
                         /\ gate'[k] = IF gate[k] = "in_flight" THEN "absent" ELSE gate[k]
  BY DEF PayInv, TrackInv, TrackerTypes, Restart
<1>2. TrackerTypes'
  <2>1. NoCall \in CallRecord
    BY DEF NoCall, CallRecord
  <2>2. gate' \in [Keys -> Gates]
    BY <1>1 DEF Restart, Gates
  <2> QED BY <1>1, <2>1, <2>2 DEF Restart, TrackInv, TrackerTypes
<1>3. KeysTrue'
  <2> SUFFICES ASSUME NEW k \in Keys PROVE KeyTrue(k)'
    BY DEF KeysTrue
  <2>1. KeyTrue(k)
    BY <1>1 DEF TrackInv, KeysTrue
  <2> QED BY <1>1, <2>1 DEF KeyTrue
<1>4. LockExclusive'
  <2>1. \A k \in Keys : Holds(gate'[k]) => Holds(gate[k])
    BY <1>1 DEF Holds
  <2> QED BY <1>1, <2>1, KeyFacts DEF TrackInv, LockExclusive
<1>5. CallsTrue'
  BY DEF Restart, CallsTrue, CallTrue, NoCall
<1>6. MapTypes'
  <2>1. NoOrder \in MapRecord
    BY DEF NoOrder, MapRecord, Statuses
  <2>2. restarts' \in 0 .. MaxRestarts
    BY <1>1, RelayerAssumption DEF Restart, MapTypes
  <2> QED BY <1>1, <2>1, <2>2 DEF Restart, MapTypes, MapRecord
<1>7. MarksTrue'
  BY DEF Restart, MarksTrue, MarkedOnlyWhenPaid, NoOrder, Orders
<1> QED
  BY <1>2, <1>3, <1>4, <1>5, <1>6, <1>7 DEF PayInv, TrackInv

-----------------------------------------------------------------------------
(* The theorems.                                                           *)

LEMMA PayInvStep == PayInv /\ [Next]_vars => PayInv'
<1> SUFFICES ASSUME PayInv, [Next]_vars PROVE PayInv'
  OBVIOUS
<1>1. CASE UNCHANGED vars
  <2>1. TrackInv'
    BY <1>1, TrackerKept DEF PayInv, vars
  <2> QED BY <1>1, <2>1, MapKeptStep DEF vars
<1>2. ASSUME NEW key \in Keys, TrackerStep(key) PROVE PayInv'
  <2>1. UNCHANGED <<active, received, htlc, users, restarts>>
    BY <1>2 DEF TrackerStep, StagingFails, Staged, submitIfCoordinatorQuoteMatches,
                Polled, TrackerOnly
  <2>2. TrackInv' /\ \A k \in Keys : k[1] \in XlmOrders => paid'[k] = paid[k]
    BY <1>2, TrackerStepKeeps DEF PayInv
  <2> QED BY <2>1, <2>2, MapKeptStep
<1>3. ASSUME NEW key \in Keys, TxResolves(key) PROVE PayInv'
  <2>1. UNCHANGED <<active, received, htlc, users, restarts>>
    BY <1>3 DEF TxResolves, TrackerOnly
  <2> QED BY <1>3, <2>1, TxResolvesKeeps, MapKeptStep DEF PayInv
<1> QED
  BY <1>1, <1>2, <1>3, ClientStepKeeps, HandlerStepKeeps, ScanOrderKeeps,
     PollerStepKeeps, RestartKeeps DEF Next

LEMMA PayInvariant == Spec => []PayInv
  BY PayInvInit, PayInvStep, PTL DEF Spec

LEMMA PayInvTypes == PayInv => TypeOK
<1> SUFFICES ASSUME PayInv PROVE TypeOK
    OBVIOUS
<1>1. \A a \in Actors : call[a] \in CallRecord
  BY DEF PayInv, TrackInv, TrackerTypes
<1> QED BY <1>1 DEF PayInv, TrackInv, TrackerTypes, MapTypes, TypeOK, CallRecord, Gates

\* The order map, the tracker's view and the open calls keep their shapes; in
\* particular every status a handler or poller writes is one the others know.
THEOREM TypeCorrect == Spec => []TypeOK
  BY PayInvariant, PayInvTypes, PTL

\* The release handlers, the inline refund, the manual refund of a known
\* order, overlapping watchdog scans, retries and restarts together pay the
\* user of an XLM order at most once, and mark the order only when they did.
THEOREM XlmUserPaidOnce == Spec => []XlmOrderPaysOnce
<1>1. PayInv => XlmOrderPaysOnce
  <2> SUFFICES ASSUME PayInv, NEW o \in XlmOrders
               PROVE  /\ MarkedOnlyWhenPaid(o)
                      /\ paid[<<o, "claim">>] + paid[<<o, "refund">>] <= 1
    BY DEF XlmOrderPaysOnce
  <2>1. MarkedOnlyWhenPaid(o)
    BY DEF PayInv, MarksTrue
  <2>2. ASSUME NEW key \in {<<o, "claim">>, <<o, "refund">>}
        PROVE  /\ paid[key] \in {0, 1}
               /\ paid[key] = 1 => Holds(gate[key])
    <3>1. key \in Keys /\ key[1] \in XlmOrders
      BY <2>2, KeyFacts
    <3>2. KeyTrue(key) /\ gate[key] \in Gates
      BY <3>1 DEF PayInv, TrackInv, TrackerTypes, KeysTrue
    <3> QED BY <3>1, <3>2 DEF KeyTrue, Holds, Gates
  <2>3. ~ (Holds(gate[<<o, "claim">>]) /\ Holds(gate[<<o, "refund">>]))
    BY DEF PayInv, TrackInv, LockExclusive
  <2>4. ~ (paid[<<o, "claim">>] = 1 /\ paid[<<o, "refund">>] = 1)
    BY <2>2, <2>3
  <2> QED BY <2>1, <2>2, <2>4
<1> QED
  BY <1>1, PayInvariant, PTL

-----------------------------------------------------------------------------
(* Chain monitoring.                                                       *)

Polling(s) == poller[s] = "polling"

\* Unless two pollers were alive at once, there is one at most.
OnePoller == ~ doubled => \A s, t \in Starts : Polling(s) /\ Polling(t) => s = t

\* An order nobody asked for has no HTLC; an order that still waits for its
\* payment and has one is the order the live poller is in a tick for.
TickOwnsOrder ==
    \A o \in MonOrders :
        sent[o] > 0 =>
            /\ status[o] # "none"
            /\ ~ doubled /\ status[o] = "awaiting_xlm_payment" =>
                  \E s \in Starts : Polling(s) /\ tick[s] = o

\* The flag is up only while a start is under way or a poller lives.
FlagSound ==
    started => \E s \in Starts : start[s] = "running" \/ Polling(s)

OneEach == ~ doubled => \A o \in MonOrders : sent[o] <= 1

MonInv == Mon!MonTypeOK /\ OnePoller /\ TickOwnsOrder /\ FlagSound /\ OneEach

LEMMA MonInvPromise == MonInv => OneHtlcPerPayment /\ Mon!MonTypeOK
BY DEF MonInv, OneHtlcPerPayment, Mon!OneHtlcPerPayment, Mon!FlagMeansPolling, OneEach,
       FlagSound, Polling, Mon!Alive

LEMMA MonInvInit == Mon!MonInit => MonInv
<1> SUFFICES ASSUME Mon!MonInit PROVE MonInv
    OBVIOUS
<1> USE DEF Mon!MonInit
<1>1. 0 \in 0 .. MaxHtlcs BY PollersAssumption
<1>5. Mon!MonTypeOK BY <1>1 DEF Mon!MonTypeOK
<1>2. OnePoller /\ FlagSound BY DEF OnePoller, FlagSound, Polling
<1>3. \A o \in MonOrders : sent[o] = 0 OBVIOUS
<1>4. TickOwnsOrder /\ OneEach BY <1>3 DEF TickOwnsOrder, OneEach
<1> QED BY <1>5, <1>2, <1>4 DEF MonInv

\* Two live pollers are counted as more than one.
LEMMA TwoAreDoubled ==
    ASSUME NEW pollers, NEW s \in Starts, NEW t \in Starts, s # t,
           pollers[s] = "polling", pollers[t] = "polling"
    PROVE  Mon!Cardinality(Mon!Alive(pollers)) > 1
<1> DEFINE A == Mon!Alive(pollers)
<1>1. A \subseteq Starts /\ s \in A /\ t \in A BY DEF Mon!Alive
<1>2. IsFiniteSet(A) BY <1>1, PollersAssumption, FS_Subset
<1>3. Cardinality({s, t}) = 2 /\ IsFiniteSet({s, t})
  <2>1. IsFiniteSet({s}) /\ Cardinality({s}) = 1 BY FS_Singleton
  <2>2. {s} \cup {t} = {s, t} /\ t \notin {s} OBVIOUS
  <2> QED BY <2>1, <2>2, FS_AddElement
<1>4. Cardinality({s, t}) <= Cardinality(A) BY <1>1, <1>2, <1>3, FS_Subset
<1>5. Cardinality(A) \in Nat BY <1>2, FS_CardinalityType
<1>6. Mon!Cardinality(A) = Cardinality(A) BY DEF Mon!Cardinality, Cardinality
<1> QED BY <1>3, <1>4, <1>5, <1>6

\* A poller that comes up next to another one is recorded as doubled.
LEMMA WatchStep ==
    ASSUME MonInv, NEW s \in Starts, Mon!Watch([poller EXCEPT ![s] = "polling"]),
           UNCHANGED <<status, tick, sent>>
    PROVE  /\ poller' \in [Starts -> {"polling", "stopped"}] /\ doubled' \in BOOLEAN
           /\ Polling(s)' /\ \A t \in Starts : Polling(t) => Polling(t)'
           /\ doubled => doubled'
           /\ OnePoller' /\ TickOwnsOrder' /\ OneEach'
<1> USE DEF MonInv, Mon!MonTypeOK
<1>1. /\ poller' = [poller EXCEPT ![s] = "polling"]
      /\ doubled' = (doubled \/ Mon!Cardinality(Mon!Alive(poller')) > 1)
  BY DEF Mon!Watch
<1>2. /\ poller' \in [Starts -> {"polling", "stopped"}]
      /\ Polling(s)' /\ \A t \in Starts : Polling(t) => Polling(t)'
  BY <1>1 DEF Polling
<1>3. doubled' \in BOOLEAN /\ (doubled => doubled') BY <1>1
<1>4. OnePoller'
  <2> SUFFICES ASSUME NEW a \in Starts, NEW b \in Starts, poller'[a] = "polling",
                      poller'[b] = "polling", a # b
               PROVE  doubled'
      BY DEF OnePoller, Polling
  <2> QED BY <1>1, TwoAreDoubled
<1>5. TickOwnsOrder' /\ OneEach' BY <1>2, <1>3 DEF TickOwnsOrder, OneEach
<1> QED BY <1>2, <1>3, <1>4, <1>5

LEMMA StartKeeps ==
    ASSUME MonInv, NEW s \in Starts, Mon!startSucceeds(s) \/ Mon!startFails(s)
    PROVE  MonInv'
<1> USE DEF MonInv, Mon!MonTypeOK
<1>1. start' = [start EXCEPT ![s] = "over"] /\ UNCHANGED <<status, seen, tick, sent>>
  BY DEF Mon!startSucceeds, Mon!startFails
<1>2. start' \in [Starts -> {"unused", "running", "over"}] BY <1>1
<1>3. CASE Mon!Watch([poller EXCEPT ![s] = "polling"]) /\ started' \in BOOLEAN
  BY <1>1, <1>2, <1>3, WatchStep DEF FlagSound
<1>4. CASE Mon!Watch(poller) /\ started' = FALSE
  <2>1. poller' = poller /\ doubled' \in BOOLEAN /\ (doubled => doubled')
    BY <1>4 DEF Mon!Watch
  <2> QED BY <1>1, <1>2, <1>4, <2>1 DEF OnePoller, TickOwnsOrder, OneEach, FlagSound, Polling
<1> QED BY <1>3, <1>4 DEF Mon!startSucceeds, Mon!startFails

LEMMA StoreOrderKeeps ==
    ASSUME MonInv, NEW o \in MonOrders, Mon!storeActiveOrder(o)
    PROVE  MonInv'
<1> USE DEF MonInv, Mon!MonTypeOK
<1>1. /\ status[o] = "none" /\ status' = [status EXCEPT ![o] = "awaiting_xlm_payment"]
      /\ UNCHANGED <<seen, poller, tick, sent, doubled>>
  BY DEF Mon!storeActiveOrder
<1>2. OnePoller' /\ TickOwnsOrder' /\ OneEach'
  BY <1>1 DEF OnePoller, TickOwnsOrder, OneEach, Polling
<1>3. started' \in BOOLEAN /\ start' \in [Starts -> {"unused", "running", "over"}] /\ FlagSound'
  <2>1. CASE started /\ UNCHANGED <<started, start>> BY <1>1, <2>1 DEF FlagSound, Polling
  <2>2. CASE \E s \in Starts : started' = TRUE /\ start' = [start EXCEPT ![s] = "running"]
    BY <2>2 DEF FlagSound
  <2> QED BY <2>1, <2>2 DEF Mon!storeActiveOrder, Mon!ensureChainMonitoring
<1> QED BY <1>1, <1>2, <1>3

LEMMA OrderStepKeeps ==
    ASSUME MonInv, NEW o \in MonOrders, Mon!UserPays(o) \/ Mon!OrderSettles(o)
    PROVE  MonInv'
<1> USE DEF MonInv, Mon!MonTypeOK
<1>1. UNCHANGED <<started, start, poller, tick, sent, doubled>>
  BY DEF Mon!UserPays, Mon!OrderSettles
<1>2. OnePoller' /\ OneEach' /\ FlagSound' BY <1>1 DEF OnePoller, OneEach, FlagSound, Polling
<1>3. CASE Mon!UserPays(o) BY <1>1, <1>2, <1>3 DEF Mon!UserPays, TickOwnsOrder, Polling
<1>4. CASE Mon!OrderSettles(o) BY <1>1, <1>2, <1>4 DEF Mon!OrderSettles, TickOwnsOrder, Polling
<1> QED BY <1>3, <1>4

\* A tick begins only for an order no live poller has taken.
LEMMA TickKeeps ==
    ASSUME MonInv, NEW s \in Starts, NEW o \in MonOrders,
           Mon!tickCreatesHTLC(s, o) \/ Mon!tickAnswered(s, o)
    PROVE  MonInv'
<1> USE PollersAssumption DEF MonInv, Mon!MonTypeOK
<1>1. UNCHANGED <<seen, started, start, poller, doubled>>
  BY DEF Mon!tickCreatesHTLC, Mon!tickAnswered
<1>2. OnePoller' /\ FlagSound' BY <1>1 DEF OnePoller, FlagSound, Polling
<1>3. CASE Mon!tickCreatesHTLC(s, o)
  <2>1. /\ Polling(s) /\ tick[s] = "none" /\ status[o] = "awaiting_xlm_payment"
        /\ sent[o] < MaxHtlcs /\ tick' = [tick EXCEPT ![s] = o]
        /\ sent' = [sent EXCEPT ![o] = @ + 1] /\ status' = status
    BY <1>3 DEF Mon!tickCreatesHTLC, Mon!Matches, Polling
  <2>2. tick' \in [Starts -> MonOrders \cup {"none"}] /\ sent' \in [MonOrders -> 0 .. MaxHtlcs]
    BY <2>1
  <2>3. ~ doubled => sent[o] = 0
    <3>1. SUFFICES ASSUME ~ doubled, sent[o] > 0 PROVE FALSE OBVIOUS
    <3>2. PICK t \in Starts : Polling(t) /\ tick[t] = o BY <2>1, <3>1 DEF TickOwnsOrder
    <3> QED BY <2>1, <3>1, <3>2 DEF OnePoller
  <2>4. TickOwnsOrder'
    <3> SUFFICES ASSUME NEW p \in MonOrders, sent'[p] > 0
                 PROVE  /\ status[p] # "none"
                        /\ ~ doubled /\ status[p] = "awaiting_xlm_payment" =>
                              \E t \in Starts : Polling(t) /\ tick'[t] = p
        BY <1>1, <2>1 DEF TickOwnsOrder, Polling
    <3>1. CASE p = o BY <2>1, <3>1
    <3>2. CASE p # o
      <4>1. sent[p] > 0 BY <2>1, <3>2
      <4>2. \A t \in Starts : tick[t] = p => tick'[t] = p BY <2>1
      <4> QED BY <4>1, <4>2 DEF TickOwnsOrder
    <3> QED BY <3>1, <3>2
  <2>5. OneEach' BY <1>1, <2>1, <2>3 DEF OneEach
  <2> QED BY <1>1, <1>2, <2>1, <2>2, <2>4, <2>5
<1>4. CASE Mon!tickAnswered(s, o)
  <2>1. /\ tick[s] = o /\ tick' = [tick EXCEPT ![s] = "none"]
        /\ status' = [status EXCEPT ![o] = "open"] /\ sent' = sent
    BY <1>4 DEF Mon!tickAnswered
  <2>2. OneEach' BY <1>1, <2>1 DEF OneEach
  <2>3. TickOwnsOrder' BY <1>1, <2>1 DEF TickOwnsOrder, Polling
  <2> QED BY <1>1, <1>2, <2>1, <2>2, <2>3
<1> QED BY <1>3, <1>4

LEMMA ReconcileKeeps == MonInv /\ Mon!reconcileChainMonitoring => MonInv'
<1> SUFFICES ASSUME MonInv, Mon!reconcileChainMonitoring PROVE MonInv'
    OBVIOUS
<1> USE DEF MonInv, Mon!MonTypeOK
<1>1. /\ status' \in {status, Mon!expireAbandonedOrders(status)}
      /\ UNCHANGED <<seen, start, tick, sent, doubled>>
  BY DEF Mon!reconcileChainMonitoring
<1>2. /\ status' \in [MonOrders -> {"none", "awaiting_xlm_payment", "open", "done"}]
      /\ \A o \in MonOrders : status'[o] = status[o] \/ status'[o] = "done"
  BY <1>1 DEF Mon!expireAbandonedOrders
<1>3. OneEach' BY <1>1 DEF OneEach
<1>4. CASE UNCHANGED <<started, poller>>
  BY <1>1, <1>2, <1>3, <1>4 DEF OnePoller, TickOwnsOrder, FlagSound, Polling
<1>5. CASE /\ ~ Mon!needsChainMonitoring(status')
           /\ started' = FALSE /\ poller' = [s \in Starts |-> "stopped"]
  <2>1. \A o \in MonOrders : status'[o] # "awaiting_xlm_payment"
    BY <1>5 DEF Mon!needsChainMonitoring
  <2> QED BY <1>1, <1>2, <1>3, <1>5, <2>1 DEF OnePoller, TickOwnsOrder, FlagSound, Polling
<1> QED BY <1>4, <1>5 DEF Mon!reconcileChainMonitoring, Mon!stopChainMonitoring, Mon!FlagAfterStop

LEMMA MonInvStep == MonInv /\ [Mon!MonNext]_Mon!monVars => MonInv'
<1> SUFFICES ASSUME MonInv, [Mon!MonNext]_Mon!monVars PROVE MonInv'
    OBVIOUS
<1>1. CASE UNCHANGED Mon!monVars
  BY <1>1 DEF Mon!monVars, MonInv, Mon!MonTypeOK, OnePoller, TickOwnsOrder, FlagSound, OneEach,
              Polling
<1>2. CASE Mon!MonNext
  BY <1>2, StoreOrderKeeps, OrderStepKeeps, StartKeeps, TickKeeps, ReconcileKeeps
  DEF Mon!MonNext
<1> QED BY <1>1, <1>2

\* Every behavior of the monitoring: while one poller lives at a time a payment
\* is answered by one ETH HTLC, and the flag never stays up over dead pollers.
THEOREM OneHtlcTheorem == Mon!MonSpec => []OneHtlcPerPayment
BY MonInvInit, MonInvStep, MonInvPromise, PTL DEF Mon!MonSpec

-----------------------------------------------------------------------------
(* The poller of contract events.                                          *)

\* Logs lie in mined blocks, and the cursor is no further than the head.
LogsMined == cursor <= mined /\ \A l \in logs : l[1] <= mined

\* The window of a tick starts behind the cursor and ends at a mined block;
\* the bindings it has asked have handled all of its logs.
WindowSound ==
    /\ window = Poll!NoWindow => asked = {}
    /\ window # Poll!NoWindow =>
          /\ window.from = cursor + 1 /\ window.to <= mined
          /\ \A l \in logs :
                l[2] \in asked /\ l[1] \in window.from .. window.to => l \in handled

PollInv == Poll!PollTypeOK /\ LogsMined /\ WindowSound /\ Poll!NoLogSkipped

LEMMA PollInvInit == Poll!PollInit => PollInv
<1> SUFFICES ASSUME Poll!PollInit PROVE PollInv
    OBVIOUS
<1> USE DEF Poll!PollInit, Poll!NoWindow
<1>1. 0 \in 0 .. MaxHead BY PollersAssumption
<1>2. window \in [from: 0 .. MaxHead, to: 0 .. MaxHead] BY <1>1
<1>3. Poll!PollTypeOK BY <1>1, <1>2 DEF Poll!PollTypeOK
<1>4. LogsMined /\ WindowSound /\ Poll!NoLogSkipped BY DEF LogsMined, WindowSound, Poll!NoLogSkipped
<1> QED BY <1>3, <1>4 DEF PollInv

LEMMA MineKeeps == PollInv /\ Poll!Mine => PollInv'
<1> SUFFICES ASSUME PollInv, Poll!Mine PROVE PollInv'
    OBVIOUS
<1> USE PollersAssumption DEF PollInv
<1>1. /\ mined < MaxHead /\ mined' = mined + 1
      /\ UNCHANGED <<cursor, timer, running, stopped, awake, window, asked, handled>>
  BY DEF Poll!Mine, Poll!loopVars
<1>2. PICK events \in SUBSET Bindings : logs' = logs \cup {<<mined', b>> : b \in events}
  BY DEF Poll!Mine
<1>3. mined \in 0 .. MaxHead /\ cursor \in 0 .. MaxHead /\ mined' \in 1 .. MaxHead
  BY <1>1 DEF Poll!PollTypeOK
<1>4. /\ logs \subseteq logs' /\ logs' \subseteq (1 .. MaxHead) \X Bindings
      /\ \A l \in logs' : l \in logs \/ l[1] = mined'
  BY <1>2, <1>3 DEF Poll!PollTypeOK
<1>5. Poll!PollTypeOK' BY <1>1, <1>3, <1>4 DEF Poll!PollTypeOK
<1>6. LogsMined' /\ Poll!NoLogSkipped'
  <2>1. \A l \in logs : l[1] \in Nat BY DEF Poll!PollTypeOK
  <2> QED BY <1>1, <1>3, <1>4, <2>1 DEF LogsMined, Poll!NoLogSkipped
<1>7. WindowSound'
  <2>1. window.to \in Nat /\ window.from \in Nat BY DEF Poll!PollTypeOK
  <2>2. window # Poll!NoWindow =>
          \A l \in logs' : l[1] \in window.from .. window.to => l \in logs
    BY <1>1, <1>3, <1>4, <2>1 DEF WindowSound
  <2> QED BY <1>1, <1>3, <2>1, <2>2 DEF WindowSound
<1> QED BY <1>5, <1>6, <1>7

\* Ending a tick leaves the logs and what was handled alone.
LEMMA EndTickKeeps ==
    ASSUME PollInv, Poll!EndTick, timer' \in BOOLEAN, UNCHANGED <<mined, logs, awake, handled>>,
           cursor' \in 0 .. MaxHead, cursor' <= mined, Poll!NoLogSkipped'
    PROVE  PollInv'
<1> USE PollersAssumption DEF PollInv
<1>1. window' = Poll!NoWindow /\ asked' = {} /\ running' = FALSE /\ stopped' = stopped
  BY DEF Poll!EndTick
<1>2. Poll!NoWindow \in [from: 0 .. MaxHead, to: 0 .. MaxHead] BY DEF Poll!NoWindow
<1>3. Poll!PollTypeOK' BY <1>1, <1>2 DEF Poll!PollTypeOK
<1>4. LogsMined' BY DEF LogsMined
<1>5. WindowSound' BY <1>1 DEF WindowSound
<1> QED BY <1>3, <1>4, <1>5

LEMMA HeadReadKeeps == PollInv /\ Poll!headRead => PollInv'
<1> SUFFICES ASSUME PollInv, Poll!headRead PROVE PollInv'
    OBVIOUS
<1> USE PollersAssumption DEF PollInv
<1>1. window = Poll!NoWindow /\ UNCHANGED <<mined, logs, cursor, awake, handled>>
  BY DEF Poll!headRead
<1>2. Poll!NoLogSkipped' BY <1>1 DEF Poll!NoLogSkipped
<1>3. CASE Poll!EndTick /\ timer' = ~ stopped
  BY <1>1, <1>2, <1>3, EndTickKeeps DEF Poll!PollTypeOK, LogsMined
<1>4. CASE /\ ~ mined <= cursor /\ window' = Poll!WindowAfter(cursor)
           /\ UNCHANGED <<timer, running, stopped, asked>>
  <2>1. mined \in 0 .. MaxHead /\ cursor \in 0 .. MaxHead /\ mined > cursor
    BY <1>4 DEF Poll!PollTypeOK
  <2>2. PICK last \in Nat : /\ last <= mined
                            /\ window' = [from |-> cursor + 1, to |-> last]
    BY <1>4, <2>1 DEF Poll!WindowAfter
  <2>3. /\ window' \in [from: 0 .. MaxHead, to: 0 .. MaxHead]
        /\ window'.from = cursor + 1 /\ window'.to <= mined
    BY <2>1, <2>2
  <2>4. Poll!PollTypeOK' BY <1>1, <1>4, <2>3 DEF Poll!PollTypeOK
  <2>5. asked' = {} BY <1>1, <1>4 DEF WindowSound
  <2>6. LogsMined' /\ WindowSound' BY <1>1, <2>3, <2>5 DEF LogsMined, WindowSound
  <2> QED BY <1>2, <2>4, <2>6
<1> QED BY <1>3, <1>4 DEF Poll!headRead, Poll!loopVars

LEMMA QueryKeeps ==
    ASSUME PollInv, NEW b \in Bindings, Poll!queryFilter(b)
    PROVE  PollInv'
<1> USE DEF PollInv
<1>1. /\ window # Poll!NoWindow /\ handled' = handled \cup Poll!HandledNow(b)
      /\ asked' = asked \cup {b}
      /\ UNCHANGED <<mined, logs, cursor, timer, running, stopped, awake, window>>
  BY DEF Poll!queryFilter, Poll!loopVars
<1>2. Poll!PollTypeOK' BY <1>1 DEF Poll!PollTypeOK, Poll!HandledNow
<1>3. LogsMined' /\ Poll!NoLogSkipped' BY <1>1 DEF LogsMined, Poll!NoLogSkipped
<1>4. \A l \in logs : l[2] \in asked' /\ l[1] \in window.from .. window.to => l \in handled'
  BY <1>1 DEF WindowSound, Poll!HandledNow
<1>5. WindowSound' BY <1>1, <1>4 DEF WindowSound
<1> QED BY <1>2, <1>3, <1>5

\* The cursor moves over a window every binding has been asked for.
LEMMA TickDoneKeeps == PollInv /\ Poll!tickDone => PollInv'
<1> SUFFICES ASSUME PollInv, Poll!tickDone PROVE PollInv'
    OBVIOUS
<1> USE PollersAssumption DEF PollInv
<1>1. /\ window # Poll!NoWindow /\ asked = Bindings /\ cursor' = window.to
      /\ Poll!EndTick /\ timer' = ~ stopped /\ UNCHANGED <<mined, logs, awake, handled>>
  BY DEF Poll!tickDone, Poll!CursorAfter
<1>2. /\ window.to \in 0 .. MaxHead /\ window.from = cursor + 1 /\ window.to <= mined
      /\ cursor \in Nat
  BY <1>1 DEF Poll!PollTypeOK, WindowSound
<1>3. Poll!NoLogSkipped'
  <2> SUFFICES ASSUME NEW l \in logs, l[1] <= window.to PROVE l \in handled
      BY <1>1 DEF Poll!NoLogSkipped
  <2>1. l[1] \in Nat /\ l[2] \in Bindings BY DEF Poll!PollTypeOK
  <2>2. l[1] <= cursor \/ l[1] \in window.from .. window.to BY <1>2, <2>1
  <2> QED BY <1>1, <2>1, <2>2 DEF Poll!NoLogSkipped, WindowSound
<1> QED BY <1>1, <1>2, <1>3, EndTickKeeps DEF Poll!PollTypeOK

LEMMA LoopKeeps ==
    ASSUME PollInv, Poll!OrdersChange \/ Poll!wake \/ Poll!stop \/ Poll!run
    PROVE  PollInv'
<1> USE DEF PollInv
<1>1. UNCHANGED <<mined, logs, cursor, window, asked, handled>>
  BY DEF Poll!OrdersChange, Poll!wake, Poll!stop, Poll!run
<1>2. \A flag \in {timer, running, stopped, awake}' : flag \in BOOLEAN
  BY DEF Poll!OrdersChange, Poll!wake, Poll!stop, Poll!run, Poll!loopVars, Poll!PollTypeOK
<1>3. Poll!PollTypeOK' BY <1>1, <1>2 DEF Poll!PollTypeOK
<1>4. LogsMined' /\ WindowSound' /\ Poll!NoLogSkipped'
  BY <1>1 DEF LogsMined, WindowSound, Poll!NoLogSkipped
<1> QED BY <1>3, <1>4

LEMMA PollInvStep == PollInv /\ [Poll!PollNext]_Poll!pollVars => PollInv'
<1> SUFFICES ASSUME PollInv, [Poll!PollNext]_Poll!pollVars PROVE PollInv'
    OBVIOUS
<1>1. CASE UNCHANGED Poll!pollVars
  BY <1>1 DEF Poll!pollVars, PollInv, Poll!PollTypeOK, LogsMined, WindowSound, Poll!NoLogSkipped
<1>2. CASE Poll!rpcFails
  <2>1. /\ Poll!EndTick /\ timer' = ~ stopped
        /\ UNCHANGED <<mined, logs, cursor, awake, handled>>
    BY <1>2 DEF Poll!rpcFails, Poll!Rearm
  <2> QED BY <2>1, EndTickKeeps DEF PollInv, Poll!PollTypeOK, LogsMined, Poll!NoLogSkipped
<1>3. CASE Poll!PollNext
  BY <1>2, <1>3, MineKeeps, LoopKeeps, HeadReadKeeps, QueryKeeps, TickDoneKeeps
  DEF Poll!PollNext, Poll!TickStep
<1> QED BY <1>1, <1>3

\* contract-event-poller.ts: however many queries fail, whatever is mined while
\* a tick awaits its answers and however far the poller has fallen behind, the
\* cursor passes no log whose handler has not run.
THEOREM NoLogSkippedTheorem == Poll!PollSpec => []Poll!NoLogSkipped
<1>1. PollInv => Poll!NoLogSkipped BY DEF PollInv
<1> QED BY <1>1, PollInvInit, PollInvStep, PTL DEF Poll!PollSpec

-----------------------------------------------------------------------------
(* The relayer process as a whole.  Every part moves alone, so an          *)
(* invariant of a part is one of the process.                              *)

RelayerInv == PayInv /\ MonInv /\ PollInv

LEMMA RelayerInvStep ==
    RelayerInv /\ [MCNext]_<<part, vars, monitoring, polls>> => RelayerInv'
<1> SUFFICES ASSUME RelayerInv, [MCNext]_<<part, vars, monitoring, polls>> PROVE RelayerInv'
    OBVIOUS
<1>1. [Next]_vars /\ [Mon!MonNext]_Mon!monVars /\ [Poll!PollNext]_Poll!pollVars
  BY DEF MCNext, monitoring, polls, Mon!monVars, Poll!pollVars
<1> QED BY <1>1, PayInvStep, MonInvStep, PollInvStep DEF RelayerInv

\* The order map, the tracker, the monitoring's flags and pollers and the block
\* poller's window keep their shapes in every behavior of the process.
THEOREM RelayerTypeCorrect == MCSpec => []RelayerTypeOK
<1>1. MCInit => RelayerInv
  BY PayInvInit, MonInvInit, PollInvInit DEF MCInit, RelayerInv
<1>2. RelayerInv => RelayerTypeOK
  BY PayInvTypes DEF RelayerInv, RelayerTypeOK, MonInv, PollInv
<1> QED BY <1>1, <1>2, RelayerInvStep, PTL DEF MCSpec
=============================================================================
