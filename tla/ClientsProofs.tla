---------------------------- MODULE ClientsProofs ----------------------------
(***************************************************************************)
(* The programs around the contracts and the servers keep their promises,  *)
(* for any number of clicks, register runs, callers, orders and balances.  *)
(*                                                                         *)
(* They share no variable, so each has an inductive invariant of its own,  *)
(* shown for its own Init and Next: what a handler read before it waited   *)
(* is still good, or is checked again, when it acts.  MCClients' product   *)
(* steps are steps or stutters of each, which carries the invariants over. *)
(***************************************************************************)
EXTENDS MCClients, Integers, Sequences, FiniteSetTheorems, TLAPS

-----------------------------------------------------------------------------
(* BridgeForm.                                                             *)

FormRecord == [dir: Form!Dirs, amount: FormAmounts \cup {Form!Empty}]
RateRequest == [for: FormRecord, live: BOOLEAN]
FlowRecord == [at: {"chain", "switch", "create", "pay", "confirm", "process"},
               dir: Form!Dirs, net: Form!Nets]
HistoryEntry == [id: Nat, status: {"pending", "completed", "cancelled", "failed"}]

\* A price request that was not cancelled is for the form on screen.
PriceInv ==
    /\ form \in FormRecord /\ rates \subseteq RateRequest
    /\ \A r \in rates : r.live => r.for = form
    /\ Form!EstimateIsCurrent

PageInv ==
    /\ shown \in Saved \cup {Form!NoOrder} /\ activeRef \in Saved \cup {Form!NoOrder}

\* handleSubmit has room for an order before createOrder and holds one after it.
SendingInv ==
    /\ info \in Form!Nets /\ mode \in Form!Nets
    /\ flow \in FlowRecord \cup {Form!Idle} /\ submits \in 0..MaxSubmits
    /\ flow.at \in {"chain", "switch", "create"} => submits < MaxSubmits
    /\ flow.at \in {"pay", "confirm", "process"} => submits > 0
    /\ posted \subseteq Form!NewIds
    /\ history \in Seq(HistoryEntry) /\ Len(history) <= HistoryCap

FormInv == PriceInv /\ PageInv /\ SendingInv

LEMMA FormInvTypes == FormInv => Form!FormTypeOK
BY DEF FormInv, PriceInv, PageInv, SendingInv, Form!FormTypeOK, FormRecord

LEMMA FormBounds == MaxSubmits \in Nat /\ HistoryCap \in Nat \ {0}
BY ClientsAssumption

LEMMA EmptyForm == Form!NoForm \in FormRecord
BY DEF Form!NoForm, FormRecord, Form!Dirs

LEMMA FormInvInit == Form!FormInit => FormInv
<1> SUFFICES ASSUME Form!FormInit PROVE FormInv
    OBVIOUS
<1> USE DEF Form!FormInit
<1>1. PriceInv BY EmptyForm DEF PriceInv, Form!EstimateIsCurrent
<1>2. PageInv BY DEF PageInv
<1>3. flow \in FlowRecord \cup {Form!Idle} /\ flow.at = "idle" BY DEF Form!Idle
<1>4. history \in Seq(HistoryEntry) /\ Len(history) = 1
  <2>1. PICK e : e = [id |-> 0, status |-> "pending"] OBVIOUS
  <2>2. e \in HistoryEntry BY <2>1 DEF HistoryEntry
  <2>3. history = <<e>> BY <2>1
  <2> QED BY <2>2, <2>3
<1>5. SendingInv BY <1>3, <1>4, FormBounds DEF SendingInv, Form!Nets
<1> QED BY <1>1, <1>2, <1>5 DEF FormInv

\* Asking anew cancels every request in flight and starts one for the new form.
LEMMA AskedRequests ==
    ASSUME PriceInv, NEW f \in FormRecord
    PROVE  /\ Form!Asked(f) \subseteq RateRequest
           /\ \A r \in Form!Asked(f) : r.live => r.for = f
           /\ f.amount # Form!Empty => \E r \in Form!Asked(f) : r.live
<1>1. ASSUME NEW q \in rates
      PROVE  [q EXCEPT !.live = FALSE] \in RateRequest /\ ~ [q EXCEPT !.live = FALSE].live
  <2>1. q \in RateRequest BY DEF PriceInv
  <2> QED BY ONLY <2>1 DEF RateRequest
<1>2. PICK n : n = [for |-> f, live |-> TRUE] OBVIOUS
<1>3. n \in RateRequest /\ n.live /\ n.for = f BY <1>2 DEF RateRequest
<1>4. ASSUME NEW r \in Form!Asked(f)
      PROVE  r \in RateRequest /\ (r.live => r.for = f)
  <2>1. CASE r \in {[q EXCEPT !.live = FALSE] : q \in rates} BY <1>1, <2>1
  <2>2. CASE r = n BY <1>3, <2>2
  <2> QED BY <1>2, <2>1, <2>2 DEF Form!Asked
<1>5. f.amount # Form!Empty => n \in Form!Asked(f) BY <1>2 DEF Form!Asked
<1> QED BY <1>3, <1>4, <1>5

\* A new form asks anew and drops the old estimate unless an answer will replace it.
LEMMA FormChanges ==
    ASSUME PriceInv, form' \in FormRecord, NEW asked, asked = Form!Asked(form'), rates' = asked,
           form'.amount = Form!Empty => estimate' = Form!NoForm
    PROVE  PriceInv'
<1>1. PICK f \in FormRecord : f = form' OBVIOUS
<1>2. asked = Form!Asked(f) BY <1>1
<1>3. /\ asked \subseteq RateRequest /\ \A r \in asked : r.live => r.for = f
      /\ f.amount # Form!Empty => \E r \in asked : r.live
  BY <1>2, AskedRequests
<1>4. Form!EstimateIsCurrent' BY <1>1, <1>3 DEF Form!EstimateIsCurrent
<1> QED BY <1>1, <1>3, <1>4 DEF PriceInv

LEMMA PriceKeeps ==
    ASSUME FormInv, Form!FormNext
    PROVE  PriceInv'
<1> USE DEF Form!price, Form!page, Form!network, Form!sending
<1>1. form \in FormRecord /\ form.dir \in Form!Dirs /\ PriceInv
  BY DEF FormInv, PriceInv, FormRecord
<1>2. CASE UNCHANGED Form!price BY <1>1, <1>2 DEF PriceInv, Form!EstimateIsCurrent
<1>3. ASSUME NEW a \in FormAmounts \cup {Form!Empty}, Form!setAmount(a) PROVE PriceInv'
  <2>1. PICK f : f = [form EXCEPT !.amount = a] OBVIOUS
  <2>2. f \in FormRecord /\ f.amount = a BY ONLY <1>1, <2>1, a \in FormAmounts \cup {Form!Empty} DEF FormRecord
  <2>3. /\ form' = f /\ rates' = Form!Asked(f)
        /\ estimate' = IF a = Form!Empty THEN Form!NoForm ELSE estimate
    BY <1>3, <2>1 DEF Form!setAmount
  <2> QED BY <1>1, <2>2, <2>3, FormChanges
<1>4. CASE Form!handleSwapDirection
  <2>1. PICK d : d = CHOOSE e \in Form!Dirs : e # form.dir OBVIOUS
  <2>2. d \in Form!Dirs BY <2>1, <1>1 DEF Form!Dirs
  <2>3. form' = [dir |-> d, amount |-> Form!Empty] BY <1>4, <2>1 DEF Form!handleSwapDirection
  <2>4. form' \in FormRecord BY <2>2, <2>3 DEF FormRecord
  <2>5. rates' = Form!Asked(form') /\ estimate' = Form!NoForm BY <1>4 DEF Form!handleSwapDirection
  <2> QED BY <1>1, <2>4, <2>5, FormChanges
<1>5. ASSUME NEW r \in rates, Form!updateRateAndCalculate(r) PROVE PriceInv'
  <2>1. /\ form' = form /\ rates' = rates \ {r}
        /\ estimate' = IF r.live THEN r.for ELSE estimate
    BY <1>5 DEF Form!updateRateAndCalculate, Form!Applies
  <2>2. Form!EstimateIsCurrent'
    BY <2>1, <1>1 DEF PriceInv, Form!EstimateIsCurrent
  <2> QED BY <1>1, <2>1, <2>2 DEF PriceInv
<1>6. CASE Form!handleReset
  <2>1. PICK f : f = [form EXCEPT !.amount = Form!Empty] OBVIOUS
  <2>2. f \in FormRecord BY ONLY <1>1, <2>1 DEF FormRecord
  <2>3. form' = f /\ rates' = Form!Asked(form') /\ estimate' = Form!NoForm
    BY <1>6, <2>1 DEF Form!handleReset
  <2> QED BY <1>1, <2>2, <2>3, FormChanges
<1>7. CASE \/ \E id \in Saved :
                 \/ \E cached \in BOOLEAN : Form!restoreOrder(id, cached)
                 \/ \E ok \in BOOLEAN : Form!FreshnessAnswers(id, ok)
           \/ Form!handleRetryFreshness
  BY <1>2, <1>7 DEF Form!restoreOrder, Form!FreshnessAnswers, Form!handleRetryFreshness
<1>8. CASE \/ \E n \in Form!Nets : Form!ChangeMode(n) \/ Form!WalletSwitches(n)
           \/ Form!updateNetworkInfo
           \/ \E ok \in BOOLEAN : \/ Form!backendStatus(ok) \/ Form!switchEthereumChain(ok)
                                  \/ Form!createOrder(ok) \/ Form!sendLock(ok)
                                  \/ Form!payStellar(ok)
  BY <1>2, <1>8 DEF Form!ChangeMode, Form!WalletSwitches, Form!updateNetworkInfo,
     Form!backendStatus, Form!switchEthereumChain, Form!createOrder, Form!sendLock,
     Form!payStellar
<1>9. CASE \/ Form!handleSubmit \/ Form!checkChain \/ Form!confirmationFails
           \/ \E id \in Form!NewIds, result \in {"ok", "reverted"} : Form!MineLock(id, result)
           \/ \E seen \in {"in_block", "receipt"} : Form!confirmLock(seen)
           \/ \E answer \in {"2xx", "refunded", "error"} : Form!relayerAnswers(answer)
  BY <1>2, <1>9 DEF Form!handleSubmit, Form!checkChain, Form!confirmationFails,
     Form!MineLock, Form!confirmLock, Form!relayerAnswers
<1> QED BY <1>3, <1>4, <1>5, <1>6, <1>7, <1>8, <1>9 DEF Form!FormNext

\* Only restoreOrder, an accepted answer and handleReset change the page, and each
\* leaves the order asked for last on it, or none.
LEMMA PageKeeps ==
    ASSUME FormInv, Form!FormNext
    PROVE  PageInv' /\ (shown' # shown /\ shown' # Form!NoOrder => shown' = activeRef')
<1> USE DEF Form!price, Form!page, Form!network, Form!sending
<1>1. PageInv BY DEF FormInv
<1>2. CASE UNCHANGED <<shown, activeRef>> BY <1>1, <1>2 DEF PageInv
<1>3. CASE \E id \in Saved :
              \/ \E cached \in BOOLEAN : Form!restoreOrder(id, cached)
              \/ \E ok \in BOOLEAN : Form!FreshnessAnswers(id, ok)
  BY <1>1, <1>3 DEF PageInv, Form!restoreOrder, Form!FreshnessAnswers,
     Form!isResponseForCurrentOrder
<1>4. CASE Form!handleReset BY <1>1, <1>4 DEF PageInv, Form!handleReset
<1>5. CASE \/ \E a \in FormAmounts \cup {Form!Empty} : Form!setAmount(a)
           \/ Form!handleSwapDirection \/ Form!handleRetryFreshness
           \/ \E r \in rates : Form!updateRateAndCalculate(r)
  BY <1>2, <1>5 DEF Form!setAmount, Form!handleSwapDirection, Form!handleRetryFreshness,
     Form!updateRateAndCalculate
<1>8. CASE \/ \E n \in Form!Nets : Form!ChangeMode(n) \/ Form!WalletSwitches(n)
           \/ Form!updateNetworkInfo
           \/ \E ok \in BOOLEAN : \/ Form!backendStatus(ok) \/ Form!switchEthereumChain(ok)
                                  \/ Form!createOrder(ok) \/ Form!sendLock(ok)
                                  \/ Form!payStellar(ok)
  BY <1>2, <1>8 DEF Form!ChangeMode, Form!WalletSwitches, Form!updateNetworkInfo,
     Form!backendStatus, Form!switchEthereumChain, Form!createOrder, Form!sendLock,
     Form!payStellar
<1>9. CASE \/ Form!handleSubmit \/ Form!checkChain \/ Form!confirmationFails
           \/ \E id \in Form!NewIds, result \in {"ok", "reverted"} : Form!MineLock(id, result)
           \/ \E seen \in {"in_block", "receipt"} : Form!confirmLock(seen)
           \/ \E answer \in {"2xx", "refunded", "error"} : Form!relayerAnswers(answer)
  BY <1>2, <1>9 DEF Form!handleSubmit, Form!checkChain, Form!confirmationFails,
     Form!MineLock, Form!confirmLock, Form!relayerAnswers
<1> QED BY <1>3, <1>4, <1>5, <1>8, <1>9 DEF Form!FormNext

\* The list keeps at most HistoryCap entries, the newest first.
LEMMA HistoryGrows ==
    ASSUME SendingInv
    PROVE  /\ Form!saveTransactionToHistory(submits) \in Seq(HistoryEntry)
           /\ Len(Form!saveTransactionToHistory(submits)) <= HistoryCap
<1>1. PICK e : e = [id |-> submits, status |-> "pending"] OBVIOUS
<1>2. e \in HistoryEntry BY <1>1 DEF SendingInv, HistoryEntry
<1>3. PICK grown : grown = <<e>> \o history OBVIOUS
<1>4. grown \in Seq(HistoryEntry) /\ Len(grown) \in Nat
  BY <1>2, <1>3 DEF SendingInv
<1>5. PICK n : n = IF Len(grown) > HistoryCap THEN HistoryCap ELSE Len(grown) OBVIOUS
<1>6. n \in Nat /\ n <= HistoryCap /\ n <= Len(grown) BY <1>4, <1>5, FormBounds
<1>7. SubSeq(grown, 1, n) \in Seq(HistoryEntry) /\ Len(SubSeq(grown, 1, n)) = n
  BY <1>4, <1>6
<1>8. Form!saveTransactionToHistory(submits) = SubSeq(grown, 1, n)
  BY <1>1, <1>3, <1>5 DEF Form!saveTransactionToHistory
<1> QED BY <1>6, <1>7, <1>8

LEMMA HistoryUpdates ==
    ASSUME SendingInv, NEW s \in {"completed", "cancelled", "failed"}
    PROVE  /\ Form!updateTransactionStatus(submits, s) \in Seq(HistoryEntry)
           /\ Len(Form!updateTransactionStatus(submits, s)) = Len(history)
<1>1. history \in Seq(HistoryEntry) BY DEF SendingInv
<1>2. PICK h : h = Form!updateTransactionStatus(submits, s) OBVIOUS
<1>3. h = [i \in 1..Len(history) |->
             IF history[i].id = submits THEN [history[i] EXCEPT !.status = s] ELSE history[i]]
  BY <1>1, <1>2 DEF Form!updateTransactionStatus
<1>4. ASSUME NEW i \in 1..Len(history) PROVE h[i] \in HistoryEntry
  <2>1. PICK e : e = history[i] OBVIOUS
  <2>2. e \in HistoryEntry BY <1>1, <2>1
  <2>3. PICK n : n = [e EXCEPT !.status = s] OBVIOUS
  <2>4. n \in HistoryEntry
    BY ONLY <2>2, <2>3, s \in {"completed", "cancelled", "failed"} DEF HistoryEntry
  <2>5. h[i] = e \/ h[i] = n BY <1>3, <2>1, <2>3
  <2> QED BY <2>2, <2>4, <2>5
<1>5. h \in Seq(HistoryEntry) /\ Len(h) = Len(history)
  <2>1. h \in [1..Len(history) -> HistoryEntry] BY <1>3, <1>4
  <2>2. Len(history) \in Nat BY <1>1
  <2> QED BY <1>3, <2>1, <2>2
<1> QED BY <1>2, <1>5

LEMMA FlowMoves ==
    ASSUME flow \in FlowRecord,
           NEW at \in {"chain", "switch", "create", "pay", "confirm", "process"}
    PROVE  [flow EXCEPT !.at = at] \in FlowRecord /\ [flow EXCEPT !.at = at].at = at
BY DEF FlowRecord

LEMMA SendingKeeps ==
    ASSUME FormInv, Form!FormNext
    PROVE  SendingInv'
<1> USE DEF Form!price, Form!page, Form!network, Form!sending
<1>1. SendingInv /\ form.dir \in Form!Dirs BY DEF FormInv, PriceInv, FormRecord
<1>2. Form!Idle.at = "idle" BY DEF Form!Idle
<1>3. flow.at # "idle" => flow \in FlowRecord BY <1>1, <1>2 DEF SendingInv
<1>4. submits \in Nat /\ submits <= MaxSubmits BY <1>1, FormBounds DEF SendingInv
<1>5. CASE UNCHANGED <<flow, submits, posted, history>> /\ info' \in Form!Nets /\ mode' \in Form!Nets
  BY <1>1, <1>5 DEF SendingInv
<1>6. CASE \/ \E a \in FormAmounts \cup {Form!Empty} : Form!setAmount(a)
           \/ Form!handleSwapDirection \/ Form!handleRetryFreshness \/ Form!handleReset
           \/ \E r \in rates : Form!updateRateAndCalculate(r)
           \/ \E id \in Saved :
                 \/ \E cached \in BOOLEAN : Form!restoreOrder(id, cached)
                 \/ \E ok \in BOOLEAN : Form!FreshnessAnswers(id, ok)
  <2>1. UNCHANGED <<flow, submits, posted, history, info, mode>>
    BY <1>6 DEF Form!setAmount, Form!handleSwapDirection, Form!handleRetryFreshness,
       Form!handleReset, Form!updateRateAndCalculate, Form!restoreOrder, Form!FreshnessAnswers
  <2> QED BY <1>1, <1>5, <2>1 DEF SendingInv
<1>7. CASE \/ \E n \in Form!Nets : Form!ChangeMode(n) \/ Form!WalletSwitches(n)
           \/ Form!updateNetworkInfo
           \/ \E ok \in BOOLEAN : Form!backendStatus(ok)
           \/ \E id \in Form!NewIds, result \in {"ok", "reverted"} : Form!MineLock(id, result)
  <2>1. /\ UNCHANGED <<flow, submits, posted, history>>
        /\ info' \in {info, mode} /\ (mode' = mode \/ mode' \in Form!Nets)
    BY <1>7 DEF Form!ChangeMode, Form!WalletSwitches, Form!updateNetworkInfo,
       Form!backendStatus, Form!MineLock
  <2> QED BY <1>1, <1>5, <2>1 DEF SendingInv
<1>8. CASE Form!handleSubmit
  <2>1. PICK f : f = [at |-> "chain", dir |-> form.dir, net |-> info] OBVIOUS
  <2>2. f \in FlowRecord /\ f.at = "chain" BY <1>1, <2>1 DEF FlowRecord, SendingInv
  <2>3. flow' = f /\ submits < MaxSubmits /\ UNCHANGED <<submits, posted, history, info, mode>>
    BY <1>8, <2>1 DEF Form!handleSubmit
  <2> QED BY <1>1, <2>2, <2>3 DEF SendingInv
<1>9. CASE Form!checkChain \/ \E ok \in BOOLEAN : Form!switchEthereumChain(ok)
  <2>1. /\ UNCHANGED <<submits, posted, history, info, mode>>
        /\ flow.at \in {"chain", "switch"}
        /\ \/ \E at \in {"create", "switch"} : flow' = [flow EXCEPT !.at = at]
           \/ flow' = Form!Idle
    BY <1>9 DEF Form!checkChain, Form!switchEthereumChain
  <2>2. flow' \in FlowRecord \cup {Form!Idle} /\ flow'.at \in {"create", "switch", "idle"}
    BY <1>2, <1>3, <2>1, FlowMoves
  <2>3. submits < MaxSubmits BY <1>1, <2>1 DEF SendingInv
  <2> QED BY <1>1, <2>1, <2>2, <2>3 DEF SendingInv
<1>10. ASSUME NEW ok \in BOOLEAN, Form!createOrder(ok) PROVE SendingInv'
  <2>1. flow.at = "create" /\ UNCHANGED <<posted, history, info, mode>> BY <1>10 DEF Form!createOrder
  <2>2. submits < MaxSubmits BY <1>1, <2>1 DEF SendingInv
  <2>3. CASE ok
    <3>1. submits' = submits + 1 /\ flow' = [flow EXCEPT !.at = "pay"]
      BY <1>10, <2>3 DEF Form!createOrder
    <3>2. flow' \in FlowRecord /\ flow'.at = "pay" BY <1>3, <2>1, <3>1, FlowMoves
    <3>3. submits' \in 0..MaxSubmits /\ submits' > 0 BY <1>4, <2>2, <3>1, FormBounds
    <3> QED BY <1>1, <2>1, <3>2, <3>3 DEF SendingInv
  <2>4. CASE ~ ok
    <3>1. submits' = submits /\ flow' = Form!Idle BY <1>10, <2>4 DEF Form!createOrder
    <3> QED BY <1>1, <1>2, <2>1, <3>1 DEF SendingInv
  <2> QED BY <2>3, <2>4
<1>11. CASE Form!confirmationFails \/ \E ok \in BOOLEAN : Form!sendLock(ok)
  <2>1. /\ UNCHANGED <<submits, posted, history, info, mode>>
        /\ flow.at \in {"pay", "confirm"}
        /\ flow' = [flow EXCEPT !.at = "confirm"] \/ flow' = Form!Idle
    BY <1>11 DEF Form!confirmationFails, Form!sendLock
  <2>2. flow' \in FlowRecord \cup {Form!Idle} /\ flow'.at \in {"confirm", "idle"}
    BY <1>2, <1>3, <2>1, FlowMoves
  <2>3. submits > 0 BY <1>1, <2>1 DEF SendingInv
  <2> QED BY <1>1, <2>1, <2>2, <2>3 DEF SendingInv
<1>12. CASE \/ \E ok \in BOOLEAN : Form!payStellar(ok)
            \/ \E seen \in {"in_block", "receipt"} : Form!confirmLock(seen)
  <2>1. /\ UNCHANGED <<submits, info, mode>> /\ flow.at \in {"pay", "confirm"}
        /\ \/ flow' = Form!Idle /\ UNCHANGED <<posted, history>>
           \/ /\ flow' = [flow EXCEPT !.at = "process"]
              /\ posted' = posted \cup {submits}
              /\ history' = Form!saveTransactionToHistory(submits)
    BY <1>12 DEF Form!payStellar, Form!confirmLock
  <2>2. flow' \in FlowRecord \cup {Form!Idle} /\ flow'.at \in {"process", "idle"}
    BY <1>2, <1>3, <2>1, FlowMoves
  <2>3. submits > 0 BY <1>1, <2>1 DEF SendingInv
  <2>4. posted' \subseteq Form!NewIds BY <1>1, <1>4, <2>1, <2>3, FormBounds DEF SendingInv, Form!NewIds
  <2>5. history' \in Seq(HistoryEntry) /\ Len(history') <= HistoryCap
    BY <1>1, <2>1, HistoryGrows DEF SendingInv
  <2> QED BY <1>1, <2>1, <2>2, <2>3, <2>4, <2>5 DEF SendingInv
<1>13. ASSUME NEW answer \in {"2xx", "refunded", "error"}, Form!relayerAnswers(answer)
       PROVE  SendingInv'
  <2>1. PICK s : s = Form!ShownAs(flow.dir, answer) OBVIOUS
  <2>2. s \in {"completed", "cancelled", "failed"} BY <2>1 DEF Form!ShownAs
  <2>3. /\ flow' = Form!Idle /\ history' = Form!updateTransactionStatus(submits, s)
        /\ UNCHANGED <<submits, posted, info, mode>>
    BY <1>13, <2>1 DEF Form!relayerAnswers
  <2>4. history' \in Seq(HistoryEntry) /\ Len(history') = Len(history)
    BY <1>1, <2>2, <2>3, HistoryUpdates
  <2> QED BY <1>1, <1>2, <2>3, <2>4 DEF SendingInv
<1> QED BY <1>6, <1>7, <1>8, <1>9, <1>10, <1>11, <1>12, <1>13 DEF Form!FormNext

LEMMA FormInvStep == FormInv /\ [Form!FormNext]_Form!formVars => FormInv'
<1> SUFFICES ASSUME FormInv, [Form!FormNext]_Form!formVars PROVE FormInv'
    OBVIOUS
<1>1. CASE UNCHANGED Form!formVars
  BY <1>1 DEF FormInv, PriceInv, PageInv, SendingInv, Form!EstimateIsCurrent, Form!formVars,
     Form!price, Form!page, Form!network, Form!sending
<1>2. CASE Form!FormNext BY <1>2, PriceKeeps, PageKeeps, SendingKeeps DEF FormInv
<1> QED BY <1>1, <1>2

\* What a step may put on screen.
ShowsCurrent == shown' # shown /\ shown' # Form!NoOrder => shown' = activeRef'

LEMMA StepShowsCurrent == FormInv /\ [Form!FormNext]_Form!formVars => ShowsCurrent
<1> SUFFICES ASSUME FormInv, [Form!FormNext]_Form!formVars PROVE ShowsCurrent
    OBVIOUS
<1>1. CASE UNCHANGED Form!formVars BY <1>1 DEF ShowsCurrent, Form!formVars, Form!page
<1>2. CASE Form!FormNext BY <1>2, PageKeeps DEF ShowsCurrent
<1> QED BY <1>1, <1>2
-----------------------------------------------------------------------------
(* RefundFlow.                                                             *)

ClickSteps == {"idle", "check", "recheck", "send"}

\* Both timelocks are past at second s, and the destination leg has one.
Due(s) == dstLocked /\ s > SrcExpiry /\ s > DstExpiry

\* A click that is about to send was told so when both timelocks were past,
\* and what is past stays past.
RefundInv ==
    /\ Refund!RefundTypeOK
    /\ click \in [Clicks -> ClickSteps]
    /\ signing \in Refund!Networks \cup {"none"}
    /\ \A k \in Clicks : click[k] = "send" => Due(second)
    /\ Refund!RefundsAreDue /\ Refund!SignedAsBuilt

LEMMA RefundInvInit == Refund!RefundInit => RefundInv
<1> SUFFICES ASSUME Refund!RefundInit PROVE RefundInv
    OBVIOUS
<1> USE DEF Refund!RefundInit, Refund!Networks, Refund!None, ClickSteps
<1>1. 1 \in 1..LastSecond BY ClientsAssumption
<1>2. click \in [Clicks -> ClickSteps] /\ \A k \in Clicks : click[k] = "idle" OBVIOUS
<1>3. Refund!RefundTypeOK BY <1>1, <1>2 DEF Refund!RefundTypeOK
<1>4. Refund!RefundsAreDue /\ Refund!SignedAsBuilt
  BY DEF Refund!RefundsAreDue, Refund!SignedAsBuilt
<1> QED BY <1>2, <1>3, <1>4 DEF RefundInv

LEMMA EligibleIsDue == Refund!Eligible => Due(second)
<1> SUFFICES ASSUME Refund!Eligible PROVE Due(second)
    OBVIOUS
<1>1. \A side \in {"ethereum", "stellar"} :
        Refund!OrderTimelocks[side] # 0 /\ second > Refund!OrderTimelocks[side]
  BY DEF Refund!Eligible, Refund!evaluateRefundEligibility, Refund!OrderTimelocks, Refund!Unset
<1>2. /\ Refund!OrderTimelocks["ethereum"] = SrcExpiry
      /\ Refund!OrderTimelocks["stellar"] = IF dstLocked THEN DstExpiry ELSE 0
  BY DEF Refund!OrderTimelocks, Refund!Unset
<1> QED BY <1>1, <1>2 DEF Due

\* A step that leaves the clicks, the wallets' signatures and the legs alone.
LEMMA ClockStepKeeps ==
    ASSUME RefundInv, Refund!lockDestination \/ Refund!Tick
    PROVE  RefundInv'
<1> USE ClientsAssumption DEF RefundInv, Refund!RefundTypeOK
<1>1. UNCHANGED <<appMode, chain, seenChain, stellarNet, signing, signed,
                  phase, decision, poll, click, refunds>>
  BY DEF Refund!lockDestination, Refund!Tick, Refund!walletVars, Refund!dialogVars
<1>2. second' \in 1..LastSecond /\ second' >= second /\ (dstLocked => dstLocked')
  BY DEF Refund!lockDestination, Refund!Tick
<1>3. \A k \in Clicks : click'[k] = "send" => Due(second)' BY <1>1, <1>2 DEF Due
<1>4. Refund!RefundsAreDue' /\ Refund!SignedAsBuilt'
  BY <1>1, <1>2 DEF Refund!RefundsAreDue, Refund!SignedAsBuilt
<1> QED BY <1>1, <1>2, <1>3, <1>4

LEMMA WalletStepKeeps ==
    ASSUME RefundInv, NEW n \in Refund!Networks,
           \/ Refund!SwitchWallet(n) \/ Refund!setMode(n) \/ Refund!SwitchFreighter(n)
           \/ Refund!refreshMetamask \/ Refund!callSign \/ Refund!signTransaction
    PROVE  RefundInv'
<1> USE DEF RefundInv, Refund!RefundTypeOK
<1>1. UNCHANGED <<second, dstLocked, phase, decision, poll, click, refunds>>
  BY DEF Refund!SwitchWallet, Refund!setMode, Refund!SwitchFreighter, Refund!refreshMetamask,
         Refund!callSign, Refund!signTransaction, Refund!dialogVars
<1>2. {appMode, chain, seenChain, stellarNet}' \subseteq Refund!Networks
      /\ signing' \in Refund!Networks \cup {"none"}
  BY DEF Refund!SwitchWallet, Refund!setMode, Refund!SwitchFreighter, Refund!refreshMetamask,
         Refund!callSign, Refund!signTransaction, Refund!None
<1>3. Refund!SignedAsBuilt'
  <2>1. CASE Refund!signTransaction
    <3>1. \/ signed' = signed
          \/ signed' = signed \cup {[built |-> signing, passphrase |-> signing]}
      BY <2>1 DEF Refund!signTransaction, Refund!expectedPassphrase
    <3> QED BY <3>1 DEF Refund!SignedAsBuilt
  <2>2. CASE signed' = signed BY <2>2 DEF Refund!SignedAsBuilt
  <2> QED
    BY <2>1, <2>2 DEF Refund!SwitchWallet, Refund!setMode, Refund!SwitchFreighter,
                      Refund!refreshMetamask, Refund!callSign
<1>4. Refund!RefundsAreDue' BY <1>1 DEF Refund!RefundsAreDue
<1>5. \A k \in Clicks : click'[k] = "send" => Due(second)' BY <1>1 DEF Due
<1> QED BY <1>1, <1>2, <1>3, <1>4, <1>5

LEMMA PollStepKeeps ==
    ASSUME RefundInv, NEW ok \in BOOLEAN,
           Refund!pollEligibility \/ Refund!refreshEligibility(ok)
    PROVE  RefundInv'
<1> USE DEF RefundInv, Refund!RefundTypeOK
<1>1. UNCHANGED <<second, dstLocked, appMode, chain, seenChain, stellarNet, signing, signed,
                  click, refunds>>
  BY DEF Refund!pollEligibility, Refund!refreshEligibility, Refund!walletVars
<1>2. phase' \in {"checking", "waiting", "ready", "submitting", "done", "error"}
  BY DEF Refund!pollEligibility, Refund!refreshEligibility
<1>3. decision' \in BOOLEAN
  BY DEF Refund!pollEligibility, Refund!refreshEligibility
<1> QED BY <1>1, <1>2, <1>3 DEF Refund!RefundsAreDue, Refund!SignedAsBuilt, Due

LEMMA DialogStepKeeps ==
    ASSUME RefundInv, NEW k \in Clicks, NEW ok \in BOOLEAN,
           \/ Refund!handleRefund(k) \/ Refund!firstCheck(k) \/ Refund!latestCheck(k)
           \/ Refund!requestFails(k) \/ Refund!refundOrder(k, ok)
    PROVE  RefundInv'
<1> USE DEF RefundInv, Refund!RefundTypeOK
<1> USE DEF Refund!handleRefund,
            Refund!firstCheck, Refund!latestCheck, Refund!Checked, Refund!requestFails,
            Refund!refundOrder
<1>1. UNCHANGED <<second, dstLocked, appMode, chain, seenChain, stellarNet, signing, signed>>
  BY DEF Refund!walletVars
<1>2. phase' \in {"checking", "waiting", "ready", "submitting", "done", "error"}
  OBVIOUS
<1>3. decision' \in BOOLEAN
  BY DEF Refund!Eligible, Refund!evaluateRefundEligibility
<1>4. \/ click' = click
      \/ \E step \in ClickSteps : /\ click' = [click EXCEPT ![k] = step]
                                  /\ step = "send" => Refund!Eligible
  BY DEF ClickSteps
<1>5. /\ click' \in [Clicks -> ClickSteps]
      /\ \A c \in Clicks : click'[c] = "send" => click[c] = "send" \/ Refund!Eligible
  BY <1>4
<1>6. \A c \in Clicks : click'[c] = "send" => Due(second)'
  BY <1>1, <1>5, EligibleIsDue DEF Due
<1>7. refunds' = refunds \/ (click[k] = "send" /\ refunds' = refunds \cup {second})
  OBVIOUS
<1>8. Refund!RefundsAreDue' BY <1>1, <1>7 DEF Refund!RefundsAreDue, Due
<1>9. Refund!SignedAsBuilt' BY <1>1 DEF Refund!SignedAsBuilt
<1> QED BY <1>1, <1>2, <1>3, <1>5, <1>6, <1>8, <1>9 DEF ClickSteps

LEMMA RefundInvStep == RefundInv /\ [Refund!RefundNext]_Refund!refundVars => RefundInv'
<1> SUFFICES ASSUME RefundInv, [Refund!RefundNext]_Refund!refundVars PROVE RefundInv'
    OBVIOUS
<1>1. CASE UNCHANGED Refund!refundVars
  BY <1>1 DEF Refund!refundVars, Refund!walletVars, Refund!dialogVars, RefundInv,
              Refund!RefundTypeOK, Refund!RefundsAreDue, Refund!SignedAsBuilt, Due
<1>3. CASE Refund!refreshMetamask \/ Refund!callSign \/ Refund!signTransaction
  <2>1. "testnet" \in Refund!Networks BY DEF Refund!Networks
  <2> QED BY <1>3, <2>1, WalletStepKeeps
<1>4. CASE Refund!RefundNext
  BY <1>3, <1>4, ClockStepKeeps, WalletStepKeeps, PollStepKeeps, DialogStepKeeps DEF Refund!RefundNext
<1> QED BY <1>1, <1>4

-----------------------------------------------------------------------------
(* SwapViews.                                                              *)

ViewInv ==
    /\ Views!ViewTypeOK /\ updatedAt \in Nat
    /\ Views!NothingLostInConversion

\* A whole number of Stellar units survives the way down and up again.
LEMMA WholeUnits ==
    ASSUME NEW s \in Nat \ {0}, NEW a \in Nat, a % s = 0
    PROVE  (a \div s) * s = a /\ a \div s \in 0..a
<1>1. a = s * (a \div s) + (a % s) /\ a \div s \in Nat OBVIOUS
<1>2. PICK q \in Nat : q = a \div s BY <1>1
<1>3. a = s * q BY <1>1, <1>2
<1>4. s * q = q * s /\ s * q >= q BY ONLY s \in Nat \ {0}, q \in Nat, SMT
<1> QED BY <1>2, <1>3, <1>4

LEMMA CarryIsExact ==
    ASSUME NEW wei \in 0..MaxUnits, Views!carry(wei)
    PROVE  carried' = Views!Refused \/ carried' = wei
<1>1. PICK s \in Nat \ {0} : s = Views!Scale BY ClientsAssumption DEF Views!Scale
<1>2. wei \in Nat /\ Views!Refused = MaxUnits + 1 /\ MaxUnits \in Nat
  BY ClientsAssumption DEF Views!Refused
<1>3. CASE wei % s = 0 /\ wei \div s <= MaxStroops
  <2>1. (wei \div s) * s = wei /\ wei \div s \in 0..wei BY <1>2, <1>3, WholeUnits
  <2>2. Views!weiToStroops(wei) = wei \div s /\ wei \div s # Views!Refused
    BY <1>1, <1>2, <1>3, <2>1, ClientsAssumption DEF Views!weiToStroops, Views!convertDown
  <2>3. Views!stroopsToWei(wei \div s) = wei
    BY <1>1, <1>3, <2>1, ClientsAssumption DEF Views!stroopsToWei
  <2> QED BY <2>2, <2>3 DEF Views!carry
<1>4. CASE ~ (wei % s = 0 /\ wei \div s <= MaxStroops)
  <2>1. Views!weiToStroops(wei) = Views!Refused
    BY <1>1, <1>4, ClientsAssumption DEF Views!weiToStroops, Views!convertDown
  <2> QED BY <2>1 DEF Views!carry
<1> QED BY <1>3, <1>4

LEMMA ViewInvInit == Views!ViewInit => ViewInv
BY ClientsAssumption
DEF Views!ViewInit, ViewInv, Views!ViewTypeOK, Views!NothingLostInConversion, Views!Statuses,
    Views!Refused

LEMMA ViewInvStep == ViewInv /\ [Views!ViewNext]_Views!viewVars => ViewInv'
<1> SUFFICES ASSUME ViewInv, [Views!ViewNext]_Views!viewVars PROVE ViewInv'
    OBVIOUS
<1> USE ClientsAssumption DEF ViewInv, Views!ViewTypeOK, Views!amounts
<1>1. CASE \E wei \in 0..MaxUnits : Views!carry(wei)
  <2>1. PICK wei \in 0..MaxUnits : Views!carry(wei) BY <1>1
  <2>2. /\ entered' = wei /\ UNCHANGED <<today, status, updatedAt, leg>>
        /\ carried' = Views!Refused \/ carried' = wei
    BY <2>1, CarryIsExact DEF Views!carry
  <2> QED BY <2>2 DEF Views!NothingLostInConversion, Views!Refused
<1>2. CASE UNCHANGED <<entered, carried>>
  <2>1. Views!NothingLostInConversion' BY <1>2 DEF Views!NothingLostInConversion, Views!Refused
  <2>2. CASE \/ Views!lockSource \/ \E to \in {"claimed", "refunded"} : Views!settleSource(to)
             \/ Views!observeHash \/ UNCHANGED Views!viewVars
    <3>1. UNCHANGED <<today, status, updatedAt>> /\ leg' \in {leg, "locked", "claimed", "refunded"}
      BY <2>2 DEF Views!lockSource, Views!settleSource, Views!observeHash, Views!viewVars
    <3> QED BY <1>2, <2>1, <3>1 DEF Views!Refused
  <2>3. CASE \E to \in Views!Statuses : Views!requireTransition(to)
    <3>1. status' \in Views!Statuses /\ updatedAt' = today /\ UNCHANGED <<today, leg>>
      BY <2>3 DEF Views!requireTransition
    <3> QED BY <1>2, <2>1, <3>1 DEF Views!Refused
  <2>4. CASE Views!Second
    <3>1. today < EndOfTime /\ today' = today + 1 /\ UNCHANGED <<status, updatedAt, leg>>
      BY <2>4 DEF Views!Second
    <3> QED BY <1>2, <2>1, <3>1 DEF Views!Refused
  <2> QED BY <1>1, <2>2, <2>3, <2>4 DEF Views!ViewNext
<1> QED
  BY <1>1, <1>2 DEF Views!ViewNext, Views!viewVars, Views!lockSource, Views!settleSource,
                    Views!requireTransition, Views!observeHash, Views!Second

\* The simulator calls a swap claimable up to the earlier timelock, the others
\* offer a refund from the later one on.
LEMMA ViewsAgree == ViewInv => Views!OffersDoNotConflict
<1> SUFFICES ASSUME ViewInv PROVE Views!OffersDoNotConflict
    OBVIOUS
<1> USE ClientsAssumption
<1>1. today \in Nat BY DEF ViewInv, Views!ViewTypeOK
<1>2. Views!simulateRefundTimeline(today) = "claimable" => today <= DstLock
  BY DEF Views!simulateRefundTimeline
<1>3. Views!simulateRefundTimeline(today) = "refundable" => today > SrcLock
  BY DEF Views!simulateRefundTimeline
<1>4. Views!classifyOrderFreshness(today) = "refund-eligible" => today >= SrcLock
  BY DEF Views!classifyOrderFreshness
<1>5. ~ Views!isFailedStatus /\ Views!HtlcTimeline(today).refundable = "active" => today > SrcLock
  <2>1. Views!HtlcTimeline(today).refundable =
          IF ~ Views!showRefundPath(today) THEN "hidden"
          ELSE IF Views!isRefundedStatus THEN "completed"
          ELSE IF Views!isRefundable(today) THEN "active"
          ELSE "pending"
    BY DEF Views!HtlcTimeline
  <2> QED BY <2>1 DEF Views!isRefundable
<1> QED BY <1>1, <1>2, <1>3, <1>4, <1>5 DEF Views!OffersDoNotConflict

-----------------------------------------------------------------------------
(* ResolverCommands.                                                       *)

CliSteps == {"idle", "dryRun", "validate", "planned", "approve", "register",
             "simulate", "poll", "landed", "rejected", "ok", "failed"}
CliRecord == [at: CliSteps, amount: Nat, evm: BOOLEAN, soroban: BOOLEAN]

CliShapes ==
    /\ env \in Commands!Envs
    /\ evmRpc \in {"up", "down", "other"} /\ sorobanRpc \in {"up", "down"}
    /\ staked \in [evm: Nat, soroban: Nat] /\ allowance \in Nat
    /\ inFlight \subseteq CliRuns
    /\ cli \in [CliRuns -> CliRecord]

\* The Soroban registry holds no stake or a full one, and once held it stays.
SorobanHeld == staked.soroban >= SorobanMin
StakeSound == staked.soroban = 0 \/ SorobanHeld

\* A run that skips the Soroban registry read there that it may.
ProgressSound(p) ==
    /\ p.at \in {"approve", "register"} /\ ~ p.soroban => ~ Commands!hasSoroban \/ SorobanHeld
    /\ p.at = "ok" => ~ Commands!hasSoroban \/ SorobanHeld
    /\ p.at = "landed" => SorobanHeld

CliInv == CliShapes /\ StakeSound /\ \A r \in CliRuns : ProgressSound(cli[r])

LEMMA CliInvInit == Commands!CliInit => CliInv
<1> SUFFICES ASSUME Commands!CliInit PROVE CliInv
    OBVIOUS
<1> USE DEF Commands!CliInit
<1>1. Commands!Waiting \in CliRecord /\ Commands!Waiting.at = "idle"
  BY DEF Commands!Waiting, CliRecord, CliSteps, Commands!Default
<1>2. cli \in [CliRuns -> CliRecord] /\ \A r \in CliRuns : cli[r].at = "idle" BY <1>1
<1>3. staked \in [evm: Nat, soroban: Nat] /\ staked.soroban = 0 OBVIOUS
<1> QED BY <1>2, <1>3 DEF CliInv, CliShapes, StakeSound, ProgressSound

\* One run moves on, and the Soroban stake, once there, stays.
LEMMA OneRunMoves ==
    ASSUME CliInv, NEW r \in CliRuns, NEW p \in CliRecord, cli' = [cli EXCEPT ![r] = p],
           env' = env, staked' \in [evm: Nat, soroban: Nat], StakeSound',
           SorobanHeld => SorobanHeld', ProgressSound(p)',
           evmRpc' = evmRpc, sorobanRpc' = sorobanRpc, allowance' \in Nat,
           inFlight' \subseteq CliRuns
    PROVE  CliInv'
<1>1. CliShapes' BY DEF CliInv, CliShapes
<1>2. Commands!hasSoroban' = Commands!hasSoroban BY DEF Commands!hasSoroban
<1>3. ASSUME NEW c \in CliRuns PROVE ProgressSound(cli[c])'
  <2>1. CASE c = r
    <3>1. cli'[c] = p BY <2>1 DEF CliInv, CliShapes
    <3> QED BY <3>1 DEF ProgressSound
  <2>2. CASE c # r
    <3>1. cli'[c] = cli[c] /\ ProgressSound(cli[c]) BY <2>2 DEF CliInv, CliShapes
    <3> QED BY <1>2, <3>1 DEF ProgressSound
  <2> QED BY <2>1, <2>2
<1> QED BY <1>1, <1>3 DEF CliInv

LEMMA GotoFact ==
    ASSUME CliInv, NEW r \in CliRuns, NEW step \in CliSteps, Commands!Goto(r, step)
    PROVE  \E p \in CliRecord :
              /\ cli' = [cli EXCEPT ![r] = p]
              /\ p.at = step /\ p.soroban = cli[r].soroban /\ p.amount = cli[r].amount
<1>1. cli' = [cli EXCEPT ![r].at = step] BY DEF Commands!Goto
<1>2. cli[r] \in CliRecord BY DEF CliInv, CliShapes
<1>3. PICK p : p = [at |-> step, amount |-> cli[r].amount, evm |-> cli[r].evm,
                    soroban |-> cli[r].soroban]
  OBVIOUS
<1>4. p \in CliRecord /\ p.at = step /\ p.soroban = cli[r].soroban /\ p.amount = cli[r].amount
  BY <1>2, <1>3 DEF CliRecord
<1>5. p = [cli[r] EXCEPT !.at = step] BY ONLY <1>2, <1>3, step \in CliSteps DEF CliRecord
<1>6. cli' = [cli EXCEPT ![r] = p] BY <1>1, <1>5 DEF CliInv, CliShapes
<1> QED BY <1>4, <1>6

\* Steps that touch neither registry and end in a step that promises nothing.
LEMMA HarmlessStep ==
    ASSUME CliInv, NEW r \in CliRuns,
           NEW step \in CliSteps \ {"approve", "register", "ok", "landed"},
           Commands!Goto(r, step), UNCHANGED <<env, evmRpc, sorobanRpc, staked>>,
           allowance' \in Nat, inFlight' \subseteq CliRuns
    PROVE  CliInv'
<1>1. PICK p \in CliRecord : cli' = [cli EXCEPT ![r] = p] /\ p.at = step
  BY GotoFact
<1>2. ProgressSound(p)' BY <1>1 DEF ProgressSound
<1>3. staked' \in [evm: Nat, soroban: Nat] /\ StakeSound' /\ (SorobanHeld => SorobanHeld')
  BY DEF CliInv, CliShapes, StakeSound, SorobanHeld
<1> QED BY <1>1, <1>2, <1>3, OneRunMoves

LEMMA RegisterCommandKeeps ==
    ASSUME CliInv, NEW r \in CliRuns, NEW amount \in StakeAmounts \cup {0}, NEW dry \in BOOLEAN,
           Commands!registerCommand(r, amount, dry)
    PROVE  CliInv'
<1>1. UNCHANGED <<env, evmRpc, sorobanRpc, staked, allowance, inFlight>>
  BY DEF Commands!registerCommand, Commands!worldVars
<1>2. allowance' \in Nat /\ inFlight' \subseteq CliRuns BY <1>1 DEF CliInv, CliShapes
<1>3. CASE Commands!Goto(r, "failed") BY <1>1, <1>2, <1>3, HarmlessStep DEF CliSteps
<1>4. CASE cli' = [cli EXCEPT ![r] = [at |-> IF dry THEN "dryRun" ELSE "validate",
                                      amount |-> amount, evm |-> FALSE, soroban |-> FALSE]]
  <2>1. PICK p : p = [at |-> IF dry THEN "dryRun" ELSE "validate",
                      amount |-> amount, evm |-> FALSE, soroban |-> FALSE]
    OBVIOUS
  <2>2. p \in CliRecord /\ p.at \in {"dryRun", "validate"}
    BY <2>1, ClientsAssumption DEF CliRecord, CliSteps
  <2>3. ProgressSound(p)' BY <2>2 DEF ProgressSound
  <2>4. staked' \in [evm: Nat, soroban: Nat] /\ StakeSound' /\ (SorobanHeld => SorobanHeld')
    BY <1>1 DEF CliInv, CliShapes, StakeSound, SorobanHeld
  <2> QED BY <1>1, <1>2, <1>4, <2>1, <2>2, <2>3, <2>4, OneRunMoves
<1> QED BY <1>3, <1>4 DEF Commands!registerCommand

\* What a run reads in the registries decides what it skips.
LEMMA ValidateKeeps ==
    ASSUME CliInv, NEW r \in CliRuns, Commands!validateRegistries(r)
    PROVE  CliInv'
<1>1. UNCHANGED <<env, evmRpc, sorobanRpc, staked, allowance, inFlight>>
  BY DEF Commands!validateRegistries, Commands!worldVars
<1>2. allowance' \in Nat /\ inFlight' \subseteq CliRuns BY <1>1 DEF CliInv, CliShapes
<1>3. CASE Commands!Goto(r, "failed") BY <1>1, <1>2, <1>3, HarmlessStep DEF CliSteps
<1>4. CASE ~ Commands!Goto(r, "failed")
  <2> DEFINE e == ~ Commands!isActive("evm")
             s == Commands!hasSoroban /\ ~ Commands!isActive("soroban")
             at == IF cli[r].at = "dryRun" THEN "planned"
                   ELSE IF e THEN "approve" ELSE IF s THEN "simulate" ELSE "ok"
  <2>1. cli' = [cli EXCEPT ![r].evm = e, ![r].soroban = s, ![r].at = at]
    BY <1>4 DEF Commands!validateRegistries
  <2>2. cli[r] \in CliRecord BY DEF CliInv, CliShapes
  <2>3. PICK p : p = [at |-> at, amount |-> cli[r].amount, evm |-> e, soroban |-> s] OBVIOUS
  <2>4. e \in BOOLEAN /\ s \in BOOLEAN /\ at \in CliSteps
    BY DEF CliSteps, Commands!isActive, Commands!hasSoroban, Commands!Given
  <2> HIDE DEF e, s, at
  <2>5. /\ p \in CliRecord /\ p.at = at /\ p.soroban = s
        /\ p = [[[cli[r] EXCEPT !.evm = e] EXCEPT !.soroban = s] EXCEPT !.at = at]
    <3>1. PICK q : q = [cli[r] EXCEPT !.evm = e] OBVIOUS
    <3>2. /\ q \in CliRecord /\ q.at = cli[r].at /\ q.amount = cli[r].amount
          /\ q.evm = e /\ q.soroban = cli[r].soroban
      BY ONLY <2>2, <2>4, <3>1 DEF CliRecord
    <3>3. PICK q2 : q2 = [q EXCEPT !.soroban = s] OBVIOUS
    <3>4. /\ q2 \in CliRecord /\ q2.at = q.at /\ q2.amount = q.amount
          /\ q2.evm = q.evm /\ q2.soroban = s
      BY ONLY <2>4, <3>2, <3>3 DEF CliRecord
    <3>5. p = [q2 EXCEPT !.at = at] BY ONLY <2>3, <2>4, <3>2, <3>4 DEF CliRecord
    <3>6. p \in CliRecord /\ p.at = at /\ p.soroban = s
      BY ONLY <2>2, <2>3, <2>4 DEF CliRecord
    <3> QED BY <3>1, <3>3, <3>5, <3>6
  <2>6. cli' = [cli EXCEPT ![r] = p] BY <2>1, <2>2, <2>5 DEF CliInv, CliShapes
  <2>7. Commands!isActive("soroban") => SorobanHeld
    <3>1. staked["soroban"] > 0 => SorobanHeld BY DEF CliInv, CliShapes, StakeSound
    <3> QED BY <3>1 DEF Commands!isActive
  <2>8. s = FALSE => ~ Commands!hasSoroban \/ SorobanHeld BY <2>7 DEF s
  <2>9. at = "ok" => s = FALSE BY DEF at, s
  <2>10. at # "landed" BY DEF at
  <2>11. Commands!hasSoroban' = Commands!hasSoroban /\ SorobanHeld' = SorobanHeld
    BY <1>1 DEF Commands!hasSoroban, SorobanHeld
  <2>12. ProgressSound(p)' BY <2>4, <2>5, <2>8, <2>9, <2>10, <2>11 DEF ProgressSound
  <2>13. staked' \in [evm: Nat, soroban: Nat] /\ StakeSound' /\ (SorobanHeld => SorobanHeld')
    BY <1>1 DEF CliInv, CliShapes, StakeSound, SorobanHeld
  <2> QED BY <1>1, <1>2, <2>5, <2>6, <2>12, <2>13, OneRunMoves
<1> QED BY <1>3, <1>4

LEMMA StakeAmount ==
    ASSUME CliInv, NEW r \in CliRuns
    PROVE  Commands!EvmStake(r) \in Nat /\ Commands!SorobanStake(r) \in Nat
<1>1. cli[r].amount \in Nat BY DEF CliInv, CliShapes, CliRecord
<1>2. cli[r].amount * Unit \in Nat BY <1>1, ClientsAssumption
<1> QED BY <1>1, <1>2, ClientsAssumption DEF Commands!EvmStake, Commands!SorobanStake

LEMMA EvmStepKeeps ==
    ASSUME CliInv, NEW r \in CliRuns, Commands!approve(r) \/ Commands!registerEvm(r)
    PROVE  CliInv'
<1>1. UNCHANGED <<env, evmRpc, sorobanRpc, inFlight>>
  BY DEF Commands!approve, Commands!registerEvm, Commands!worldVars
<1>2. cli[r] \in CliRecord /\ ProgressSound(cli[r]) /\ inFlight' \subseteq CliRuns
  BY <1>1 DEF CliInv, CliShapes
<1>3. allowance \in Nat /\ staked \in [evm: Nat, soroban: Nat] /\ StakeSound
  BY DEF CliInv, CliShapes
<1>4. Commands!EvmStake(r) \in Nat BY StakeAmount
<1>5. allowance' \in Nat
  BY <1>3, <1>4 DEF Commands!approve, Commands!registerEvm
<1>6. staked' \in [evm: Nat, soroban: Nat] /\ staked'.soroban = staked.soroban
  <2>1. staked' = staked \/ staked' = [staked EXCEPT !.evm = Commands!EvmStake(r)]
    BY DEF Commands!approve, Commands!registerEvm
  <2>2. CASE staked' = staked BY <1>3, <2>2
  <2>3. CASE staked' = [staked EXCEPT !.evm = Commands!EvmStake(r)] BY ONLY <1>3, <1>4, <2>3
  <2> QED BY <2>1, <2>2, <2>3
<1>7. StakeSound' /\ SorobanHeld' = SorobanHeld BY <1>3, <1>6 DEF StakeSound, SorobanHeld
<1>8. Commands!hasSoroban' = Commands!hasSoroban BY <1>1 DEF Commands!hasSoroban
<1>9. PICK step \in {"register", "failed", "simulate", "ok"} :
        /\ Commands!Goto(r, step)
        /\ step \in {"register", "ok"} => cli[r].at \in {"approve", "register"}
        /\ step = "ok" => ~ cli[r].soroban
  BY <1>2 DEF Commands!approve, Commands!registerEvm, CliRecord
<1>10. step \in CliSteps BY DEF CliSteps
<1>11. PICK p \in CliRecord : /\ cli' = [cli EXCEPT ![r] = p]
                              /\ p.at = step /\ p.soroban = cli[r].soroban
  BY <1>9, <1>10, GotoFact
<1>12. ProgressSound(p)' BY <1>2, <1>7, <1>8, <1>9, <1>11 DEF ProgressSound
<1> QED BY <1>1, <1>2, <1>5, <1>6, <1>7, <1>11, <1>12, OneRunMoves

\* A sent transaction registers the full stake or nothing, whoever still waits.
LEMMA SorobanStepKeeps ==
    ASSUME CliInv, NEW r \in CliRuns,
           Commands!simulateSoroban(r) \/ Commands!SorobanSettles(r) \/ Commands!pollSoroban(r)
    PROVE  CliInv'
<1>1. UNCHANGED <<env, evmRpc, sorobanRpc, allowance>>
  BY DEF Commands!simulateSoroban, Commands!SorobanSettles, Commands!pollSoroban,
         Commands!worldVars
<1>2. /\ cli \in [CliRuns -> CliRecord] /\ cli[r] \in CliRecord /\ ProgressSound(cli[r])
      /\ allowance' \in Nat /\ staked \in [evm: Nat, soroban: Nat] /\ StakeSound
  BY <1>1 DEF CliInv, CliShapes
<1>3. inFlight' \subseteq CliRuns
  BY DEF Commands!simulateSoroban, Commands!SorobanSettles, Commands!pollSoroban, CliInv,
         CliShapes
<1>4. CASE Commands!simulateSoroban(r)
  <2>1. PICK step \in {"poll", "failed"} : Commands!Goto(r, step)
    BY <1>4 DEF Commands!simulateSoroban
  <2>2. staked' = staked /\ step \in CliSteps \ {"approve", "register", "ok", "landed"}
    BY <1>4 DEF Commands!simulateSoroban, CliSteps
  <2> QED BY <1>1, <1>2, <1>3, <2>1, <2>2, HarmlessStep
<1>5. CASE Commands!pollSoroban(r)
  <2>1. staked' = staked BY <1>5 DEF Commands!pollSoroban
  <2>2. PICK step \in {"ok", "failed"} :
          Commands!Goto(r, step) /\ (step = "ok" => cli[r].at = "landed")
    BY <1>5 DEF Commands!pollSoroban, Commands!Verdict
  <2>3. step \in CliSteps BY DEF CliSteps
  <2>4. PICK p \in CliRecord : cli' = [cli EXCEPT ![r] = p] /\ p.at = step
    BY <2>2, <2>3, GotoFact
  <2>5. staked' \in [evm: Nat, soroban: Nat] /\ StakeSound' /\ SorobanHeld' = SorobanHeld
    BY <1>2, <2>1 DEF StakeSound, SorobanHeld
  <2>6. ProgressSound(p)' BY <1>2, <2>2, <2>4, <2>5 DEF ProgressSound
  <2> QED BY <1>1, <1>2, <1>3, <2>4, <2>5, <2>6, OneRunMoves
<1>6. CASE Commands!SorobanSettles(r)
  <2> DEFINE amount == Commands!SorobanStake(r)
  <2>1. amount \in Nat BY StakeAmount
  <2>2. \/ Commands!SorobanAccepts(r) /\ staked' = [staked EXCEPT !.soroban = amount]
        \/ ~ Commands!SorobanAccepts(r) /\ staked' = staked
    BY <1>6 DEF Commands!SorobanSettles
  <2>3. Commands!SorobanAccepts(r) => amount >= SorobanMin BY DEF Commands!SorobanAccepts
  <2> HIDE DEF amount
  <2>4. /\ staked' \in [evm: Nat, soroban: Nat] /\ StakeSound'
        /\ SorobanHeld => SorobanHeld'
        /\ Commands!SorobanAccepts(r) => SorobanHeld'
    <3>1. CASE Commands!SorobanAccepts(r) /\ staked' = [staked EXCEPT !.soroban = amount]
      <4>1. staked' \in [evm: Nat, soroban: Nat] /\ staked'.soroban = amount
        BY ONLY <1>2, <2>1, <3>1
      <4> QED BY <2>3, <3>1, <4>1 DEF StakeSound, SorobanHeld
    <3>2. CASE ~ Commands!SorobanAccepts(r) /\ staked' = staked
      BY <1>2, <3>2 DEF StakeSound, SorobanHeld
    <3> QED BY <2>2, <3>1, <3>2
  <2>5. PICK p \in CliRecord :
          /\ cli' = [cli EXCEPT ![r] = p]
          /\ \/ p = cli[r]
             \/ p.at = "landed" /\ Commands!SorobanAccepts(r)
             \/ p.at = "rejected"
    <3>1. CASE cli' = cli
      <4>1. cli' = [cli EXCEPT ![r] = cli[r]] BY <1>2, <3>1
      <4> QED BY <1>2, <4>1
    <3>2. CASE Commands!Goto(r, "landed") /\ Commands!SorobanAccepts(r)
      BY <3>2, GotoFact DEF CliSteps
    <3>3. CASE Commands!Goto(r, "rejected")
      BY <3>3, GotoFact DEF CliSteps
    <3> QED BY <1>6, <3>1, <3>2, <3>3 DEF Commands!SorobanSettles, Commands!Goto
  <2>6. Commands!hasSoroban' = Commands!hasSoroban BY <1>1 DEF Commands!hasSoroban
  <2>7. ProgressSound(p)' BY <1>2, <2>4, <2>5, <2>6 DEF ProgressSound
  <2> QED BY <1>1, <1>2, <1>3, <2>4, <2>5, <2>7, OneRunMoves
<1> QED BY <1>4, <1>5, <1>6

LEMMA CliInvStep == CliInv /\ [Commands!CliNext]_Commands!cliVars => CliInv'
<1> SUFFICES ASSUME CliInv, [Commands!CliNext]_Commands!cliVars PROVE CliInv'
    OBVIOUS
<1>1. ASSUME UNCHANGED <<env, allowance, cli, inFlight>>,
             evmRpc' \in {"up", "down", "other"}, sorobanRpc' \in {"up", "down"},
             staked' \in [evm: Nat, soroban: Nat], staked'.soroban = staked.soroban
      PROVE  CliInv'
  <2>1. CliShapes' BY <1>1 DEF CliInv, CliShapes
  <2>2. SorobanHeld' = SorobanHeld /\ StakeSound' /\ Commands!hasSoroban' = Commands!hasSoroban
    BY <1>1 DEF CliInv, StakeSound, SorobanHeld, Commands!hasSoroban
  <2>3. \A r \in CliRuns : ProgressSound(cli[r])'
    BY <1>1, <2>2 DEF CliInv, ProgressSound
  <2> QED BY <2>1, <2>2, <2>3 DEF CliInv
<1>2. CASE UNCHANGED Commands!cliVars
  BY <1>1, <1>2 DEF Commands!cliVars, CliInv, CliShapes
<1>3. CASE Commands!unregisterCommand
  <2>1. /\ staked' = [staked EXCEPT !.evm = 0]
        /\ UNCHANGED <<env, evmRpc, sorobanRpc, allowance, cli, inFlight>>
    BY <1>3 DEF Commands!unregisterCommand, Commands!worldVars
  <2>2. staked \in [evm: Nat, soroban: Nat] BY DEF CliInv, CliShapes
  <2>3. staked' \in [evm: Nat, soroban: Nat] /\ staked'.soroban = staked.soroban
    BY ONLY <2>1, <2>2
  <2> QED BY <1>1, <2>1, <2>3 DEF CliInv, CliShapes
<1>4. CASE Commands!RpcChanges
  BY <1>1, <1>4 DEF Commands!RpcChanges, CliInv, CliShapes
<1>5. CASE Commands!CliNext
  BY <1>3, <1>4, <1>5, RegisterCommandKeeps, ValidateKeeps, EvmStepKeeps, SorobanStepKeeps
  DEF Commands!CliNext, Commands!Default
<1> QED BY <1>2, <1>5

LEMMA CliInvPromise == CliInv => Commands!CliTypeOK /\ Commands!OkMeansSorobanStaked
<1> SUFFICES ASSUME CliInv PROVE Commands!CliTypeOK /\ Commands!OkMeansSorobanStaked
    OBVIOUS
<1>1. DOMAIN staked = {"evm", "soroban"} BY DEF CliInv, CliShapes
<1>2. Commands!CliTypeOK BY <1>1 DEF CliInv, CliShapes, CliRecord, CliSteps, Commands!CliTypeOK
<1>3. Commands!OkMeansSorobanStaked
  BY DEF CliInv, ProgressSound, SorobanHeld, Commands!OkMeansSorobanStaked
<1> QED BY <1>2, <1>3

\* The three checkers do not contradict each other under any settings, RPC
\* answers and stakes.
LEMMA CheckersNeverDisagree == CliInv => Commands!CheckersAgree
<1> SUFFICES ASSUME CliInv PROVE Commands!CheckersAgree
    OBVIOUS
<1>1. env \in Commands!Settings BY DEF CliInv, CliShapes, Commands!Envs
<1>2. Commands!assessReadiness =>
        \A c \in {"agreement", "evmKey", "secret", "evmRegistry", "sorobanRegistry",
                  "evmNetwork", "sorobanNetwork"} : Commands!runPreflightChecks[c] = "PASS"
  BY <1>1 DEF Commands!assessReadiness, Commands!runPreflightChecks, Commands!Passed,
     Commands!checkResolverNetworkAgreement, Commands!WellFormed, Commands!Given
<1>3. Commands!buildJsonOutput = "healthy" => Commands!preflightCommand
  <2> SUFFICES ASSUME Commands!buildJsonOutput = "healthy" PROVE Commands!preflightCommand
      OBVIOUS
  <2>1. /\ Commands!loadConfig /\ Commands!checkDeploymentAddresses
        /\ Commands!checkPreflight["evm"] = "active"
        /\ Commands!checkPreflight["soroban"] = "active"
    BY DEF Commands!buildJsonOutput
  <2>2. /\ env.evmRegistry = "set" /\ env.sorobanRegistry = "set" /\ env.secret = "set"
        /\ evmRpc = "up" /\ sorobanRpc = "up"
    BY <2>1 DEF Commands!checkDeploymentAddresses
  <2>3. env.key = "set" /\ Commands!isActive("evm") /\ Commands!isActive("soroban")
    BY <1>1, <2>1, <2>2 DEF Commands!checkPreflight, Commands!Settings, Commands!Given
  <2>4. \A c \in DOMAIN Commands!runPreflightChecks : Commands!runPreflightChecks[c] # "FAIL"
    BY <2>2, <2>3 DEF Commands!runPreflightChecks, Commands!Passed, Commands!WellFormed,
       Commands!Given, Commands!Readable, Commands!checkResolverNetworkAgreement,
       Commands!EvmReads, Commands!SorobanReads
  <2> QED BY <2>1, <2>4 DEF Commands!preflightCommand
<1>4. Commands!runStarts => Commands!buildJsonOutput # "error" \/ env.key # "set"
  <2> SUFFICES ASSUME Commands!runStarts, env.key = "set"
               PROVE  Commands!buildJsonOutput # "error"
      OBVIOUS
  <2>1. Commands!loadConfig /\ Commands!checkDeploymentAddresses BY DEF Commands!runStarts
  <2>2. env.evmRegistry = "set" /\ env.sorobanRegistry = "set" /\ env.secret = "set"
    BY <2>1 DEF Commands!checkDeploymentAddresses
  <2>3. \A c \in {"evm", "soroban"} : Commands!checkPreflight[c] # "unconfigured"
    BY <2>2 DEF Commands!checkPreflight, Commands!Given
  <2> QED BY <2>1, <2>3 DEF Commands!buildJsonOutput
<1> QED BY <1>2, <1>3, <1>4 DEF Commands!CheckersAgree

-----------------------------------------------------------------------------
(* ResolverPlanner.                                                        *)

PlanRecord == [action: {"fill"}, hashlock: Planner!Hashes, src: Planner!Leg, dst: Planner!Leg,
               expiresAt: Nat]

\* A plan expires no later than either leg it was made from.
PlannerInv ==
    /\ Planner!PlannerTypeOK /\ Planner!FillExpiresFirst
    /\ plan \in PlanRecord \cup {Planner!NoPlan}
    /\ plan # Planner!NoPlan =>
          plan.expiresAt <= plan.src.timelock /\ plan.expiresAt <= plan.dst.timelock

LEMMA OrderExists == (CHOOSE o \in Planner!Order : TRUE) \in Planner!Order
<1>1. PICK t \in Timelocks : TRUE BY ClientsAssumption
<1>2. PICK l : l = [terms |-> "t1", timelock |-> t] OBVIOUS
<1>3. l \in Planner!Leg BY <1>2 DEF Planner!Leg
<1>4. [hashlock |-> "h1", src |-> l, dst |-> l] \in Planner!Order
  BY <1>3 DEF Planner!Order, Planner!Hashes
<1> QED BY <1>4

LEMMA PlannerInvInit == Planner!PlannerInit => PlannerInv
<1> SUFFICES ASSUME Planner!PlannerInit PROVE PlannerInv
    OBVIOUS
<1>1. 0 \in 0..MaxNow /\ 0 \in 0..MaxSent BY ClientsAssumption
<1>2. order \in Planner!Order BY OrderExists DEF Planner!PlannerInit
<1> QED BY <1>1, <1>2 DEF PlannerInv, Planner!PlannerInit, Planner!PlannerTypeOK,
                          Planner!FillExpiresFirst

\* The clamped timelock ends before the source order if that leaves room.
LEMMA ListenKeeps == PlannerInv /\ Planner!onOrderCreated => PlannerInv'
<1> SUFFICES ASSUME PlannerInv, Planner!onOrderCreated PROVE PlannerInv'
    OBVIOUS
<1>1. PICK amount \in SourceAmounts, t \in Timelocks : Planner!buildPlan(amount, t)
  BY DEF Planner!onOrderCreated
<1>2. UNCHANGED <<now, order, plan, sent>> /\ t > now BY <1>1 DEF Planner!buildPlan
<1>3. /\ t \in Nat /\ now \in Nat /\ Buffer \in Nat \ {0}
      /\ MinTimelock \in Nat /\ MaxTimelock \in Nat
  BY ClientsAssumption DEF PlannerInv, Planner!PlannerTypeOK
<1>4. PICK span : span = Planner!computeTimelockSeconds(t) OBVIOUS
<1>5. t - now > MinTimelock => span < t - now
  BY <1>3, <1>4 DEF Planner!computeTimelockSeconds
<1>6. CASE fill' = Planner!NoPlan
  BY <1>2, <1>6 DEF PlannerInv, Planner!PlannerTypeOK, Planner!FillExpiresFirst
<1>7. CASE /\ span \in MinTimelock..MaxTimelock
           /\ \E spread : fill' = [action |-> "fill", left |-> t - now, spread |-> spread,
                                   timelockSeconds |-> span]
  <2>1. fill'.left = t - now /\ fill'.timelockSeconds = span BY <1>7
  <2> QED BY <1>2, <1>5, <1>7, <2>1 DEF PlannerInv, Planner!PlannerTypeOK,
                                        Planner!FillExpiresFirst
<1> QED BY <1>1, <1>4, <1>6, <1>7 DEF Planner!buildPlan, Planner!validateDestinationParams

LEMMA PlanKeeps == PlannerInv /\ Planner!buildOrderPlan => PlannerInv'
<1> SUFFICES ASSUME PlannerInv, Planner!buildOrderPlan PROVE PlannerInv'
    OBVIOUS
<1>1. PICK t : t = Planner!MinOf(order.src.timelock, order.dst.timelock) OBVIOUS
<1>2. order \in Planner!Order BY DEF PlannerInv, Planner!PlannerTypeOK
<1>3. /\ order.hashlock \in Planner!Hashes /\ order.src \in Planner!Leg
      /\ order.dst \in Planner!Leg
      /\ order.src.timelock \in Nat /\ order.dst.timelock \in Nat
  BY <1>2, ClientsAssumption DEF Planner!Order, Planner!Leg
<1>4. t \in Nat /\ t <= order.src.timelock /\ t <= order.dst.timelock
  BY <1>1, <1>3 DEF Planner!MinOf
<1>5. /\ plan' = [action |-> "fill", hashlock |-> order.hashlock, src |-> order.src,
                  dst |-> order.dst, expiresAt |-> t]
      /\ UNCHANGED <<now, fill, order, sent>>
  BY <1>1 DEF Planner!buildOrderPlan
<1>6. /\ plan' \in PlanRecord /\ plan'.expiresAt = t
      /\ plan'.src = order.src /\ plan'.dst = order.dst
  BY <1>3, <1>4, <1>5 DEF PlanRecord
<1> QED BY <1>4, <1>5, <1>6 DEF PlannerInv, Planner!PlannerTypeOK, Planner!FillExpiresFirst

LEMMA DriftKeeps == PlannerInv /\ Planner!OrderDrifts => PlannerInv'
<1> SUFFICES ASSUME PlannerInv, Planner!OrderDrifts PROVE PlannerInv'
    OBVIOUS
<1>1. UNCHANGED <<now, fill, plan, sent>> BY DEF Planner!OrderDrifts
<1>2. order \in Planner!Order BY DEF PlannerInv, Planner!PlannerTypeOK
<1>3. order' \in Planner!Order
  <2>1. ASSUME NEW h \in Planner!Hashes, order' = [order EXCEPT !.hashlock = h]
        PROVE  order' \in Planner!Order
    BY ONLY <1>2, <2>1, h \in Planner!Hashes DEF Planner!Order
  <2>2. ASSUME NEW l \in Planner!Leg, order' = [order EXCEPT !.src = l]
        PROVE  order' \in Planner!Order
    BY ONLY <1>2, <2>2, l \in Planner!Leg DEF Planner!Order
  <2>3. ASSUME NEW l \in Planner!Leg, order' = [order EXCEPT !.dst = l]
        PROVE  order' \in Planner!Order
    BY ONLY <1>2, <2>3, l \in Planner!Leg DEF Planner!Order
  <2> QED BY <2>1, <2>2, <2>3 DEF Planner!OrderDrifts
<1> QED BY <1>1, <1>3 DEF PlannerInv, Planner!PlannerTypeOK, Planner!FillExpiresFirst

LEMMA PlannerInvStep == PlannerInv /\ [Planner!PlannerNext]_Planner!plannerVars => PlannerInv'
<1> SUFFICES ASSUME PlannerInv, [Planner!PlannerNext]_Planner!plannerVars PROVE PlannerInv'
    OBVIOUS
<1>1. CASE UNCHANGED Planner!plannerVars
  BY <1>1 DEF Planner!plannerVars, PlannerInv, Planner!PlannerTypeOK, Planner!FillExpiresFirst
<1>2. CASE Planner!submitValidatedPlan
  <2>1. sent' \in 0..MaxSent
    BY <1>2, ClientsAssumption DEF Planner!submitValidatedPlan, PlannerInv,
                                   Planner!PlannerTypeOK
  <2> QED BY <1>2, <2>1 DEF Planner!submitValidatedPlan, PlannerInv, Planner!PlannerTypeOK,
                            Planner!FillExpiresFirst
<1>3. CASE Planner!Second
  <2>1. now' \in 0..MaxNow
    BY <1>3, ClientsAssumption DEF Planner!Second, PlannerInv, Planner!PlannerTypeOK
  <2> QED BY <1>3, <2>1 DEF Planner!Second, PlannerInv, Planner!PlannerTypeOK,
                            Planner!FillExpiresFirst
<1> QED BY <1>1, <1>2, <1>3, ListenKeeps, PlanKeeps, DriftKeeps DEF Planner!PlannerNext

\* The submit callback runs for the order as it stands, before either timelock.
InTime == /\ plan.hashlock = order.hashlock
          /\ now <= order.src.timelock /\ now <= order.dst.timelock

LEMMA SubmitIsInTime ==
    PlannerInv /\ [Planner!PlannerNext]_Planner!plannerVars => (sent' > sent => InTime)
<1> SUFFICES ASSUME PlannerInv, [Planner!PlannerNext]_Planner!plannerVars, sent' > sent
             PROVE  InTime
    OBVIOUS
<1>1. sent \in Nat BY ClientsAssumption DEF PlannerInv, Planner!PlannerTypeOK
<1>2. sent' # sent BY <1>1
<1>3. Planner!submitValidatedPlan
  BY <1>2 DEF Planner!PlannerNext, Planner!plannerVars, Planner!onOrderCreated,
     Planner!buildPlan, Planner!buildOrderPlan, Planner!OrderDrifts, Planner!Second
<1>4. plan # Planner!NoPlan /\ Planner!validatePlan(plan, order)
  BY <1>2, <1>3 DEF Planner!submitValidatedPlan
<1>5. /\ plan.hashlock = order.hashlock /\ now <= plan.expiresAt
      /\ plan.src.timelock = order.src.timelock /\ plan.dst.timelock = order.dst.timelock
  BY <1>4 DEF Planner!validatePlan, Planner!compareLegs
<1>6. plan.expiresAt <= plan.src.timelock /\ plan.expiresAt <= plan.dst.timelock
  BY <1>4 DEF PlannerInv
<1>7. plan.expiresAt \in Nat /\ now \in Nat
  BY <1>4 DEF PlannerInv, PlanRecord, Planner!PlannerTypeOK
<1>8. order.src.timelock \in Nat /\ order.dst.timelock \in Nat
  BY ClientsAssumption DEF PlannerInv, Planner!PlannerTypeOK, Planner!Order, Planner!Leg
<1> QED BY <1>5, <1>6, <1>7, <1>8 DEF InTime

-----------------------------------------------------------------------------
(* ClaimableBalances.                                                      *)

BalanceRecord == [amount: BalanceAmounts \cup {0}, claimants: SUBSET Accounts,
                  state: {"absent", "open", "claimed"}]
CallRecord == [at: {"claim", "refund"}, deal: Deals, balance: 1..MaxBalances, signer: Accounts]
SettledRecord == [deal: Deals, balance: 1..MaxBalances, by: Accounts]

\* The balances that were created are the ids up to their number.
FundedSound ==
    \E n \in 0..MaxBalances :
        /\ UNION {fundedBy[e] : e \in Deals} = 1..n
        /\ \A id \in 1..MaxBalances : balances[id].state = "absent" <=> id > n

\* A balance in use was matched against the terms of the order it is used for.
Matched(id, d) ==
    /\ balances[id].state # "absent"
    /\ Claimable!verifyBalanceMatchesEscrow(balances[id], terms[d])

ClaimableInv ==
    /\ terms \in [Deals -> Claimable!Terms]
    /\ balances \in [1..MaxBalances -> BalanceRecord]
    /\ fundedBy \in [Deals -> SUBSET (1..MaxBalances)]
    /\ call \in [Callers -> CallRecord \cup {Claimable!Idle}]
    /\ settled \subseteq SettledRecord
    /\ FundedSound
    /\ \A c \in Callers : call[c] # Claimable!Idle => Matched(call[c].balance, call[c].deal)
    /\ \A s \in settled : Matched(s.balance, s.deal) /\ balances[s.balance].state = "claimed"
    /\ \A s, t \in settled : s.balance = t.balance => s = t

LEMMA ClaimableInvPromise ==
    ClaimableInv => Claimable!ClaimableTypeOK /\ Claimable!SettledAsAgreed
<1> SUFFICES ASSUME ClaimableInv PROVE Claimable!ClaimableTypeOK /\ Claimable!SettledAsAgreed
    OBVIOUS
<1>1. Claimable!ClaimableTypeOK
  <2>1. \A c \in Callers : call[c] # Claimable!Idle => call[c] \in CallRecord
    BY DEF ClaimableInv
  <2> QED BY <2>1 DEF ClaimableInv, BalanceRecord, CallRecord, Claimable!ClaimableTypeOK,
                      Claimable!BalanceIds
<1>2. Claimable!SettledAsAgreed
  BY DEF ClaimableInv, Matched, Claimable!verifyBalanceMatchesEscrow, Claimable!SettledAsAgreed
<1> QED BY <1>1, <1>2

LEMMA ClaimableInvInit == Claimable!ClaimableInit => ClaimableInv
<1> SUFFICES ASSUME Claimable!ClaimableInit PROVE ClaimableInv
    OBVIOUS
<1> USE DEF Claimable!ClaimableInit, Claimable!BalanceIds
<1>1. [amount |-> 0, claimants |-> {}, state |-> "absent"] \in BalanceRecord
  BY DEF BalanceRecord
<1>2. /\ balances \in [1..MaxBalances -> BalanceRecord]
      /\ \A id \in 1..MaxBalances : balances[id].state = "absent"
  BY <1>1
<1>3. FundedSound
  <2>1. UNION {fundedBy[e] : e \in Deals} = {} OBVIOUS
  <2>2. 0 \in 0..MaxBalances /\ 1..0 = {} /\ \A id \in 1..MaxBalances : id > 0
    BY ClientsAssumption
  <2> QED BY <1>2, <2>1, <2>2 DEF FundedSound
<1>4. call \in [Callers -> CallRecord \cup {Claimable!Idle}]
      /\ \A c \in Callers : call[c] = Claimable!Idle
  OBVIOUS
<1> QED BY <1>2, <1>3, <1>4 DEF ClaimableInv

\* A balance is created under a fresh id, so it touches none in use.
LEMMA CreateKeeps ==
    ASSUME ClaimableInv, NEW d \in Deals, NEW source \in Accounts, NEW format, NEW lock,
           NEW answer, Claimable!createClaimableBalance(d, source, format, lock, answer)
    PROVE  ClaimableInv'
<1> DEFINE U == UNION {fundedBy[e] : e \in Deals}
<1>0. MaxBalances \in Nat BY ClientsAssumption
<1>1. PICK n \in 0..MaxBalances :
         /\ U = 1..n
         /\ \A id \in 1..MaxBalances : balances[id].state = "absent" <=> id > n
  BY DEF ClaimableInv, FundedSound
<1>2. Claimable!Cardinality(U) = n
  <2>1. Claimable!Cardinality(U) = Cardinality(U) BY DEF Claimable!Cardinality, Cardinality
  <2>2. n \in Nat BY <1>0
  <2>3. Cardinality(1..n) = n BY <2>2, FS_Interval
  <2> QED BY <1>1, <2>1, <2>3
<1>3. PICK new : new = [amount |-> terms[d].amount, claimants |-> {terms[d].claimant, source},
                        state |-> "open"]
  OBVIOUS
<1>4. /\ n + 1 \in 1..MaxBalances
      /\ balances' = [balances EXCEPT ![n + 1] = new]
      /\ fundedBy' = [fundedBy EXCEPT ![d] = @ \cup {n + 1}]
      /\ UNCHANGED <<terms, call, settled>>
  BY <1>2, <1>3 DEF Claimable!createClaimableBalance, Claimable!BalanceIds
<1> HIDE DEF U
<1>5. terms[d] \in Claimable!Terms BY DEF ClaimableInv
<1>6. new \in BalanceRecord /\ new.state = "open"
  BY <1>3, <1>5 DEF BalanceRecord, Claimable!Terms
<1>7. /\ balances' \in [1..MaxBalances -> BalanceRecord] /\ balances'[n + 1] = new
      /\ \A id \in 1..MaxBalances : id # n + 1 => balances'[id] = balances[id]
  BY <1>4, <1>6 DEF ClaimableInv
<1>8. /\ fundedBy' \in [Deals -> SUBSET (1..MaxBalances)]
      /\ fundedBy'[d] = fundedBy[d] \cup {n + 1}
      /\ \A e \in Deals : e # d => fundedBy'[e] = fundedBy[e]
  BY <1>4 DEF ClaimableInv
<1>9. FundedSound'
  <2>1. UNION {fundedBy'[e] : e \in Deals} = U \cup {n + 1} BY <1>8 DEF U
  <2>2. U \cup {n + 1} = 1..(n + 1) /\ n + 1 \in 0..MaxBalances
    BY <1>0, <1>1, <1>4
  <2>3. \A id \in 1..MaxBalances : balances'[id].state = "absent" <=> id > n + 1
    BY <1>0, <1>1, <1>6, <1>7
  <2> QED BY <2>1, <2>2, <2>3 DEF FundedSound
<1>10. ASSUME NEW id \in 1..MaxBalances, NEW e \in Deals, Matched(id, e)
       PROVE  balances'[id] = balances[id] /\ Matched(id, e)'
  <2>1. id # n + 1 BY <1>0, <1>1, <1>10 DEF Matched
  <2>2. balances'[id] = balances[id] /\ terms' = terms BY <1>4, <1>7, <2>1
  <2> QED BY <1>10, <2>2 DEF Matched, Claimable!verifyBalanceMatchesEscrow
<1>11. ASSUME NEW c \in Callers, call[c]' # Claimable!Idle
       PROVE  Matched(call[c].balance, call[c].deal)'
  <2>1. call'[c] = call[c] /\ call[c] \in CallRecord /\ Matched(call[c].balance, call[c].deal)
    BY <1>4, <1>11 DEF ClaimableInv
  <2>2. PICK x \in 1..MaxBalances, y \in Deals : x = call[c].balance /\ y = call[c].deal
    BY <2>1 DEF CallRecord
  <2>3. Matched(x, y)' BY <1>10, <2>1, <2>2
  <2> QED BY <2>1, <2>2, <2>3
<1>12. \A s \in settled' : Matched(s.balance, s.deal)' /\ balances'[s.balance].state = "claimed"
  BY <1>4, <1>10 DEF ClaimableInv, SettledRecord
<1>13. /\ terms' \in [Deals -> Claimable!Terms]
       /\ call' \in [Callers -> CallRecord \cup {Claimable!Idle}]
       /\ settled' \subseteq SettledRecord
       /\ \A s, t \in settled' : s.balance = t.balance => s = t
  BY <1>4 DEF ClaimableInv
<1> QED BY <1>7, <1>8, <1>9, <1>11, <1>12, <1>13 DEF ClaimableInv

\* One call begins or ends; the balances stay.
LEMMA OneCallMoves ==
    ASSUME ClaimableInv, NEW c \in Callers, NEW next \in CallRecord \cup {Claimable!Idle},
           next # Claimable!Idle => Matched(next.balance, next.deal),
           call' = [call EXCEPT ![c] = next], UNCHANGED <<terms, balances, fundedBy, settled>>
    PROVE  ClaimableInv'
<1>1. call' \in [Callers -> CallRecord \cup {Claimable!Idle}] BY DEF ClaimableInv
<1>2. FundedSound' BY DEF ClaimableInv, FundedSound
<1>3. ASSUME NEW e \in Callers, call[e]' # Claimable!Idle
      PROVE  Matched(call[e].balance, call[e].deal)'
  <2>1. PICK x, y : x = call'[e].balance /\ y = call'[e].deal OBVIOUS
  <2>2. Matched(x, y) BY <1>3, <2>1 DEF ClaimableInv
  <2>3. Matched(x, y)' BY <2>2 DEF Matched, Claimable!verifyBalanceMatchesEscrow
  <2> QED BY <2>1, <2>3
<1>4. \A s \in settled' : Matched(s.balance, s.deal)' /\ balances'[s.balance].state = "claimed"
  BY DEF ClaimableInv, Matched, Claimable!verifyBalanceMatchesEscrow
<1> QED BY <1>1, <1>2, <1>3, <1>4 DEF ClaimableInv

LEMMA LoadKeeps ==
    ASSUME ClaimableInv, NEW c \in Callers, NEW kind \in {"claim", "refund"}, NEW d \in Deals,
           NEW id \in 1..MaxBalances, NEW signer \in Accounts,
           Claimable!loadAndVerifyBalance(c, kind, d, id, signer)
    PROVE  ClaimableInv'
<1>1. PICK next : next = [at |-> kind, deal |-> d, balance |-> id, signer |-> signer] OBVIOUS
<1>2. next \in CallRecord /\ next.balance = id /\ next.deal = d BY <1>1 DEF CallRecord
<1>3. /\ call' = [call EXCEPT ![c] = next] /\ UNCHANGED <<terms, balances, fundedBy, settled>>
      /\ Matched(id, d)
  BY <1>1 DEF Claimable!loadAndVerifyBalance, Claimable!Found, Matched
<1> QED BY <1>2, <1>3, OneCallMoves

\* A claim takes effect on an open balance only, so no balance settles twice.
LEMMA SubmitKeeps ==
    ASSUME ClaimableInv, NEW c \in Callers, NEW hashLock,
           Claimable!submitTransaction(c, hashLock)
    PROVE  ClaimableInv'
<1>1. PICK id, d, signer : id = call[c].balance /\ d = call[c].deal /\ signer = call[c].signer
  OBVIOUS
<1>2. call[c] \in CallRecord /\ Matched(id, d)
  BY <1>1 DEF ClaimableInv, Claimable!submitTransaction
<1>3. id \in 1..MaxBalances /\ d \in Deals /\ signer \in Accounts BY <1>1, <1>2 DEF CallRecord
<1>4. call' = [call EXCEPT ![c] = Claimable!Idle] /\ UNCHANGED <<terms, fundedBy>>
  BY DEF Claimable!submitTransaction
<1>5. CASE UNCHANGED <<balances, settled>> BY <1>4, <1>5, OneCallMoves
<1>6. CASE /\ balances[id].state = "open"
           /\ balances' = [balances EXCEPT ![id].state = "claimed"]
           /\ settled' = settled \cup {[deal |-> d, balance |-> id, by |-> signer]}
  <2>1. balances[id] \in BalanceRecord BY <1>3 DEF ClaimableInv
  <2>2. PICK b : b = [balances[id] EXCEPT !.state = "claimed"] OBVIOUS
  <2>3. /\ b \in BalanceRecord /\ b.state = "claimed"
        /\ b.amount = balances[id].amount /\ b.claimants = balances[id].claimants
    BY ONLY <2>1, <2>2 DEF BalanceRecord
  <2>4. /\ balances' \in [1..MaxBalances -> BalanceRecord] /\ balances'[id] = b
        /\ \A e \in 1..MaxBalances : e # id => balances'[e] = balances[e]
    BY <1>3, <1>6, <2>2, <2>3 DEF ClaimableInv
  <2>5. \A e \in 1..MaxBalances : /\ balances'[e].amount = balances[e].amount
                                  /\ balances'[e].claimants = balances[e].claimants
                                  /\ balances'[e].state = "absent" <=> balances[e].state = "absent"
    BY <1>6, <2>3, <2>4
  <2>6. FundedSound' BY <1>4, <2>5 DEF ClaimableInv, FundedSound
  <2>7. ASSUME NEW e \in 1..MaxBalances, NEW f \in Deals, Matched(e, f) PROVE Matched(e, f)'
    BY <1>4, <2>5, <2>7 DEF Matched, Claimable!verifyBalanceMatchesEscrow
  <2>8. call' \in [Callers -> CallRecord \cup {Claimable!Idle}] BY <1>4 DEF ClaimableInv
  <2>9. ASSUME NEW e \in Callers, call[e]' # Claimable!Idle
        PROVE  Matched(call[e].balance, call[e].deal)'
    <3>1. call'[e] = call[e] /\ call[e] \in CallRecord BY <1>4, <2>9 DEF ClaimableInv
    <3>2. /\ Matched(call[e].balance, call[e].deal)
          /\ call[e].balance \in 1..MaxBalances /\ call[e].deal \in Deals
      BY <2>9, <3>1 DEF ClaimableInv, CallRecord
    <3>3. PICK x \in 1..MaxBalances, y \in Deals : x = call[e].balance /\ y = call[e].deal
      BY <3>2
    <3>4. Matched(x, y)' BY <2>7, <3>2, <3>3
    <3> QED BY <3>1, <3>3, <3>4
  <2>10. PICK new : new = [deal |-> d, balance |-> id, by |-> signer] OBVIOUS
  <2>11. new \in SettledRecord /\ new.balance = id /\ new.deal = d
    BY <1>3, <2>10 DEF SettledRecord
  <2>12. settled' \subseteq SettledRecord BY <1>6, <2>10, <2>11 DEF ClaimableInv
  <2>13. \A s \in settled : s.balance # id BY <1>6 DEF ClaimableInv
  <2>14. \A s \in settled : s.balance \in 1..MaxBalances /\ s.deal \in Deals
    BY DEF ClaimableInv, SettledRecord
  <2>15. \A s \in settled' : Matched(s.balance, s.deal)' /\ balances'[s.balance].state = "claimed"
    <3>1. \A s \in settled : Matched(s.balance, s.deal)' /\ balances'[s.balance].state = "claimed"
      BY <2>4, <2>7, <2>13, <2>14 DEF ClaimableInv
    <3>2. Matched(id, d)' /\ balances'[id].state = "claimed" BY <1>2, <1>3, <2>3, <2>4, <2>7
    <3> QED BY <1>6, <2>10, <2>11, <3>1, <3>2
  <2>16. \A s, t \in settled' : s.balance = t.balance => s = t
    BY <1>6, <2>10, <2>11, <2>13 DEF ClaimableInv
  <2> QED BY <1>4, <2>4, <2>6, <2>8, <2>9, <2>12, <2>15, <2>16 DEF ClaimableInv
<1> QED BY <1>1, <1>5, <1>6 DEF Claimable!submitTransaction, Claimable!Found

LEMMA ClaimableInvStep ==
    ClaimableInv /\ [Claimable!ClaimableNext]_Claimable!claimableVars => ClaimableInv'
<1> SUFFICES ASSUME ClaimableInv, [Claimable!ClaimableNext]_Claimable!claimableVars
             PROVE  ClaimableInv'
    OBVIOUS
<1>1. CASE UNCHANGED Claimable!claimableVars
  BY <1>1 DEF Claimable!claimableVars, ClaimableInv, FundedSound, Matched,
              Claimable!verifyBalanceMatchesEscrow
<1>2. ASSUME NEW c \in Callers, Claimable!callThrows(c) PROVE ClaimableInv'
  BY <1>2, OneCallMoves DEF Claimable!callThrows
<1>3. CASE Claimable!ClaimableNext
  BY <1>2, <1>3, CreateKeeps, LoadKeeps, SubmitKeeps
  DEF Claimable!ClaimableNext, Claimable!BalanceIds
<1> QED BY <1>1, <1>3

-----------------------------------------------------------------------------
(* WalletSession.                                                          *)

WalletAccount == WalletAccounts \cup {"none"}
HookState == [isConnected: BOOLEAN, address: WalletAccount, isLoading: BOOLEAN,
              error: BOOLEAN, network: WalletNets \cup {"none"}]
HookCall == [kind: {"idle", "mount", "connect", "refresh"},
             awaits: {"nothing", "isConnected", "getAddress", "getNetwork"},
             address: WalletAccount, overtaken: BOOLEAN]

\* A call that may still connect after a disconnect was in flight at it.
CallSound(h) ==
    /\ h.kind = "idle" => h.awaits = "nothing"
    /\ ~ wanted /\ h.kind \in {"mount", "connect"} => h.overtaken

WalletInv ==
    /\ freighter \in HookState /\ hook \in [WalletCalls -> HookCall]
    /\ ethAddress \in WalletAccount /\ metamask \in WalletAccount
    /\ ethCalls \subseteq {"mount", "connect"}
    /\ extension \in [account: WalletAccounts, network: WalletNets]
    /\ wanted \in BOOLEAN /\ late \in BOOLEAN
    /\ \A c \in WalletCalls : CallSound(hook[c])
    /\ Wallets!NeverStuckConnecting /\ Wallets!DisconnectLasts

LEMMA WalletInvTypes == WalletInv => Wallets!WalletTypeOK
BY DEF WalletInv, Wallets!WalletTypeOK, HookState, WalletAccount, Wallets!NoAccount

LEMMA IdleCall ==
    /\ Wallets!Idle \in HookCall /\ Wallets!Idle.kind = "idle" /\ Wallets!Idle.awaits = "nothing"
BY DEF Wallets!Idle, HookCall, WalletAccount, Wallets!NoAccount

LEMMA NewCall ==
    ASSUME NEW kind \in {"mount", "connect", "refresh"}, NEW step \in {"isConnected", "getNetwork"}
    PROVE  /\ Wallets!Call(kind, step) \in HookCall
           /\ Wallets!Call(kind, step).kind = kind /\ Wallets!Call(kind, step).awaits = step
BY DEF Wallets!Call, Wallets!Idle, HookCall, WalletAccount, Wallets!NoAccount

LEMMA NoConnection ==
    /\ Wallets!Disconnected \in HookState
    /\ ~ Wallets!Disconnected.isConnected /\ ~ Wallets!Disconnected.isLoading
BY DEF Wallets!Disconnected, HookState, WalletAccount, Wallets!NoAccount

LEMMA WalletInvInit == Wallets!WalletInit => WalletInv
<1> SUFFICES ASSUME Wallets!WalletInit PROVE WalletInv
    OBVIOUS
<1> USE DEF Wallets!WalletInit
<1>1. \A c \in WalletCalls : hook[c] \in {Wallets!Call("mount", "isConnected"), Wallets!Idle}
  OBVIOUS
<1>2. hook \in [WalletCalls -> HookCall] BY NewCall, IdleCall
<1>3. \A c \in WalletCalls : CallSound(hook[c])
  BY <1>1, NewCall, IdleCall DEF CallSound
<1>4. freighter \in HookState /\ Wallets!NeverStuckConnecting /\ Wallets!DisconnectLasts
  BY NoConnection DEF Wallets!NeverStuckConnecting, Wallets!DisconnectLasts
<1> QED BY <1>2, <1>3, <1>4 DEF WalletInv, WalletAccount, Wallets!NoAccount

\* One call of the hook moves on: to h, with the state set to f.
LEMMA HookMoves ==
    ASSUME WalletInv, NEW c \in WalletCalls, NEW h \in HookCall, NEW f \in HookState,
           hook' = [hook EXCEPT ![c] = h], freighter' = f,
           UNCHANGED <<ethAddress, ethCalls, extension, metamask>>,
           wanted' \in BOOLEAN, late' \in BOOLEAN, wanted \/ ~ wanted' => wanted' = wanted,
           CallSound(h)',
           f.isLoading => \/ h.kind = "connect"
                          \/ freighter.isLoading /\ hook[c].kind # "connect",
           f.isConnected /\ ~ wanted' => late'
    PROVE  WalletInv'
<1>1. /\ hook \in [WalletCalls -> HookCall] /\ hook'[c] = h
      /\ \A d \in WalletCalls : d # c => hook'[d] = hook[d]
  BY DEF WalletInv
<1>2. hook' \in [WalletCalls -> HookCall] BY <1>1
<1>3. ASSUME NEW d \in WalletCalls PROVE CallSound(hook[d])'
  <2>1. CASE d = c BY <1>1, <2>1 DEF CallSound
  <2>2. CASE d # c
    <3>1. hook'[d] = hook[d] /\ CallSound(hook[d]) BY <1>1, <2>2 DEF WalletInv
    <3> QED BY <3>1 DEF CallSound, WalletInv
  <2> QED BY <2>1, <2>2
<1>4. Wallets!NeverStuckConnecting'
  BY <1>1 DEF WalletInv, Wallets!NeverStuckConnecting
<1>5. Wallets!DisconnectLasts' BY DEF Wallets!DisconnectLasts
<1> QED BY <1>2, <1>3, <1>4, <1>5 DEF WalletInv

LEMMA AdvanceCall ==
    ASSUME WalletInv, NEW c \in WalletCalls, NEW step \in {"getAddress", "getNetwork"},
           NEW address \in WalletAccount, Wallets!Advance(c, step, address)
    PROVE  \E h \in HookCall :
              /\ hook' = [hook EXCEPT ![c] = h]
              /\ h.kind = hook[c].kind /\ h.awaits = step /\ h.overtaken = hook[c].overtaken
<1>1. hook' = [hook EXCEPT ![c].awaits = step, ![c].address = address] BY DEF Wallets!Advance
<1>2. hook[c] \in HookCall /\ hook \in [WalletCalls -> HookCall] BY DEF WalletInv
<1>3. PICK g : g = [hook[c] EXCEPT !.awaits = step] OBVIOUS
<1>4. g \in HookCall /\ g.kind = hook[c].kind /\ g.awaits = step
      /\ g.overtaken = hook[c].overtaken
  BY ONLY <1>2, <1>3, step \in {"getAddress", "getNetwork"} DEF HookCall
<1>5. PICK h : h = [g EXCEPT !.address = address] OBVIOUS
<1>6. h \in HookCall /\ h.kind = g.kind /\ h.awaits = g.awaits /\ h.overtaken = g.overtaken
  BY ONLY <1>4, <1>5, address \in WalletAccount DEF HookCall
<1>7. hook' = [hook EXCEPT ![c] = h] BY <1>1, <1>2, <1>3, <1>5
<1> QED BY <1>4, <1>6, <1>7

LEMMA ConnectKeeps ==
    ASSUME WalletInv, NEW c \in WalletCalls, Wallets!connect(c) \/ Wallets!refreshNetwork(c)
    PROVE  WalletInv'
<1>1. UNCHANGED <<ethAddress, ethCalls, extension, metamask, late>> /\ hook[c] = Wallets!Idle
  BY DEF Wallets!connect, Wallets!refreshNetwork, Wallets!outside
<1>2. late' \in BOOLEAN /\ freighter \in HookState BY <1>1 DEF WalletInv
<1>3. CASE Wallets!connect(c)
  <2>1. /\ freighter' = [freighter EXCEPT !.isLoading = TRUE, !.error = FALSE]
        /\ hook' = [hook EXCEPT ![c] = Wallets!Call("connect", "isConnected")]
        /\ wanted' = TRUE
    BY <1>3 DEF Wallets!connect
  <2>2. PICK f : f = [freighter EXCEPT !.isLoading = TRUE, !.error = FALSE] OBVIOUS
  <2>3. f \in HookState BY ONLY <1>2, <2>2 DEF HookState
  <2>4. PICK h \in HookCall : /\ h = Wallets!Call("connect", "isConnected")
                              /\ h.kind = "connect"
    BY NewCall
  <2>5. CallSound(h)' BY <2>1, <2>4 DEF CallSound
  <2> QED BY <1>1, <1>2, <2>1, <2>2, <2>3, <2>4, <2>5, HookMoves
<1>4. CASE Wallets!refreshNetwork(c)
  <2>1. /\ UNCHANGED <<freighter, wanted>>
        /\ hook' = [hook EXCEPT ![c] = Wallets!Call("refresh", "getNetwork")]
    BY <1>4 DEF Wallets!refreshNetwork
  <2>2. PICK h \in HookCall : /\ h = Wallets!Call("refresh", "getNetwork")
                              /\ h.kind = "refresh"
    BY NewCall
  <2>3. CallSound(h)' BY <2>2 DEF CallSound
  <2>4. freighter.isConnected /\ ~ wanted' => late'
    BY <1>1, <2>1 DEF WalletInv, Wallets!DisconnectLasts
  <2>5. hook[c].kind # "connect" BY <1>1, IdleCall
  <2>6. wanted' \in BOOLEAN BY <2>1 DEF WalletInv
  <2> QED BY <1>1, <1>2, <2>1, <2>2, <2>3, <2>4, <2>5, <2>6, HookMoves
<1> QED BY <1>3, <1>4

LEMMA QuestionKeeps ==
    ASSUME WalletInv, NEW c \in WalletCalls, Wallets!available(c) \/ Wallets!getAddress(c)
    PROVE  WalletInv'
<1>1. UNCHANGED <<freighter, ethAddress, ethCalls, extension, metamask, wanted, late>>
  BY DEF Wallets!available, Wallets!getAddress, Wallets!outside
<1>2. hook[c].awaits # "nothing" BY DEF Wallets!available, Wallets!getAddress
<1>3. \E step \in {"getAddress", "getNetwork"}, address \in WalletAccount :
        Wallets!Advance(c, step, address)
  <2>1. extension.account \in WalletAccount /\ "none" \in WalletAccount
    BY DEF WalletInv, WalletAccount
  <2> QED BY <2>1 DEF Wallets!available, Wallets!getAddress, Wallets!NoAccount
<1>4. PICK h \in HookCall :
        /\ hook' = [hook EXCEPT ![c] = h]
        /\ h.kind = hook[c].kind /\ h.overtaken = hook[c].overtaken
  BY <1>3, AdvanceCall
<1>5. CallSound(hook[c]) /\ hook[c].kind # "idle" BY <1>2 DEF WalletInv, CallSound
<1>6. CallSound(h)' BY <1>1, <1>4, <1>5 DEF CallSound
<1>7. freighter \in HookState /\ wanted' \in BOOLEAN /\ late' \in BOOLEAN
  BY <1>1 DEF WalletInv
<1>8. freighter.isConnected /\ ~ wanted' => late'
  BY <1>1 DEF WalletInv, Wallets!DisconnectLasts
<1> QED BY <1>1, <1>4, <1>6, <1>7, <1>8, HookMoves

\* A call that ends leaves the button enabled unless another call holds it.
LEMMA EndKeeps ==
    ASSUME WalletInv, NEW c \in WalletCalls, NEW f \in HookState, freighter' = f,
           Wallets!Ends(c), UNCHANGED <<ethAddress, ethCalls, extension, metamask, wanted>>,
           late' \in BOOLEAN,
           f.isLoading => freighter.isLoading /\ hook[c].kind # "connect",
           f.isConnected /\ ~ wanted => late'
    PROVE  WalletInv'
<1>1. hook' = [hook EXCEPT ![c] = Wallets!Idle] BY DEF Wallets!Ends
<1>2. PICK h \in HookCall : h = Wallets!Idle /\ h.kind = "idle" /\ h.awaits = "nothing"
  BY IdleCall
<1>3. CallSound(h)' BY <1>2 DEF CallSound
<1>4. wanted' \in BOOLEAN BY DEF WalletInv
<1> QED BY <1>1, <1>2, <1>3, <1>4, HookMoves

LEMMA AnswerKeeps ==
    ASSUME WalletInv, NEW c \in WalletCalls,
           \/ Wallets!notThere(c) \/ Wallets!throws(c)
           \/ \E network \in {extension.network, "none"} : Wallets!setState(c, network)
    PROVE  WalletInv'
<1>1. /\ freighter \in HookState /\ hook[c] \in HookCall /\ late \in BOOLEAN /\ wanted \in BOOLEAN
      /\ CallSound(hook[c]) /\ extension.network \in WalletNets
      /\ freighter.isConnected /\ ~ wanted => late
  BY DEF WalletInv, Wallets!DisconnectLasts
<1>2. CASE Wallets!notThere(c)
  BY <1>1, <1>2, EndKeeps DEF Wallets!notThere, Wallets!outside
<1>3. CASE Wallets!throws(c)
  <2>1. /\ Wallets!Ends(c) /\ freighter' = Wallets!AfterThrow(hook[c].kind)
        /\ UNCHANGED <<ethAddress, ethCalls, extension, metamask, wanted, late>>
    BY <1>3 DEF Wallets!throws, Wallets!outside
  <2>2. CASE hook[c].kind = "mount"
    <3>1. PICK f : f = [freighter EXCEPT !.error = TRUE] OBVIOUS
    <3>2. f \in HookState /\ f.isLoading = freighter.isLoading
          /\ f.isConnected = freighter.isConnected
      BY ONLY <1>1, <3>1 DEF HookState
    <3>3. freighter' = f BY <2>1, <2>2, <3>1 DEF Wallets!AfterThrow
    <3> QED BY <1>1, <2>1, <2>2, <3>2, <3>3, EndKeeps
  <2>3. CASE hook[c].kind # "mount"
    <3>1. PICK n : n = freighter.network OBVIOUS
    <3>2. n \in WalletNets \cup {"none"} BY <1>1, <3>1 DEF HookState
    <3>3. PICK f : f = [Wallets!Disconnected EXCEPT !.error = TRUE, !.network = n] OBVIOUS
    <3>4. f \in HookState /\ ~ f.isLoading /\ ~ f.isConnected
      BY ONLY <3>2, <3>3, NoConnection DEF HookState
    <3>5. freighter' = f BY <2>1, <2>3, <3>1, <3>3 DEF Wallets!AfterThrow
    <3> QED BY <1>1, <2>1, <3>4, <3>5, EndKeeps
  <2> QED BY <2>2, <2>3
<1>4. CASE \E network \in {extension.network, "none"} : Wallets!setState(c, network)
  <2>1. PICK network \in WalletNets \cup {"none"} : Wallets!setState(c, network)
    BY <1>1, <1>4
  <2>2. /\ Wallets!Ends(c) /\ hook[c].awaits = "getNetwork"
        /\ UNCHANGED <<ethAddress, ethCalls, extension, metamask, wanted>>
        /\ late' = (late \/ (hook[c].kind # "refresh" /\ hook[c].overtaken))
    BY <2>1 DEF Wallets!setState, Wallets!outside
  <2>3. late' \in BOOLEAN BY <2>2
  <2>4. CASE hook[c].kind = "refresh"
    <3>1. PICK f : f = IF network = "none" THEN freighter
                       ELSE [freighter EXCEPT !.network = network]
      OBVIOUS
    <3>2. f \in HookState /\ f.isLoading = freighter.isLoading
          /\ f.isConnected = freighter.isConnected
      BY ONLY <1>1, <3>1, network \in WalletNets \cup {"none"} DEF HookState
    <3>3. freighter' = f BY <2>1, <2>4, <3>1 DEF Wallets!setState
    <3> QED BY <1>1, <2>2, <2>3, <2>4, <3>2, <3>3, EndKeeps
  <2>5. CASE hook[c].kind # "refresh"
    <3>1. PICK f : f = [isConnected |-> TRUE, address |-> hook[c].address, network |-> network,
                        error |-> FALSE,
                        isLoading |-> hook[c].kind = "mount" /\ freighter.isLoading]
      OBVIOUS
    <3>2. (hook[c].kind = "mount" /\ freighter.isLoading) \in BOOLEAN OBVIOUS
    <3>3. /\ f \in HookState
          /\ f.isLoading => hook[c].kind = "mount" /\ freighter.isLoading
      BY <1>1, <3>1, <3>2 DEF HookState, HookCall
    <3>4. freighter' = f BY <2>1, <2>5, <3>1 DEF Wallets!setState
    <3>5. hook[c].kind \in {"mount", "connect"}
      BY <1>1, <2>2, <2>5 DEF CallSound, HookCall
    <3>6. ~ wanted => late' BY <1>1, <2>2, <2>5, <3>5 DEF CallSound
    <3> QED BY <1>1, <2>2, <2>3, <3>3, <3>4, <3>6, EndKeeps
  <2> QED BY <2>4, <2>5
<1> QED BY <1>2, <1>3, <1>4

LEMMA DisconnectKeeps == WalletInv /\ Wallets!disconnectWallets => WalletInv'
<1> SUFFICES ASSUME WalletInv, Wallets!disconnectWallets PROVE WalletInv'
    OBVIOUS
<1>1. /\ freighter' = Wallets!Disconnected /\ ethAddress' = "none"
      /\ wanted' = FALSE /\ late' = FALSE
      /\ hook' = [c \in WalletCalls |-> [hook[c] EXCEPT !.overtaken = hook[c] # Wallets!Idle]]
      /\ UNCHANGED <<ethCalls, extension, metamask>>
  BY DEF Wallets!disconnectWallets, Wallets!outside, Wallets!NoAccount
<1>2. ASSUME NEW c \in WalletCalls
      PROVE  /\ hook'[c] \in HookCall /\ hook'[c].kind = hook[c].kind
             /\ hook'[c].awaits = hook[c].awaits
             /\ hook[c].kind \in {"mount", "connect"} => hook'[c].overtaken
  <2>1. hook[c] \in HookCall BY DEF WalletInv
  <2>2. PICK b \in BOOLEAN : b = (hook[c] # Wallets!Idle) OBVIOUS
  <2>3. hook'[c] = [hook[c] EXCEPT !.overtaken = b] BY <1>1, <2>2
  <2>4. PICK h : h = [hook[c] EXCEPT !.overtaken = b] OBVIOUS
  <2>5. h \in HookCall /\ h.kind = hook[c].kind /\ h.awaits = hook[c].awaits /\ h.overtaken = b
    BY ONLY <2>1, <2>4, b \in BOOLEAN DEF HookCall
  <2>6. hook[c].kind \in {"mount", "connect"} => b BY <2>2, IdleCall
  <2> QED BY <2>3, <2>4, <2>5, <2>6
<1>3. hook' \in [WalletCalls -> HookCall]
  <2>1. DOMAIN hook' = WalletCalls /\ hook' = [c \in WalletCalls |-> hook'[c]] BY <1>1
  <2> QED BY <1>2, <2>1
<1>4. \A c \in WalletCalls : CallSound(hook[c])' BY <1>2 DEF WalletInv, CallSound
<1>5. freighter' \in HookState /\ Wallets!NeverStuckConnecting' /\ Wallets!DisconnectLasts'
  BY <1>1, NoConnection DEF Wallets!NeverStuckConnecting, Wallets!DisconnectLasts
<1>6. ethAddress' \in WalletAccount /\ wanted' \in BOOLEAN /\ late' \in BOOLEAN
  BY <1>1 DEF WalletAccount
<1> QED BY <1>1, <1>3, <1>4, <1>5, <1>6 DEF WalletInv

LEMMA OutsideKeeps ==
    ASSUME WalletInv, UNCHANGED <<freighter, hook, wanted, late>>, ethAddress' \in WalletAccount,
           metamask' \in WalletAccount, ethCalls' \subseteq {"mount", "connect"},
           extension' \in [account: WalletAccounts, network: WalletNets]
    PROVE  WalletInv'
BY DEF WalletInv, CallSound, Wallets!NeverStuckConnecting, Wallets!DisconnectLasts

LEMMA WalletInvStep == WalletInv /\ [Wallets!WalletNext]_Wallets!walletVars => WalletInv'
<1> SUFFICES ASSUME WalletInv, [Wallets!WalletNext]_Wallets!walletVars PROVE WalletInv'
    OBVIOUS
<1>1. /\ ethAddress \in WalletAccount /\ metamask \in WalletAccount
      /\ ethCalls \subseteq {"mount", "connect"}
      /\ extension \in [account: WalletAccounts, network: WalletNets]
  BY DEF WalletInv
<1>2. CASE UNCHANGED Wallets!walletVars BY <1>1, <1>2, OutsideKeeps DEF Wallets!walletVars
<1>3. CASE \/ Wallets!connectMetaMask
           \/ \E answered \in {"mount", "connect"}, ok \in BOOLEAN :
                 Wallets!metaMaskAnswers(answered, ok)
  BY <1>1, <1>3, OutsideKeeps
  DEF Wallets!connectMetaMask, Wallets!metaMaskAnswers, Wallets!outside
<1>4. CASE \E account \in WalletAccount : Wallets!accountsChanged(account)
  BY <1>1, <1>4, OutsideKeeps DEF Wallets!accountsChanged
<1>5. CASE \E account \in WalletAccounts, network \in WalletNets :
             Wallets!extensionChanges(account, network)
  BY <1>1, <1>5, OutsideKeeps DEF Wallets!extensionChanges
<1>6. CASE Wallets!WalletNext
  BY <1>3, <1>4, <1>5, <1>6, ConnectKeeps, QuestionKeeps, AnswerKeeps, DisconnectKeeps
  DEF Wallets!WalletNext, WalletAccount, Wallets!NoAccount
<1> QED BY <1>2, <1>6

-----------------------------------------------------------------------------
(* The programs side by side.                                              *)

ClientsInv ==
    /\ FormInv /\ RefundInv /\ ViewInv /\ CliInv /\ PlannerInv /\ ClaimableInv /\ WalletInv

clientVars == <<part, bridge, dialog, views, commands, planner, claimable, wallets>>

\* A step of the product is a step or a stutter of each program.
LEMMA StepOfEach ==
    [MCNext]_clientVars =>
        /\ [Form!FormNext]_Form!formVars /\ [Refund!RefundNext]_Refund!refundVars
        /\ [Views!ViewNext]_Views!viewVars /\ [Commands!CliNext]_Commands!cliVars
        /\ [Planner!PlannerNext]_Planner!plannerVars
        /\ [Claimable!ClaimableNext]_Claimable!claimableVars
        /\ [Wallets!WalletNext]_Wallets!walletVars
<1> SUFFICES ASSUME [MCNext]_clientVars
             PROVE  /\ [Form!FormNext]_Form!formVars /\ [Refund!RefundNext]_Refund!refundVars
                    /\ [Views!ViewNext]_Views!viewVars /\ [Commands!CliNext]_Commands!cliVars
                    /\ [Planner!PlannerNext]_Planner!plannerVars
                    /\ [Claimable!ClaimableNext]_Claimable!claimableVars
                    /\ [Wallets!WalletNext]_Wallets!walletVars
    OBVIOUS
<1>1. Form!FormNext \/ UNCHANGED bridge BY DEF MCNext, clientVars
<1>2. Refund!RefundNext \/ UNCHANGED dialog BY DEF MCNext, clientVars
<1>3. Views!ViewNext \/ UNCHANGED views BY DEF MCNext, clientVars
<1>4. Commands!CliNext \/ UNCHANGED commands BY DEF MCNext, clientVars
<1>5. Planner!PlannerNext \/ UNCHANGED planner BY DEF MCNext, clientVars
<1>6. Claimable!ClaimableNext \/ UNCHANGED claimable BY DEF MCNext, clientVars
<1>7. Wallets!WalletNext \/ UNCHANGED wallets BY DEF MCNext, clientVars
<1>8. UNCHANGED bridge => UNCHANGED Form!formVars
  BY DEF bridge, Form!formVars, Form!price, Form!page, Form!network, Form!sending
<1>9. UNCHANGED dialog => UNCHANGED Refund!refundVars
  BY DEF dialog, Refund!refundVars, Refund!walletVars, Refund!dialogVars
<1>10. UNCHANGED views => UNCHANGED Views!viewVars BY DEF views, Views!viewVars
<1>11. UNCHANGED commands => UNCHANGED Commands!cliVars BY DEF commands, Commands!cliVars
<1>12. UNCHANGED planner => UNCHANGED Planner!plannerVars BY DEF planner, Planner!plannerVars
<1>13. UNCHANGED claimable => UNCHANGED Claimable!claimableVars
  BY DEF claimable, Claimable!claimableVars
<1>14. UNCHANGED wallets => UNCHANGED Wallets!walletVars BY DEF wallets, Wallets!walletVars
<1> QED BY <1>1, <1>2, <1>3, <1>4, <1>5, <1>6, <1>7, <1>8, <1>9, <1>10, <1>11, <1>12,
           <1>13, <1>14

LEMMA ClientsInvInit == MCInit => ClientsInv
BY FormInvInit, RefundInvInit, ViewInvInit, CliInvInit, PlannerInvInit, ClaimableInvInit,
   WalletInvInit DEF MCInit, ClientsInv

LEMMA ClientsInvStep == ClientsInv /\ [MCNext]_clientVars => ClientsInv'
BY StepOfEach, FormInvStep, RefundInvStep, ViewInvStep, CliInvStep, PlannerInvStep,
   ClaimableInvStep, WalletInvStep DEF ClientsInv

LEMMA ClientsInvHolds == MCSpec => []ClientsInv
BY ClientsInvInit, ClientsInvStep, PTL DEF MCSpec, clientVars

\* The state of every program around the contracts and the servers keeps its shape.
THEOREM ClientsTypeCorrect == MCSpec => []ClientsTypeOK
<1>1. ClientsInv => ClientsTypeOK
  BY FormInvTypes, CliInvPromise, ClaimableInvPromise, WalletInvTypes
  DEF ClientsInv, RefundInv, ViewInv, PlannerInv, ClientsTypeOK
<1> QED BY <1>1, ClientsInvHolds, PTL

\* RefundDialog's executeRefund, however many clicks and polls overlap, sends refundOrder
\* only after both timelocks; useFreighter's signature is given only under the passphrase
\* the transaction was built for; and the refund simulator, the freshness classifier and
\* the HTLC timeline never advise a claim and a refund of the same swap.
THEOREM RefundAdviceTheorem == MCSpec => []RefundAdviceIsSound
<1>1. ClientsInv => RefundAdviceIsSound
  BY ViewsAgree DEF ClientsInv, RefundInv, RefundAdviceIsSound
<1> QED BY <1>1, ClientsInvHolds, PTL

\* The register command, however many runs race and however late a transaction lands,
\* ends well only with the minimum staked in the Soroban registry, and readiness, check
\* and preflight never contradict each other or the start of the resolver.
THEOREM CommandsTheorem == MCSpec => []CommandsTellTheTruth
<1>1. ClientsInv => CommandsTellTheTruth
  BY CliInvPromise, CheckersNeverDisagree DEF ClientsInv, CommandsTellTheTruth
<1> QED BY <1>1, ClientsInvHolds, PTL

\* claimWithPreimage and refundExpired settle a balance once, for the order whose amount
\* and claimant it has, and convertAtomic refuses an amount or carries all of it.
THEOREM AmountsTheorem == MCSpec => []AmountsArriveAsAgreed
<1>1. ClientsInv => AmountsArriveAsAgreed
  BY ClaimableInvPromise DEF ClientsInv, ViewInv, AmountsArriveAsAgreed
<1> QED BY <1>1, ClientsInvHolds, PTL

\* submitValidatedPlan calls submit only for the order as it stands and before either of
\* its timelocks, and buildPlan's fill expires before its source order if the minimum
\* timelock leaves room.
THEOREM PlansTheorem == MCSpec => PlansAreSafe
<1>1. ClientsInv => Planner!FillExpiresFirst BY DEF ClientsInv, PlannerInv
<1>2. ClientsInv /\ [MCNext]_clientVars =>
        [sent' > sent => /\ plan.hashlock = order.hashlock
                         /\ now <= order.src.timelock
                         /\ now <= order.dst.timelock]_Planner!plannerVars
  BY StepOfEach, SubmitIsInTime DEF ClientsInv, InTime
<1> QED BY <1>1, <1>2, ClientsInvHolds, PTL
        DEF MCSpec, clientVars, PlansAreSafe, Planner!SubmitsInTime

\* No late answer shows another order than the one the form asked for last, the estimate
\* belongs to the amount and direction on screen once no live request is left, and the
\* wallet menu is not stuck on "Connecting..." nor reconnected after "Disconnect All"
\* by anything but a call that was in flight then.
THEOREM CurrentAnswersTheorem == MCSpec => FormShowsCurrentAnswers
<1>1. ClientsInv => /\ Form!EstimateIsCurrent /\ Wallets!NeverStuckConnecting
                    /\ Wallets!DisconnectLasts
  BY DEF ClientsInv, FormInv, PriceInv, WalletInv
<1>2. ClientsInv /\ [MCNext]_clientVars =>
        [shown' # shown /\ shown' # Form!NoOrder => shown' = activeRef']_Form!formVars
  BY StepOfEach, StepShowsCurrent DEF ClientsInv, ShowsCurrent
<1> QED BY <1>1, <1>2, ClientsInvHolds, PTL
        DEF MCSpec, clientVars, FormShowsCurrentAnswers, Form!ShownOrderIsCurrent
=============================================================================
