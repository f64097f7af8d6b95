-------------------------- MODULE HTLCEscrowProofs --------------------------
(***************************************************************************)
(* Solvency, settlement windows and finality of HTLCEscrow, for any number *)
(* of accounts, tokens and orders and any amounts.                         *)
(***************************************************************************)
EXTENDS HTLCEscrow, LedgerProofs

\* Ids not handed out yet are unset entries of the mapping.
FreshIdsUnset == \A id \in OrderIds : id >= nextOrderId => orders[id] = UnsetOrder

\* An order that exists names payees with a balance.
PayeesAreHolders ==
    \A id \in OrderIds :
        Exists(id) => orders[id].beneficiary \in Holders
                      /\ orders[id].refundAddress \in Holders

\* The inductive invariant: the balances stay natural numbers only because
\* the escrow is solvent, and it stays solvent only because a new order is
\* written over an unset entry.
EscrowInv == TypeOK /\ FreshIdsUnset /\ PayeesAreHolders /\ Solvent

-----------------------------------------------------------------------------
\* What is owed for an order is a natural number.
LEMMA OwedType ==
    ASSUME TypeOK, NEW a \in Assets
    PROVE  [id \in OrderIds |-> Owed(id, a)] \in [1..MaxOrders -> Nat]
  BY EscrowAssumption DEF TypeOK, Owed, OrderIds, Order

\* The escrow holds at least what it owes for one order.
LEMMA HoldsOwed ==
    ASSUME EscrowInv, NEW id \in OrderIds, NEW a \in Assets
    PROVE  Owed(id, a) \in Nat /\ balance[Escrow][a] >= Owed(id, a)
<1> DEFINE f == [i \in OrderIds |-> Owed(i, a)]
<1>1. f \in [1..MaxOrders -> Nat] /\ f[id] = Owed(id, a)
  BY OwedType DEF EscrowInv
<1>2. balance[Escrow][a] >= SumTo(f, MaxOrders) /\ balance[Escrow][a] \in Nat
  BY EscrowAssumption DEF EscrowInv, TypeOK, Holders, Solvent, TotalOwed
<1>3. MaxOrders \in Nat /\ id \in 1..MaxOrders
  BY EscrowAssumption DEF OrderIds
<1> HIDE DEF f
<1>4. f[id] <= SumTo(f, MaxOrders) /\ SumTo(f, MaxOrders) \in Nat
  BY <1>1, <1>3, SumToBounds, SumToNat
<1>5. f[id] \in Nat
  BY <1>1, <1>3
<1> QED
  BY <1>1, <1>2, <1>4, <1>5

\* Initially nothing is locked.
LEMMA EscrowInvInit == Init => EscrowInv
<1> SUFFICES ASSUME Init PROVE EscrowInv
  OBVIOUS
<1>1. TypeOK
  <2>1. UnsetOrder \in Order
    BY DEF UnsetOrder, Order, OrderStatus, Assets
  <2>2. orders \in [OrderIds -> Order]
    BY <2>1 DEF Init
  <2>3. balance \in [Holders -> [Assets -> Nat]]
    BY EscrowAssumption DEF Init, Holders
  <2> QED BY <2>2, <2>3, EscrowAssumption DEF Init, TypeOK
<1>2. FreshIdsUnset /\ PayeesAreHolders
  BY DEF Init, FreshIdsUnset, PayeesAreHolders, Exists, UnsetOrder
<1>3. Solvent
  <2> SUFFICES ASSUME NEW a \in Assets
               PROVE balance[Escrow][a] = TotalOwed(a) /\ balance[Escrow][a] = 0
    BY DEF Solvent, Assets
  <2> DEFINE f == [id \in OrderIds |-> Owed(id, a)]
  <2>1. \A i \in 1..MaxOrders : f[i] = 0
    BY DEF Init, Owed, IsFunded, Exists, UnsetOrder, OrderIds
  <2> HIDE DEF f
  <2>2. SumTo(f, MaxOrders) = 0
    BY <2>1, SumToZero, EscrowAssumption
  <2> USE DEF f
  <2>3. balance[Escrow][a] = 0
    BY DEF Init, Holders
  <2> QED BY <2>2, <2>3 DEF TotalOwed
<1> QED
  BY <1>1, <1>2, <1>3 DEF EscrowInv

-----------------------------------------------------------------------------
(* Asset movements.                                                        *)

\* The payouts of claimOrder and refundOrder take from the escrow at most
\* what it owes for the order, and in ETH exactly that.
LEMMA PayoutEffect ==
    ASSUME EscrowInv, NEW id \in OrderIds, IsFunded(id),
           NEW payee \in Holders, NEW caller \in Accounts,
           CanPay(orders[id].token, payee)
    PROVE  LET b == AfterPayout(orders[id], payee, caller) IN
           /\ b \in [Holders -> [Assets -> Nat]]
           /\ \A a \in Assets : b[Escrow][a] >= balance[Escrow][a] - Owed(id, a)
           /\ b[Escrow][Native] = balance[Escrow][Native] - Owed(id, Native)
<1> DEFINE o == orders[id]
           b1 == Transfer(balance, Escrow, payee, o.token, o.amount)
           b2 == Transfer(b1, Escrow, caller, Native, o.safetyDeposit)
           kept(a) == IF payee = Escrow /\ a = o.token THEN o.amount ELSE 0
<1>1. /\ o \in Order /\ o.token \in Assets /\ o.amount \in Nat
      /\ o.safetyDeposit \in Nat
      /\ balance \in [Holders -> [Assets -> Nat]]
  BY DEF EscrowInv, TypeOK, Order
<1>2. /\ Escrow \in Holders /\ caller \in Holders
      /\ caller # Escrow /\ Native \in Assets
      /\ payee = Escrow => o.token # Native
  BY EscrowAssumption DEF Holders, Assets, CanPay
<1>3. \A a \in Assets :
         /\ Owed(id, a) = (IF o.token = a THEN o.amount ELSE 0)
                          + (IF a = Native THEN o.safetyDeposit ELSE 0)
         /\ balance[Escrow][a] >= Owed(id, a)
  BY HoldsOwed DEF Owed
<1> HIDE DEF o
<1>4. balance[Escrow][o.token] >= o.amount
  BY <1>1, <1>2, <1>3
<1>5. b1 \in [Holders -> [Assets -> Nat]]
  BY <1>1, <1>2, <1>4, TransferType
<1>6. \A a \in Assets :
        b1[Escrow][a] = balance[Escrow][a] + kept(a) - (IF a = o.token THEN o.amount ELSE 0)
  <2> TAKE a \in Assets
  <2>1. b1[Escrow][a] = balance[Escrow][a]
                         + (IF Escrow = payee /\ a = o.token THEN o.amount ELSE 0)
                         - (IF Escrow = Escrow /\ a = o.token THEN o.amount ELSE 0)
    BY <1>1, <1>2 DEF Transfer
  <2> QED BY <2>1
<1>7. kept(Native) = 0 /\ \A a \in Assets : kept(a) \in Nat
  BY <1>1, <1>2
<1> HIDE DEF b1, kept
<1>8. b1[Escrow][Native] >= o.safetyDeposit
  BY <1>1, <1>2, <1>3, <1>6, <1>7
<1>9. b2 \in [Holders -> [Assets -> Nat]]
  BY <1>1, <1>2, <1>5, <1>8, TransferType
<1>10. ASSUME NEW a \in Assets
       PROVE  b2[Escrow][a] = balance[Escrow][a] + kept(a) - Owed(id, a)
  <2>1. b2[Escrow][a] = b1[Escrow][a]
                         + (IF Escrow = caller /\ a = Native THEN o.safetyDeposit ELSE 0)
                         - (IF Escrow = Escrow /\ a = Native THEN o.safetyDeposit ELSE 0)
    BY <1>2, <1>5 DEF Transfer
  <2>2. balance[Escrow][a] \in Nat /\ kept(a) \in Nat
    BY <1>1, <1>2, <1>7
  <2> QED BY <1>1, <1>2, <1>3, <1>6, <2>1, <2>2
<1>11. ASSUME NEW a \in Assets
       PROVE  b2[Escrow][a] >= balance[Escrow][a] - Owed(id, a)
  <2>1. balance[Escrow][a] \in Nat /\ kept(a) \in Nat /\ Owed(id, a) \in Nat
    BY <1>1, <1>2, <1>7, HoldsOwed
  <2> QED BY <1>10, <2>1
<1>12. b2[Escrow][Native] = balance[Escrow][Native] - Owed(id, Native)
  <2>1. balance[Escrow][Native] \in Nat /\ Owed(id, Native) \in Nat
    BY <1>1, <1>2, HoldsOwed
  <2> QED BY <1>2, <1>7, <1>10, <2>1
<1> QED
  BY <1>9, <1>11, <1>12 DEF AfterPayout, b1, o

-----------------------------------------------------------------------------
(* The invariant is inductive.                                             *)

\* Rewriting one order changes what is owed in total by the change in what
\* is owed for that order.
LEMMA TotalOwedStep ==
    ASSUME TypeOK, TypeOK', NEW id \in OrderIds, NEW a \in Assets,
           \A i \in OrderIds : i # id => orders'[i] = orders[i]
    PROVE  /\ TotalOwed(a)' = TotalOwed(a) + Owed(id, a)' - Owed(id, a)
           /\ TotalOwed(a) \in Nat /\ Owed(id, a) \in Nat /\ Owed(id, a)' \in Nat
<1> DEFINE f == [i \in OrderIds |-> Owed(i, a)]
           g == [i \in OrderIds |-> Owed(i, a)']
<1>1. f \in [1..MaxOrders -> Nat]
  BY OwedType
<1>2. g \in [1..MaxOrders -> Nat]
  BY EscrowAssumption DEF TypeOK, Owed, OrderIds, Order
<1>3. \A i \in 1..MaxOrders : i # id => g[i] = f[i]
  BY DEF Owed, IsFunded, Exists, OrderIds
<1>4. f[id] = Owed(id, a) /\ g[id] = Owed(id, a)'
  OBVIOUS
<1>5. TotalOwed(a) = SumTo(f, MaxOrders) /\ TotalOwed(a)' = SumTo(g, MaxOrders)
  BY DEF TotalOwed
<1>6. id \in 1..MaxOrders /\ MaxOrders \in Nat
  BY EscrowAssumption DEF OrderIds
<1> HIDE DEF f, g
<1>7. /\ SumTo(g, MaxOrders) = SumTo(f, MaxOrders) + g[id] - f[id]
      /\ SumTo(f, MaxOrders) \in Nat /\ f[id] \in Nat /\ g[id] \in Nat
  <2>1. SumTo(g, MaxOrders) = SumTo(f, MaxOrders) + g[id] - f[id]
    BY <1>1, <1>2, <1>3, <1>6, SumToUpdate
  <2>2. SumTo(f, MaxOrders) \in Nat
    BY <1>1, <1>6, SumToNat
  <2>3. f[id] \in Nat /\ g[id] \in Nat
    BY <1>1, <1>2, <1>6
  <2> QED BY <2>1, <2>2, <2>3
<1> QED
  BY <1>4, <1>5, <1>7

\* Solvency survives a step that rewrites one order and moves the escrow's
\* balance by the change in what it owes for that order.
LEMMA SolventStep ==
    ASSUME EscrowInv, TypeOK', NEW id \in OrderIds,
           \A i \in OrderIds : i # id => orders'[i] = orders[i],
           \A a \in Assets :
              balance'[Escrow][a] >= balance[Escrow][a] + Owed(id, a)' - Owed(id, a),
           balance'[Escrow][Native]
              = balance[Escrow][Native] + Owed(id, Native)' - Owed(id, Native)
    PROVE  Solvent'
<1>1. ASSUME NEW a \in Assets
      PROVE  balance'[Escrow][a] >= TotalOwed(a)'
  <2>1. balance[Escrow][a] \in Nat /\ balance'[Escrow][a] \in Nat
    BY EscrowAssumption DEF EscrowInv, TypeOK, Holders
  <2>2. balance[Escrow][a] >= TotalOwed(a)
    BY DEF EscrowInv, Solvent
  <2> QED BY <2>1, <2>2, TotalOwedStep DEF EscrowInv
<1>2. balance'[Escrow][Native] = TotalOwed(Native)'
  <2>1. Native \in Assets
    BY DEF Assets
  <2>2. balance[Escrow][Native] = TotalOwed(Native)
    BY DEF EscrowInv, Solvent
  <2> QED BY <2>1, <2>2, TotalOwedStep DEF EscrowInv
<1> QED
  BY <1>1, <1>2 DEF Solvent

\* Solvency does not depend on the clock, the registry or the id counter.
LEMMA SolventUnchanged ==
    ASSUME Solvent, orders' = orders, balance' = balance
    PROVE  Solvent'
  BY DEF Solvent, TotalOwed, Owed, IsFunded, Exists

\* A successful claim or refund: an existing funded order leaves Funded and
\* its two payouts are made.
LEMMA SettleStep ==
    ASSUME EscrowInv, NEW id \in OrderIds, IsFunded(id),
           NEW payee \in Holders, NEW caller \in Accounts,
           CanPay(orders[id].token, payee),
           NEW status \in {"Claimed", "Refunded"},
           NEW pre \in Preimages \cup {NoPreimage},
           orders' = [orders EXCEPT ![id] =
                        [@ EXCEPT !.status = status, !.finalisedAt = now,
                                  !.preimageKeccak = pre]],
           balance' = AfterPayout(orders[id], payee, caller),
           UNCHANGED <<now, active, nextOrderId>>
    PROVE  EscrowInv'
<1>1. /\ orders \in [OrderIds -> Order] /\ now \in Nat /\ orders[id] \in Order
  BY EscrowAssumption DEF EscrowInv, TypeOK
<1>2. /\ orders' \in [OrderIds -> Order]
      /\ orders'[id].status = status
      /\ \A i \in OrderIds : i # id => orders'[i] = orders[i]
  BY <1>1 DEF Order, OrderStatus
<1>3. \A i \in OrderIds : /\ orders'[i].amount = orders[i].amount
                          /\ orders'[i].beneficiary = orders[i].beneficiary
                          /\ orders'[i].refundAddress = orders[i].refundAddress
  BY <1>1 DEF Order
<1>4. /\ balance' \in [Holders -> [Assets -> Nat]]
      /\ \A a \in Assets : balance'[Escrow][a] >= balance[Escrow][a] - Owed(id, a)
      /\ balance'[Escrow][Native] = balance[Escrow][Native] - Owed(id, Native)
  BY PayoutEffect
<1>5. TypeOK'
  BY <1>2, <1>4 DEF EscrowInv, TypeOK
<1>6. FreshIdsUnset'
  <2>1. ~ (id >= nextOrderId)
    BY DEF EscrowInv, FreshIdsUnset, IsFunded, Exists, UnsetOrder
  <2> QED BY <1>2, <2>1 DEF EscrowInv, FreshIdsUnset
<1>7. PayeesAreHolders'
  BY <1>3 DEF EscrowInv, PayeesAreHolders, Exists
<1>8. ASSUME NEW a \in Assets
      PROVE  /\ balance'[Escrow][a] >= balance[Escrow][a] + Owed(id, a)' - Owed(id, a)
             /\ a = Native =>
                  balance'[Escrow][a] = balance[Escrow][a] + Owed(id, a)' - Owed(id, a)
  <2>1. Owed(id, a)' = 0
    BY <1>2 DEF Owed, IsFunded
  <2>2. Owed(id, a) \in Nat
    BY HoldsOwed
  <2>3. balance[Escrow][a] \in Nat
    BY EscrowAssumption DEF EscrowInv, TypeOK, Holders
  <2> QED BY <1>4, <2>1, <2>2, <2>3
<1>9. Solvent'
  BY <1>2, <1>5, <1>8, SolventStep DEF Assets
<1> QED
  BY <1>5, <1>6, <1>7, <1>9 DEF EscrowInv

LEMMA CreateStep ==
    ASSUME EscrowInv, Create
    PROVE  EscrowInv'
<1>1. PICK sender \in Accounts, beneficiary \in Payees, refundAddress \in Payees,
           token \in Assets, amount \in Amounts, safetyDeposit \in Deposits,
           hashlock \in Hashlocks \cup {ZeroHash}, timelockSeconds \in Durations :
        createOrder(sender, beneficiary, refundAddress, token, amount,
                    safetyDeposit, hashlock, timelockSeconds)
  BY DEF Create
<1>0. PICK id : id = nextOrderId
  OBVIOUS
<1> DEFINE o == [sender |-> sender, beneficiary |-> beneficiary,
                 refundAddress |-> refundAddress, token |-> token,
                 amount |-> amount, safetyDeposit |-> safetyDeposit,
                 hashlock |-> hashlock,
                 timelock |-> now + timelockSeconds,
                 finalisedAt |-> 0, preimageKeccak |-> NoPreimage,
                 status |-> "Funded"]
           b1 == Transfer(balance, sender, Escrow, token, amount)
           b2 == Transfer(b1, sender, Escrow, Native, safetyDeposit)
<1>2. /\ amount \in Nat /\ amount # 0 /\ safetyDeposit \in Nat /\ now \in Nat
      /\ timelockSeconds \in Nat /\ id \in OrderIds /\ id \in Nat
      /\ beneficiary \in Holders /\ refundAddress \in Holders
      /\ nextOrderId' = id + 1 /\ now' = now /\ active' = active
      /\ balance' = b2 /\ orders' = [orders EXCEPT ![id] = o]
      /\ balance[sender][Native] >= safetyDeposit + (IF token = Native THEN amount ELSE 0)
      /\ balance[sender][token] >= amount
  BY <1>0, <1>1, EscrowAssumption DEF createOrder, EscrowInv, TypeOK, OrderIds
<1>3. /\ orders \in [OrderIds -> Order] /\ balance \in [Holders -> [Assets -> Nat]]
      /\ sender \in Holders /\ Escrow \in Holders /\ sender # Escrow
      /\ Native \in Assets
  BY EscrowAssumption DEF EscrowInv, TypeOK, Holders, Assets
<1>4. o \in Order
  BY <1>2 DEF Order, OrderStatus
<1>5. /\ orders' \in [OrderIds -> Order] /\ orders'[id] = o
      /\ \A i \in OrderIds : i # id => orders'[i] = orders[i]
  BY <1>2, <1>3, <1>4
<1>6. b1 \in [Holders -> [Assets -> Nat]]
  BY <1>2, <1>3, TransferType
<1>7. b1[sender][Native] = balance[sender][Native]
                             + (IF sender = Escrow /\ Native = token THEN amount ELSE 0)
                             - (IF sender = sender /\ Native = token THEN amount ELSE 0)
  BY <1>3 DEF Transfer
<1>8. \A a \in Assets :
         b1[Escrow][a] = balance[Escrow][a]
                         + (IF Escrow = Escrow /\ a = token THEN amount ELSE 0)
                         - (IF Escrow = sender /\ a = token THEN amount ELSE 0)
  BY <1>3 DEF Transfer
<1> HIDE DEF b1
<1>9. b1[sender][Native] >= safetyDeposit
  BY <1>2, <1>3, <1>7
<1>10. b2 \in [Holders -> [Assets -> Nat]]
  BY <1>2, <1>3, <1>6, <1>9, TransferType
<1>11. \A a \in Assets :
         b2[Escrow][a] = b1[Escrow][a]
                         + (IF Escrow = Escrow /\ a = Native THEN safetyDeposit ELSE 0)
                         - (IF Escrow = sender /\ a = Native THEN safetyDeposit ELSE 0)
  BY <1>3, <1>6 DEF Transfer
<1> HIDE DEF b2
<1>12. TypeOK'
  <2>1. nextOrderId' \in 1..(MaxOrders + 1)
    BY <1>2, EscrowAssumption DEF OrderIds
  <2>2. balance' \in [Holders -> [Assets -> Nat]]
    BY <1>2, <1>10
  <2> QED BY <1>2, <1>5, <2>1, <2>2 DEF EscrowInv, TypeOK
<1>13. orders[id] = UnsetOrder
  BY <1>0, <1>2 DEF EscrowInv, FreshIdsUnset
<1>14. FreshIdsUnset'
  BY <1>0, <1>2, <1>5 DEF EscrowInv, FreshIdsUnset, OrderIds
<1>15. PayeesAreHolders'
  BY <1>2, <1>5 DEF EscrowInv, PayeesAreHolders, Exists
<1>16. ASSUME NEW a \in Assets
       PROVE  balance'[Escrow][a] = balance[Escrow][a] + Owed(id, a)' - Owed(id, a)
  <2>1. Owed(id, a) = 0
    BY <1>13 DEF Owed, IsFunded, Exists, UnsetOrder
  <2>2. Owed(id, a)' = (IF a = token THEN amount ELSE 0)
                       + (IF a = Native THEN safetyDeposit ELSE 0)
    BY <1>2, <1>5 DEF Owed, IsFunded, Exists
  <2>3. balance[Escrow][a] \in Nat
    BY <1>3
  <2> QED BY <1>2, <1>3, <1>8, <1>11, <2>1, <2>2, <2>3
<1>17. ASSUME NEW a \in Assets
       PROVE  balance'[Escrow][a] >= balance[Escrow][a] + Owed(id, a)' - Owed(id, a)
  <2>1. balance'[Escrow][a] \in Nat
    BY <1>2, <1>3, <1>10
  <2> QED BY <1>16, <2>1
<1>18. Solvent'
  BY <1>2, <1>3, <1>5, <1>12, <1>16, <1>17, SolventStep
<1> QED
  BY <1>12, <1>14, <1>15, <1>18 DEF EscrowInv

LEMMA ClaimStep ==
    ASSUME EscrowInv, Claim
    PROVE  EscrowInv'
<1>1. PICK caller \in Accounts, id \in OrderIds, preimage \in Preimages :
        claimOrder(caller, id, preimage)
  BY DEF Claim
<1>2. /\ IsFunded(id) /\ orders[id].beneficiary \in Holders
      /\ CanPay(orders[id].token, orders[id].beneficiary)
  BY <1>1 DEF claimOrder, IsOpen, Expired, PayoutSucceeds, IsFunded, Exists, EscrowInv, PayeesAreHolders
<1>3. orders' = [orders EXCEPT ![id] =
                   [@ EXCEPT !.status = "Claimed", !.finalisedAt = now,
                             !.preimageKeccak = preimage]]
  BY <1>1 DEF claimOrder, IsOpen, Expired, EscrowInv, TypeOK, Order
<1>4. /\ balance' = AfterPayout(orders[id], orders[id].beneficiary, caller)
      /\ UNCHANGED <<now, active, nextOrderId>>
  BY <1>1 DEF claimOrder
<1> QED
  BY <1>2, <1>3, <1>4, SettleStep

LEMMA RefundStep ==
    ASSUME EscrowInv, Refund
    PROVE  EscrowInv'
<1>1. PICK caller \in Accounts, id \in OrderIds : refundOrder(caller, id)
  BY DEF Refund
<1>2. /\ IsFunded(id) /\ orders[id].refundAddress \in Holders
      /\ CanPay(orders[id].token, orders[id].refundAddress)
      /\ orders[id].preimageKeccak \in Preimages \cup {NoPreimage}
      /\ orders[id] \in Order
  BY <1>1 DEF refundOrder, IsOpen, Expired, PayoutSucceeds, IsFunded, Exists, EscrowInv, PayeesAreHolders, TypeOK, Order
<1>3. orders' = [orders EXCEPT ![id] =
                   [@ EXCEPT !.status = "Refunded", !.finalisedAt = now,
                             !.preimageKeccak = orders[id].preimageKeccak]]
  BY <1>1, <1>2 DEF refundOrder, IsOpen, Expired, EscrowInv, TypeOK, Order
<1>4. /\ balance' = AfterPayout(orders[id], orders[id].refundAddress, caller)
      /\ UNCHANGED <<now, active, nextOrderId>>
  BY <1>1 DEF refundOrder
<1> QED
  BY <1>2, <1>3, <1>4, SettleStep

LEMMA EnvironmentStep ==
    ASSUME EscrowInv, AdvanceTime \/ RegistryChanges \/ UNCHANGED vars
    PROVE  EscrowInv'
<1>1. /\ orders' = orders /\ balance' = balance /\ nextOrderId' = nextOrderId
  BY DEF AdvanceTime, RegistryChanges, vars
<1>2. TypeOK'
  BY EscrowAssumption DEF EscrowInv, TypeOK, AdvanceTime, RegistryChanges, vars
<1>3. Solvent'
  BY <1>1, SolventUnchanged DEF EscrowInv
<1> QED
  BY <1>1, <1>2, <1>3 DEF EscrowInv, FreshIdsUnset, PayeesAreHolders, Exists

LEMMA EscrowInvStep == EscrowInv /\ [Next]_vars => EscrowInv'
  BY CreateStep, ClaimStep, RefundStep, EnvironmentStep DEF Next

\* HTLCEscrow.sol keeps its state well typed: no balance is ever overdrawn.
THEOREM TypeCorrect == Spec => []TypeOK
<1>1. EscrowInv => TypeOK
  BY DEF EscrowInv
<1> QED
  BY <1>1, EscrowInvInit, EscrowInvStep, PTL DEF Spec

\* createOrder, claimOrder and refundOrder keep the escrow exactly solvent.
THEOREM EscrowSolvent == Spec => []Solvent
<1>1. EscrowInv => Solvent
  BY DEF EscrowInv
<1> QED
  BY <1>1, EscrowInvInit, EscrowInvStep, PTL DEF Spec

-----------------------------------------------------------------------------
(* Settlement windows and finality.                                        *)

\* An order nobody claimed shows no preimage.
FundedShowsNoPreimage ==
    \A id \in OrderIds :
        orders[id].status = "Funded" => orders[id].preimageKeccak = NoPreimage

WindowInv == EscrowInv /\ SettlementWindow /\ FundedShowsNoPreimage

LEMMA WindowInvInit == Init => WindowInv
  BY EscrowInvInit DEF WindowInv, Init, SettlementWindow, FundedShowsNoPreimage, UnsetOrder

LEMMA WindowInvStep == WindowInv /\ [Next]_vars => WindowInv'
<1> SUFFICES ASSUME WindowInv, [Next]_vars PROVE WindowInv'
  OBVIOUS
<1>0. EscrowInv /\ EscrowInv'
  BY EscrowInvStep DEF WindowInv
<1>1. orders \in [OrderIds -> Order] /\ now \in Nat
  BY <1>0, EscrowAssumption DEF EscrowInv, TypeOK
<1>2. CASE Create
  <2>1. PICK sender \in Accounts, beneficiary \in Payees, refundAddress \in Payees,
             token \in Assets, amount \in Amounts, safetyDeposit \in Deposits,
             hashlock \in Hashlocks \cup {ZeroHash}, timelockSeconds \in Durations :
          createOrder(sender, beneficiary, refundAddress, token, amount,
                      safetyDeposit, hashlock, timelockSeconds)
    BY <1>2 DEF Create
  <2>2. /\ \A i \in OrderIds : i # nextOrderId => orders'[i] = orders[i]
        /\ nextOrderId \in OrderIds => /\ orders'[nextOrderId].status = "Funded"
                                       /\ orders'[nextOrderId].preimageKeccak = NoPreimage
    BY <1>1, <2>1 DEF createOrder
  <2> QED
    BY <1>0, <2>2 DEF WindowInv, SettlementWindow, FundedShowsNoPreimage
<1>3. CASE Claim
  <2>1. PICK caller \in Accounts, id \in OrderIds, preimage \in Preimages :
          claimOrder(caller, id, preimage)
    BY <1>3 DEF Claim
  <2>2. /\ \A i \in OrderIds : i # id => orders'[i] = orders[i]
        /\ orders'[id].status = "Claimed" /\ orders'[id].finalisedAt = now
        /\ orders'[id].preimageKeccak = preimage
        /\ orders'[id].hashlock = orders[id].hashlock
        /\ orders'[id].timelock = orders[id].timelock
        /\ now <= orders[id].timelock /\ Sha256(preimage) = orders[id].hashlock
    BY <1>1, <2>1 DEF claimOrder, IsOpen, Expired, Order
  <2> QED
    BY <1>0, <2>2 DEF WindowInv, SettlementWindow, FundedShowsNoPreimage
<1>4. CASE Refund
  <2>1. PICK caller \in Accounts, id \in OrderIds : refundOrder(caller, id)
    BY <1>4 DEF Refund
  <2>2. /\ \A i \in OrderIds : i # id => orders'[i] = orders[i]
        /\ orders'[id].status = "Refunded" /\ orders'[id].finalisedAt = now
        /\ orders'[id].preimageKeccak = orders[id].preimageKeccak
        /\ orders'[id].timelock = orders[id].timelock
        /\ now > orders[id].timelock /\ orders[id].status = "Funded"
    BY <1>1, <2>1 DEF refundOrder, IsOpen, Expired, Order
  <2> QED
    BY <1>0, <2>2 DEF WindowInv, SettlementWindow, FundedShowsNoPreimage
<1>5. CASE AdvanceTime \/ RegistryChanges \/ UNCHANGED vars
  <2>1. orders' = orders
    BY <1>5 DEF AdvanceTime, RegistryChanges, vars
  <2> QED
    BY <1>0, <2>1 DEF WindowInv, SettlementWindow, FundedShowsNoPreimage
<1> QED
  BY <1>2, <1>3, <1>4, <1>5 DEF Next

\* claimOrder succeeds only up to the timelock and with a preimage of the
\* hashlock, refundOrder only after it: no order is both claimable and
\* refundable at one time.
THEOREM ClaimAndRefundWindowsAreDisjoint == Spec => []SettlementWindow
<1>1. WindowInv => SettlementWindow
  BY DEF WindowInv
<1> QED
  BY <1>1, WindowInvInit, WindowInvStep, PTL DEF Spec

\* Orders are written once by createOrder and settled at most once.
THEOREM OrdersNeverRewritten == Spec => OrdersAreFinal
<1>1. EscrowInv /\ [Next]_vars => [OrdersKept]_vars
  <2> SUFFICES ASSUME EscrowInv, [Next]_vars, NEW id \in OrderIds, Exists(id)
               PROVE  /\ \A f \in Terms : orders'[id][f] = orders[id][f]
                      /\ orders[id].status # "Funded" => orders'[id] = orders[id]
    BY DEF OrdersKept
  <2>1. orders \in [OrderIds -> Order] /\ orders[id] \in Order
    BY DEF EscrowInv, TypeOK
  <2>2. CASE Create
    <3>1. id # nextOrderId
      BY EscrowAssumption DEF EscrowInv, TypeOK, FreshIdsUnset, Exists, UnsetOrder, OrderIds
    <3>2. orders'[id] = orders[id]
      BY <2>1, <2>2, <3>1 DEF Create, createOrder
    <3> QED BY <3>2
  <2>3. CASE Claim
    BY <2>1, <2>3 DEF Claim, claimOrder, IsOpen, Order, Terms
  <2>4. CASE Refund
    BY <2>1, <2>4 DEF Refund, refundOrder, IsOpen, Order, Terms
  <2>5. CASE AdvanceTime \/ RegistryChanges \/ UNCHANGED vars
    BY <2>5 DEF AdvanceTime, RegistryChanges, vars
  <2> QED
    BY <2>2, <2>3, <2>4, <2>5 DEF Next
<1> QED
  BY <1>1, EscrowInvInit, EscrowInvStep, PTL DEF Spec, OrdersAreFinal

-----------------------------------------------------------------------------
(* Non-custody.                                                            *)

\* The summands of PutIn and GotBack.
Locked(id, h, a) ==
    IF orders[id].sender # h THEN 0 ELSE
      (IF orders[id].token = a THEN orders[id].amount ELSE 0)
    + (IF a = Native THEN orders[id].safetyDeposit ELSE 0)

Received(id, h, a) ==
    IF /\ orders[id].token = a
       /\ \/ orders[id].status = "Claimed" /\ orders[id].beneficiary = h
          \/ orders[id].status = "Refunded" /\ orders[id].refundAddress = h
    THEN orders[id].amount ELSE 0

LEMMA SummandTypes ==
    ASSUME TypeOK, NEW h, NEW a
    PROVE  /\ [id \in OrderIds |-> Locked(id, h, a)] \in [1..MaxOrders -> Nat]
           /\ [id \in OrderIds |-> Received(id, h, a)] \in [1..MaxOrders -> Nat]
<1>1. \A id \in OrderIds : orders[id].amount \in Nat /\ orders[id].safetyDeposit \in Nat
  BY DEF TypeOK, Order
<1> QED
  BY <1>1 DEF Locked, Received, OrderIds

\* Rewriting one order changes the two sums by the change in its summands.
LEMMA AccountSumsStep ==
    ASSUME TypeOK, TypeOK', NEW id \in OrderIds, NEW h \in Accounts, NEW a \in Assets,
           \A i \in OrderIds : i # id => orders'[i] = orders[i]
    PROVE  /\ PutIn(h, a)' = PutIn(h, a) + Locked(id, h, a)' - Locked(id, h, a)
           /\ GotBack(h, a)' = GotBack(h, a) + Received(id, h, a)' - Received(id, h, a)
           /\ PutIn(h, a) \in Nat /\ GotBack(h, a) \in Nat
           /\ Locked(id, h, a) \in Nat /\ Locked(id, h, a)' \in Nat
           /\ Received(id, h, a) \in Nat /\ Received(id, h, a)' \in Nat
<1> DEFINE f == [i \in OrderIds |-> Locked(i, h, a)]
           g == [i \in OrderIds |-> Locked(i, h, a)']
           p == [i \in OrderIds |-> Received(i, h, a)]
           q == [i \in OrderIds |-> Received(i, h, a)']
<1>1. f \in [1..MaxOrders -> Nat] /\ p \in [1..MaxOrders -> Nat]
  BY SummandTypes
<1>2. g \in [1..MaxOrders -> Nat] /\ q \in [1..MaxOrders -> Nat]
  <2>1. \A i \in OrderIds : orders'[i].amount \in Nat /\ orders'[i].safetyDeposit \in Nat
    BY DEF TypeOK, Order
  <2> QED BY <2>1 DEF Locked, Received, OrderIds
<1>3. \A i \in 1..MaxOrders : i # id => g[i] = f[i] /\ q[i] = p[i]
  BY DEF Locked, Received, OrderIds
<1>4. /\ f[id] = Locked(id, h, a) /\ g[id] = Locked(id, h, a)'
      /\ p[id] = Received(id, h, a) /\ q[id] = Received(id, h, a)'
  OBVIOUS
<1>5. /\ PutIn(h, a) = SumTo(f, MaxOrders) /\ PutIn(h, a)' = SumTo(g, MaxOrders)
      /\ GotBack(h, a) = SumTo(p, MaxOrders) /\ GotBack(h, a)' = SumTo(q, MaxOrders)
  BY DEF PutIn, GotBack, Locked, Received
<1>6. id \in 1..MaxOrders /\ MaxOrders \in Nat
  BY EscrowAssumption DEF OrderIds
<1> HIDE DEF f, g, p, q
<1>7. /\ SumTo(g, MaxOrders) = SumTo(f, MaxOrders) + g[id] - f[id]
      /\ SumTo(q, MaxOrders) = SumTo(p, MaxOrders) + q[id] - p[id]
  BY <1>1, <1>2, <1>3, <1>6, SumToUpdate
<1>8. SumTo(f, MaxOrders) \in Nat /\ SumTo(p, MaxOrders) \in Nat
  <2>1. MaxOrders \in 0..MaxOrders
    BY <1>6
  <2>2. SumTo(f, MaxOrders) \in Nat
    BY <1>1, <1>6, <2>1, SumToNat
  <2>3. SumTo(p, MaxOrders) \in Nat
    BY <1>1, <1>6, <2>1, SumToNat
  <2> QED BY <2>2, <2>3
<1>9. f[id] \in Nat /\ g[id] \in Nat /\ p[id] \in Nat /\ q[id] \in Nat
  BY <1>1, <1>2, <1>6
<1> QED
  BY <1>4, <1>5, <1>7, <1>8, <1>9

\* Nobody loses by a step that rewrites one order and moves every account's
\* balance by what the order locked of its own and paid back to it, or more
\* in ETH.
LEMMA NobodyLosesStep ==
    ASSUME TypeOK, TypeOK', NobodyLosesFunds, NEW id \in OrderIds,
           \A i \in OrderIds : i # id => orders'[i] = orders[i],
           \A h \in Accounts, a \in Assets :
               LET change == Locked(id, h, a) - Locked(id, h, a)'
                             + Received(id, h, a)' - Received(id, h, a)
               IN  /\ a = Native => balance'[h][a] >= balance[h][a] + change
                   /\ a # Native => balance'[h][a] = balance[h][a] + change
    PROVE  NobodyLosesFunds'
<1>1. SUFFICES ASSUME NEW h \in Accounts, NEW a \in Assets
               PROVE  LET due == InitialBalance[h][a] - PutIn(h, a)' + GotBack(h, a)'
                      IN  IF a = Native THEN balance'[h][a] >= due
                                        ELSE balance'[h][a] = due
  BY DEF NobodyLosesFunds
<1>2. /\ balance[h][a] \in Nat /\ balance'[h][a] \in Nat /\ InitialBalance[h][a] \in Nat
  BY EscrowAssumption DEF TypeOK, Holders
<1>3. /\ a = Native => balance[h][a] >= InitialBalance[h][a] - PutIn(h, a) + GotBack(h, a)
      /\ a # Native => balance[h][a] = InitialBalance[h][a] - PutIn(h, a) + GotBack(h, a)
  BY DEF NobodyLosesFunds
<1> QED
  BY <1>2, <1>3, AccountSumsStep

\* The terms of a payout move no account's balance but the payee's and the
\* caller's.
LEMMA NobodyLosesOnPayout ==
    ASSUME EscrowInv, EscrowInv', NobodyLosesFunds, NEW id \in OrderIds, IsFunded(id),
           NEW payee \in Holders, NEW caller \in Accounts,
           \A i \in OrderIds : i # id => orders'[i] = orders[i],
           \A f \in Terms : orders'[id][f] = orders[id][f],
           \/ orders'[id].status = "Claimed" /\ payee = orders[id].beneficiary
           \/ orders'[id].status = "Refunded" /\ payee = orders[id].refundAddress,
           balance' = AfterPayout(orders[id], payee, caller)
    PROVE  NobodyLosesFunds'
<1> DEFINE o == orders[id]
           b1 == Transfer(balance, Escrow, payee, o.token, o.amount)
<1>1. /\ TypeOK /\ TypeOK' /\ o.token \in Assets /\ o.amount \in Nat
      /\ o.safetyDeposit \in Nat /\ balance \in [Holders -> [Assets -> Nat]]
  BY DEF EscrowInv, TypeOK, Order
<1>2. /\ orders'[id].sender = o.sender /\ orders'[id].beneficiary = o.beneficiary
      /\ orders'[id].refundAddress = o.refundAddress /\ orders'[id].token = o.token
      /\ orders'[id].amount = o.amount /\ orders'[id].safetyDeposit = o.safetyDeposit
  BY DEF Terms
<1>3. ASSUME NEW h \in Accounts, NEW a \in Assets
      PROVE  LET change == Locked(id, h, a) - Locked(id, h, a)'
                           + Received(id, h, a)' - Received(id, h, a)
             IN  /\ a = Native => balance'[h][a] >= balance[h][a] + change
                 /\ a # Native => balance'[h][a] = balance[h][a] + change
  <2>1. h \in Holders /\ h # Escrow
    BY EscrowAssumption DEF Holders
  <2>2. /\ Locked(id, h, a)' = Locked(id, h, a)
        /\ Locked(id, h, a) \in Nat
    BY <1>1, <1>2 DEF Locked
  <2>3. /\ Received(id, h, a) = 0
        /\ Received(id, h, a)' = IF payee = h /\ a = o.token THEN o.amount ELSE 0
    BY <1>2 DEF Received, IsFunded
  <2>4. b1[h][a] = balance[h][a] + (IF h = payee /\ a = o.token THEN o.amount ELSE 0)
                                 - (IF h = Escrow /\ a = o.token THEN o.amount ELSE 0)
    BY <1>1, <2>1 DEF Transfer
  <2>5. balance'[h][a] = b1[h][a]
                         + (IF h = caller /\ a = Native THEN o.safetyDeposit ELSE 0)
                         - (IF h = Escrow /\ a = Native THEN o.safetyDeposit ELSE 0)
    <3>1. balance' = Transfer(b1, Escrow, caller, Native, o.safetyDeposit)
      BY DEF AfterPayout
    <3>2. DOMAIN b1 = Holders /\ DOMAIN b1[h] = Assets
      BY <1>1, <2>1 DEF Transfer
    <3> HIDE DEF b1, o
    <3> QED BY <2>1, <3>1, <3>2 DEF Transfer
  <2>6. balance[h][a] \in Nat
    BY <1>1, <2>1
  <2> HIDE DEF b1, o
  <2> QED BY <1>1, <2>1, <2>2, <2>3, <2>4, <2>5, <2>6
<1> QED
  BY <1>1, <1>3, NobodyLosesStep

\* createOrder takes from its sender what the new order locks, and from
\* nobody else.
LEMMA NobodyLosesOnCreate ==
    ASSUME EscrowInv, EscrowInv', NobodyLosesFunds, Create
    PROVE  NobodyLosesFunds'
<1>1. PICK sender \in Accounts, beneficiary \in Payees, refundAddress \in Payees,
           token \in Assets, amount \in Amounts, safetyDeposit \in Deposits,
           hashlock \in Hashlocks \cup {ZeroHash}, timelockSeconds \in Durations :
        createOrder(sender, beneficiary, refundAddress, token, amount,
                    safetyDeposit, hashlock, timelockSeconds)
  BY DEF Create
<1>2. PICK id : id = nextOrderId
  OBVIOUS
<1> DEFINE b1 == Transfer(balance, sender, Escrow, token, amount)
<1>3. /\ TypeOK /\ TypeOK' /\ id \in OrderIds /\ amount \in Nat /\ safetyDeposit \in Nat
      /\ balance \in [Holders -> [Assets -> Nat]]
      /\ balance' = Transfer(b1, sender, Escrow, Native, safetyDeposit)
      /\ orders[id] = UnsetOrder
  <2>1. id \in OrderIds /\ id >= nextOrderId
    BY <1>1, <1>2, EscrowAssumption DEF createOrder, EscrowInv, TypeOK, OrderIds
  <2>2. orders[id] = UnsetOrder
    BY <2>1 DEF EscrowInv, FreshIdsUnset
  <2>3. balance' = Transfer(b1, sender, Escrow, Native, safetyDeposit)
    BY <1>1 DEF createOrder
  <2> QED BY <2>1, <2>2, <2>3, EscrowAssumption DEF EscrowInv, TypeOK
<1>4. /\ orders'[id].sender = sender /\ orders'[id].token = token
      /\ orders'[id].amount = amount /\ orders'[id].safetyDeposit = safetyDeposit
      /\ orders'[id].status = "Funded"
      /\ \A i \in OrderIds : i # id => orders'[i] = orders[i]
  BY <1>1, <1>2, <1>3 DEF createOrder, TypeOK
<1>5. ASSUME NEW h \in Accounts, NEW a \in Assets
      PROVE  LET change == Locked(id, h, a) - Locked(id, h, a)'
                           + Received(id, h, a)' - Received(id, h, a)
             IN  /\ a = Native => balance'[h][a] >= balance[h][a] + change
                 /\ a # Native => balance'[h][a] = balance[h][a] + change
  <2>1. h \in Holders /\ h # Escrow /\ h # ZeroAddress
    BY EscrowAssumption DEF Holders
  <2>2. Locked(id, h, a) = 0 /\ Received(id, h, a) = 0
    BY <1>3, <2>1 DEF Locked, Received, UnsetOrder
  <2>3. /\ Received(id, h, a)' = 0
        /\ Locked(id, h, a)' = IF h = sender
                               THEN (IF a = token THEN amount ELSE 0)
                                    + (IF a = Native THEN safetyDeposit ELSE 0)
                               ELSE 0
    BY <1>4 DEF Locked, Received
  <2>4. b1[h][a] = balance[h][a] + (IF h = Escrow /\ a = token THEN amount ELSE 0)
                                 - (IF h = sender /\ a = token THEN amount ELSE 0)
    BY <1>3, <2>1 DEF Transfer
  <2>5. balance'[h][a] = b1[h][a]
                         + (IF h = Escrow /\ a = Native THEN safetyDeposit ELSE 0)
                         - (IF h = sender /\ a = Native THEN safetyDeposit ELSE 0)
    <3>1. DOMAIN b1 = Holders /\ DOMAIN b1[h] = Assets
      BY <1>3, <2>1 DEF Transfer
    <3> HIDE DEF b1
    <3> QED BY <1>3, <2>1, <3>1 DEF Transfer
  <2>6. balance[h][a] \in Nat
    BY <1>3, <2>1
  <2> HIDE DEF b1
  <2> QED BY <1>3, <2>1, <2>2, <2>3, <2>4, <2>5, <2>6
<1> QED
  BY <1>3, <1>4, <1>5, NobodyLosesStep

LEMMA NobodyLosesInit == Init => NobodyLosesFunds
<1> SUFFICES ASSUME Init, NEW h \in Accounts, NEW a \in Assets
             PROVE  /\ balance[h][a] = InitialBalance[h][a]
                    /\ balance[h][a] \in Nat
                    /\ PutIn(h, a) = 0 /\ GotBack(h, a) = 0
  BY DEF NobodyLosesFunds
<1> DEFINE f == [id \in OrderIds |-> Locked(id, h, a)]
           p == [id \in OrderIds |-> Received(id, h, a)]
<1>1. h \in Holders /\ h # Escrow /\ h # ZeroAddress /\ MaxOrders \in Nat
  BY EscrowAssumption DEF Holders
<1>2. balance[h][a] = InitialBalance[h][a] /\ balance[h][a] \in Nat
  BY <1>1, EscrowAssumption DEF Init
<1>3. \A i \in 1..MaxOrders : f[i] = 0 /\ p[i] = 0
  BY <1>1 DEF Init, Locked, Received, UnsetOrder, OrderIds
<1>4. PutIn(h, a) = SumTo(f, MaxOrders) /\ GotBack(h, a) = SumTo(p, MaxOrders)
  BY DEF PutIn, GotBack, Locked, Received
<1> HIDE DEF f, p
<1>5. SumTo(f, MaxOrders) = 0
  BY <1>1, <1>3, SumToZero
<1>6. SumTo(p, MaxOrders) = 0
  BY <1>1, <1>3, SumToZero
<1> QED
  BY <1>2, <1>4, <1>5, <1>6

LEMMA NobodyLosesNext ==
    EscrowInv /\ EscrowInv' /\ NobodyLosesFunds /\ [Next]_vars => NobodyLosesFunds'
<1> SUFFICES ASSUME EscrowInv, EscrowInv', NobodyLosesFunds, [Next]_vars
             PROVE  NobodyLosesFunds'
  OBVIOUS
<1>1. CASE Create
  BY <1>1, NobodyLosesOnCreate
<1>2. CASE Claim
  <2>1. PICK caller \in Accounts, id \in OrderIds, preimage \in Preimages :
          claimOrder(caller, id, preimage)
    BY <1>2 DEF Claim
  <2>2. /\ IsFunded(id) /\ orders[id].beneficiary \in Holders
        /\ balance' = AfterPayout(orders[id], orders[id].beneficiary, caller)
    BY <2>1 DEF claimOrder, IsOpen, IsFunded, Exists, EscrowInv, PayeesAreHolders
  <2>3. /\ \A i \in OrderIds : i # id => orders'[i] = orders[i]
        /\ orders'[id].status = "Claimed"
        /\ \A f \in Terms : orders'[id][f] = orders[id][f]
    BY <2>1 DEF claimOrder, EscrowInv, TypeOK, Order, Terms
  <2> QED BY <2>2, <2>3, NobodyLosesOnPayout
<1>3. CASE Refund
  <2>1. PICK caller \in Accounts, id \in OrderIds : refundOrder(caller, id)
    BY <1>3 DEF Refund
  <2>2. /\ IsFunded(id) /\ orders[id].refundAddress \in Holders
        /\ balance' = AfterPayout(orders[id], orders[id].refundAddress, caller)
    BY <2>1 DEF refundOrder, IsOpen, IsFunded, Exists, EscrowInv, PayeesAreHolders
  <2>3. /\ \A i \in OrderIds : i # id => orders'[i] = orders[i]
        /\ orders'[id].status = "Refunded"
        /\ \A f \in Terms : orders'[id][f] = orders[id][f]
    BY <2>1 DEF refundOrder, EscrowInv, TypeOK, Order, Terms
  <2> QED BY <2>2, <2>3, NobodyLosesOnPayout
<1>4. CASE AdvanceTime \/ RegistryChanges \/ UNCHANGED vars
  <2>1. orders' = orders /\ balance' = balance
    BY <1>4 DEF AdvanceTime, RegistryChanges, vars
  <2>2. \A h \in Accounts, a \in Assets :
           PutIn(h, a)' = PutIn(h, a) /\ GotBack(h, a)' = GotBack(h, a)
    BY <2>1 DEF PutIn, GotBack
  <2> QED BY <2>1, <2>2 DEF NobodyLosesFunds
<1> QED
  BY <1>1, <1>2, <1>3, <1>4 DEF Next

\* The escrow is non-custodial: whatever the other parties, the registry and
\* the clock do, an account's balance differs from what it started with only
\* by what it locked itself and what was claimed for it or refunded to it,
\* and in ETH by the safety deposits it earned on top.
THEOREM EscrowIsNonCustodial == Spec => []NobodyLosesFunds
<1>1. Init => EscrowInv /\ NobodyLosesFunds
  BY EscrowInvInit, NobodyLosesInit
<1>2. EscrowInv /\ NobodyLosesFunds /\ [Next]_vars => EscrowInv' /\ NobodyLosesFunds'
  BY EscrowInvStep, NobodyLosesNext
<1> QED
  BY <1>1, <1>2, PTL DEF Spec
=============================================================================
