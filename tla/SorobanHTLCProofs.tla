------------------------- MODULE SorobanHTLCProofs --------------------------
(***************************************************************************)
(* Solvency, one claim per hashlock and the abstract hash-timelock, for    *)
(* the Stellar escrow with any number of accounts, assets and orders and   *)
(* an admin that reconfigures at any time.                                 *)
(***************************************************************************)
EXTENDS SorobanHTLC, LedgerProofs

\* Ids not handed out yet are absent from storage.
FreshIdsAbsent == \A id \in OrderIds : id >= next_order_id => orders[id] = NoOrder

\* Nothing is stored before initialize, which restarts the ids at 1.
NothingBeforeInitialize ==
    ~IsInitialised => \A id \in OrderIds : orders[id] = NoOrder

\* The inductive invariant: balances stay natural because the contract is
\* solvent, it stays solvent because a new order is written over an absent
\* entry, and initialize keeps ids fresh because it runs on an empty storage.
ContractInv == TypeOK /\ FreshIdsAbsent /\ NothingBeforeInitialize /\ Solvent

-----------------------------------------------------------------------------
(* Records.                                                                *)

\* An absent entry is none of the stored orders.
LEMMA AbsentIsNoOrder ==
    ASSUME NEW o \in OrderRecord \cup {NoOrder}
    PROVE  o = NoOrder <=> o.status = "absent"
  BY DEF OrderRecord, NoOrder

\* A funded entry of the storage is a complete order.
LEMMA FundedIsOrder ==
    ASSUME TypeOK, NEW id \in OrderIds, orders[id].status = "Funded"
    PROVE  orders[id] \in OrderRecord
  BY DEF TypeOK, NoOrder

\* What is owed for an order is a natural number.
LEMMA OwedType ==
    ASSUME TypeOK
    PROVE  \A id \in OrderIds, a \in Assets : Owed(id, a) \in Nat
<1> SUFFICES ASSUME NEW id \in OrderIds, NEW a \in Assets
             PROVE  Owed(id, a) \in Nat
  OBVIOUS
<1>1. CASE orders[id].status = "Funded"
  BY <1>1, FundedIsOrder DEF Owed, OrderRecord
<1>2. CASE orders[id].status # "Funded"
  BY <1>2 DEF Owed
<1> QED
  BY <1>1, <1>2

\* The contract holds at least what it owes for one order.
LEMMA HoldsOwed ==
    ASSUME ContractInv, NEW id \in OrderIds, NEW a \in Assets
    PROVE  Owed(id, a) \in Nat /\ balance[Contract][a] >= Owed(id, a)
<1> DEFINE f == [i \in OrderIds |-> Owed(i, a)]
<1>1. f \in [1..MaxOrders -> Nat] /\ f[id] = Owed(id, a)
  BY OwedType DEF ContractInv, OrderIds
<1>2. balance[Contract][a] >= SumTo(f, MaxOrders) /\ balance[Contract][a] \in Nat
  BY DEF ContractInv, TypeOK, Holders, Solvent, TotalOwed
<1>3. MaxOrders \in Nat /\ id \in 1..MaxOrders
  BY SorobanAssumption DEF OrderIds
<1> HIDE DEF f
<1>4. f[id] <= SumTo(f, MaxOrders) /\ SumTo(f, MaxOrders) \in Nat
  BY <1>1, <1>3, SumToBounds, SumToNat
<1>5. f[id] \in Nat
  BY <1>1, <1>3
<1> QED
  BY <1>1, <1>2, <1>4, <1>5

\* Initially the contract holds nothing and owes nothing.
LEMMA ContractInvInit == Init => ContractInv
<1> SUFFICES ASSUME Init PROVE ContractInv
  OBVIOUS
<1>1. TypeOK
  <2>1. balance \in [Holders -> [Assets -> Nat]]
    BY SorobanAssumption DEF Init, Holders
  <2> QED BY <2>1, SorobanAssumption DEF Init, TypeOK
<1>2. FreshIdsAbsent /\ NothingBeforeInitialize
  BY DEF Init, FreshIdsAbsent, NothingBeforeInitialize
<1>3. ASSUME NEW a \in Assets
      PROVE  balance[Contract][a] >= TotalOwed(a)
  <2> DEFINE f == [id \in OrderIds |-> Owed(id, a)]
  <2>1. \A i \in 1..MaxOrders : f[i] = 0
    BY DEF Init, Owed, NoOrder, OrderIds
  <2> HIDE DEF f
  <2>2. SumTo(f, MaxOrders) = 0
    BY <2>1, SumToZero, SorobanAssumption
  <2> USE DEF f
  <2>3. balance[Contract][a] = 0
    BY DEF Init, Holders
  <2> QED BY <2>2, <2>3 DEF TotalOwed
<1> QED
  BY <1>1, <1>2, <1>3 DEF ContractInv, Solvent

-----------------------------------------------------------------------------
(* Asset movements.                                                        *)

\* The payouts of claim_order and refund_order take from the contract at
\* most what it owes for the order.
LEMMA PayoutEffect ==
    ASSUME ContractInv, NEW id \in OrderIds, orders[id].status = "Funded",
           NEW payee \in Holders, NEW caller \in Accounts
    PROVE  LET b == AfterPayout(orders[id], payee, caller) IN
           /\ b \in [Holders -> [Assets -> Nat]]
           /\ \A a \in Assets : b[Contract][a] >= balance[Contract][a] - Owed(id, a)
<1> DEFINE o == orders[id]
           b1 == Transfer(balance, Contract, payee, o.asset, o.amount)
           b2 == Transfer(b1, Contract, caller, o.asset, o.safety_deposit)
           kept(a) == IF payee = Contract /\ a = o.asset THEN o.amount ELSE 0
<1>1. /\ o \in OrderRecord /\ o.asset \in Assets /\ o.amount \in Nat
      /\ o.safety_deposit \in Nat
      /\ balance \in [Holders -> [Assets -> Nat]]
  BY FundedIsOrder DEF ContractInv, TypeOK, OrderRecord
<1>2. Contract \in Holders /\ caller \in Holders /\ caller # Contract
  BY SorobanAssumption DEF Holders
<1>3. \A a \in Assets :
         /\ Owed(id, a) = IF o.asset = a THEN o.amount + o.safety_deposit ELSE 0
         /\ balance[Contract][a] >= Owed(id, a)
  BY HoldsOwed DEF Owed
<1> HIDE DEF o
<1>4. balance[Contract][o.asset] >= o.amount
  BY <1>1, <1>2, <1>3
<1>5. b1 \in [Holders -> [Assets -> Nat]]
  BY <1>1, <1>2, <1>4, TransferType
<1>6. \A a \in Assets :
        b1[Contract][a] = balance[Contract][a] + kept(a)
                          - (IF a = o.asset THEN o.amount ELSE 0)
  <2> TAKE a \in Assets
  <2>1. b1[Contract][a] = balance[Contract][a]
                  + (IF Contract = payee /\ a = o.asset THEN o.amount ELSE 0)
                  - (IF Contract = Contract /\ a = o.asset THEN o.amount ELSE 0)
    BY <1>1, <1>2 DEF Transfer
  <2> QED BY <2>1
<1>7. \A a \in Assets : kept(a) \in Nat
  BY <1>1
<1> HIDE DEF b1, kept
<1>8. b1[Contract][o.asset] >= o.safety_deposit
  BY <1>1, <1>2, <1>3, <1>6, <1>7
<1>9. b2 \in [Holders -> [Assets -> Nat]]
  BY <1>1, <1>2, <1>5, <1>8, TransferType
<1>10. ASSUME NEW a \in Assets
       PROVE  b2[Contract][a] >= balance[Contract][a] - Owed(id, a)
  <2>1. b2[Contract][a] = b1[Contract][a]
          + (IF Contract = caller /\ a = o.asset THEN o.safety_deposit ELSE 0)
          - (IF Contract = Contract /\ a = o.asset THEN o.safety_deposit ELSE 0)
    BY <1>2, <1>5 DEF Transfer
  <2>2. balance[Contract][a] \in Nat /\ kept(a) \in Nat
    BY <1>1, <1>2, <1>7
  <2> QED BY <1>1, <1>2, <1>3, <1>6, <2>1, <2>2
<1> QED
  BY <1>9, <1>10 DEF AfterPayout, b1, o

-----------------------------------------------------------------------------
(* The invariant is inductive.                                             *)

\* Rewriting one order changes what is owed in total by the change in what
\* is owed for that order.
LEMMA TotalOwedStep ==
    ASSUME TypeOK, TypeOK', NEW id \in OrderIds, NEW a \in Assets,
           \A i \in OrderIds : i # id => orders'[i] = orders[i]
    PROVE  /\ TotalOwed(a)' = TotalOwed(a) + Owed(id, a)' - Owed(id, a)
           /\ TotalOwed(a) \in Nat /\ Owed(id, a) \in Nat /\ Owed(id, a)' \in Nat
<1> DEFINE f == [i \in OrderIds |-> Owed(i, a)]
           g == [i \in OrderIds |-> Owed(i, a)']
<1>1. f \in [1..MaxOrders -> Nat]
  BY OwedType DEF OrderIds
<1>2. g \in [1..MaxOrders -> Nat]
  <2>1. (\A i \in OrderIds, x \in Assets : Owed(i, x) \in Nat)'
    <3>1. ASSUME NEW i \in OrderIds PROVE orders'[i] \in OrderRecord \cup {NoOrder}
      BY DEF TypeOK
    <3> QED BY <3>1 DEF Owed, OrderRecord, NoOrder
  <2> QED BY <2>1 DEF OrderIds
<1>3. \A i \in 1..MaxOrders : i # id => g[i] = f[i]
  BY DEF Owed, OrderIds
<1>4. f[id] = Owed(id, a) /\ g[id] = Owed(id, a)'
  OBVIOUS
<1>5. TotalOwed(a) = SumTo(f, MaxOrders) /\ TotalOwed(a)' = SumTo(g, MaxOrders)
  BY DEF TotalOwed
<1>6. id \in 1..MaxOrders /\ MaxOrders \in Nat
  BY SorobanAssumption DEF OrderIds
<1> HIDE DEF f, g
<1>7. /\ SumTo(g, MaxOrders) = SumTo(f, MaxOrders) + g[id] - f[id]
      /\ SumTo(f, MaxOrders) \in Nat /\ f[id] \in Nat /\ g[id] \in Nat
  <2>1. SumTo(g, MaxOrders) = SumTo(f, MaxOrders) + g[id] - f[id]
    BY <1>1, <1>2, <1>3, <1>6, SumToUpdate
  <2>2. SumTo(f, MaxOrders) \in Nat
    BY <1>1, <1>6, SumToNat
  <2>3. f[id] \in Nat /\ g[id] \in Nat
    BY <1>1, <1>2, <1>6
  <2> QED BY <2>1, <2>2, <2>3
<1> QED
  BY <1>4, <1>5, <1>7

\* Solvency survives a step that rewrites one order and moves the balance by
\* at least the change in what is owed for it.
LEMMA SolventStep ==
    ASSUME ContractInv, TypeOK', NEW id \in OrderIds,
           \A i \in OrderIds : i # id => orders'[i] = orders[i],
           \A a \in Assets :
              balance'[Contract][a] >= balance[Contract][a] + Owed(id, a)' - Owed(id, a)
    PROVE  Solvent'
<1>1. ASSUME NEW a \in Assets
      PROVE  balance'[Contract][a] >= TotalOwed(a)'
  <2>1. balance[Contract][a] \in Nat /\ balance'[Contract][a] \in Nat
    BY DEF ContractInv, TypeOK, Holders
  <2>2. balance[Contract][a] >= TotalOwed(a)
    BY DEF ContractInv, Solvent
  <2> QED BY <2>1, <2>2, TotalOwedStep DEF ContractInv
<1> QED
  BY <1>1 DEF Solvent

\* Solvency does not depend on the clock, the configuration or the ids.
LEMMA SolventUnchanged ==
    ASSUME Solvent, orders' = orders, balance' = balance
    PROVE  Solvent'
  BY DEF Solvent, TotalOwed, Owed

\* A successful claim or refund: a funded order leaves Funded and its two
\* payouts are made.
LEMMA SettleStep ==
    ASSUME ContractInv, IsInitialised, NEW id \in OrderIds,
           orders[id].status = "Funded",
           NEW payee \in Holders, NEW caller \in Accounts,
           NEW o \in OrderRecord, o.status # "Funded",
           orders' = [orders EXCEPT ![id] = o],
           balance' = AfterPayout(orders[id], payee, caller),
           UNCHANGED <<now, active, config, next_order_id>>
    PROVE  ContractInv'
<1>1. /\ orders' \in [OrderIds -> OrderRecord \cup {NoOrder}]
      /\ orders'[id] = o
      /\ \A i \in OrderIds : i # id => orders'[i] = orders[i]
  BY DEF ContractInv, TypeOK
<1>2. /\ balance' \in [Holders -> [Assets -> Nat]]
      /\ \A a \in Assets : balance'[Contract][a] >= balance[Contract][a] - Owed(id, a)
  BY PayoutEffect
<1>3. TypeOK'
  BY <1>1, <1>2 DEF ContractInv, TypeOK, config
<1>4. FreshIdsAbsent'
  <2>1. ~ (id >= next_order_id)
    BY DEF ContractInv, FreshIdsAbsent, NoOrder
  <2> QED BY <1>1, <2>1 DEF ContractInv, FreshIdsAbsent
<1>5. NothingBeforeInitialize'
  BY DEF NothingBeforeInitialize, IsInitialised, config
<1>6. ASSUME NEW a \in Assets
      PROVE  balance'[Contract][a] >= balance[Contract][a] + Owed(id, a)' - Owed(id, a)
  <2>1. Owed(id, a)' = 0
    BY <1>1 DEF Owed
  <2>2. Owed(id, a) \in Nat
    BY HoldsOwed
  <2>3. balance[Contract][a] \in Nat
    BY DEF ContractInv, TypeOK, Holders
  <2> QED BY <1>2, <2>1, <2>2, <2>3
<1>7. Solvent'
  BY <1>1, <1>3, <1>6, SolventStep
<1> QED
  BY <1>3, <1>4, <1>5, <1>7 DEF ContractInv

\* create_order writes a funded order that expires later than now over an
\* absent entry, and takes from the sender what the order will owe.
LEMMA CreateEffect ==
    ASSUME ContractInv, Create
    PROVE  /\ IsInitialised /\ next_order_id \in OrderIds
           /\ orders[next_order_id] = NoOrder
           /\ next_order_id' = next_order_id + 1
           /\ UNCHANGED <<now, active, config>>
           /\ balance' \in [Holders -> [Assets -> Nat]]
           /\ \E o \in OrderRecord :
                /\ o.status = "Funded" /\ o.timelock > now
                /\ orders' = [orders EXCEPT ![next_order_id] = o]
                /\ \A a \in Assets :
                     balance'[Contract][a] = balance[Contract][a] +
                        (IF a = o.asset THEN o.amount + o.safety_deposit ELSE 0)
<1>1. PICK sender \in Accounts, beneficiary \in Payees, refund_address \in Payees,
           asset \in Assets, amount \in Amounts, safety_deposit \in Deposits,
           hashlock \in Hashlocks, timelock_seconds \in Durations :
        create_order(sender, beneficiary, refund_address, asset, amount,
                     safety_deposit, hashlock, timelock_seconds)
  BY DEF Create
<1> DEFINE o == [sender |-> sender, beneficiary |-> beneficiary,
                 refund_address |-> refund_address, asset |-> asset,
                 amount |-> amount, safety_deposit |-> safety_deposit,
                 hashlock |-> hashlock, timelock |-> now + timelock_seconds,
                 finalised_at |-> 0, preimage |-> EmptyBytes,
                 status |-> "Funded"]
           total == amount + safety_deposit
<1>2. /\ amount \in Nat /\ safety_deposit \in Nat /\ now \in Nat
      /\ timelock_seconds \in Nat /\ timelock_seconds > 0
      /\ next_order_id \in OrderIds
      /\ beneficiary \in Holders /\ refund_address \in Holders
  BY <1>1, SorobanAssumption DEF create_order, ContractInv, TypeOK, OrderIds
<1>3. /\ IsInitialised /\ next_order_id' = next_order_id + 1
      /\ UNCHANGED <<now, active, config>>
      /\ balance' = Transfer(balance, sender, Contract, asset, total)
      /\ orders' = [orders EXCEPT ![next_order_id] = o]
      /\ balance[sender][asset] >= total
  BY <1>1 DEF create_order
<1>4. /\ balance \in [Holders -> [Assets -> Nat]]
      /\ sender \in Holders /\ Contract \in Holders /\ sender # Contract
  BY SorobanAssumption DEF ContractInv, TypeOK, Holders
<1>5. o \in OrderRecord /\ o.status = "Funded" /\ o.timelock > now
      /\ o.asset = asset /\ o.amount + o.safety_deposit = total
  BY <1>2 DEF OrderRecord
<1>6. orders[next_order_id] = NoOrder
  BY <1>2 DEF ContractInv, FreshIdsAbsent, OrderIds
<1>7. balance' \in [Holders -> [Assets -> Nat]]
  <2>1. total \in Nat
    BY <1>2
  <2> HIDE DEF total
  <2> QED BY <1>3, <1>4, <2>1, TransferType
<1>8. ASSUME NEW a \in Assets
      PROVE  balance'[Contract][a] = balance[Contract][a] +
                                       (IF a = asset THEN total ELSE 0)
  <2>1. balance'[Contract][a] = balance[Contract][a]
          + (IF Contract = Contract /\ a = asset THEN total ELSE 0)
          - (IF Contract = sender /\ a = asset THEN total ELSE 0)
    BY <1>3, <1>4 DEF Transfer
  <2>2. balance[Contract][a] \in Nat
    BY <1>4
  <2> QED BY <1>2, <1>4, <2>1, <2>2
<1> HIDE DEF o
<1> QED
  BY <1>2, <1>3, <1>5, <1>6, <1>7, <1>8

LEMMA CreateStep ==
    ASSUME ContractInv, Create
    PROVE  ContractInv'
<1>0. PICK id : id = next_order_id
  OBVIOUS
<1>1. /\ IsInitialised /\ id \in OrderIds /\ orders[id] = NoOrder
      /\ next_order_id' = id + 1
      /\ UNCHANGED <<now, active, config>>
      /\ balance' \in [Holders -> [Assets -> Nat]]
  BY <1>0, CreateEffect
<1>2. PICK o \in OrderRecord :
        /\ o.status = "Funded"
        /\ orders' = [orders EXCEPT ![id] = o]
        /\ \A a \in Assets :
             balance'[Contract][a] = balance[Contract][a] +
                (IF a = o.asset THEN o.amount + o.safety_deposit ELSE 0)
  BY <1>0, CreateEffect
<1>3. /\ orders' \in [OrderIds -> OrderRecord \cup {NoOrder}] /\ orders'[id] = o
      /\ \A i \in OrderIds : i # id => orders'[i] = orders[i]
  BY <1>1, <1>2 DEF ContractInv, TypeOK
<1>4. TypeOK'
  <2>1. next_order_id' \in 1..(MaxOrders + 1)
    BY <1>1, SorobanAssumption DEF OrderIds
  <2> QED BY <1>1, <1>3, <2>1 DEF ContractInv, TypeOK, config
<1>5. FreshIdsAbsent'
  BY <1>0, <1>1, <1>3 DEF ContractInv, FreshIdsAbsent, OrderIds
<1>6. NothingBeforeInitialize'
  BY <1>1 DEF NothingBeforeInitialize, IsInitialised, config
<1>7. ASSUME NEW a \in Assets
      PROVE  balance'[Contract][a] >= balance[Contract][a] + Owed(id, a)' - Owed(id, a)
  <2>1. Owed(id, a) = 0
    BY <1>1 DEF Owed, NoOrder
  <2>2. Owed(id, a)' = IF a = o.asset THEN o.amount + o.safety_deposit ELSE 0
    BY <1>2, <1>3 DEF Owed
  <2>3. balance[Contract][a] \in Nat /\ balance'[Contract][a] \in Nat
    BY <1>1 DEF ContractInv, TypeOK, Holders
  <2> QED BY <1>2, <2>1, <2>2, <2>3 DEF OrderRecord
<1>8. Solvent'
  BY <1>1, <1>3, <1>4, <1>7, SolventStep
<1> QED
  BY <1>4, <1>5, <1>6, <1>8 DEF ContractInv

\* claim_order settles a funded order no later than its timelock, with bytes
\* whose digest together with the id is the hashlock.
LEMMA ClaimEffect ==
    ASSUME ContractInv, Claim
    PROVE  \E id \in OrderIds, preimage \in Preimages, caller \in Accounts :
             /\ IsInitialised /\ orders[id].status = "Funded"
             /\ orders[id] \in OrderRecord /\ now \in Nat
             /\ now <= orders[id].timelock
             /\ Sha256(Bind(id, preimage)) = orders[id].hashlock
             /\ balance' = AfterPayout(orders[id], orders[id].beneficiary, caller)
             /\ orders' = [orders EXCEPT ![id] =
                   [orders[id] EXCEPT !.status = "Claimed", !.preimage = preimage,
                                      !.finalised_at = now]]
             /\ UNCHANGED <<now, active, config, next_order_id>>
<1>1. PICK id \in OrderIds, preimage \in Preimages \cup {EmptyBytes}, caller \in Accounts :
        claim_order(id, preimage, caller)
  BY DEF Claim
<1>2. orders[id].status = "Funded" /\ preimage \in Preimages
  BY <1>1 DEF claim_order, IsOpen
<1>3. orders[id] \in OrderRecord /\ now \in Nat /\ orders[id].timelock \in Nat
  BY <1>2, FundedIsOrder, SorobanAssumption DEF ContractInv, TypeOK, OrderRecord
<1>4. /\ IsInitialised /\ now <= orders[id].timelock
      /\ Sha256(Bind(id, preimage)) = orders[id].hashlock
      /\ balance' = AfterPayout(orders[id], orders[id].beneficiary, caller)
      /\ UNCHANGED <<now, active, config, next_order_id>>
  BY <1>1, <1>3 DEF claim_order, Expired, HashInput
<1>5. orders' = [orders EXCEPT ![id] =
                   [orders[id] EXCEPT !.status = "Claimed", !.preimage = preimage,
                                      !.finalised_at = now]]
  BY <1>1 DEF claim_order, ContractInv, TypeOK
<1> QED
  BY <1>2, <1>3, <1>4, <1>5

\* refund_order settles a funded order after its timelock.
LEMMA RefundEffect ==
    ASSUME ContractInv, Refund
    PROVE  \E id \in OrderIds, caller \in Accounts :
             /\ IsInitialised /\ orders[id].status = "Funded"
             /\ orders[id] \in OrderRecord /\ now \in Nat
             /\ now > orders[id].timelock
             /\ balance' = AfterPayout(orders[id], orders[id].refund_address, caller)
             /\ orders' = [orders EXCEPT ![id] =
                   [orders[id] EXCEPT !.status = "Refunded", !.finalised_at = now]]
             /\ UNCHANGED <<now, active, config, next_order_id>>
<1>1. PICK id \in OrderIds, caller \in Accounts : refund_order(id, caller)
  BY DEF Refund
<1>2. orders[id].status = "Funded"
  BY <1>1 DEF refund_order, IsOpen
<1>3. orders[id] \in OrderRecord /\ now \in Nat
  BY <1>2, FundedIsOrder, SorobanAssumption DEF ContractInv, TypeOK
<1>4. /\ IsInitialised /\ now > orders[id].timelock
      /\ balance' = AfterPayout(orders[id], orders[id].refund_address, caller)
      /\ UNCHANGED <<now, active, config, next_order_id>>
  BY <1>1 DEF refund_order, Expired
<1>5. orders' = [orders EXCEPT ![id] =
                   [orders[id] EXCEPT !.status = "Refunded", !.finalised_at = now]]
  BY <1>1 DEF refund_order, ContractInv, TypeOK
<1> QED
  BY <1>2, <1>3, <1>4, <1>5

LEMMA ClaimStep ==
    ASSUME ContractInv, Claim
    PROVE  ContractInv'
<1>1. PICK id \in OrderIds, preimage \in Preimages, caller \in Accounts :
        /\ IsInitialised /\ orders[id].status = "Funded"
        /\ orders[id] \in OrderRecord /\ now \in Nat
        /\ balance' = AfterPayout(orders[id], orders[id].beneficiary, caller)
        /\ orders' = [orders EXCEPT ![id] =
              [orders[id] EXCEPT !.status = "Claimed", !.preimage = preimage,
                                 !.finalised_at = now]]
        /\ UNCHANGED <<now, active, config, next_order_id>>
  BY ClaimEffect
<1> DEFINE o == [orders[id] EXCEPT !.status = "Claimed", !.preimage = preimage,
                                   !.finalised_at = now]
<1>2. o \in OrderRecord /\ o.status # "Funded" /\ orders[id].beneficiary \in Holders
  BY <1>1 DEF OrderRecord
<1> HIDE DEF o
<1>3. orders' = [orders EXCEPT ![id] = o]
  BY <1>1 DEF o
<1> QED
  BY <1>1, <1>2, <1>3, SettleStep

LEMMA RefundStep ==
    ASSUME ContractInv, Refund
    PROVE  ContractInv'
<1>1. PICK id \in OrderIds, caller \in Accounts :
        /\ IsInitialised /\ orders[id].status = "Funded"
        /\ orders[id] \in OrderRecord /\ now \in Nat
        /\ balance' = AfterPayout(orders[id], orders[id].refund_address, caller)
        /\ orders' = [orders EXCEPT ![id] =
              [orders[id] EXCEPT !.status = "Refunded", !.finalised_at = now]]
        /\ UNCHANGED <<now, active, config, next_order_id>>
  BY RefundEffect
<1> DEFINE o == [orders[id] EXCEPT !.status = "Refunded", !.finalised_at = now]
<1>2. o \in OrderRecord /\ o.status # "Funded" /\ orders[id].refund_address \in Holders
  BY <1>1 DEF OrderRecord
<1> HIDE DEF o
<1>3. orders' = [orders EXCEPT ![id] = o]
  BY <1>1 DEF o
<1> QED
  BY <1>1, <1>2, <1>3, SettleStep

\* The steps that move no funds.
Bystander == Configure \/ AdvanceTime \/ RegistryChanges \/ UNCHANGED vars

\* Configuring, waiting and the registry leave every order and balance alone.
LEMMA BystanderEffect ==
    ASSUME Bystander
    PROVE  orders' = orders /\ balance' = balance
  BY DEF Bystander, Configure, initialize, set_resolver_registry,
         clear_resolver_registry, set_min_safety_deposit, set_admin,
         AdvanceTime, RegistryChanges, vars

\* initialize restarts the ids, on a storage without orders.
LEMMA ConfigureStep ==
    ASSUME ContractInv, Configure
    PROVE  ContractInv'
<1>1. orders' = orders /\ balance' = balance
  BY BystanderEffect DEF Bystander
<1>2. Solvent'
  BY <1>1, SolventUnchanged DEF ContractInv
<1>3. ASSUME NEW a \in Accounts, NEW d \in Deposits, initialize(a, d)
      PROVE  TypeOK' /\ FreshIdsAbsent' /\ NothingBeforeInitialize'
  BY <1>3, SorobanAssumption
  DEF initialize, ContractInv, TypeOK, FreshIdsAbsent, NothingBeforeInitialize, IsInitialised, Holders
<1>4. CASE set_resolver_registry \/ clear_resolver_registry
  BY <1>2, <1>4, SorobanAssumption DEF set_resolver_registry, clear_resolver_registry,
     ContractInv, TypeOK, FreshIdsAbsent, NothingBeforeInitialize, IsInitialised
<1>5. ASSUME NEW d \in Deposits, set_min_safety_deposit(d)
      PROVE  TypeOK' /\ FreshIdsAbsent' /\ NothingBeforeInitialize'
  BY <1>5, SorobanAssumption
  DEF set_min_safety_deposit, ContractInv, TypeOK, FreshIdsAbsent, NothingBeforeInitialize, IsInitialised
<1>6. ASSUME NEW a \in Accounts, set_admin(a)
      PROVE  TypeOK' /\ FreshIdsAbsent' /\ NothingBeforeInitialize'
  BY <1>6, SorobanAssumption
  DEF set_admin, ContractInv, TypeOK, FreshIdsAbsent, NothingBeforeInitialize, IsInitialised, Holders
<1> QED
  BY <1>2, <1>3, <1>4, <1>5, <1>6 DEF Configure, ContractInv

LEMMA EnvironmentStep ==
    ASSUME ContractInv, AdvanceTime \/ RegistryChanges \/ UNCHANGED vars
    PROVE  ContractInv'
<1>1. orders' = orders /\ balance' = balance
  BY BystanderEffect DEF Bystander
<1>2. next_order_id' = next_order_id /\ UNCHANGED config
  BY DEF AdvanceTime, RegistryChanges, vars
<1>3. TypeOK'
  BY <1>2, SorobanAssumption
  DEF ContractInv, TypeOK, AdvanceTime, RegistryChanges, vars, config
<1>4. Solvent'
  BY <1>1, SolventUnchanged DEF ContractInv
<1> QED
  BY <1>1, <1>2, <1>3, <1>4
  DEF ContractInv, FreshIdsAbsent, NothingBeforeInitialize, IsInitialised, config

LEMMA ContractInvStep == ContractInv /\ [Next]_vars => ContractInv'
  BY CreateStep, ClaimStep, RefundStep, ConfigureStep, EnvironmentStep DEF Next

\* The Stellar escrow keeps its storage and every balance well typed: no
\* holder is overdrawn, whatever the admin configures.
THEOREM TypeCorrect == Spec => []TypeOK
<1>1. ContractInv => TypeOK
  BY DEF ContractInv
<1> QED
  BY <1>1, ContractInvInit, ContractInvStep, PTL DEF Spec

\* The contract always holds what it owes for the funded orders of an asset.
THEOREM ContractSolvent == Spec => []Solvent
<1>1. ContractInv => Solvent
  BY DEF ContractInv
<1> QED
  BY <1>1, ContractInvInit, ContractInvStep, PTL DEF Spec

-----------------------------------------------------------------------------
(* One claim per hashlock.                                                 *)

\* A claimed order shows bytes that hash to its hashlock with its own id.
ClaimShowsPreimage ==
    \A id \in OrderIds :
        orders[id].status = "Claimed" =>
            /\ orders[id].preimage \in Preimages
            /\ Sha256(Bind(id, orders[id].preimage)) = orders[id].hashlock

ClaimInv == ContractInv /\ ClaimShowsPreimage

LEMMA ClaimInvInit == Init => ClaimInv
  BY ContractInvInit DEF ClaimInv, ClaimShowsPreimage, Init, NoOrder

LEMMA ClaimInvStep == ClaimInv /\ [Next]_vars => ClaimInv'
<1> SUFFICES ASSUME ClaimInv, [Next]_vars PROVE ClaimShowsPreimage'
  BY ContractInvStep DEF ClaimInv
<1>0. ContractInv /\ orders \in [OrderIds -> OrderRecord \cup {NoOrder}]
  BY DEF ClaimInv, ContractInv, TypeOK
<1>1. CASE Create
  <2>1. PICK o \in OrderRecord : o.status = "Funded"
                                 /\ orders' = [orders EXCEPT ![next_order_id] = o]
    BY <1>0, <1>1, CreateEffect
  <2>2. ASSUME NEW id \in OrderIds
        PROVE  orders'[id] = orders[id] \/ orders'[id].status = "Funded"
    BY <1>0, <2>1
  <2> QED BY <2>2 DEF ClaimInv, ClaimShowsPreimage
<1>2. CASE Claim
  <2>1. PICK id \in OrderIds, preimage \in Preimages :
          /\ orders[id] \in OrderRecord
          /\ Sha256(Bind(id, preimage)) = orders[id].hashlock
          /\ orders' = [orders EXCEPT ![id] =
                [orders[id] EXCEPT !.status = "Claimed", !.preimage = preimage,
                                   !.finalised_at = now]]
    BY <1>0, <1>2, ClaimEffect
  <2>2. /\ orders'[id].preimage = preimage /\ orders'[id].hashlock = orders[id].hashlock
        /\ \A i \in OrderIds : i # id => orders'[i] = orders[i]
    BY <1>0, <2>1 DEF OrderRecord
  <2> QED BY <2>1, <2>2 DEF ClaimInv, ClaimShowsPreimage
<1>3. CASE Refund
  <2>1. PICK id \in OrderIds :
          /\ orders[id] \in OrderRecord
          /\ orders' = [orders EXCEPT ![id] =
                [orders[id] EXCEPT !.status = "Refunded", !.finalised_at = now]]
    BY <1>0, <1>3, RefundEffect
  <2>2. /\ orders'[id].status = "Refunded"
        /\ \A i \in OrderIds : i # id => orders'[i] = orders[i]
    BY <1>0, <2>1 DEF OrderRecord
  <2> QED BY <2>2 DEF ClaimInv, ClaimShowsPreimage
<1>4. CASE Bystander
  BY <1>4, BystanderEffect DEF ClaimInv, ClaimShowsPreimage
<1> QED
  BY <1>1, <1>2, <1>3, <1>4 DEF Next, Bystander

\* The id in the bytes claim_order hashes makes a secret good for one order:
\* two claimed orders never share a hashlock.
THEOREM SecretsClaimOnce == Spec => []OneClaimPerHashlock
<1>1. ClaimInv => OneClaimPerHashlock
  BY DigestAssumption DEF ClaimInv, ClaimShowsPreimage, OneClaimPerHashlock
<1> QED
  BY <1>1, ClaimInvInit, ClaimInvStep, PTL DEF Spec

-----------------------------------------------------------------------------
(* Refinement: the contract implements the abstract hash-timelock.         *)

\* The lock an order stands for in the abstract specification.
LockOf(o) ==
    IF o.status = "absent" THEN [state |-> "none", deadline |-> 0]
    ELSE [state |-> CASE o.status = "Funded" -> "open"
                      [] o.status = "Claimed" -> "claimed"
                      [] OTHER -> "refunded",
          deadline |-> o.timelock]

LEMMA HTInitMaps == Init => HT!HTInit
  BY DEF Init, HT!HTInit, HT!Unopened, Exists, NoOrder

\* create_order opens a lock, claim_order shows a preimage in time,
\* refund_order gives back later, AdvanceTime moves the clock, and every
\* other operation leaves the abstract state alone.
LEMMA HTStepMaps == ContractInv /\ [Next]_vars => [HT!HTNext]_(HT!htVars)
<1> SUFFICES ASSUME ContractInv, [Next]_vars PROVE [HT!HTNext]_(HT!htVars)
  OBVIOUS
<1> DEFINE L == [id \in OrderIds |-> LockOf(orders[id])]
           M == [id \in OrderIds |-> LockOf(orders'[id])]
<1>0. orders \in [OrderIds -> OrderRecord \cup {NoOrder}] /\ now \in Nat
  BY SorobanAssumption DEF ContractInv, TypeOK
<1>1. CASE Create
  <2>0. PICK id : id = next_order_id
    OBVIOUS
  <2>1. PICK o \in OrderRecord :
          /\ o.status = "Funded" /\ o.timelock > now
          /\ orders' = [orders EXCEPT ![id] = o]
    BY <1>1, <2>0, CreateEffect
  <2>2. id \in OrderIds /\ orders[id] = NoOrder /\ now' = now
    BY <1>1, <2>0, CreateEffect
  <2>3. L[id] = [state |-> "none", deadline |-> 0]
    BY <2>2 DEF LockOf, NoOrder
  <2>4. M[id] = [state |-> "open", deadline |-> o.timelock]
    BY <1>0, <2>1, <2>2 DEF LockOf
  <2>5. M = [L EXCEPT ![id] = [state |-> "open", deadline |-> o.timelock]]
    BY <1>0, <2>1, <2>2, <2>4
  <2>6. HT!OpenLock(id)
    BY <2>1, <2>2, <2>3, <2>4, <2>5 DEF HT!OpenLock, HT!Unopened, LockOf, Exists
  <2> QED BY <2>2, <2>6 DEF HT!HTNext
<1>2. CASE Claim
  <2>1. PICK id \in OrderIds, preimage \in Preimages :
          /\ orders[id].status = "Funded" /\ orders[id] \in OrderRecord
          /\ now <= orders[id].timelock /\ now' = now
          /\ orders' = [orders EXCEPT ![id] =
                [orders[id] EXCEPT !.status = "Claimed", !.preimage = preimage,
                                   !.finalised_at = now]]
    BY <1>2, ClaimEffect
  <2>2. L[id] = [state |-> "open", deadline |-> orders[id].timelock]
    BY <2>1 DEF LockOf
  <2>3. M[id] = [state |-> "claimed", deadline |-> orders[id].timelock]
    BY <1>0, <2>1 DEF LockOf, OrderRecord
  <2>4. M = [L EXCEPT ![id].state = "claimed"]
    <3>1. M[id] = [L[id] EXCEPT !.state = "claimed"]
      <4> HIDE DEF L, M
      <4> QED BY <2>2, <2>3
    <3>2. \A i \in OrderIds : i # id => M[i] = L[i]
      BY <1>0, <2>1
    <3>3. L = [i \in OrderIds |-> L[i]] /\ M = [i \in OrderIds |-> M[i]]
      OBVIOUS
    <3> HIDE DEF L, M
    <3> QED BY <3>1, <3>2, <3>3
  <2>5. HT!ShowPreimage(id)
    BY <2>1, <2>2, <2>4 DEF HT!ShowPreimage, LockOf, Exists
  <2> QED BY <2>5 DEF HT!HTNext
<1>3. CASE Refund
  <2>1. PICK id \in OrderIds :
          /\ orders[id].status = "Funded" /\ orders[id] \in OrderRecord
          /\ now > orders[id].timelock /\ now' = now
          /\ orders' = [orders EXCEPT ![id] =
                [orders[id] EXCEPT !.status = "Refunded", !.finalised_at = now]]
    BY <1>3, RefundEffect
  <2>2. L[id] = [state |-> "open", deadline |-> orders[id].timelock]
    BY <2>1 DEF LockOf
  <2>3. M[id] = [state |-> "refunded", deadline |-> orders[id].timelock]
    BY <1>0, <2>1 DEF LockOf, OrderRecord
  <2>4. M = [L EXCEPT ![id].state = "refunded"]
    <3>1. M[id] = [L[id] EXCEPT !.state = "refunded"]
      <4> HIDE DEF L, M
      <4> QED BY <2>2, <2>3
    <3>2. \A i \in OrderIds : i # id => M[i] = L[i]
      BY <1>0, <2>1
    <3>3. L = [i \in OrderIds |-> L[i]] /\ M = [i \in OrderIds |-> M[i]]
      OBVIOUS
    <3> HIDE DEF L, M
    <3> QED BY <3>1, <3>2, <3>3
  <2>5. HT!GiveBack(id)
    BY <2>1, <2>2, <2>4 DEF HT!GiveBack, LockOf, Exists
  <2> QED BY <2>5 DEF HT!HTNext
<1>4. CASE AdvanceTime
  <2>1. orders' = orders /\ now' = now + 1
    BY <1>4 DEF AdvanceTime
  <2> QED BY <1>0, <2>1 DEF HT!HTNext, HT!ClockMoves, Exists
<1>5. CASE Configure \/ RegistryChanges \/ UNCHANGED vars
  <2>1. orders' = orders
    BY <1>5, BystanderEffect DEF Bystander
  <2>2. now' = now
    BY <1>5 DEF Configure, initialize, set_resolver_registry,
       clear_resolver_registry, set_min_safety_deposit, set_admin, RegistryChanges, vars
  <2> QED BY <2>1, <2>2 DEF HT!htVars, Exists
<1> QED
  BY <1>1, <1>2, <1>3, <1>4, <1>5 DEF Next

\* No order of the Stellar escrow is written twice, reopened or settled on
\* the wrong side of its timelock, however the admin reconfigures it.
THEOREM ContractImplementsHashTimelock == Spec => ImplementsHashTimelock
  BY ContractInvInit, ContractInvStep, HTInitMaps, HTStepMaps, PTL
  DEF Spec, ImplementsHashTimelock, HT!HTSpec
=============================================================================
