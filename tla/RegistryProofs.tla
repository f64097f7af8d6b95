-------------------------- MODULE RegistryProofs ----------------------------
(***************************************************************************)
(* The two resolver registries under the same calls, for any number of     *)
(* resolvers and any stakes: the lists stay exact, the stakes stay backed  *)
(* and the flags never disagree in the dangerous direction.  The two       *)
(* legacy contracts, for any number of orders and escrows: they implement  *)
(* the abstract hash-timelock and hold what they owe.                      *)
(***************************************************************************)
EXTENDS MCRegistryParity, LedgerProofs, FiniteSetTheorems

-----------------------------------------------------------------------------
(* Sums of stakes.                                                         *)

\* SetToSeq lists every account exactly once.
LEMMA RosterFacts ==
    LET n == Cardinality(Accounts)
        roster == SetToSeq(Accounts)
    IN  /\ n \in Nat
        /\ roster \in [1..n -> Accounts]
        /\ \A i, j \in 1..n : roster[i] = roster[j] => i = j
        /\ \A a \in Accounts : \E i \in 1..n : roster[i] = a
<1> DEFINE n == Cardinality(Accounts)
           roster == SetToSeq(Accounts)
           Inj(f) == f \in [1..n -> Accounts] /\ IsInjective(f)
<1>1. n \in Nat /\ ExistsBijection(1..n, Accounts)
  BY ParityAssumption, FS_CardinalityType
<1>2. \E f : Inj(f)
  BY <1>1 DEF ExistsBijection, Bijection, Injection, IsInjective
<1>3. roster \in [1..n -> Accounts] /\ IsInjective(roster)
  BY <1>2 DEF SetToSeq
<1>4. IsFiniteSet(1..n) /\ Cardinality(1..n) = n
  BY <1>1, FS_Interval
<1>5. roster \in Surjection(1..n, Accounts)
  BY <1>3, <1>4, ParityAssumption, FS_Injection DEF Injection
<1> HIDE DEF roster, n
<1>6. /\ \A i, j \in 1..n : roster[i] = roster[j] => i = j
      /\ \A a \in Accounts : \E i \in 1..n : roster[i] = a
  BY <1>3, <1>5 DEF IsInjective, Surjection
<1> QED
  BY <1>1, <1>3, <1>6 DEF roster, n

\* A total is a natural number, and no stake exceeds it.
LEMMA TotalStakeBounds ==
    ASSUME NEW f \in [Accounts -> Nat]
    PROVE  TotalStake(f) \in Nat /\ \A r \in Accounts : f[r] <= TotalStake(f)
<1> DEFINE n == Cardinality(Accounts)
           roster == SetToSeq(Accounts)
           F == [i \in 1..n |-> f[roster[i]]]
<1>1. /\ n \in Nat /\ roster \in [1..n -> Accounts]
      /\ \A a \in Accounts : \E i \in 1..n : roster[i] = a
  BY RosterFacts
<1>2. TotalStake(f) = SumTo(F, n)
  BY DEF TotalStake
<1> HIDE DEF n, roster
<1>3. F \in [1..n -> Nat]
  BY <1>1
<1>4. \A i \in 1..n : F[i] = f[roster[i]]
  OBVIOUS
<1> HIDE DEF F
<1>5. SumTo(F, n) \in Nat
  BY <1>1, <1>3, SumToNat
<1>6. ASSUME NEW r \in Accounts PROVE f[r] <= SumTo(F, n)
  <2>1. PICK i \in 1..n : roster[i] = r
    BY <1>1
  <2> QED BY <1>1, <1>3, <1>4, <2>1, SumToBounds
<1> QED
  BY <1>2, <1>5, <1>6

\* Changing one stake changes the total by the difference.
LEMMA TotalStakeUpdate ==
    ASSUME NEW f \in [Accounts -> Nat], NEW g \in [Accounts -> Nat],
           NEW r \in Accounts, \A a \in Accounts : a # r => g[a] = f[a]
    PROVE  TotalStake(g) = TotalStake(f) + g[r] - f[r]
<1> DEFINE n == Cardinality(Accounts)
           roster == SetToSeq(Accounts)
           F == [i \in 1..n |-> f[roster[i]]]
           G == [i \in 1..n |-> g[roster[i]]]
<1>1. /\ n \in Nat /\ roster \in [1..n -> Accounts]
      /\ \A i, j \in 1..n : roster[i] = roster[j] => i = j
      /\ \A a \in Accounts : \E i \in 1..n : roster[i] = a
  BY RosterFacts
<1>2. TotalStake(f) = SumTo(F, n) /\ TotalStake(g) = SumTo(G, n)
  BY DEF TotalStake
<1> HIDE DEF n, roster
<1>3. PICK k \in 1..n : roster[k] = r
  BY <1>1
<1>4. /\ F \in [1..n -> Nat] /\ G \in [1..n -> Nat]
      /\ F[k] = f[r] /\ G[k] = g[r]
      /\ \A i \in 1..n : i # k => G[i] = F[i]
  BY <1>1, <1>3
<1> HIDE DEF F, G
<1>5. SumTo(G, n) = SumTo(F, n) + G[k] - F[k]
  <2>1. n \in Nat
    BY <1>1
  <2> QED BY <1>4, <2>1, SumToUpdate
<1> QED
  BY <1>2, <1>4, <1>5

\* Nobody has staked: the total is zero.
LEMMA TotalStakeZero ==
    ASSUME NEW f, \A a \in Accounts : f[a] = 0
    PROVE  TotalStake(f) = 0
<1> DEFINE n == Cardinality(Accounts)
           roster == SetToSeq(Accounts)
           F == [i \in 1..n |-> f[roster[i]]]
<1>1. n \in Nat /\ roster \in [1..n -> Accounts]
  BY RosterFacts
<1>2. TotalStake(f) = SumTo(F, n)
  BY DEF TotalStake
<1> HIDE DEF n, roster
<1>3. \A i \in 1..n : F[i] = 0
  BY <1>1
<1> HIDE DEF F
<1> QED
  BY <1>1, <1>2, <1>3, SumToZero

-----------------------------------------------------------------------------
(* Removing a resolver from the list.                                      *)

\* The swap-and-pop of _removeFromList: the last entry takes place k.
LEMMA SwapAndPop ==
    ASSUME NEW S, NEW s \in Seq(S), NEW k \in 1..Len(s)
    PROVE  LET t == SubSeq([s EXCEPT ![k] = s[Len(s)]], 1, Len(s) - 1) IN
           /\ t \in Seq(S) /\ Len(t) = Len(s) - 1
           /\ \A i \in 1..Len(t) : t[i] = IF i = k THEN s[Len(s)] ELSE s[i]
<1> DEFINE u == [s EXCEPT ![k] = s[Len(s)]]
           t == SubSeq(u, 1, Len(s) - 1)
<1>1. Len(s) \in Nat /\ Len(s) >= 1 /\ s[Len(s)] \in S
  OBVIOUS
<1>2. /\ u \in Seq(S) /\ Len(u) = Len(s)
      /\ \A i \in 1..Len(s) : u[i] = IF i = k THEN s[Len(s)] ELSE s[i]
  BY <1>1
<1> HIDE DEF u
<1>3. /\ t \in Seq(S) /\ Len(t) = Len(s) - 1
      /\ \A i \in 1..Len(t) : t[i] = u[i]
  BY <1>1, <1>2
<1> HIDE DEF t
<1>4. \A i \in 1..Len(t) : t[i] = IF i = k THEN s[Len(s)] ELSE s[i]
  BY <1>1, <1>2, <1>3
<1> QED
  BY <1>3, <1>4 DEF t, u

\* h holds the entries of s kept after each step of the rebuilding loop.
Kept(s, r, h, n) ==
    h = [i \in 0..n |-> IF i = 0 THEN <<>>
                        ELSE IF s[i] = r THEN h[i - 1] ELSE Append(h[i - 1], s[i])]

LEMMA KeptExists ==
    ASSUME NEW s, NEW r
    PROVE  \A n \in Nat : \E h : Kept(s, r, h, n)
<1> DEFINE T == {n \in Nat : \E h : Kept(s, r, h, n)}
<1>1. 0 \in T
  <2> DEFINE h == [i \in 0..0 |-> <<>>]
  <2>1. Kept(s, r, h, 0)
    BY DEF Kept
  <2> QED
    BY <2>1
<1>2. ASSUME NEW n \in Nat, n \in T
      PROVE  n + 1 \in T
  <2>1. PICK h : Kept(s, r, h, n)
    BY <1>2
  <2> DEFINE last == IF s[n + 1] = r THEN h[n] ELSE Append(h[n], s[n + 1])
             k == [i \in 0..(n + 1) |-> IF i = n + 1 THEN last ELSE h[i]]
  <2>2. \A i \in 0..n : h[i] = IF i = 0 THEN <<>>
                               ELSE IF s[i] = r THEN h[i - 1] ELSE Append(h[i - 1], s[i])
    BY <2>1 DEF Kept
  <2>3. \A i \in 0..(n + 1) :
           k[i] = IF i = 0 THEN <<>>
                  ELSE IF s[i] = r THEN k[i - 1] ELSE Append(k[i - 1], s[i])
    BY <2>2
  <2>4. Kept(s, r, k, n + 1)
    BY <2>3 DEF Kept
  <2> QED
    BY <2>4
<1>3. Nat \subseteq T
  <2> HIDE DEF T
  <2> QED BY <1>1, <1>2, SetInduction
<1> QED
  BY <1>3

\* t lists, once each, the first n entries of s other than r.
ListsWithout(t, s, r, n) ==
    /\ t \in Seq(Accounts)
    /\ \A i, j \in 1..Len(t) : t[i] = t[j] => i = j
    /\ \A i \in 1..Len(t) : \E j \in 1..n : t[i] = s[j] /\ s[j] # r
    /\ \A j \in 1..n : s[j] # r => \E i \in 1..Len(t) : t[i] = s[j]

\* The loop of unregister on Stellar keeps every other resolver, once.
LEMMA WithoutFacts ==
    ASSUME list \in Seq(Accounts), NEW r \in Accounts,
           \A i, j \in 1..Len(list) : list[i] = list[j] => i = j
    PROVE  ListsWithout(Xlm!ListWithout(r), list, r, Len(list))
<1> DEFINE h == CHOOSE h : Kept(list, r, h, Len(list))
           T == {n \in Nat : n <= Len(list) => ListsWithout(h[n], list, r, n)}
<1>1. Len(list) \in Nat
  OBVIOUS
<1>2. Kept(list, r, h, Len(list))
  BY <1>1, KeptExists
<1>3. Xlm!ListWithout(r) = h[Len(list)]
  BY DEF Xlm!ListWithout, Kept
<1> HIDE DEF h
<1>4. \A i \in 0..Len(list) :
        h[i] = IF i = 0 THEN <<>>
               ELSE IF list[i] = r THEN h[i - 1] ELSE Append(h[i - 1], list[i])
  BY <1>2 DEF Kept
<1>5. 0 \in T
  <2>1. h[0] = <<>>
    BY <1>1, <1>4
  <2>2. <<>> \in Seq(Accounts) /\ Len(<<>>) = 0 /\ 1..0 = {}
    OBVIOUS
  <2>3. ListsWithout(<<>>, list, r, 0)
    BY <2>2 DEF ListsWithout
  <2> QED BY <2>1, <2>3
<1>6. ASSUME NEW n \in Nat, n \in T
      PROVE  n + 1 \in T
  <2> SUFFICES ASSUME n + 1 <= Len(list) PROVE ListsWithout(h[n + 1], list, r, n + 1)
    OBVIOUS
  <2>1. ListsWithout(h[n], list, r, n)
    BY <1>1, <1>6
  <2>2. n + 1 \in 1..Len(list) /\ list[n + 1] \in Accounts
    BY <1>1
  <2>3. h[n + 1] = IF list[n + 1] = r THEN h[n] ELSE Append(h[n], list[n + 1])
    BY <1>1, <1>4, <2>2
  <2>4. CASE list[n + 1] = r
    BY <2>1, <2>2, <2>3, <2>4 DEF ListsWithout
  <2>5. CASE list[n + 1] # r
    <3> DEFINE t == h[n]
               u == Append(t, list[n + 1])
    <3>1. /\ t \in Seq(Accounts) /\ Len(t) \in Nat
          /\ \A i \in 1..Len(t) : \E j \in 1..n : t[i] = list[j] /\ list[j] # r
          /\ \A i, j \in 1..Len(t) : t[i] = t[j] => i = j
          /\ \A j \in 1..n : list[j] # r => \E i \in 1..Len(t) : t[i] = list[j]
      BY <2>1 DEF ListsWithout
    <3> HIDE DEF t
    <3>2. /\ u \in Seq(Accounts) /\ Len(u) = Len(t) + 1
          /\ u[Len(t) + 1] = list[n + 1]
          /\ \A i \in 1..Len(t) : u[i] = t[i]
      BY <2>2, <3>1
    <3> HIDE DEF u
    <3>3. \A i \in 1..Len(t) : t[i] # list[n + 1]
      BY <2>2, <3>1
    <3>4. \A i, j \in 1..Len(u) : u[i] = u[j] => i = j
      <4> TAKE i, j \in 1..Len(u)
      <4>1. CASE i \in 1..Len(t) /\ j \in 1..Len(t)
        BY <3>1, <3>2, <4>1
      <4>2. CASE i = Len(t) + 1 \/ j = Len(t) + 1
        <5>1. \A m \in 1..Len(t) : u[m] # u[Len(t) + 1]
          BY <3>2, <3>3
        <5>2. \A m \in 1..Len(u) : m \in 1..Len(t) \/ m = Len(t) + 1
          BY <3>1, <3>2
        <5> QED BY <4>2, <5>1, <5>2
      <4> QED BY <3>1, <3>2, <4>1, <4>2
    <3>5. \A i \in 1..Len(u) : \E j \in 1..(n + 1) : u[i] = list[j] /\ list[j] # r
      <4> TAKE i \in 1..Len(u)
      <4>1. CASE i = Len(t) + 1
        BY <2>5, <3>2, <4>1
      <4>2. CASE i \in 1..Len(t)
        BY <3>1, <3>2, <4>2
      <4> QED BY <3>1, <3>2, <4>1, <4>2
    <3>6. \A j \in 1..(n + 1) : list[j] # r => \E i \in 1..Len(u) : u[i] = list[j]
      <4> TAKE j \in 1..(n + 1)
      <4>1. CASE j = n + 1
        BY <3>1, <3>2, <4>1
      <4>2. CASE j \in 1..n
        BY <3>1, <3>2, <4>2
      <4> QED BY <4>1, <4>2
    <3>7. h[n + 1] = u
      BY <2>3, <2>5 DEF u, t
    <3> QED BY <3>2, <3>4, <3>5, <3>6, <3>7 DEF ListsWithout
  <2> QED BY <2>4, <2>5
<1>7. Nat \subseteq T
  <2> HIDE DEF T
  <2> QED BY <1>5, <1>6, SetInduction
<1> QED
  BY <1>1, <1>3, <1>7

-----------------------------------------------------------------------------
(* The inductive invariant.                                                *)

\* Both registries know the same resolvers, and once the Stellar one is
\* initialised they agree on the minimum stake and on who gets a slash.
InSync ==
    /\ \A r \in Accounts : info[r].registered <=> resolverIndex[r] # 0
    /\ Xlm!IsInitialised => min_stake = minStake /\ slash_beneficiary = slashBeneficiary
    /\ ~Xlm!IsInitialised => \A r \in Accounts : ~info[r].registered

\* A payout finds its funds because the stakes are backed, the stakes are
\* backed because an unlisted resolver has none, and the flags agree only as
\* long as both registries compare with the same minimum.
ParityInv ==
    TypeOK /\ ListsExact /\ StakesBacked /\ StellarFlagImpliesEthereumFlag /\ InSync

StakeOf == [r \in Accounts |-> resolvers[r].stake]

LEMMA ParityInvInit == Init => ParityInv
<1> SUFFICES ASSUME Init PROVE ParityInv
  OBVIOUS
<1> USE ParityAssumption
<1>1. TypeOK
  <2>1. <<>> \in Seq(Accounts)
    OBVIOUS
  <2> QED BY <2>1 DEF Init, Eth!Init, Xlm!Init, TypeOK, Eth!TypeOK, Xlm!TypeOK, Eth!NoInfo, Xlm!NoInfo
<1>2. ListsExact
  <2>1. Len(<<>>) = 0 /\ 1..0 = {} /\ DOMAIN <<>> = {}
    OBVIOUS
  <2> QED
    BY <2>1 DEF Init, Eth!Init, Xlm!Init, ListsExact, Eth!ListMatchesIndex,
       Xlm!ListMatchesEntries, Xlm!IsInjective, Eth!NoInfo, Xlm!NoInfo
<1>3. StakesBacked
  <2>1. \A a \in Accounts : StakeOf[a] = 0
    BY DEF Init, Eth!Init, Eth!NoInfo, StakeOf
  <2>2. TotalStake(StakeOf) = 0
    BY <2>1, TotalStakeZero
  <2> QED BY <2>2 DEF Init, Eth!Init, Xlm!Init, StakesBacked, StakeOf, Eth!NoInfo, Xlm!NoInfo
<1>4. StellarFlagImpliesEthereumFlag /\ InSync
  BY DEF Init, Eth!Init, Xlm!Init, StellarFlagImpliesEthereumFlag, InSync, Xlm!is_active,
     Xlm!NoInfo, Xlm!IsInitialised
<1> QED
  BY <1>1, <1>2, <1>3, <1>4 DEF ParityInv

-----------------------------------------------------------------------------
(* Moving stake.                                                           *)

\* The registry can pay back any one stake, on both chains alike.
LEMMA StakeFacts ==
    ASSUME ParityInv
    PROVE  /\ StakeOf \in [Accounts -> Nat]
           /\ ethTokens \in [Accounts \cup {Registry} -> Nat]
           /\ ethTokens[Registry] = TotalStake(StakeOf) /\ xlmTokens = ethTokens
           /\ \A r \in Accounts : /\ info[r].stake = resolvers[r].stake
                                  /\ resolvers[r].stake \in Nat
                                  /\ resolvers[r].stake <= ethTokens[Registry]
<1>1. /\ StakeOf \in [Accounts -> Nat]
      /\ ethTokens \in [Accounts \cup {Registry} -> Nat]
      /\ ethTokens[Registry] = TotalStake(StakeOf) /\ xlmTokens = ethTokens
      /\ \A r \in Accounts : /\ info[r].stake = resolvers[r].stake
                             /\ resolvers[r].stake \in Nat
                             /\ StakeOf[r] = resolvers[r].stake
  BY DEF ParityInv, TypeOK, Eth!TypeOK, StakesBacked, StakeOf
<1>2. \A r \in Accounts : StakeOf[r] <= TotalStake(StakeOf)
  BY <1>1, TotalStakeBounds
<1> QED
  BY <1>1, <1>2

\* A payment that does not overdraw moves exactly its amount.
LEMMA PayFacts ==
    ASSUME NEW H, ethTokens \in [H -> Nat], NEW from \in H, NEW to \in H, from # to,
           NEW amount \in Nat, ethTokens[from] >= amount
    PROVE  /\ Eth!Pay(from, to, amount) \in [H -> Nat]
           /\ Eth!Pay(from, to, amount)[to] = ethTokens[to] + amount
           /\ Eth!Pay(from, to, amount)[from] = ethTokens[from] - amount
<1>1. ASSUME NEW h \in H
      PROVE  ethTokens[h] + (IF h = to THEN amount ELSE 0)
                          - (IF h = from THEN amount ELSE 0) \in Nat
  <2>1. ethTokens[h] \in Nat
    OBVIOUS
  <2>2. CASE h = from
    BY <2>1, <2>2
  <2>3. CASE h # from
    BY <2>1, <2>3
  <2> QED BY <2>2, <2>3
<1>2. Eth!Pay(from, to, amount) =
        [h \in H |-> ethTokens[h] + (IF h = to THEN amount ELSE 0)
                                  - (IF h = from THEN amount ELSE 0)]
  BY DEF Eth!Pay
<1>3. ethTokens[from] \in Nat /\ ethTokens[to] \in Nat
  OBVIOUS
<1> QED
  BY <1>1, <1>2, <1>3

\* Stakes stay backed when one of them and the registry's balance change by
\* the same amount, on both chains.
LEMMA BackedStep ==
    ASSUME ParityInv, TypeOK', NEW r \in Accounts,
           \A a \in Accounts : a # r => resolvers'[a] = resolvers[a] /\ info'[a] = info[a],
           info'[r].stake = resolvers'[r].stake,
           xlmTokens' = ethTokens',
           ethTokens'[Registry] = ethTokens[Registry] + resolvers'[r].stake - resolvers[r].stake
    PROVE  StakesBacked'
<1> DEFINE f == StakeOf
           g == [a \in Accounts |-> resolvers'[a].stake]
<1>1. f \in [Accounts -> Nat] /\ f[r] = resolvers[r].stake
  BY StakeFacts DEF StakeOf
<1>2. g \in [Accounts -> Nat] /\ g[r] = resolvers'[r].stake
  BY DEF TypeOK, Eth!TypeOK
<1>3. \A a \in Accounts : a # r => g[a] = f[a]
  BY DEF StakeOf
<1> HIDE DEF f, g
<1>4. TotalStake(g) = TotalStake(f) + g[r] - f[r]
  BY <1>1, <1>2, <1>3, TotalStakeUpdate
<1>5. ethTokens'[Registry] = TotalStake(g)
  BY <1>1, <1>2, <1>4, StakeFacts DEF f
<1>6. \A a \in Accounts : resolvers'[a].stake = info'[a].stake
  BY StakeFacts
<1> QED
  BY <1>5, <1>6 DEF StakesBacked, TotalStake, g

\* What a resolver pays in arrives at the registry, on both chains alike.
LEMMA PayInFacts ==
    ASSUME ParityInv, NEW r \in Accounts, NEW amount \in Nat, ethTokens[r] >= amount,
           ethTokens' = Eth!Pay(r, Registry, amount),
           xlmTokens' = Xlm!Pay(r, Registry, amount)
    PROVE  /\ xlmTokens' = ethTokens' /\ ethTokens' \in [Accounts \cup {Registry} -> Nat]
           /\ ethTokens'[Registry] = ethTokens[Registry] + amount
<1> DEFINE H == Accounts \cup {Registry}
<1>1. xlmTokens' = ethTokens'
  BY StakeFacts DEF Eth!Pay, Xlm!Pay
<1>2. ethTokens \in [H -> Nat] /\ r \in H /\ Registry \in H /\ r # Registry
  BY StakeFacts, ParityAssumption
<1> HIDE DEF H
<1>3. ethTokens' \in [H -> Nat] /\ ethTokens'[Registry] = ethTokens[Registry] + amount
  BY <1>2, PayFacts
<1> QED
  BY <1>1, <1>3 DEF H

\* What the registry pays out leaves it, on both chains alike.
LEMMA PayOutFacts ==
    ASSUME ParityInv, NEW to \in Accounts, NEW amount \in Nat,
           ethTokens[Registry] >= amount,
           ethTokens' = Eth!Pay(Registry, to, amount),
           xlmTokens' = Xlm!Pay(Registry, to, amount)
    PROVE  /\ xlmTokens' = ethTokens' /\ ethTokens' \in [Accounts \cup {Registry} -> Nat]
           /\ ethTokens'[Registry] = ethTokens[Registry] - amount
<1> DEFINE H == Accounts \cup {Registry}
<1>1. xlmTokens' = ethTokens'
  BY StakeFacts DEF Eth!Pay, Xlm!Pay
<1>2. ethTokens \in [H -> Nat] /\ to \in H /\ Registry \in H /\ to # Registry
  BY StakeFacts, ParityAssumption
<1> HIDE DEF H
<1>3. ethTokens' \in [H -> Nat] /\ ethTokens'[Registry] = ethTokens[Registry] - amount
  BY <1>2, PayFacts
<1> QED
  BY <1>1, <1>3 DEF H

\* What the invariant says of the lists, without the library's operators.
LEMMA ListFacts ==
    ASSUME ParityInv
    PROVE  /\ resolverList \in Seq(Accounts) /\ list \in Seq(Accounts)
           /\ Len(resolverList) \in Nat /\ Len(list) \in Nat
           /\ DOMAIN list = 1..Len(list)
           /\ \A i \in 1..Len(resolverList) : resolverIndex[resolverList[i]] = i
           /\ \A a \in Accounts :
                IF resolverIndex[a] = 0 THEN resolvers[a] = Eth!NoInfo
                ELSE /\ resolverIndex[a] \in 1..Len(resolverList)
                     /\ resolverList[resolverIndex[a]] = a
           /\ \A i, j \in 1..Len(list) : list[i] = list[j] => i = j
           /\ {list[i] : i \in 1..Len(list)} = {a \in Accounts : info[a].registered}
<1>1. /\ resolverList \in Seq(Accounts) /\ list \in Seq(Accounts)
      /\ resolverIndex \in [Accounts -> Nat]
  BY DEF ParityInv, TypeOK, Eth!TypeOK, Xlm!TypeOK
<1>2. /\ Len(resolverList) \in Nat /\ Len(list) \in Nat /\ DOMAIN list = 1..Len(list)
  BY <1>1
<1>3. Eth!ListMatchesIndex /\ Xlm!ListMatchesEntries
  BY DEF ParityInv, ListsExact
<1>4. /\ \A i, j \in 1..Len(list) : list[i] = list[j] => i = j
      /\ {list[i] : i \in 1..Len(list)} = {a \in Accounts : info[a].registered}
  BY <1>2, <1>3 DEF Xlm!ListMatchesEntries, Xlm!IsInjective
<1>5. /\ \A i \in 1..Len(resolverList) : resolverIndex[resolverList[i]] = i
      /\ \A a \in Accounts :
           IF resolverIndex[a] = 0 THEN resolvers[a] = Eth!NoInfo
           ELSE /\ resolverIndex[a] <= Len(resolverList)
                /\ resolverList[resolverIndex[a]] = a
  BY <1>3 DEF Eth!ListMatchesIndex
<1>6. \A a \in Accounts : resolverIndex[a] \in Nat
  BY <1>1
<1> QED
  BY <1>1, <1>2, <1>4, <1>5, <1>6

-----------------------------------------------------------------------------
(* One lemma per call.                                                     *)

LEMMA RegisterStep ==
    ASSUME ParityInv, Register
    PROVE  ParityInv'
<1>1. PICK r \in Accounts, s \in Stakes : Eth!register(r, s) /\ Xlm!register(r, s)
  BY DEF Register
<1> DEFINE n == Len(resolverList) + 1
<1>2. /\ s \in Nat /\ r \in Accounts \cup {Registry} /\ r # Registry
      /\ Registry \in Accounts \cup {Registry}
  BY ParityAssumption
<1>3. /\ resolvers \in [Accounts -> [stake : Nat, active : BOOLEAN]]
      /\ info \in [Accounts -> [registered : BOOLEAN, stake : Nat, active : BOOLEAN]]
      /\ resolverList \in Seq(Accounts) /\ list \in Seq(Accounts)
      /\ resolverIndex \in [Accounts -> Nat] /\ Len(resolverList) \in Nat
  BY ListFacts DEF ParityInv, TypeOK, Eth!TypeOK, Xlm!TypeOK
<1>4. /\ resolverIndex[r] = 0 /\ ~info[r].registered /\ Xlm!IsInitialised
      /\ ethTokens[r] >= s
      /\ ethTokens' = Eth!Pay(r, Registry, s) /\ xlmTokens' = Xlm!Pay(r, Registry, s)
      /\ resolvers' = [resolvers EXCEPT ![r] = [stake |-> s, active |-> TRUE]]
      /\ info' = [info EXCEPT ![r] = [registered |-> TRUE, stake |-> s, active |-> TRUE]]
      /\ resolverList' = Append(resolverList, r) /\ list' = Append(list, r)
      /\ resolverIndex' = [resolverIndex EXCEPT ![r] = Len(resolverList')]
      /\ UNCHANGED <<minStake, slashBeneficiary, admin, min_stake, slash_beneficiary>>
  BY <1>1 DEF Eth!register, Xlm!register
<1>5. /\ resolverList' \in Seq(Accounts) /\ Len(resolverList') = n
      /\ resolverList'[n] = r
      /\ \A i \in 1..Len(resolverList) : resolverList'[i] = resolverList[i]
  BY <1>3, <1>4
<1>6. /\ resolverIndex' \in [Accounts -> Nat] /\ resolverIndex'[r] = n
      /\ \A a \in Accounts : a # r => resolverIndex'[a] = resolverIndex[a]
  BY <1>3, <1>4, <1>5
<1>7. /\ resolvers'[r] = [stake |-> s, active |-> TRUE]
      /\ info'[r] = [registered |-> TRUE, stake |-> s, active |-> TRUE]
      /\ \A a \in Accounts : a # r => resolvers'[a] = resolvers[a] /\ info'[a] = info[a]
  BY <1>3, <1>4
<1>8. /\ xlmTokens' = ethTokens' /\ ethTokens' \in [Accounts \cup {Registry} -> Nat]
      /\ ethTokens'[Registry] = ethTokens[Registry] + s
  BY <1>2, <1>4, PayInFacts
<1>9. TypeOK'
  <2>1. Eth!TypeOK'
    BY <1>2, <1>3, <1>4, <1>5, <1>6, <1>8 DEF ParityInv, TypeOK, Eth!TypeOK
  <2>2. list' \in Seq(Accounts)
    BY <1>3, <1>4
  <2>3. Xlm!TypeOK'
    BY <1>2, <1>3, <1>4, <1>8, <2>2 DEF ParityInv, TypeOK, Xlm!TypeOK
  <2> QED BY <2>1, <2>3 DEF TypeOK
<1>10. StakesBacked'
  <2>1. resolvers[r] = Eth!NoInfo
    BY <1>4 DEF ParityInv, ListsExact, Eth!ListMatchesIndex
  <2>2. resolvers[r].stake = 0 /\ resolvers'[r].stake = s /\ info'[r].stake = s
    BY <1>7, <2>1 DEF Eth!NoInfo
  <2>3. ethTokens'[Registry] = ethTokens[Registry] + resolvers'[r].stake - resolvers[r].stake
    BY <1>2, <1>8, <2>2, StakeFacts
  <2> QED BY <1>7, <1>8, <1>9, <2>2, <2>3, BackedStep
<1>11. Eth!ListMatchesIndex'
  <2>1. /\ \A i \in 1..Len(resolverList) : resolverIndex[resolverList[i]] = i
        /\ \A a \in Accounts :
             IF resolverIndex[a] = 0 THEN resolvers[a] = Eth!NoInfo
             ELSE /\ resolverIndex[a] \in 1..Len(resolverList)
                  /\ resolverList[resolverIndex[a]] = a
    BY ListFacts
  <2>2. ASSUME NEW i \in 1..Len(resolverList')
        PROVE  resolverIndex'[resolverList'[i]] = i
    <3>1. CASE i = n
      BY <1>5, <1>6, <3>1
    <3>2. CASE i \in 1..Len(resolverList)
      <4>1. resolverList[i] \in Accounts /\ resolverList[i] # r
        BY <1>3, <1>4, <2>1, <3>2
      <4> QED BY <1>5, <1>6, <2>1, <3>2, <4>1
    <3> QED BY <1>3, <1>5, <3>1, <3>2
  <2>3. ASSUME NEW a \in Accounts
        PROVE  IF resolverIndex'[a] = 0 THEN resolvers'[a] = Eth!NoInfo
               ELSE /\ resolverIndex'[a] <= Len(resolverList')
                    /\ resolverList'[resolverIndex'[a]] = a
    <3>1. CASE a = r
      BY <1>3, <1>5, <1>6, <3>1
    <3>2. CASE a # r /\ resolverIndex[a] = 0
      BY <1>6, <1>7, <2>1, <3>2
    <3>3. CASE a # r /\ resolverIndex[a] # 0
      <4>1. resolverIndex[a] \in 1..Len(resolverList) /\ resolverIndex'[a] = resolverIndex[a]
            /\ resolverList[resolverIndex[a]] = a
        BY <1>6, <2>1, <3>3
      <4>2. resolverIndex[a] # 0 /\ resolverIndex[a] <= n
        BY <1>3, <4>1
      <4>3. resolverList'[resolverIndex[a]] = a
        BY <1>5, <4>1
      <4> QED BY <1>5, <4>1, <4>2, <4>3
    <3> QED BY <3>1, <3>2, <3>3
  <2> QED BY <2>2, <2>3 DEF Eth!ListMatchesIndex, Eth!NoInfo
<1>12. Xlm!ListMatchesEntries'
  <2>1. /\ \A i, j \in 1..Len(list) : list[i] = list[j] => i = j
        /\ {list[i] : i \in 1..Len(list)} = {a \in Accounts : info[a].registered}
    BY ListFacts
  <2>2. /\ Len(list') = Len(list) + 1 /\ list'[Len(list) + 1] = r
        /\ \A i \in 1..Len(list) : list'[i] = list[i]
        /\ Len(list) \in Nat /\ DOMAIN list' = 1..(Len(list) + 1)
    BY <1>3, <1>4
  <2>3. \A i \in 1..Len(list) : list[i] # r
    BY <1>4, <2>1
  <2>4. \A i \in 1..(Len(list) + 1) : i \in 1..Len(list) \/ i = Len(list) + 1
    BY <2>2
  <2>5. \A i, j \in 1..(Len(list) + 1) : list'[i] = list'[j] => i = j
    BY <2>1, <2>2, <2>3, <2>4
  <2>6. {list'[i] : i \in 1..(Len(list) + 1)} = {list[i] : i \in 1..Len(list)} \cup {r}
    BY <2>2, <2>4
  <2>7. {a \in Accounts : info'[a].registered}
          = {a \in Accounts : info[a].registered} \cup {r}
    BY <1>7
  <2> QED BY <2>1, <2>2, <2>5, <2>6, <2>7 DEF Xlm!ListMatchesEntries, Xlm!IsInjective
<1>13. StellarFlagImpliesEthereumFlag'
  BY <1>7 DEF ParityInv, StellarFlagImpliesEthereumFlag, Xlm!is_active
<1>14. InSync'
  <2>1. n # 0
    BY <1>3
  <2> QED BY <1>4, <1>6, <1>7, <2>1 DEF ParityInv, InSync, Xlm!IsInitialised
<1> QED
  BY <1>9, <1>10, <1>11, <1>12, <1>13, <1>14 DEF ParityInv, ListsExact

\* A change of stakes and flags only leaves lists and indices alone.
LEMMA SameLists ==
    ASSUME ParityInv, NEW r \in Accounts, resolverIndex[r] # 0,
           \A a \in Accounts : a # r => resolvers'[a] = resolvers[a],
           \A a \in Accounts : info'[a].registered = info[a].registered,
           UNCHANGED <<resolverList, resolverIndex, list>>
    PROVE  ListsExact'
<1>1. Eth!ListMatchesIndex'
  BY DEF ParityInv, ListsExact, Eth!ListMatchesIndex, Eth!NoInfo
<1>2. Xlm!ListMatchesEntries'
  BY DEF ParityInv, ListsExact, Xlm!ListMatchesEntries, Xlm!IsInjective
<1> QED
  BY <1>1, <1>2 DEF ListsExact

LEMMA IncreaseStakeStep ==
    ASSUME ParityInv, IncreaseStake
    PROVE  ParityInv'
<1>1. PICK r \in Accounts, s \in Stakes : Eth!increaseStake(r, s) /\ Xlm!increase_stake(r, s)
  BY DEF IncreaseStake
<1> DEFINE stake == resolvers[r].stake + s
<1>2. /\ s \in Nat /\ r \in Accounts \cup {Registry} /\ r # Registry
      /\ Registry \in Accounts \cup {Registry} /\ resolvers[r].stake \in Nat
  BY ParityAssumption, StakeFacts
<1>3. /\ resolvers \in [Accounts -> [stake : Nat, active : BOOLEAN]]
      /\ info \in [Accounts -> [registered : BOOLEAN, stake : Nat, active : BOOLEAN]]
      /\ minStake \in Nat
  BY DEF ParityInv, TypeOK, Eth!TypeOK, Xlm!TypeOK
<1>4. /\ resolverIndex[r] # 0 /\ Xlm!IsInitialised /\ ethTokens[r] >= s
      /\ ethTokens' = Eth!Pay(r, Registry, s) /\ xlmTokens' = Xlm!Pay(r, Registry, s)
      /\ resolvers' = [resolvers EXCEPT ![r].stake = stake,
                         ![r].active = Eth!Reactivated(resolvers[r], stake)]
      /\ info' = [info EXCEPT ![r].stake = @ + s]
      /\ UNCHANGED <<minStake, slashBeneficiary, resolverList, resolverIndex,
                     admin, min_stake, slash_beneficiary, list>>
  BY <1>1 DEF Eth!increaseStake, Xlm!increase_stake
<1>5. /\ resolvers' \in [Accounts -> [stake : Nat, active : BOOLEAN]]
      /\ resolvers'[r].stake = stake
      /\ resolvers[r].active => resolvers'[r].active
      /\ \A a \in Accounts : a # r => resolvers'[a] = resolvers[a]
  <2> DEFINE flag == Eth!Reactivated(resolvers[r], stake)
  <2>1. flag \in BOOLEAN /\ (resolvers[r].active => flag) /\ stake \in Nat
    BY <1>2 DEF Eth!Reactivated
  <2> HIDE DEF flag, stake
  <2>2. resolvers' = [resolvers EXCEPT ![r].stake = stake, ![r].active = flag]
    BY <1>4 DEF flag
  <2> QED BY <1>3, <2>1, <2>2
<1>6. /\ info' \in [Accounts -> [registered : BOOLEAN, stake : Nat, active : BOOLEAN]]
      /\ info'[r].stake = stake /\ info'[r].active = info[r].active
      /\ info'[r].registered = info[r].registered
      /\ \A a \in Accounts : a # r => info'[a] = info[a]
  BY <1>2, <1>3, <1>4, StakeFacts
<1>7. /\ xlmTokens' = ethTokens' /\ ethTokens' \in [Accounts \cup {Registry} -> Nat]
      /\ ethTokens'[Registry] = ethTokens[Registry] + s
  BY <1>2, <1>4, PayInFacts
<1>8. TypeOK'
  BY <1>4, <1>5, <1>6, <1>7 DEF ParityInv, TypeOK, Eth!TypeOK, Xlm!TypeOK
<1>9. StakesBacked'
  <2>1. ethTokens'[Registry] = ethTokens[Registry] + resolvers'[r].stake - resolvers[r].stake
    BY <1>2, <1>5, <1>7, StakeFacts
  <2>2. info'[r].stake = resolvers'[r].stake
    BY <1>5, <1>6
  <2> QED BY <1>5, <1>6, <1>7, <1>8, <2>1, <2>2, BackedStep
<1>10. ListsExact'
  BY <1>4, <1>5, <1>6, SameLists
<1>11. StellarFlagImpliesEthereumFlag'
  BY <1>5, <1>6 DEF ParityInv, StellarFlagImpliesEthereumFlag, Xlm!is_active
<1>12. InSync'
  BY <1>4, <1>6 DEF ParityInv, InSync, Xlm!IsInitialised
<1> QED
  BY <1>8, <1>9, <1>10, <1>11, <1>12 DEF ParityInv

LEMMA SlashStep ==
    ASSUME ParityInv, Slash
    PROVE  ParityInv'
<1>1. PICK r \in Accounts, s \in Stakes : Eth!slash(r, s) /\ Xlm!slash(r, s)
  BY DEF Slash
<1> DEFINE take == Eth!SlashTake(resolvers[r], s)
           left == resolvers[r].stake - take
<1>2. /\ s \in Nat /\ resolvers[r].stake \in Nat /\ info[r].stake = resolvers[r].stake
      /\ resolvers[r].stake <= ethTokens[Registry] /\ ethTokens[Registry] \in Nat
  BY ParityAssumption, StakeFacts
<1>3. /\ resolvers \in [Accounts -> [stake : Nat, active : BOOLEAN]]
      /\ info \in [Accounts -> [registered : BOOLEAN, stake : Nat, active : BOOLEAN]]
      /\ minStake \in Nat /\ slashBeneficiary \in Accounts
  BY DEF ParityInv, TypeOK, Eth!TypeOK, Xlm!TypeOK
<1>4. take \in Nat /\ take <= resolvers[r].stake /\ left \in Nat
  BY <1>2 DEF Eth!SlashTake
<1>5. Xlm!SlashTake(r, s) = take /\ Eth!StakeAfterSlash(resolvers[r], s) = left
  BY <1>2 DEF Eth!SlashTake, Xlm!SlashTake, Eth!StakeAfterSlash
<1> HIDE DEF take
<1>6. /\ resolverIndex[r] # 0 /\ Xlm!IsInitialised
      /\ ethTokens' = Eth!Pay(Registry, slashBeneficiary, take)
      /\ xlmTokens' = Xlm!Pay(Registry, slash_beneficiary, take)
      /\ resolvers' = [resolvers EXCEPT ![r].stake = left,
                         ![r].active = IF left < minStake THEN FALSE ELSE @]
      /\ info' = [info EXCEPT ![r].stake = left,
                         ![r].active = IF left < min_stake THEN FALSE ELSE info[r].active]
      /\ UNCHANGED <<minStake, slashBeneficiary, resolverList, resolverIndex,
                     admin, min_stake, slash_beneficiary, list>>
  BY <1>1, <1>2, <1>5 DEF Eth!slash, Xlm!slash, Xlm!ActiveAfterSlash, take
<1>7. min_stake = minStake /\ slash_beneficiary = slashBeneficiary
  BY <1>6 DEF ParityInv, InSync
<1> HIDE DEF left
<1>8. /\ resolvers' \in [Accounts -> [stake : Nat, active : BOOLEAN]]
      /\ resolvers'[r].stake = left
      /\ resolvers'[r].active = IF left < minStake THEN FALSE ELSE resolvers[r].active
      /\ \A a \in Accounts : a # r => resolvers'[a] = resolvers[a]
  BY <1>3, <1>4, <1>6
<1>9. /\ info' \in [Accounts -> [registered : BOOLEAN, stake : Nat, active : BOOLEAN]]
      /\ info'[r].stake = left /\ info'[r].registered = info[r].registered
      /\ info'[r].active = IF left < minStake THEN FALSE ELSE info[r].active
      /\ \A a \in Accounts : a # r => info'[a] = info[a]
  BY <1>3, <1>4, <1>6, <1>7
<1>10. /\ xlmTokens' = ethTokens' /\ ethTokens' \in [Accounts \cup {Registry} -> Nat]
       /\ ethTokens'[Registry] = ethTokens[Registry] - take
  <2>1. ethTokens[Registry] >= take
    BY <1>2, <1>4
  <2> QED BY <1>3, <1>4, <1>6, <1>7, <2>1, PayOutFacts
<1>11. TypeOK'
  BY <1>6, <1>8, <1>9, <1>10 DEF ParityInv, TypeOK, Eth!TypeOK, Xlm!TypeOK
<1>12. StakesBacked'
  <2>1. ethTokens'[Registry] = ethTokens[Registry] + resolvers'[r].stake - resolvers[r].stake
    BY <1>2, <1>4, <1>8, <1>10 DEF left
  <2>2. info'[r].stake = resolvers'[r].stake
    BY <1>8, <1>9
  <2> QED BY <1>8, <1>9, <1>10, <1>11, <2>1, <2>2, BackedStep
<1>13. ListsExact'
  BY <1>6, <1>8, <1>9, SameLists
<1>14. StellarFlagImpliesEthereumFlag'
  BY <1>8, <1>9 DEF ParityInv, StellarFlagImpliesEthereumFlag, Xlm!is_active
<1>15. InSync'
  BY <1>6, <1>9 DEF ParityInv, InSync, Xlm!IsInitialised
<1> QED
  BY <1>11, <1>12, <1>13, <1>14, <1>15 DEF ParityInv

LEMMA UnregisterStep ==
    ASSUME ParityInv, Unregister
    PROVE  ParityInv'
<1>1. PICK r \in Accounts : Eth!unregister(r) /\ Xlm!unregister(r)
  BY DEF Unregister
<1> DEFINE k == resolverIndex[r]
           n == Len(resolverList)
           last == resolverList[n]
<1>2. /\ resolvers[r].stake \in Nat /\ info[r].stake = resolvers[r].stake
      /\ resolvers[r].stake <= ethTokens[Registry] /\ ethTokens[Registry] \in Nat
  BY StakeFacts, ParityAssumption
<1>3. /\ resolvers \in [Accounts -> [stake : Nat, active : BOOLEAN]]
      /\ info \in [Accounts -> [registered : BOOLEAN, stake : Nat, active : BOOLEAN]]
      /\ resolverIndex \in [Accounts -> Nat]
  BY DEF ParityInv, TypeOK, Eth!TypeOK, Xlm!TypeOK
<1>4. /\ k # 0 /\ info[r].registered /\ Xlm!IsInitialised
      /\ ethTokens' = Eth!Pay(Registry, r, resolvers[r].stake)
      /\ xlmTokens' = Xlm!Pay(Registry, r, resolvers[r].stake)
      /\ resolvers' = [resolvers EXCEPT ![r] = Eth!NoInfo]
      /\ info' = [info EXCEPT ![r] = Xlm!NoInfo]
      /\ resolverList' = SubSeq([resolverList EXCEPT ![k] = last], 1, n - 1)
      /\ resolverIndex' = [resolverIndex EXCEPT ![last] = k, ![r] = 0]
      /\ list' = Xlm!ListWithout(r)
      /\ UNCHANGED <<minStake, slashBeneficiary, admin, min_stake, slash_beneficiary>>
  BY <1>1, <1>2 DEF Eth!unregister, Xlm!unregister, Eth!ListAfterRemoval,
     Eth!IndexAfterRemoval, Eth!Last
<1>5. /\ resolverList \in Seq(Accounts) /\ n \in Nat /\ k \in 1..n
      /\ resolverList[k] = r
      /\ \A i \in 1..n : resolverIndex[resolverList[i]] = i
      /\ \A a \in Accounts :
           IF resolverIndex[a] = 0 THEN resolvers[a] = Eth!NoInfo
           ELSE resolverIndex[a] \in 1..n /\ resolverList[resolverIndex[a]] = a
  BY <1>4, ListFacts
<1>6. last \in Accounts /\ n \in 1..n /\ resolverIndex[last] = n
  BY <1>5
<1> HIDE DEF k, n, last
<1>7. /\ resolverList' \in Seq(Accounts) /\ Len(resolverList') = n - 1
      /\ \A i \in 1..Len(resolverList') :
           resolverList'[i] = IF i = k THEN last ELSE resolverList[i]
  BY <1>4, <1>5, SwapAndPop DEF n, last
<1>8. /\ resolverIndex' \in [Accounts -> Nat] /\ resolverIndex'[r] = 0
      /\ last # r => resolverIndex'[last] = k
      /\ \A a \in Accounts : a # r /\ a # last => resolverIndex'[a] = resolverIndex[a]
  BY <1>3, <1>4, <1>5, <1>6
<1>9. /\ resolvers' \in [Accounts -> [stake : Nat, active : BOOLEAN]]
      /\ info' \in [Accounts -> [registered : BOOLEAN, stake : Nat, active : BOOLEAN]]
      /\ resolvers'[r] = Eth!NoInfo /\ info'[r] = Xlm!NoInfo
      /\ \A a \in Accounts : a # r => resolvers'[a] = resolvers[a] /\ info'[a] = info[a]
  BY <1>3, <1>4 DEF Eth!NoInfo, Xlm!NoInfo
<1>10. /\ xlmTokens' = ethTokens' /\ ethTokens' \in [Accounts \cup {Registry} -> Nat]
       /\ ethTokens'[Registry] = ethTokens[Registry] - resolvers[r].stake
  BY <1>2, <1>4, PayOutFacts
<1>11. ListsWithout(list', list, r, Len(list))
  BY <1>4, ListFacts, WithoutFacts
<1>12. TypeOK'
  <2>1. list' \in Seq(Accounts)
    BY <1>11 DEF ListsWithout
  <2> QED BY <1>4, <1>7, <1>8, <1>9, <1>10, <2>1
          DEF ParityInv, TypeOK, Eth!TypeOK, Xlm!TypeOK
<1>13. StakesBacked'
  <2>1. resolvers'[r].stake = 0 /\ info'[r].stake = 0
    BY <1>9 DEF Eth!NoInfo, Xlm!NoInfo
  <2>2. ethTokens'[Registry] = ethTokens[Registry] + resolvers'[r].stake - resolvers[r].stake
    BY <1>2, <1>10, <2>1
  <2> QED BY <1>9, <1>10, <1>12, <2>1, <2>2, BackedStep
<1>14. Eth!ListMatchesIndex'
  <2>1. ASSUME NEW i \in 1..(n - 1)
        PROVE  resolverIndex'[resolverList'[i]] = i
    <3>1. i \in 1..n /\ i # n /\ resolverList[i] \in Accounts
          /\ resolverIndex[resolverList[i]] = i
      <4>1. i \in 1..n /\ i # n
        BY <1>5
      <4>2. resolverList[i] \in Accounts
        BY <1>5, <4>1 DEF n
      <4> QED BY <1>5, <4>1, <4>2
    <3>2. CASE i = k
      <4>1. last # r
        BY <1>5, <1>6, <3>1, <3>2
      <4> QED BY <1>7, <1>8, <3>2, <4>1
    <3>3. CASE i # k
      <4>1. resolverList[i] # r /\ resolverList[i] # last
        BY <1>5, <1>6, <3>1, <3>3
      <4> QED BY <1>7, <1>8, <3>1, <3>3, <4>1
    <3> QED BY <3>2, <3>3
  <2>2. ASSUME NEW a \in Accounts
        PROVE  IF resolverIndex'[a] = 0 THEN resolvers'[a] = Eth!NoInfo
               ELSE resolverIndex'[a] <= n - 1 /\ resolverList'[resolverIndex'[a]] = a
    <3>1. CASE a = r
      BY <1>8, <1>9, <3>1
    <3>2. CASE a # r /\ a = last
      <4>1. k # n /\ k \in 1..(n - 1) /\ resolverIndex'[a] = k
        BY <1>5, <1>6, <1>8, <3>2
      <4> QED BY <1>5, <1>7, <3>2, <4>1
    <3>3. CASE a # r /\ a # last /\ resolverIndex[a] = 0
      BY <1>5, <1>8, <1>9, <3>3
    <3>4. CASE a # r /\ a # last /\ resolverIndex[a] # 0
      <4>1. /\ resolverIndex'[a] = resolverIndex[a] /\ resolverIndex[a] \in 1..n
            /\ resolverList[resolverIndex[a]] = a
        BY <1>5, <1>8, <3>4
      <4>2. resolverIndex[a] # n /\ resolverIndex[a] # k
        BY <1>5, <1>6, <3>4, <4>1 DEF last
      <4>3. resolverIndex[a] \in 1..(n - 1)
        BY <1>5, <4>1, <4>2
      <4>4. resolverList'[resolverIndex[a]] = a
        BY <1>7, <4>1, <4>2, <4>3
      <4> QED BY <1>5, <4>1, <4>3, <4>4
    <3> QED BY <3>1, <3>2, <3>3, <3>4
  <2> QED BY <1>7, <2>1, <2>2 DEF Eth!ListMatchesIndex, Eth!NoInfo
<1>15. Xlm!ListMatchesEntries'
  <2>1. /\ {list[i] : i \in 1..Len(list)} = {a \in Accounts : info[a].registered}
    BY ListFacts
  <2>2. /\ list' \in Seq(Accounts)
        /\ \A i, j \in 1..Len(list') : list'[i] = list'[j] => i = j
        /\ \A i \in 1..Len(list') : \E j \in 1..Len(list) : list'[i] = list[j] /\ list[j] # r
        /\ \A j \in 1..Len(list) : list[j] # r => \E i \in 1..Len(list') : list'[i] = list[j]
    BY <1>11 DEF ListsWithout
  <2>3. {list'[i] : i \in 1..Len(list')} = {list[j] : j \in 1..Len(list)} \ {r}
    BY <2>2
  <2>4. {a \in Accounts : info'[a].registered}
          = {a \in Accounts : info[a].registered} \ {r}
    BY <1>9 DEF Xlm!NoInfo
  <2>5. DOMAIN list' = 1..Len(list')
    BY <2>2
  <2> QED BY <2>1, <2>2, <2>3, <2>4, <2>5 DEF Xlm!ListMatchesEntries, Xlm!IsInjective
<1>16. StellarFlagImpliesEthereumFlag'
  BY <1>9 DEF ParityInv, StellarFlagImpliesEthereumFlag, Xlm!is_active, Xlm!NoInfo
<1>17. InSync'
  <2>1. \A a \in Accounts : a # r => (resolverIndex'[a] # 0 <=> resolverIndex[a] # 0)
    BY <1>5, <1>6, <1>8
  <2> QED BY <1>4, <1>8, <1>9, <2>1 DEF ParityInv, InSync, Xlm!IsInitialised, Xlm!NoInfo
<1> QED
  BY <1>12, <1>13, <1>14, <1>15, <1>16, <1>17 DEF ParityInv, ListsExact

\* initialize and the setters move no stake and change no entry.
LEMMA ConfigureStep ==
    ASSUME ParityInv,
           Initialize \/ SetMinStake \/ SetSlashBeneficiary \/ SetAdmin \/ UNCHANGED vars
    PROVE  ParityInv'
<1> USE DEF Eth!setMinStake, Eth!setSlashBeneficiary, Xlm!initialize, Xlm!set_min_stake,
            Xlm!set_slash_beneficiary, Xlm!set_admin, Initialize, SetMinStake,
            SetSlashBeneficiary, SetAdmin, vars, ethVars, xlmVars
<1>1. /\ UNCHANGED <<resolvers, resolverList, resolverIndex, ethTokens, info, xlmTokens>>
      /\ list' = list \/ (list' = <<>> /\ ~Xlm!IsInitialised)
  OBVIOUS
<1>2. TypeOK'
  <2>1. <<>> \in Seq(Accounts)
    OBVIOUS
  <2> QED BY <1>1, <2>1, ParityAssumption DEF ParityInv, TypeOK, Eth!TypeOK, Xlm!TypeOK
<1>3. StakesBacked' /\ StellarFlagImpliesEthereumFlag'
  BY <1>1 DEF ParityInv, StakesBacked, TotalStake, StellarFlagImpliesEthereumFlag, Xlm!is_active
<1>4. Eth!ListMatchesIndex'
  BY <1>1 DEF ParityInv, ListsExact, Eth!ListMatchesIndex, Eth!NoInfo
<1>5. Xlm!ListMatchesEntries'
  <2>1. CASE list' = list
    BY <1>1, <2>1 DEF ParityInv, ListsExact, Xlm!ListMatchesEntries, Xlm!IsInjective
  <2>2. CASE list' = <<>> /\ ~Xlm!IsInitialised
    <3>1. Len(<<>>) = 0 /\ 1..0 = {} /\ DOMAIN <<>> = {}
      OBVIOUS
    <3>2. \A r \in Accounts : ~info'[r].registered
      BY <1>1, <2>2 DEF ParityInv, InSync
    <3> QED BY <2>2, <3>1, <3>2 DEF Xlm!ListMatchesEntries, Xlm!IsInjective
  <2> QED BY <1>1, <2>1, <2>2
<1>6. InSync'
  BY <1>1, ParityAssumption DEF ParityInv, InSync, Xlm!IsInitialised
<1> QED
  BY <1>2, <1>3, <1>4, <1>5, <1>6 DEF ParityInv, ListsExact

LEMMA ParityInvStep == ParityInv /\ [Next]_vars => ParityInv'
  BY RegisterStep, IncreaseStakeStep, UnregisterStep, SlashStep, ConfigureStep DEF Next

-----------------------------------------------------------------------------
\* Both registries keep their storage and every balance well typed: slash and
\* unregister never pay out more than the registry holds.
THEOREM TypeCorrect == Spec => []TypeOK
<1>1. ParityInv => TypeOK
  BY DEF ParityInv
<1> QED
  BY <1>1, ParityInvInit, ParityInvStep, PTL DEF Spec

\* The swap-and-pop of _removeFromList and the rebuilt vector of the Stellar
\* unregister list exactly the registered resolvers, each once.
THEOREM ListsStayExact == Spec => []ListsExact
<1>1. ParityInv => ListsExact
  BY DEF ParityInv
<1> QED
  BY <1>1, ParityInvInit, ParityInvStep, PTL DEF Spec

\* Each registry holds exactly the stakes it has to give back, and the two
\* chains agree on every stake and balance.
THEOREM StakesStayBacked == Spec => []StakesBacked
<1>1. ParityInv => StakesBacked
  BY DEF ParityInv
<1> QED
  BY <1>1, ParityInvInit, ParityInvStep, PTL DEF Spec

\* A resolver active on Stellar carries the active flag on Ethereum.
THEOREM FlagsNeverDivergeUpwards == Spec => []StellarFlagImpliesEthereumFlag
<1>1. ParityInv => StellarFlagImpliesEthereumFlag
  BY DEF ParityInv
<1> QED
  BY <1>1, ParityInvInit, ParityInvStep, PTL DEF Spec

-----------------------------------------------------------------------------
(* MainnetHTLC.                                                            *)

SwapRecord == [set: BOOLEAN, token: Legacy!LegacyAssets, hashLock: Keys \cup {"zero"},
               timelock: Nat, status: {"Created", "Claimed", "Refunded"},
               refusing: SUBSET {"Claimed", "Refunded"}]

LegacyShapes ==
    /\ swaps \in [Legacy!LegacyIds -> SwapRecord] /\ nextId \in Nat \ {0}
    /\ vault \in [Legacy!LegacyAssets -> Nat] /\ listed \subseteq Creators /\ blockTime \in Nat

\* Entries are set in the order of their ids, and the others were never written.
SwapsInOrder ==
    \A id \in Legacy!LegacyIds : /\ swaps[id].set = (id < nextId)
                                 /\ id >= nextId => swaps[id] = Legacy!NoSwap

LegacyInv == LegacyShapes /\ SwapsInOrder /\ Legacy!LegacySolvent

LEMMA LegacyInvTypes == LegacyInv => Legacy!LegacyTypeOK
BY DEF LegacyInv, LegacyShapes, SwapsInOrder, SwapRecord, Legacy!LegacyTypeOK

\* The open orders in an asset.
IsOpenIn(o, a) == o.set /\ o.status = "Created" /\ o.token = a
OpenIn(a) == {id \in Legacy!LegacyIds : IsOpenIn(swaps[id], a)}

LEMMA OpenIsFinite ==
    ASSUME NEW a
    PROVE  IsFiniteSet(OpenIn(a)) /\ Cardinality(OpenIn(a)) \in Nat
<1>1. IsFiniteSet(Legacy!LegacyIds) BY FS_Interval, ContractsAssumption DEF Legacy!LegacyIds
<1>2. OpenIn(a) \subseteq Legacy!LegacyIds BY DEF OpenIn
<1>3. IsFiniteSet(OpenIn(a)) BY <1>1, <1>2, FS_Subset
<1> QED BY <1>3, FS_CardinalityType

LEMMA SolventMeansOpen ==
    Legacy!LegacySolvent <=>
        \A a \in Legacy!LegacyAssets \ LaxTokens : vault[a] >= Cardinality(OpenIn(a))
BY DEF Legacy!LegacySolvent, Legacy!Cardinality, Cardinality, OpenIn, IsOpenIn

LEMMA LegacyInvInit == Legacy!LegacyInit => LegacyInv
<1> SUFFICES ASSUME Legacy!LegacyInit PROVE LegacyInv
    OBVIOUS
<1> USE DEF Legacy!LegacyInit
<1>1. Legacy!NoSwap \in SwapRecord /\ ~ Legacy!NoSwap.set
  BY DEF Legacy!NoSwap, SwapRecord, Legacy!LegacyAssets
<1>2. LegacyShapes BY <1>1 DEF LegacyShapes
<1>3. SwapsInOrder
  <2>1. Legacy!NoSwap.set = FALSE BY DEF Legacy!NoSwap
  <2>2. ASSUME NEW id \in Legacy!LegacyIds PROVE swaps[id] = Legacy!NoSwap /\ (id < nextId) = FALSE
    BY ContractsAssumption DEF Legacy!LegacyIds
  <2> QED BY <2>1, <2>2 DEF SwapsInOrder
<1>4. ASSUME NEW a \in Legacy!LegacyAssets PROVE vault[a] >= Cardinality(OpenIn(a))
  <2>1. OpenIn(a) = {} BY <1>1 DEF OpenIn, IsOpenIn
  <2> QED BY <2>1, FS_EmptySet
<1> QED BY <1>2, <1>3, <1>4, SolventMeansOpen DEF LegacyInv

\* One order changes: the vault has to follow in the assets it is open in.
LEMMA SolventAfter ==
    ASSUME LegacyInv, NEW id \in Legacy!LegacyIds, NEW o, swaps' = [swaps EXCEPT ![id] = o],
           vault' \in [Legacy!LegacyAssets -> Nat],
           \A a \in Legacy!LegacyAssets \ LaxTokens :
               \/ IsOpenIn(o, a) /\ ~ IsOpenIn(swaps[id], a) /\ vault'[a] = vault[a] + 1
               \/ ~ IsOpenIn(o, a) /\ IsOpenIn(swaps[id], a) /\ vault'[a] = vault[a] - 1
               \/ (IsOpenIn(o, a) <=> IsOpenIn(swaps[id], a)) /\ vault'[a] = vault[a]
    PROVE  Legacy!LegacySolvent'
<1> SUFFICES ASSUME NEW a \in Legacy!LegacyAssets \ LaxTokens
             PROVE  vault'[a] >= Cardinality(OpenIn(a)')
  <2>1. Legacy!LegacySolvent' <=>
          \A a \in Legacy!LegacyAssets \ LaxTokens : vault'[a] >= Cardinality(OpenIn(a)')
    BY DEF Legacy!LegacySolvent, Legacy!Cardinality, Cardinality, OpenIn, IsOpenIn
  <2> QED BY <2>1
<1>1. vault[a] >= Cardinality(OpenIn(a)) /\ vault[a] \in Nat
  BY SolventMeansOpen DEF LegacyInv, LegacyShapes
<1>2. IsFiniteSet(OpenIn(a)) /\ Cardinality(OpenIn(a)) \in Nat BY OpenIsFinite
<1>3. \A i \in Legacy!LegacyIds : swaps'[i] = IF i = id THEN o ELSE swaps[i]
  BY DEF LegacyInv, LegacyShapes
<1>4. CASE IsOpenIn(o, a) /\ ~ IsOpenIn(swaps[id], a) /\ vault'[a] = vault[a] + 1
  <2>1. OpenIn(a)' = OpenIn(a) \cup {id} /\ id \notin OpenIn(a)
    BY <1>3, <1>4 DEF OpenIn, IsOpenIn
  <2>2. Cardinality(OpenIn(a) \cup {id}) = Cardinality(OpenIn(a)) + 1
    BY <1>2, <2>1, FS_AddElement
  <2> QED BY <1>1, <1>2, <1>4, <2>1, <2>2
<1>5. CASE ~ IsOpenIn(o, a) /\ IsOpenIn(swaps[id], a) /\ vault'[a] = vault[a] - 1
  <2>1. OpenIn(a)' = OpenIn(a) \ {id} /\ id \in OpenIn(a) BY <1>3, <1>5 DEF OpenIn, IsOpenIn
  <2>2. Cardinality(OpenIn(a) \ {id}) = Cardinality(OpenIn(a)) - 1
    BY <1>2, <2>1, FS_RemoveElement
  <2> QED BY <1>1, <1>2, <1>5, <2>1, <2>2
<1>6. CASE (IsOpenIn(o, a) <=> IsOpenIn(swaps[id], a)) /\ vault'[a] = vault[a]
  <2>1. OpenIn(a)' = OpenIn(a) BY <1>3, <1>6 DEF OpenIn, IsOpenIn
  <2> QED BY <1>1, <1>6, <2>1
<1> QED BY <1>4, <1>5, <1>6

LEMMA CreateLegacyKeeps ==
    ASSUME LegacyInv, NEW sender, NEW token \in Legacy!LegacyAssets, NEW amount \in {0, 1},
           NEW hashLock \in Keys \cup {"zero"}, NEW timelock \in 0..LegacyEnd,
           NEW refusing \in SUBSET {"Claimed", "Refunded"}, NEW paid \in BOOLEAN,
           Legacy!createOrder(sender, token, amount, hashLock, timelock, refusing, paid)
    PROVE  LegacyInv'
<1>1. PICK id : id = nextId OBVIOUS
<1>2. id \in Legacy!LegacyIds /\ ~ swaps[id].set /\ timelock \in Nat
  <2>1. id \in Legacy!LegacyIds /\ timelock \in Nat
    BY <1>1, ContractsAssumption
    DEF LegacyInv, LegacyShapes, Legacy!createOrder, Legacy!LegacyIds
  <2>2. swaps[id].set = (id < nextId) BY <2>1 DEF LegacyInv, SwapsInOrder
  <2>3. ~ (id < nextId) BY <1>1 DEF LegacyInv, LegacyShapes
  <2> QED BY <2>1, <2>2, <2>3
<1>3. PICK o : o = [set |-> TRUE, token |-> token, hashLock |-> hashLock, timelock |-> timelock,
                    status |-> "Created", refusing |-> refusing]
  OBVIOUS
<1>4. o \in SwapRecord /\ o.set = TRUE /\ o.status = "Created" /\ o.token = token
  BY <1>2, <1>3 DEF SwapRecord
<1>5. /\ swaps' = [swaps EXCEPT ![id] = o] /\ nextId' = nextId + 1
      /\ UNCHANGED <<listed, blockTime>> /\ (paid \/ token \in LaxTokens) /\ amount = 1
      /\ vault' = IF paid THEN [vault EXCEPT ![token] = @ + amount] ELSE vault
  BY <1>1, <1>3 DEF Legacy!createOrder
<1>6. LegacyShapes' BY <1>2, <1>4, <1>5 DEF LegacyInv, LegacyShapes
<1>7. SwapsInOrder'
  <2> SUFFICES ASSUME NEW i \in Legacy!LegacyIds
               PROVE  /\ swaps'[i].set = (i < nextId')
                      /\ i >= nextId' => swaps'[i] = Legacy!NoSwap
      BY DEF SwapsInOrder
  <2>1. i \in Nat /\ nextId \in Nat BY ContractsAssumption DEF LegacyInv, LegacyShapes, Legacy!LegacyIds
  <2>2. CASE i = id
    <3>1. swaps'[i] = o BY <1>5, <2>2 DEF LegacyInv, LegacyShapes
    <3>2. (i < nextId') = TRUE BY <1>1, <1>5, <2>1, <2>2
    <3>3. ~ (i >= nextId') BY <1>1, <1>5, <2>1, <2>2
    <3> QED BY <1>4, <3>1, <3>2, <3>3
  <2>3. CASE i # id
    <3>1. swaps'[i] = swaps[i] BY <1>5, <2>3 DEF LegacyInv, LegacyShapes
    <3>2. (i < nextId') = (i < nextId) BY <1>1, <1>5, <2>1, <2>3
    <3>3. i >= nextId' => i >= nextId BY <1>5, <2>1
    <3> QED BY <3>1, <3>2, <3>3 DEF LegacyInv, SwapsInOrder
  <2> QED BY <2>2, <2>3
<1>8. Legacy!LegacySolvent'
  <2>1. ASSUME NEW a \in Legacy!LegacyAssets \ LaxTokens
        PROVE  \/ IsOpenIn(o, a) /\ ~ IsOpenIn(swaps[id], a) /\ vault'[a] = vault[a] + 1
               \/ (IsOpenIn(o, a) <=> IsOpenIn(swaps[id], a)) /\ vault'[a] = vault[a]
    BY <1>2, <1>4, <1>5 DEF IsOpenIn, LegacyInv, LegacyShapes
  <2>2. vault' \in [Legacy!LegacyAssets -> Nat] BY <1>6 DEF LegacyShapes
  <2> QED BY <1>2, <1>5, <2>1, <2>2, SolventAfter
<1> QED BY <1>6, <1>7, <1>8 DEF LegacyInv

\* claimOrder and refundOrder take one unit out for an open order.
LEMMA SettleLegacyKeeps ==
    ASSUME LegacyInv, NEW id \in Legacy!LegacyIds, NEW to \in {"Claimed", "Refunded"},
           Legacy!Settle(id, to)
    PROVE  LegacyInv'
<1>1. PICK s : s = swaps[id] OBVIOUS
<1>2. s \in SwapRecord /\ s.set /\ s.status = "Created"
  BY <1>1 DEF LegacyInv, LegacyShapes, Legacy!Settle
<1>3. PICK o : o = [s EXCEPT !.status = to] OBVIOUS
<1>4. o \in SwapRecord BY ONLY <1>2, <1>3, to \in {"Claimed", "Refunded"} DEF SwapRecord
<1>5. o.status = to /\ o.token = s.token /\ o.set = s.set
  BY ONLY <1>2, <1>3 DEF SwapRecord
<1>6. /\ swaps' = [swaps EXCEPT ![id] = o] /\ UNCHANGED <<nextId, listed, blockTime>>
      /\ vault' = Legacy!AfterPaid(s) /\ Legacy!Paid(s, to)
  BY <1>1, <1>3 DEF Legacy!Settle
<1>7. s.token \in Legacy!LegacyAssets /\ vault[s.token] \in Nat
  BY <1>2 DEF SwapRecord, LegacyInv, LegacyShapes
<1>8. /\ vault' \in [Legacy!LegacyAssets -> Nat]
      /\ \A a \in Legacy!LegacyAssets : a # s.token => vault'[a] = vault[a]
      /\ s.token \notin LaxTokens => vault'[s.token] = vault[s.token] - 1
  BY <1>6, <1>7 DEF Legacy!AfterPaid, Legacy!Paid, LegacyInv, LegacyShapes
<1>9. LegacyShapes' BY <1>4, <1>6, <1>8 DEF LegacyInv, LegacyShapes
<1>10. SwapsInOrder'
  <2> SUFFICES ASSUME NEW i \in Legacy!LegacyIds
               PROVE  /\ swaps'[i].set = (i < nextId')
                      /\ i >= nextId' => swaps'[i] = Legacy!NoSwap
      BY DEF SwapsInOrder
  <2>1. swaps'[i] = IF i = id THEN o ELSE swaps[i] BY <1>6 DEF LegacyInv, LegacyShapes
  <2>2. swaps[i].set = (i < nextId) /\ (i >= nextId => swaps[i] = Legacy!NoSwap)
    BY DEF LegacyInv, SwapsInOrder
  <2>3. Legacy!NoSwap.set = FALSE BY DEF Legacy!NoSwap
  <2>4. i = id => ~ (i >= nextId) BY <1>1, <1>2, <2>2, <2>3
  <2> QED BY <1>1, <1>5, <1>6, <2>1, <2>2, <2>4
<1>11. Legacy!LegacySolvent'
  <2>1. ASSUME NEW a \in Legacy!LegacyAssets \ LaxTokens
        PROVE  \/ IsOpenIn(o, a) /\ ~ IsOpenIn(swaps[id], a) /\ vault'[a] = vault[a] + 1
               \/ ~ IsOpenIn(o, a) /\ IsOpenIn(swaps[id], a) /\ vault'[a] = vault[a] - 1
               \/ (IsOpenIn(o, a) <=> IsOpenIn(swaps[id], a)) /\ vault'[a] = vault[a]
    BY <1>1, <1>2, <1>5, <1>8 DEF IsOpenIn
  <2> QED BY <1>6, <1>8, <2>1, SolventAfter
<1> QED BY <1>9, <1>10, <1>11 DEF LegacyInv

LEMMA SettleLegacyFacts ==
    ASSUME LegacyInv, NEW id \in Legacy!LegacyIds, Legacy!refundOrder(id) \/ \E p \in Keys : Legacy!claimOrder(id, p)
    PROVE  LegacyInv'
BY SettleLegacyKeeps DEF Legacy!refundOrder, Legacy!claimOrder

LEMMA LegacyBystanders ==
    ASSUME LegacyInv, Legacy!receiveEther \/ Legacy!RegistryListChanges \/ Legacy!NextBlock
                      \/ UNCHANGED Legacy!legacyVars
    PROVE  LegacyInv'
<1>1. /\ UNCHANGED <<swaps, nextId>> /\ vault' \in [Legacy!LegacyAssets -> Nat]
      /\ listed' \subseteq Creators /\ blockTime' \in Nat
      /\ \A a \in Legacy!LegacyAssets : vault'[a] >= vault[a]
  BY DEF LegacyInv, LegacyShapes, Legacy!receiveEther, Legacy!RegistryListChanges,
     Legacy!NextBlock, Legacy!legacyVars, Legacy!LegacyAssets
<1>2. LegacyShapes' /\ SwapsInOrder' BY <1>1 DEF LegacyInv, LegacyShapes, SwapsInOrder
<1>3. ASSUME NEW a \in Legacy!LegacyAssets \ LaxTokens PROVE vault'[a] >= Cardinality(OpenIn(a))
  <2>1. vault[a] >= Cardinality(OpenIn(a)) BY SolventMeansOpen DEF LegacyInv
  <2>2. vault[a] \in Nat /\ vault'[a] \in Nat /\ Cardinality(OpenIn(a)) \in Nat
    BY <1>1, OpenIsFinite DEF LegacyInv, LegacyShapes
  <2> QED BY <1>1, <2>1, <2>2
<1>4. Legacy!LegacySolvent'
  <2>1. Legacy!LegacySolvent' <=>
          \A a \in Legacy!LegacyAssets \ LaxTokens : vault'[a] >= Cardinality(OpenIn(a)')
    BY DEF Legacy!LegacySolvent, Legacy!Cardinality, Cardinality, OpenIn, IsOpenIn
  <2>2. \A a : OpenIn(a)' = OpenIn(a) BY <1>1 DEF OpenIn
  <2> QED BY <1>3, <2>1, <2>2
<1> QED BY <1>2, <1>4 DEF LegacyInv

LEMMA LegacyInvStep == LegacyInv /\ [Legacy!LegacyNext]_Legacy!legacyVars => LegacyInv'
<1> SUFFICES ASSUME LegacyInv, [Legacy!LegacyNext]_Legacy!legacyVars PROVE LegacyInv'
    OBVIOUS
<1>1. ASSUME NEW sender \in Creators, NEW token \in Legacy!LegacyAssets, NEW amount \in {0, 1},
             NEW hashLock \in Keys \cup {"zero"}, NEW timelock \in 0..LegacyEnd,
             NEW refusing \in IF token = Ether THEN SUBSET {"Claimed", "Refunded"} ELSE {{}},
             NEW paid \in BOOLEAN,
             Legacy!createOrder(sender, token, amount, hashLock, timelock, refusing, paid)
      PROVE  LegacyInv'
  <2>1. refusing \in SUBSET {"Claimed", "Refunded"} BY <1>1
  <2> QED BY <1>1, <2>1, CreateLegacyKeeps
<1> QED BY <1>1, SettleLegacyFacts, LegacyBystanders DEF Legacy!LegacyNext

\* The lock an order of MainnetHTLC stands for in the abstract specification.
SwapLock(o) ==
    [state |-> IF ~o.set THEN "none"
               ELSE IF o.status = "Created" THEN "open"
               ELSE IF o.status = "Claimed" THEN "claimed"
               ELSE "refunded",
     deadline |-> o.timelock]

LEMMA LegacyInitMaps == Legacy!LegacyInit => Legacy!HT!HTInit
BY DEF Legacy!LegacyInit, Legacy!HT!HTInit, Legacy!HT!Unopened, Legacy!NoSwap

\* Writing one order writes one lock.
LEMMA OneSwapOneLock ==
    ASSUME LegacyInv, NEW id \in Legacy!LegacyIds, NEW o, swaps' = [swaps EXCEPT ![id] = o],
           NEW l, l = SwapLock(o)
    PROVE  [i \in Legacy!LegacyIds |-> SwapLock(swaps'[i])] =
               [[i \in Legacy!LegacyIds |-> SwapLock(swaps[i])] EXCEPT ![id] = l]
BY DEF LegacyInv, LegacyShapes

LEMMA LegacyStepMaps ==
    LegacyInv /\ [Legacy!LegacyNext]_Legacy!legacyVars => [Legacy!HT!HTNext]_(Legacy!HT!htVars)
<1> SUFFICES ASSUME LegacyInv, [Legacy!LegacyNext]_Legacy!legacyVars
             PROVE  [Legacy!HT!HTNext]_(Legacy!HT!htVars)
    OBVIOUS
<1> DEFINE L == [id \in Legacy!LegacyIds |-> SwapLock(swaps[id])]
           M == [id \in Legacy!LegacyIds |-> SwapLock(swaps'[id])]
<1>0. swaps \in [Legacy!LegacyIds -> SwapRecord] /\ blockTime \in Nat BY DEF LegacyInv, LegacyShapes
<1>1. ASSUME NEW sender \in Creators, NEW token \in Legacy!LegacyAssets, NEW amount \in {0, 1},
             NEW hashLock \in Keys \cup {"zero"}, NEW timelock \in 0..LegacyEnd,
             NEW refusing, NEW paid \in BOOLEAN,
             Legacy!createOrder(sender, token, amount, hashLock, timelock, refusing, paid)
      PROVE  Legacy!HT!HTNext
  <2>1. PICK id : id = nextId OBVIOUS
  <2>2. id \in Legacy!LegacyIds /\ id >= nextId
    BY <1>1, <2>1, ContractsAssumption
    DEF LegacyInv, LegacyShapes, Legacy!createOrder, Legacy!LegacyIds
  <2>3. swaps[id] = Legacy!NoSwap BY <2>2 DEF LegacyInv, SwapsInOrder
  <2>4. PICK o : o = [set |-> TRUE, token |-> token, hashLock |-> hashLock,
                      timelock |-> timelock, status |-> "Created", refusing |-> refusing]
    OBVIOUS
  <2>5. SwapLock(o) = [state |-> "open", deadline |-> timelock] BY <2>4 DEF SwapLock
  <2>6. swaps' = [swaps EXCEPT ![id] = o] /\ blockTime' = blockTime
    BY <1>1, <2>1, <2>4 DEF Legacy!createOrder
  <2>7. timelock > blockTime BY <1>0, <1>1, ContractsAssumption DEF Legacy!createOrder
  <2>8. L[id] = [state |-> "none", deadline |-> 0] BY <2>2, <2>3 DEF SwapLock, Legacy!NoSwap
  <2>9. M = [L EXCEPT ![id] = [state |-> "open", deadline |-> timelock]]
    BY <2>2, <2>5, <2>6, OneSwapOneLock
  <2>10. M[id] = [state |-> "open", deadline |-> timelock] BY <2>2, <2>9
  <2>11. /\ M[id].deadline = timelock /\ M[id].deadline > blockTime
         /\ M = [L EXCEPT ![id] = [state |-> "open", deadline |-> M[id].deadline]]
    <3> HIDE DEF L, M
    <3>1. M[id].deadline = timelock BY <2>10
    <3> QED BY <2>7, <2>9, <3>1
  <2>12. Legacy!HT!OpenLock(id)
    BY <2>6, <2>8, <2>11 DEF Legacy!HT!OpenLock, Legacy!HT!Unopened, SwapLock
  <2> QED BY <2>2, <2>12 DEF Legacy!HT!HTNext
<1>2. ASSUME NEW id \in Legacy!LegacyIds, NEW to \in {"Claimed", "Refunded"},
             Legacy!Settle(id, to)
      PROVE  /\ blockTime' = blockTime /\ L[id].state = "open"
             /\ L[id].deadline = swaps[id].timelock
             /\ M = [L EXCEPT ![id].state = IF to = "Claimed" THEN "claimed" ELSE "refunded"]
  <2>1. PICK s : s = swaps[id] OBVIOUS
  <2>2. s \in SwapRecord /\ s.set /\ s.status = "Created" /\ blockTime' = blockTime
    BY <1>0, <1>2, <2>1 DEF Legacy!Settle
  <2>3. PICK o : o = [s EXCEPT !.status = to] OBVIOUS
  <2>4. o.status = to /\ o.set = s.set /\ o.timelock = s.timelock
    BY ONLY <2>2, <2>3 DEF SwapRecord
  <2>5. PICK st : st = IF to = "Claimed" THEN "claimed" ELSE "refunded" OBVIOUS
  <2>6. SwapLock(o) = [state |-> st, deadline |-> s.timelock] BY <2>2, <2>4, <2>5 DEF SwapLock
  <2>7. L[id] = [state |-> "open", deadline |-> s.timelock] BY <2>1, <2>2 DEF SwapLock
  <2>8. swaps' = [swaps EXCEPT ![id] = o] BY <1>2, <2>1, <2>3 DEF Legacy!Settle
  <2>9. M = [L EXCEPT ![id] = [state |-> st, deadline |-> s.timelock]]
    BY <2>6, <2>8, OneSwapOneLock
  <2>10. M = [L EXCEPT ![id].state = st]
    <3>1. [L[id] EXCEPT !.state = st] = [state |-> st, deadline |-> s.timelock] BY ONLY <2>7
    <3> HIDE DEF L, M
    <3> QED BY <2>9, <3>1
  <2> HIDE DEF L, M
  <2> QED BY <2>1, <2>2, <2>5, <2>7, <2>10
<1>3. ASSUME NEW id \in Legacy!LegacyIds, NEW p \in Keys, Legacy!claimOrder(id, p)
      PROVE  Legacy!HT!HTNext
  <2>1. Legacy!Settle(id, "Claimed") /\ ~ (blockTime > swaps[id].timelock)
    BY <1>3 DEF Legacy!claimOrder, Legacy!Expired
  <2>2. swaps[id].timelock \in Nat BY <1>0 DEF SwapRecord
  <2>3. /\ M = [L EXCEPT ![id].state = "claimed"] /\ L[id].state = "open"
        /\ blockTime <= L[id].deadline /\ blockTime' = blockTime
    <3>1. /\ blockTime' = blockTime /\ L[id].state = "open"
          /\ L[id].deadline = swaps[id].timelock
          /\ M = [L EXCEPT ![id].state = "claimed"]
      BY <1>2, <2>1
    <3> HIDE DEF L, M
    <3> QED BY <1>0, <2>1, <2>2, <3>1
  <2>4. Legacy!HT!ShowPreimage(id) BY <2>3 DEF Legacy!HT!ShowPreimage, SwapLock
  <2> QED BY <2>4 DEF Legacy!HT!HTNext
<1>4. ASSUME NEW id \in Legacy!LegacyIds, Legacy!refundOrder(id) PROVE Legacy!HT!HTNext
  <2>1. Legacy!Settle(id, "Refunded") /\ blockTime > swaps[id].timelock
    BY <1>4 DEF Legacy!refundOrder, Legacy!Expired
  <2>2. Legacy!HT!GiveBack(id) BY <1>2, <2>1 DEF Legacy!HT!GiveBack, SwapLock
  <2> QED BY <2>2 DEF Legacy!HT!HTNext
<1>5. CASE Legacy!NextBlock
  <2>1. swaps' = swaps /\ blockTime' = blockTime + 1 BY <1>5 DEF Legacy!NextBlock
  <2> QED BY <1>0, <2>1 DEF Legacy!HT!HTNext, Legacy!HT!ClockMoves
<1>6. CASE Legacy!receiveEther \/ Legacy!RegistryListChanges \/ UNCHANGED Legacy!legacyVars
  <2>1. swaps' = swaps /\ blockTime' = blockTime
    BY <1>6 DEF Legacy!receiveEther, Legacy!RegistryListChanges, Legacy!legacyVars
  <2> QED BY <2>1 DEF Legacy!HT!htVars
<1> QED BY <1>1, <1>3, <1>4, <1>5, <1>6 DEF Legacy!LegacyNext

-----------------------------------------------------------------------------
(* EscrowFactory.                                                          *)

EscrowRecord == [isActive: BOOLEAN, token: {NoToken} \cup AllowanceTokens \cup FreeTokens,
                 hashLock: Locks \cup {"zero"}, timelock: Nat,
                 status: {"Created", "Funded", "Claimed", "Refunded"},
                 safetyDepositPaid: 0..MaxValue, refuses: BOOLEAN]

FactoryShapes ==
    /\ escrows \in [Factory!EscrowIds -> EscrowRecord]
    /\ counter \in 1..(MaxEscrows + 1) /\ pool \in Nat /\ now \in Nat
    /\ pool <= (counter - 1) * MaxValue

\* Entries are written in the order of their ids.
EscrowsInOrder ==
    \A id \in Factory!EscrowIds : /\ escrows[id].isActive = (id < counter)
                                  /\ id >= counter => escrows[id] = Factory!NoEscrow

FactoryInv == FactoryShapes /\ EscrowsInOrder /\ Factory!DepositsPooled

\* Another escrow's deposit fits under the bound, and escrows are bounded.
LEMMA PoolBound ==
    ASSUME NEW c \in Nat \ {0}, NEW n \in Nat, NEW v \in Nat, c <= n + 1
    PROVE  /\ (c - 1) * v + v = ((c + 1) - 1) * v
           /\ (c - 1) * v \in Nat /\ n * v \in Nat /\ (c - 1) * v <= n * v
<1>1. PICK k \in Nat : k = c - 1 OBVIOUS
<1>2. PICK d \in Nat : d = n - k BY <1>1
<1>3. n = k + d BY <1>1, <1>2
<1>4. k * v + v = (k + 1) * v BY SMT
<1>5. k * v \in Nat /\ d * v \in Nat BY SMT
<1>6. (k + d) * v = k * v + d * v BY SMT
<1>7. c - 1 = k /\ (c + 1) - 1 = k + 1 BY <1>1
<1> QED BY <1>3, <1>4, <1>5, <1>6, <1>7

LEMMA FactoryInvTypes == FactoryInv => Factory!FactoryTypeOK
<1> SUFFICES ASSUME FactoryInv PROVE Factory!FactoryTypeOK
    OBVIOUS
<1>1. pool \in 0..(MaxEscrows * MaxValue)
  <2>1. /\ (counter - 1) * MaxValue \in Nat /\ MaxEscrows * MaxValue \in Nat
        /\ (counter - 1) * MaxValue <= MaxEscrows * MaxValue
    BY PoolBound, ContractsAssumption DEF FactoryInv, FactoryShapes
  <2>2. pool \in Nat /\ pool <= (counter - 1) * MaxValue BY DEF FactoryInv, FactoryShapes
  <2> QED BY <2>1, <2>2
<1> QED BY <1>1 DEF FactoryInv, FactoryShapes, EscrowsInOrder, EscrowRecord, Factory!FactoryTypeOK

\* What the factory owes for an escrow.
OwedFor(e) == IF e.status \in {"Claimed", "Refunded"} THEN 0 ELSE e.safetyDepositPaid
OwedAll == [id \in 1..MaxEscrows |-> OwedFor(escrows[id])]

LEMMA PooledMeansOwed ==
    Factory!DepositsPooled <=> (~ownerTook => pool = SumTo(OwedAll, MaxEscrows))
BY DEF Factory!DepositsPooled, Factory!Unsettled, Factory!Settled, Factory!SumTo, SumTo,
       OwedAll, OwedFor, Factory!EscrowIds

LEMMA FactoryInvInit == Factory!FactoryInit => FactoryInv
<1> SUFFICES ASSUME Factory!FactoryInit PROVE FactoryInv
    OBVIOUS
<1> USE DEF Factory!FactoryInit
<1>1. 0 \in 0..MaxValue /\ 1 \in 1..(MaxEscrows + 1) /\ 0 <= (1 - 1) * MaxValue
  <2>1. 1 - 1 = 0 /\ 0 * MaxValue = 0 BY ContractsAssumption
  <2> QED BY <2>1, ContractsAssumption
<1>2. Factory!NoEscrow \in EscrowRecord /\ Factory!NoEscrow.isActive = FALSE
  BY <1>1 DEF Factory!NoEscrow, EscrowRecord
<1>3. FactoryShapes BY <1>1, <1>2 DEF FactoryShapes
<1>4. EscrowsInOrder
  <2>1. ASSUME NEW id \in Factory!EscrowIds
        PROVE  escrows[id] = Factory!NoEscrow /\ (id < counter) = FALSE
    BY ContractsAssumption DEF Factory!EscrowIds
  <2> QED BY <1>2, <2>1 DEF EscrowsInOrder
<1>5. \A id \in 1..MaxEscrows : OwedAll[id] = 0
  BY DEF OwedAll, OwedFor, Factory!EscrowIds, Factory!NoEscrow
<1>6. SumTo(OwedAll, MaxEscrows) = 0 BY <1>5, SumToZero, ContractsAssumption
<1>7. Factory!DepositsPooled BY <1>6, PooledMeansOwed
<1> QED BY <1>3, <1>4, <1>7 DEF FactoryInv

\* One escrow is rewritten: the pool follows what is owed for it.
LEMMA EscrowWritten ==
    ASSUME FactoryInv, NEW id \in Factory!EscrowIds, NEW o \in EscrowRecord,
           escrows' = [escrows EXCEPT ![id] = o],
           ~ownerTook' => ~ownerTook /\ pool' = pool + OwedFor(o) - OwedFor(escrows[id])
    PROVE  Factory!DepositsPooled'
<1>1. PICK f : f = OwedAll OBVIOUS
<1>2. PICK g : g = [i \in 1..MaxEscrows |-> OwedFor(escrows'[i])] OBVIOUS
<1>3. Factory!DepositsPooled' <=> (~ownerTook' => pool' = SumTo(g, MaxEscrows))
  BY <1>2 DEF Factory!DepositsPooled, Factory!Unsettled, Factory!Settled, Factory!SumTo, SumTo,
       OwedFor, Factory!EscrowIds
<1>4. \A e \in EscrowRecord : OwedFor(e) \in Nat
  BY ContractsAssumption DEF EscrowRecord, OwedFor
<1>5. \A i \in 1..MaxEscrows : escrows[i] \in EscrowRecord /\ escrows'[i] = IF i = id THEN o ELSE escrows[i]
  BY DEF FactoryInv, FactoryShapes, Factory!EscrowIds
<1>6. f \in [1..MaxEscrows -> Nat] /\ g \in [1..MaxEscrows -> Nat]
  BY <1>1, <1>2, <1>4, <1>5 DEF OwedAll
<1>7. /\ \A i \in 1..MaxEscrows : i # id => g[i] = f[i]
      /\ id \in 1..MaxEscrows /\ g[id] = OwedFor(o) /\ f[id] = OwedFor(escrows[id])
  BY <1>1, <1>2, <1>5 DEF OwedAll, Factory!EscrowIds
<1>8. SumTo(g, MaxEscrows) = SumTo(f, MaxEscrows) + g[id] - f[id]
  BY <1>6, <1>7, SumToUpdate, ContractsAssumption
<1>9. ~ownerTook => pool = SumTo(f, MaxEscrows) BY <1>1, PooledMeansOwed DEF FactoryInv
<1> QED BY <1>3, <1>7, <1>8, <1>9

\* Nothing but the status or the deposit of an escrow changes.
LEMMA EscrowUpdated ==
    ASSUME FactoryInv, NEW id \in Factory!EscrowIds, NEW o \in EscrowRecord,
           escrows' = [escrows EXCEPT ![id] = o], o.isActive = escrows[id].isActive,
           escrows[id].isActive, UNCHANGED <<counter, now>>, pool' \in Nat, pool' <= pool
    PROVE  FactoryShapes' /\ EscrowsInOrder'
<1>1. FactoryShapes'
  <2>1. escrows' \in [Factory!EscrowIds -> EscrowRecord] BY DEF FactoryInv, FactoryShapes
  <2>2. (counter - 1) * MaxValue \in Nat
    BY PoolBound, ContractsAssumption DEF FactoryInv, FactoryShapes
  <2>3. pool' <= (counter' - 1) * MaxValue BY <2>2 DEF FactoryInv, FactoryShapes
  <2> QED BY <2>1, <2>3 DEF FactoryInv, FactoryShapes
<1>2. EscrowsInOrder'
  <2> SUFFICES ASSUME NEW i \in Factory!EscrowIds
               PROVE  /\ escrows'[i].isActive = (i < counter')
                      /\ i >= counter' => escrows'[i] = Factory!NoEscrow
      BY DEF EscrowsInOrder
  <2>1. escrows'[i] = IF i = id THEN o ELSE escrows[i] BY DEF FactoryInv, FactoryShapes
  <2>2. escrows[i].isActive = (i < counter) /\ (i >= counter => escrows[i] = Factory!NoEscrow)
    BY DEF FactoryInv, EscrowsInOrder
  <2>3. Factory!NoEscrow.isActive = FALSE BY DEF Factory!NoEscrow
  <2>4. i = id => ~ (i >= counter) BY <2>2, <2>3
  <2> QED BY <2>1, <2>2, <2>4
<1> QED BY <1>1, <1>2

LEMMA StatusWritten ==
    ASSUME NEW e \in EscrowRecord, NEW s \in {"Funded", "Claimed", "Refunded"}
    PROVE  /\ [e EXCEPT !.status = s] \in EscrowRecord
           /\ [e EXCEPT !.status = s].isActive = e.isActive
           /\ [e EXCEPT !.status = s].status = s
           /\ [e EXCEPT !.status = s].safetyDepositPaid = e.safetyDepositPaid
<1>1. PICK o : o = [e EXCEPT !.status = s] OBVIOUS
<1>2. o \in EscrowRecord
  BY ONLY e \in EscrowRecord, <1>1, s \in {"Funded", "Claimed", "Refunded"} DEF EscrowRecord
<1>3. o.isActive = e.isActive /\ o.status = s
  BY ONLY e \in EscrowRecord, <1>1 DEF EscrowRecord
<1>4. o.safetyDepositPaid = e.safetyDepositPaid
  BY ONLY e \in EscrowRecord, <1>1 DEF EscrowRecord
<1> QED BY <1>1, <1>2, <1>3, <1>4

LEMMA CreateEscrowKeeps ==
    ASSUME FactoryInv, NEW token \in {NoToken} \cup AllowanceTokens \cup FreeTokens,
           NEW hashLock \in Locks \cup {"zero"}, NEW timelock \in 0..FactoryEnd,
           NEW deposit, NEW value \in 0..MaxValue, NEW refuses \in BOOLEAN,
           Factory!createEscrow(token, hashLock, timelock, deposit, value, refuses)
    PROVE  FactoryInv'
<1>1. PICK id : id = counter OBVIOUS
<1>2. id \in Factory!EscrowIds /\ id >= counter /\ timelock \in Nat /\ value \in Nat
  BY <1>1, ContractsAssumption
  DEF FactoryInv, FactoryShapes, Factory!createEscrow, Factory!EscrowIds
<1>3. PICK o : o = [isActive |-> TRUE, token |-> token, hashLock |-> hashLock,
                    timelock |-> timelock, status |-> "Created", safetyDepositPaid |-> value,
                    refuses |-> refuses]
  OBVIOUS
<1>4. o \in EscrowRecord /\ o.isActive = TRUE /\ OwedFor(o) = value
  BY <1>2, <1>3 DEF EscrowRecord, OwedFor
<1>5. /\ escrows' = [escrows EXCEPT ![id] = o] /\ counter' = counter + 1 /\ counter <= MaxEscrows
      /\ pool' = pool + value /\ UNCHANGED <<now, ownerTook>>
  BY <1>1, <1>3 DEF Factory!createEscrow
<1>6. OwedFor(escrows[id]) = 0
  BY <1>2 DEF FactoryInv, EscrowsInOrder, OwedFor, Factory!NoEscrow
<1>7. FactoryShapes'
  <2>1. /\ counter \in Nat \ {0} /\ counter <= MaxEscrows + 1 /\ pool \in Nat
        /\ pool <= (counter - 1) * MaxValue /\ MaxValue \in Nat /\ MaxEscrows \in Nat
    BY ContractsAssumption DEF FactoryInv, FactoryShapes
  <2>2. /\ (counter - 1) * MaxValue + MaxValue = ((counter + 1) - 1) * MaxValue
        /\ (counter - 1) * MaxValue \in Nat
    BY <2>1, PoolBound
  <2>3. pool' \in Nat /\ pool' <= (counter - 1) * MaxValue + MaxValue BY <1>2, <1>5, <2>1, <2>2
  <2>4. pool' <= (counter' - 1) * MaxValue BY <1>5, <2>2, <2>3
  <2>5. counter' \in 1..(MaxEscrows + 1) BY <1>5, <2>1
  <2> QED BY <1>4, <1>5, <2>3, <2>4, <2>5 DEF FactoryInv, FactoryShapes
<1>8. EscrowsInOrder'
  <2> SUFFICES ASSUME NEW i \in Factory!EscrowIds
               PROVE  /\ escrows'[i].isActive = (i < counter')
                      /\ i >= counter' => escrows'[i] = Factory!NoEscrow
      BY DEF EscrowsInOrder
  <2>1. i \in Nat /\ counter \in Nat
    BY ContractsAssumption DEF FactoryInv, FactoryShapes, Factory!EscrowIds
  <2>2. CASE i = id
    <3>1. escrows'[i] = o BY <1>5, <2>2 DEF FactoryInv, FactoryShapes
    <3>2. (i < counter') = TRUE /\ ~ (i >= counter') BY <1>1, <1>5, <2>1, <2>2
    <3> QED BY <1>4, <3>1, <3>2
  <2>3. CASE i # id
    <3>1. escrows'[i] = escrows[i] BY <1>5, <2>3 DEF FactoryInv, FactoryShapes
    <3>2. (i < counter') = (i < counter) BY <1>1, <1>5, <2>1, <2>3
    <3>3. i >= counter' => i >= counter BY <1>5, <2>1
    <3> QED BY <3>1, <3>2, <3>3 DEF FactoryInv, EscrowsInOrder
  <2> QED BY <2>2, <2>3
<1>9. pool' = pool + OwedFor(o) - OwedFor(escrows[id])
  BY <1>2, <1>4, <1>5, <1>6 DEF FactoryInv, FactoryShapes
<1>10. Factory!DepositsPooled' BY <1>2, <1>4, <1>5, <1>9, EscrowWritten
<1> QED BY <1>7, <1>8, <1>10 DEF FactoryInv

LEMMA FundEscrowKeeps ==
    ASSUME FactoryInv, NEW id \in Factory!EscrowIds, Factory!fundEscrow(id)
    PROVE  FactoryInv'
<1>1. PICK e : e = escrows[id] OBVIOUS
<1>2. PICK o : o = [e EXCEPT !.status = "Funded"] OBVIOUS
<1>3. e \in EscrowRecord /\ e.isActive /\ e.status = "Created"
  BY <1>1 DEF FactoryInv, FactoryShapes, Factory!fundEscrow
<1>4. escrows' = [escrows EXCEPT ![id] = o] /\ UNCHANGED <<counter, pool, now, ownerTook>>
  BY <1>1, <1>2 DEF Factory!fundEscrow
<1>5. /\ o \in EscrowRecord /\ o.isActive = e.isActive /\ o.status = "Funded"
      /\ o.safetyDepositPaid = e.safetyDepositPaid
  <2>1. PICK s \in {"Funded", "Claimed", "Refunded"} : s = "Funded" OBVIOUS
  <2>2. o = [e EXCEPT !.status = s] BY <1>2, <2>1
  <2>3. /\ o \in EscrowRecord /\ o.isActive = e.isActive /\ o.status = s
        /\ o.safetyDepositPaid = e.safetyDepositPaid
    BY <1>3, <2>2, StatusWritten
  <2> QED BY <2>1, <2>3
<1>6. OwedFor(o) = OwedFor(e) /\ OwedFor(e) \in Nat /\ pool \in Nat
  BY <1>3, <1>5, ContractsAssumption DEF OwedFor, EscrowRecord, FactoryInv, FactoryShapes
<1>7. pool' = pool + OwedFor(o) - OwedFor(escrows[id]) BY <1>1, <1>4, <1>6
<1>8. Factory!DepositsPooled' BY <1>4, <1>5, <1>7, EscrowWritten
<1>9. FactoryShapes' /\ EscrowsInOrder'
  <2>1. pool' \in Nat /\ pool' <= pool BY <1>4, <1>6
  <2> QED BY <1>1, <1>3, <1>4, <1>5, <2>1, EscrowUpdated
<1> QED BY <1>8, <1>9 DEF FactoryInv

\* claimEscrow and refundEscrow return the recorded deposit.
LEMMA SettleEscrowKeeps ==
    ASSUME FactoryInv, NEW id \in Factory!EscrowIds, NEW s \in {"Claimed", "Refunded"},
           escrows[id].isActive, escrows[id].status = "Funded", Factory!DepositMoves(id),
           escrows' = [escrows EXCEPT ![id].status = s], UNCHANGED <<counter, now, ownerTook>>
    PROVE  FactoryInv'
<1>1. PICK e : e = escrows[id] OBVIOUS
<1>2. PICK o : o = [e EXCEPT !.status = s] OBVIOUS
<1>3. e \in EscrowRecord /\ e.isActive /\ e.status = "Funded" BY <1>1 DEF FactoryInv, FactoryShapes
<1>4. escrows' = [escrows EXCEPT ![id] = o] BY <1>1, <1>2
<1>5. /\ o \in EscrowRecord /\ o.isActive = e.isActive /\ o.status = s
      /\ o.safetyDepositPaid = e.safetyDepositPaid
  <2>1. s \in {"Funded", "Claimed", "Refunded"} OBVIOUS
  <2> QED BY <1>2, <1>3, <2>1, StatusWritten
<1>6. OwedFor(o) = 0 /\ OwedFor(e) = e.safetyDepositPaid /\ e.safetyDepositPaid \in Nat /\ pool \in Nat
  BY <1>3, <1>5, ContractsAssumption DEF OwedFor, EscrowRecord, FactoryInv, FactoryShapes
<1>7. pool' = pool - e.safetyDepositPaid /\ pool >= e.safetyDepositPaid
  BY <1>1 DEF Factory!DepositMoves
<1>8. pool' \in Nat /\ pool' <= pool /\ pool' = pool + OwedFor(o) - OwedFor(escrows[id])
  BY <1>1, <1>6, <1>7
<1>9. Factory!DepositsPooled' BY <1>4, <1>5, <1>8, EscrowWritten
<1>10. FactoryShapes' /\ EscrowsInOrder' BY <1>1, <1>3, <1>4, <1>5, <1>8, EscrowUpdated
<1> QED BY <1>9, <1>10 DEF FactoryInv

LEMMA SlashKeeps ==
    ASSUME FactoryInv, NEW id \in Factory!EscrowIds, Factory!slashSafetyDeposit(id)
    PROVE  FactoryInv'
<1>1. PICK e : e = escrows[id] OBVIOUS
<1>2. PICK o : o = [e EXCEPT !.safetyDepositPaid = 0] OBVIOUS
<1>3. e \in EscrowRecord /\ e.isActive
  BY <1>1 DEF FactoryInv, FactoryShapes, Factory!slashSafetyDeposit
<1>4. /\ escrows' = [escrows EXCEPT ![id] = o] /\ UNCHANGED <<counter, now>>
      /\ pool >= e.safetyDepositPaid /\ pool' = pool - e.safetyDepositPaid
      /\ ownerTook' = (ownerTook \/ Factory!Settled(id))
  BY <1>1, <1>2 DEF Factory!slashSafetyDeposit
<1>5. o \in EscrowRecord
  <2>1. 0 \in 0..MaxValue BY ContractsAssumption
  <2> QED BY ONLY <1>2, <1>3, <2>1 DEF EscrowRecord
<1>6. o.isActive = e.isActive /\ o.status = e.status /\ o.safetyDepositPaid = 0
  BY ONLY <1>2, <1>3 DEF EscrowRecord
<1>7. e.safetyDepositPaid \in Nat /\ pool \in Nat
  BY <1>3, ContractsAssumption DEF EscrowRecord, FactoryInv, FactoryShapes
<1>8. ~ownerTook' => ~ownerTook /\ OwedFor(e) = e.safetyDepositPaid
  BY <1>1, <1>4 DEF Factory!Settled, OwedFor
<1>9. OwedFor(o) = 0 BY <1>6 DEF OwedFor
<1>10. ~ownerTook' => ~ownerTook /\ pool' = pool + OwedFor(o) - OwedFor(escrows[id])
  BY <1>1, <1>4, <1>7, <1>8, <1>9
<1>11. Factory!DepositsPooled' BY <1>4, <1>5, <1>10, EscrowWritten
<1>12. pool' \in Nat /\ pool' <= pool BY <1>4, <1>7
<1>13. FactoryShapes' /\ EscrowsInOrder' BY <1>1, <1>3, <1>4, <1>5, <1>6, <1>12, EscrowUpdated
<1> QED BY <1>11, <1>13 DEF FactoryInv

LEMMA FactoryBystanders ==
    ASSUME FactoryInv, \/ \E amount \in 1..MaxValue : Factory!emergencyWithdraw(amount)
                       \/ Factory!FactoryTick \/ UNCHANGED Factory!factoryVars
    PROVE  FactoryInv'
<1>1. (counter - 1) * MaxValue \in Nat
  BY PoolBound, ContractsAssumption DEF FactoryInv, FactoryShapes
<1>2. /\ UNCHANGED <<escrows, counter>> /\ now' \in Nat /\ pool' \in Nat /\ pool' <= pool
      /\ ~ownerTook' => ~ownerTook /\ pool' = pool
  BY ContractsAssumption DEF FactoryInv, FactoryShapes, Factory!emergencyWithdraw,
     Factory!FactoryTick, Factory!factoryVars
<1>3. pool' <= (counter' - 1) * MaxValue BY <1>1, <1>2 DEF FactoryInv, FactoryShapes
<1>4. FactoryShapes' /\ EscrowsInOrder'
  BY <1>2, <1>3 DEF FactoryInv, FactoryShapes, EscrowsInOrder
<1>5. Factory!DepositsPooled'
  BY <1>2 DEF FactoryInv, Factory!DepositsPooled, Factory!Unsettled, Factory!Settled
<1> QED BY <1>4, <1>5 DEF FactoryInv

LEMMA FactoryInvStep == FactoryInv /\ [Factory!FactoryNext]_Factory!factoryVars => FactoryInv'
<1> SUFFICES ASSUME FactoryInv, [Factory!FactoryNext]_Factory!factoryVars PROVE FactoryInv'
    OBVIOUS
<1>1. ASSUME NEW id \in Factory!EscrowIds,
             \/ Factory!refundEscrow(id)
             \/ \E preimage \in Locks, caller \in {"beneficiary", "other"} :
                   Factory!claimEscrow(id, preimage, caller)
      PROVE  FactoryInv'
  BY <1>1, SettleEscrowKeeps DEF Factory!refundEscrow, Factory!claimEscrow
<1>2. ASSUME NEW token \in {NoToken} \cup AllowanceTokens \cup FreeTokens,
             NEW hashLock \in Locks \cup {"zero"}, NEW timelock \in 0..FactoryEnd,
             NEW deposit \in 0..MaxDeposit + 1, NEW value \in 0..MaxValue, NEW refuses \in BOOLEAN,
             Factory!createEscrow(token, hashLock, timelock, deposit, value, refuses)
      PROVE  FactoryInv'
  BY <1>2, CreateEscrowKeeps
<1> QED BY <1>1, <1>2, FundEscrowKeeps, SlashKeeps, FactoryBystanders DEF Factory!FactoryNext

\* The lock an escrow stands for in the abstract specification.
EscrowLock(e) ==
    [state |-> IF ~e.isActive THEN "none"
               ELSE IF e.status \in {"Created", "Funded"} THEN "open"
               ELSE IF e.status = "Claimed" THEN "claimed"
               ELSE "refunded",
     deadline |-> e.timelock]

LEMMA FactoryInitMaps == Factory!FactoryInit => Factory!HT!HTInit
BY DEF Factory!FactoryInit, Factory!HT!HTInit, Factory!HT!Unopened, Factory!NoEscrow

\* Writing one escrow writes one lock.
LEMMA OneEscrowOneLock ==
    ASSUME FactoryInv, NEW id \in Factory!EscrowIds, NEW o, escrows' = [escrows EXCEPT ![id] = o],
           NEW l, l = EscrowLock(o)
    PROVE  [i \in Factory!EscrowIds |-> EscrowLock(escrows'[i])] =
               [[i \in Factory!EscrowIds |-> EscrowLock(escrows[i])] EXCEPT ![id] = l]
BY DEF FactoryInv, FactoryShapes

LEMMA FactoryStepMaps ==
    FactoryInv /\ [Factory!FactoryNext]_Factory!factoryVars => [Factory!HT!HTNext]_(Factory!HT!htVars)
<1> SUFFICES ASSUME FactoryInv, [Factory!FactoryNext]_Factory!factoryVars
             PROVE  [Factory!HT!HTNext]_(Factory!HT!htVars)
    OBVIOUS
<1> DEFINE L == [id \in Factory!EscrowIds |-> EscrowLock(escrows[id])]
           M == [id \in Factory!EscrowIds |-> EscrowLock(escrows'[id])]
<1>0. escrows \in [Factory!EscrowIds -> EscrowRecord] /\ now \in Nat
  BY DEF FactoryInv, FactoryShapes
<1>1. ASSUME NEW token, NEW hashLock, NEW timelock \in 0..FactoryEnd, NEW deposit, NEW value,
             NEW refuses, Factory!createEscrow(token, hashLock, timelock, deposit, value, refuses)
      PROVE  Factory!HT!HTNext
  <2>1. PICK id : id = counter OBVIOUS
  <2>2. id \in Factory!EscrowIds /\ id >= counter
    BY <1>1, <2>1, ContractsAssumption
    DEF FactoryInv, FactoryShapes, Factory!createEscrow, Factory!EscrowIds
  <2>3. escrows[id] = Factory!NoEscrow BY <2>2 DEF FactoryInv, EscrowsInOrder
  <2>4. PICK o : o = [isActive |-> TRUE, token |-> token, hashLock |-> hashLock,
                      timelock |-> timelock, status |-> "Created", safetyDepositPaid |-> value,
                      refuses |-> refuses]
    OBVIOUS
  <2>5. EscrowLock(o) = [state |-> "open", deadline |-> timelock] BY <2>4 DEF EscrowLock
  <2>6. escrows' = [escrows EXCEPT ![id] = o] /\ now' = now
    BY <1>1, <2>1, <2>4 DEF Factory!createEscrow
  <2>7. timelock > now BY <1>0, <1>1, ContractsAssumption DEF Factory!createEscrow
  <2>8. L[id] = [state |-> "none", deadline |-> 0]
    BY <2>2, <2>3 DEF EscrowLock, Factory!NoEscrow
  <2>9. M = [L EXCEPT ![id] = [state |-> "open", deadline |-> timelock]]
    BY <2>2, <2>5, <2>6, OneEscrowOneLock
  <2>10. M[id] = [state |-> "open", deadline |-> timelock] BY <2>2, <2>9
  <2>11. /\ M[id].deadline = timelock /\ M[id].deadline > now
         /\ M = [L EXCEPT ![id] = [state |-> "open", deadline |-> M[id].deadline]]
    <3> HIDE DEF L, M
    <3>1. M[id].deadline = timelock BY <2>10
    <3> QED BY <2>7, <2>9, <3>1
  <2>12. Factory!HT!OpenLock(id)
    BY <2>6, <2>8, <2>11 DEF Factory!HT!OpenLock, Factory!HT!Unopened, EscrowLock
  <2> QED BY <2>2, <2>12 DEF Factory!HT!HTNext
<1>2. ASSUME NEW id \in Factory!EscrowIds, NEW s \in {"Claimed", "Refunded"}, NEW st,
             st = (IF s = "Claimed" THEN "claimed" ELSE "refunded"),
             escrows[id].isActive, escrows[id].status = "Funded",
             escrows' = [escrows EXCEPT ![id].status = s]
      PROVE  /\ L[id].state = "open" /\ L[id].deadline = escrows[id].timelock
             /\ M = [L EXCEPT ![id].state = st]
  <2>1. PICK e : e = escrows[id] OBVIOUS
  <2>2. e \in EscrowRecord /\ e.isActive /\ e.status = "Funded" BY <1>0, <1>2, <2>1
  <2>3. PICK o : o = [e EXCEPT !.status = s] OBVIOUS
  <2>4. o.status = s /\ o.isActive = e.isActive /\ o.timelock = e.timelock
    BY ONLY <2>2, <2>3 DEF EscrowRecord
  <2>6. EscrowLock(o) = [state |-> st, deadline |-> e.timelock]
    BY <1>2, <2>2, <2>4 DEF EscrowLock
  <2>7. L[id] = [state |-> "open", deadline |-> e.timelock] BY <2>1, <2>2 DEF EscrowLock
  <2>8. escrows' = [escrows EXCEPT ![id] = o] BY <1>2, <2>1, <2>3
  <2>9. M = [L EXCEPT ![id] = [state |-> st, deadline |-> e.timelock]]
    BY <2>6, <2>8, OneEscrowOneLock
  <2>10. M = [L EXCEPT ![id].state = st]
    <3>1. [L[id] EXCEPT !.state = st] = [state |-> st, deadline |-> e.timelock] BY ONLY <2>7
    <3> HIDE DEF L, M
    <3> QED BY <2>9, <3>1
  <2> HIDE DEF L, M
  <2> QED BY <2>1, <2>7, <2>10
<1>3. ASSUME NEW id \in Factory!EscrowIds, NEW p, NEW caller, Factory!claimEscrow(id, p, caller)
      PROVE  Factory!HT!HTNext
  <2>1. /\ now' = now /\ L[id].state = "open" /\ L[id].deadline = escrows[id].timelock
        /\ M = [L EXCEPT ![id].state = "claimed"]
    BY <1>2, <1>3 DEF Factory!claimEscrow
  <2>2. now <= L[id].deadline
    <3>1. now <= escrows[id].timelock BY <1>3 DEF Factory!claimEscrow
    <3> HIDE DEF L, M
    <3> QED BY <2>1, <3>1
  <2>3. Factory!HT!ShowPreimage(id) BY <2>1, <2>2 DEF Factory!HT!ShowPreimage, EscrowLock
  <2> QED BY <2>3 DEF Factory!HT!HTNext
<1>4. ASSUME NEW id \in Factory!EscrowIds, Factory!refundEscrow(id) PROVE Factory!HT!HTNext
  <2>1. /\ now' = now /\ L[id].state = "open" /\ L[id].deadline = escrows[id].timelock
        /\ M = [L EXCEPT ![id].state = "refunded"]
    BY <1>2, <1>4 DEF Factory!refundEscrow
  <2>2. now > L[id].deadline
    <3>1. now > escrows[id].timelock BY <1>4 DEF Factory!refundEscrow
    <3> HIDE DEF L, M
    <3> QED BY <2>1, <3>1
  <2>3. Factory!HT!GiveBack(id) BY <2>1, <2>2 DEF Factory!HT!GiveBack, EscrowLock
  <2> QED BY <2>3 DEF Factory!HT!HTNext
<1>5. ASSUME NEW id \in Factory!EscrowIds, Factory!fundEscrow(id) \/ Factory!slashSafetyDeposit(id)
      PROVE  UNCHANGED Factory!HT!htVars
  <2>1. PICK e : e = escrows[id] OBVIOUS
  <2>2. e \in EscrowRecord BY <1>0, <2>1
  <2>3. PICK o : /\ escrows' = [escrows EXCEPT ![id] = o]
                 /\ \/ o = [e EXCEPT !.status = "Funded"] /\ e.status = "Created"
                    \/ o = [e EXCEPT !.safetyDepositPaid = 0]
    BY <1>5, <2>1 DEF Factory!fundEscrow, Factory!slashSafetyDeposit
  <2>4. EscrowLock(o) = EscrowLock(e)
    <3>1. CASE o = [e EXCEPT !.status = "Funded"] /\ e.status = "Created"
      <4>1. o.isActive = e.isActive /\ o.timelock = e.timelock /\ o.status = "Funded"
        BY ONLY <2>2, <3>1 DEF EscrowRecord
      <4> QED BY <3>1, <4>1 DEF EscrowLock
    <3>2. CASE o = [e EXCEPT !.safetyDepositPaid = 0]
      <4>1. o.isActive = e.isActive /\ o.timelock = e.timelock /\ o.status = e.status
        BY ONLY <2>2, <3>2 DEF EscrowRecord
      <4> QED BY <4>1 DEF EscrowLock
    <3> QED BY <2>3, <3>1, <3>2
  <2>5. \A i \in Factory!EscrowIds : escrows'[i] = IF i = id THEN o ELSE escrows[i]
    BY <1>0, <2>3
  <2>6. M = L BY <2>1, <2>4, <2>5
  <2>7. now' = now BY <1>5 DEF Factory!fundEscrow, Factory!slashSafetyDeposit
  <2> QED BY <2>6, <2>7 DEF Factory!HT!htVars, EscrowLock
<1>6. CASE Factory!FactoryTick
  <2>1. escrows' = escrows /\ now' = now + 1 BY <1>6 DEF Factory!FactoryTick
  <2> QED BY <1>0, <2>1 DEF Factory!HT!HTNext, Factory!HT!ClockMoves
<1>7. CASE \/ \E amount \in 1..MaxValue : Factory!emergencyWithdraw(amount)
           \/ UNCHANGED Factory!factoryVars
  <2>1. escrows' = escrows /\ now' = now
    BY <1>7 DEF Factory!emergencyWithdraw, Factory!factoryVars
  <2> QED BY <2>1 DEF Factory!HT!htVars
<1> QED BY <1>1, <1>3, <1>4, <1>5, <1>6, <1>7 DEF Factory!FactoryNext

-----------------------------------------------------------------------------
(* The contracts side by side.                                             *)

ContractsInv == ParityInv /\ LegacyInv /\ FactoryInv

contractVars == <<part, vars, legacy, factory>>

\* A step of the product is a step or a stutter of each contract.
LEMMA StepOfEach ==
    [MCNext]_contractVars =>
        /\ [Next]_vars /\ [Legacy!LegacyNext]_Legacy!legacyVars
        /\ [Factory!FactoryNext]_Factory!factoryVars
BY DEF MCNext, contractVars, legacy, factory, Legacy!legacyVars, Factory!factoryVars

LEMMA ContractsInvHolds == MCSpec => []ContractsInv
<1>1. MCInit => ContractsInv
  BY ParityInvInit, LegacyInvInit, FactoryInvInit DEF MCInit, ContractsInv
<1>2. ContractsInv /\ [MCNext]_contractVars => ContractsInv'
  BY StepOfEach, ParityInvStep, LegacyInvStep, FactoryInvStep DEF ContractsInv
<1> QED BY <1>1, <1>2, PTL DEF MCSpec, contractVars

\* Registries and legacy contracts keep their state well typed: MainnetHTLC never pays
\* out what it does not hold, and the factory's pool stays within its deposits.
THEOREM ContractsTypeCorrect == MCSpec => []ContractsTypeOK
<1>1. ContractsInv => ContractsTypeOK
  BY LegacyInvTypes, FactoryInvTypes DEF ContractsInv, ParityInv, ContractsTypeOK
<1> QED BY <1>1, ContractsInvHolds, PTL

\* createOrder, claimOrder and refundOrder of MainnetHTLC and createEscrow, claimEscrow
\* and refundEscrow of EscrowFactory implement the abstract hash-timelock: no order is
\* settled twice or on the wrong side of its timelock.  MainnetHTLC covers its open
\* orders in ETH and in tokens that revert, and the factory's pool is exactly the
\* deposits it still owes until its owner takes from it.
THEOREM LegacyTheorem == MCSpec => LegacyFollowsV2
<1>1. ContractsInv => Legacy!LegacySolvent /\ Factory!DepositsPooled
  BY DEF ContractsInv, LegacyInv, FactoryInv
<1>2. MCInit => Legacy!HT!HTInit /\ Factory!HT!HTInit
  BY LegacyInitMaps, FactoryInitMaps DEF MCInit
<1>3. ContractsInv /\ [MCNext]_contractVars =>
        [Legacy!HT!HTNext]_(Legacy!HT!htVars) /\ [Factory!HT!HTNext]_(Factory!HT!htVars)
  BY StepOfEach, LegacyStepMaps, FactoryStepMaps DEF ContractsInv
<1> QED BY <1>1, <1>2, <1>3, ContractsInvHolds, PTL
        DEF MCSpec, contractVars, LegacyFollowsV2, Legacy!ImplementsHashTimelock,
            Factory!ImplementsHashTimelock, Legacy!HT!HTSpec, Factory!HT!HTSpec
=============================================================================
