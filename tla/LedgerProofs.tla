---------------------------- MODULE LedgerProofs ----------------------------
(***************************************************************************)
(* What SumTo and Transfer compute.  The library's induction principle     *)
(* takes a predicate as a parameter; here induction is done by minimal     *)
(* counterexample instead, which quantifies over sets only.                *)
(***************************************************************************)
EXTENDS Ledger, TLAPS, WellFoundedInduction

\* Every non-empty set of natural numbers has a least element.
LEMMA LeastNatural ==
    ASSUME NEW T, T \subseteq Nat, T # {}
    PROVE  \E x \in T : \A y \in T : x <= y
<1> DEFINE R == {ss \in Nat \X Nat : ss[1] < ss[2]}
<1>0. IsWellFoundedOn(R, Nat)
  BY NatLessThanWellFounded DEF OpToRel
<1>1. PICK x \in T : \A y \in T : ~ (<<y, x>> \in R)
  <2> HIDE DEF R
  <2> QED BY <1>0, WFMin
<1>2. \A y \in T : ~ (y < x)
  BY <1>1
<1> QED
  BY <1>2

\* Induction over the natural numbers, for a set in place of a predicate.
LEMMA SetInduction ==
    ASSUME NEW S, 0 \in S, \A n \in Nat : n \in S => n + 1 \in S
    PROVE  Nat \subseteq S
<1> DEFINE T == Nat \ S
<1> SUFFICES ASSUME T # {} PROVE FALSE
  OBVIOUS
<1>1. PICK x \in T : \A y \in T : x <= y
  BY LeastNatural
<1>2. x \in Nat /\ x # 0 /\ x - 1 \in Nat /\ x - 1 \notin T
  BY <1>1
<1> QED
  BY <1>2

-----------------------------------------------------------------------------
(* The recursive definition of SumTo has a solution.                       *)

\* h satisfies the recursion of SumTo up to n.
Partial(f, h, n) ==
    h = [i \in 0..n |-> IF i = 0 THEN 0 ELSE h[i - 1] + f[i]]

\* There is a partial solution of every length.
LEMMA PartialExists ==
    ASSUME NEW f
    PROVE  \A n \in Nat : \E h : Partial(f, h, n)
<1> DEFINE S == {n \in Nat : \E h : Partial(f, h, n)}
<1>1. 0 \in S
  <2> DEFINE h == [i \in 0..0 |-> 0]
  <2>1. Partial(f, h, 0)
    BY DEF Partial
  <2> QED
    BY <2>1
<1>2. ASSUME NEW n \in Nat, n \in S
      PROVE  n + 1 \in S
  <2>1. PICK h : Partial(f, h, n)
    BY <1>2
  <2> DEFINE k == [i \in 0..(n + 1) |->
                     IF i = n + 1 THEN h[n] + f[n + 1] ELSE h[i]]
  <2>2. \A i \in 0..n : h[i] = IF i = 0 THEN 0 ELSE h[i - 1] + f[i]
    BY <2>1 DEF Partial
  <2>3. \A i \in 0..(n + 1) : k[i] = IF i = 0 THEN 0 ELSE k[i - 1] + f[i]
    BY <2>2
  <2>4. Partial(f, k, n + 1)
    BY <2>3 DEF Partial
  <2> QED
    BY <2>4
<1>3. Nat \subseteq S
  <2> HIDE DEF S
  <2> QED BY <1>1, <1>2, SetInduction
<1> QED
  BY <1>3

\* Two partial solutions agree where both are defined.
LEMMA PartialUnique ==
    ASSUME NEW f, NEW g, NEW h, NEW m \in Nat, NEW n \in Nat,
           Partial(f, g, m), Partial(f, h, n)
    PROVE  \A i \in Nat : i <= m /\ i <= n => g[i] = h[i]
<1> DEFINE S == {i \in Nat : i <= m /\ i <= n => g[i] = h[i]}
<1>1. \A i \in 0..m : g[i] = IF i = 0 THEN 0 ELSE g[i - 1] + f[i]
  BY DEF Partial
<1>2. \A i \in 0..n : h[i] = IF i = 0 THEN 0 ELSE h[i - 1] + f[i]
  BY DEF Partial
<1>3. 0 \in S
  BY <1>1, <1>2
<1>4. \A i \in Nat : i \in S => i + 1 \in S
  BY <1>1, <1>2
<1>5. Nat \subseteq S
  <2> HIDE DEF S
  <2> QED BY <1>3, <1>4, SetInduction
<1> QED
  BY <1>5

\* SumTo obeys its recursion: the empty sum is 0, and f[n] is added last.
LEMMA SumToRecursion ==
    ASSUME NEW f, NEW n \in Nat
    PROVE  SumTo(f, n) = IF n = 0 THEN 0 ELSE SumTo(f, n - 1) + f[n]
<1> DEFINE P(m) == CHOOSE h : Partial(f, h, m)
           g == [i \in Nat |-> P(i)[i]]
           Solves(s) == s = [i \in Nat |-> IF i = 0 THEN 0 ELSE s[i - 1] + f[i]]
           s0 == CHOOSE s : Solves(s)
<1>1. \A m \in Nat : Partial(f, P(m), m)
  BY PartialExists
<1>2. \A i \in Nat : g[i] = IF i = 0 THEN 0 ELSE g[i - 1] + f[i]
  <2> TAKE i \in Nat
  <2>1. P(i)[i] = IF i = 0 THEN 0 ELSE P(i)[i - 1] + f[i]
    <3>1. PICK h : h = P(i) /\ Partial(f, h, i)
      BY <1>1
    <3>2. h[i] = IF i = 0 THEN 0 ELSE h[i - 1] + f[i]
      BY <3>1 DEF Partial
    <3> HIDE DEF P
    <3> QED BY <3>1, <3>2
  <2>2. i # 0 => P(i)[i - 1] = P(i - 1)[i - 1]
    BY <1>1, PartialUnique
  <2> QED
    BY <2>1, <2>2
<1>3. Solves(g)
  <2>1. g = [i \in Nat |-> g[i]]
    OBVIOUS
  <2> HIDE DEF g
  <2> QED BY <1>2, <2>1
<1>4. Solves(s0)
  <2> HIDE DEF Solves, g
  <2> QED BY <1>3
<1>5. \A m \in Nat : SumTo(f, m) = s0[m]
  BY DEF SumTo
<1>6. \A m \in Nat : s0[m] = IF m = 0 THEN 0 ELSE s0[m - 1] + f[m]
  <2> HIDE DEF s0
  <2> QED BY <1>4
<1> QED
  BY <1>5, <1>6

-----------------------------------------------------------------------------
(* Consequences used by the solvency proofs.                               *)

\* The sum of integers is an integer, and of naturals a natural.
LEMMA SumToNat ==
    ASSUME NEW N \in Nat, NEW f \in [1..N -> Nat]
    PROVE  \A n \in 0..N : SumTo(f, n) \in Nat
<1> DEFINE S == {n \in Nat : n <= N => SumTo(f, n) \in Nat}
<1>1. 0 \in S
  BY SumToRecursion
<1>2. ASSUME NEW n \in Nat, n \in S
      PROVE  n + 1 \in S
  <2>1. SumTo(f, n + 1) = SumTo(f, n) + f[n + 1]
    <3>1. n + 1 \in Nat /\ n + 1 # 0 /\ (n + 1) - 1 = n
      OBVIOUS
    <3> QED BY <3>1, SumToRecursion
  <2>2. n + 1 <= N => f[n + 1] \in Nat
    OBVIOUS
  <2> QED
    BY <1>2, <2>1, <2>2
<1>3. Nat \subseteq S
  <2> HIDE DEF S
  <2> QED BY <1>1, <1>2, SetInduction
<1> QED
  BY <1>3

\* Changing one summand changes the sum by the difference.
LEMMA SumToUpdate ==
    ASSUME NEW N \in Nat, NEW f \in [1..N -> Nat], NEW g \in [1..N -> Nat],
           NEW k \in 1..N, \A i \in 1..N : i # k => g[i] = f[i]
    PROVE  SumTo(g, N) = SumTo(f, N) + g[k] - f[k]
<1> DEFINE D(n) == SumTo(g, n) = SumTo(f, n) + (IF n < k THEN 0 ELSE g[k] - f[k])
           S == {n \in Nat : n <= N => D(n)}
<1>1. 0 \in S
  BY SumToRecursion
<1>2. ASSUME NEW n \in Nat, n \in S
      PROVE  n + 1 \in S
  <2> SUFFICES ASSUME n + 1 <= N PROVE D(n + 1)
    OBVIOUS
  <2>1. /\ SumTo(g, n + 1) = SumTo(g, n) + g[n + 1]
        /\ SumTo(f, n + 1) = SumTo(f, n) + f[n + 1]
    <3>1. n + 1 \in Nat /\ n + 1 # 0 /\ (n + 1) - 1 = n
      OBVIOUS
    <3> QED BY <3>1, SumToRecursion
  <2>2. SumTo(f, n) \in Nat /\ SumTo(g, n) \in Nat
    BY SumToNat
  <2>3. D(n)
    BY <1>2
  <2>4. f[n + 1] \in Nat /\ g[n + 1] \in Nat /\ f[k] \in Nat /\ g[k] \in Nat
    OBVIOUS
  <2>5. n + 1 # k => g[n + 1] = f[n + 1]
    OBVIOUS
  <2>6. CASE n + 1 < k
    <3>1. n < k /\ n + 1 # k
      BY <2>6
    <3>2. SumTo(g, n) = SumTo(f, n)
      BY <2>2, <2>3, <3>1
    <3> QED BY <2>1, <2>2, <2>4, <2>5, <2>6, <3>1, <3>2
  <2>7. CASE n + 1 = k
    <3>1. SumTo(g, n) = SumTo(f, n)
      BY <2>2, <2>3, <2>7
    <3> QED BY <2>1, <2>2, <2>4, <2>7, <3>1
  <2>8. CASE n + 1 > k
    <3>1. n >= k /\ n + 1 # k
      BY <2>8
    <3>2. SumTo(g, n) = SumTo(f, n) + (g[k] - f[k])
      BY <2>2, <2>3, <3>1
    <3> QED BY <2>1, <2>2, <2>4, <2>5, <2>8, <3>1, <3>2
  <2> QED
    BY <2>6, <2>7, <2>8
<1>3. Nat \subseteq S
  <2> HIDE DEF S
  <2> QED BY <1>1, <1>2, SetInduction
<1>4. D(N)
  BY <1>3
<1> QED
  BY <1>4, SumToNat

\* A sum of zeros is zero.
LEMMA SumToZero ==
    ASSUME NEW N \in Nat, NEW f, \A i \in 1..N : f[i] = 0
    PROVE  SumTo(f, N) = 0
<1> DEFINE S == {n \in Nat : n <= N => SumTo(f, n) = 0}
<1>1. 0 \in S
  BY SumToRecursion
<1>2. ASSUME NEW n \in Nat, n \in S
      PROVE  n + 1 \in S
  <2>1. SumTo(f, n + 1) = SumTo(f, n) + f[n + 1]
    <3>1. n + 1 \in Nat /\ n + 1 # 0 /\ (n + 1) - 1 = n
      OBVIOUS
    <3> QED BY <3>1, SumToRecursion
  <2> QED
    BY <1>2, <2>1
<1>3. Nat \subseteq S
  <2> HIDE DEF S
  <2> QED BY <1>1, <1>2, SetInduction
<1> QED
  BY <1>3

\* A summand is at most the sum.
LEMMA SumToBounds ==
    ASSUME NEW N \in Nat, NEW f \in [1..N -> Nat], NEW k \in 1..N
    PROVE  f[k] <= SumTo(f, N)
<1> DEFINE g == [f EXCEPT ![k] = 0]
<1>1. g \in [1..N -> Nat] /\ g[k] = 0 /\ \A i \in 1..N : i # k => g[i] = f[i]
  OBVIOUS
<1>2. SumTo(g, N) \in Nat /\ SumTo(f, N) \in Nat
  <2> HIDE DEF g
  <2> QED BY <1>1, SumToNat
<1>3. SumTo(g, N) = SumTo(f, N) + g[k] - f[k]
  <2> HIDE DEF g
  <2> QED BY <1>1, SumToUpdate
<1> HIDE DEF g
<1> QED
  BY <1>1, <1>2, <1>3

\* Summands split in two add up to at most the sums of the halves.
LEMMA SumToSplit ==
    ASSUME NEW N \in Nat, NEW f \in [1..N -> Nat], NEW g \in [1..N -> Nat],
           NEW h \in [1..N -> Nat], \A i \in 1..N : f[i] <= g[i] + h[i]
    PROVE  SumTo(f, N) <= SumTo(g, N) + SumTo(h, N)
<1> DEFINE S == {n \in Nat : n <= N => SumTo(f, n) <= SumTo(g, n) + SumTo(h, n)}
<1>1. 0 \in S
  BY SumToRecursion
<1>2. ASSUME NEW n \in Nat, n \in S
      PROVE  n + 1 \in S
  <2> SUFFICES ASSUME n + 1 <= N
               PROVE  SumTo(f, n + 1) <= SumTo(g, n + 1) + SumTo(h, n + 1)
    OBVIOUS
  <2>1. /\ SumTo(f, n + 1) = SumTo(f, n) + f[n + 1]
        /\ SumTo(g, n + 1) = SumTo(g, n) + g[n + 1]
        /\ SumTo(h, n + 1) = SumTo(h, n) + h[n + 1]
    <3>1. n + 1 \in Nat /\ n + 1 # 0 /\ (n + 1) - 1 = n
      OBVIOUS
    <3> QED BY <3>1, SumToRecursion
  <2>2. SumTo(f, n) \in Nat /\ SumTo(g, n) \in Nat /\ SumTo(h, n) \in Nat
    <3> n \in 0..N
      OBVIOUS
    <3>1. SumTo(f, n) \in Nat
      BY SumToNat
    <3>2. SumTo(g, n) \in Nat
      BY SumToNat
    <3>3. SumTo(h, n) \in Nat
      BY SumToNat
    <3> QED BY <3>1, <3>2, <3>3
  <2>3. /\ f[n + 1] \in Nat /\ g[n + 1] \in Nat /\ h[n + 1] \in Nat
        /\ f[n + 1] <= g[n + 1] + h[n + 1]
    OBVIOUS
  <2>4. SumTo(f, n) <= SumTo(g, n) + SumTo(h, n)
    BY <1>2
  <2>5. ASSUME NEW a \in Nat, NEW b \in Nat, NEW c \in Nat,
               NEW x \in Nat, NEW y \in Nat, NEW z \in Nat,
               a <= b + c, x <= y + z
        PROVE  a + x <= (b + y) + (c + z)
    BY <2>5
  <2>6. SumTo(f, n) + f[n + 1] <= (SumTo(g, n) + g[n + 1]) + (SumTo(h, n) + h[n + 1])
    BY <2>2, <2>3, <2>4, <2>5
  <2> QED BY <2>1, <2>6
<1>3. Nat \subseteq S
  <2> HIDE DEF S
  <2> QED BY <1>1, <1>2, SetInduction
<1> QED
  BY <1>3

-----------------------------------------------------------------------------
(* Asset movements.                                                        *)

\* A transfer that does not overdraw keeps balances natural numbers.
LEMMA TransferType ==
    ASSUME NEW Holders, NEW Assets, NEW b \in [Holders -> [Assets -> Nat]],
           NEW from \in Holders, NEW to \in Holders, NEW asset \in Assets,
           NEW amount \in Nat, b[from][asset] >= amount
    PROVE  Transfer(b, from, to, asset, amount) \in [Holders -> [Assets -> Nat]]
<1>1. ASSUME NEW h \in Holders, NEW a \in Assets
      PROVE  b[h][a] + (IF h = to /\ a = asset THEN amount ELSE 0)
                     - (IF h = from /\ a = asset THEN amount ELSE 0) \in Nat
  <2>1. b[h][a] \in Nat
    OBVIOUS
  <2>2. CASE h = from /\ a = asset
    BY <2>1, <2>2
  <2>3. CASE ~ (h = from /\ a = asset)
    BY <2>1, <2>3
  <2> QED BY <2>2, <2>3
<1>2. Transfer(b, from, to, asset, amount) =
        [h \in Holders |-> [a \in Assets |->
            b[h][a] + (IF h = to /\ a = asset THEN amount ELSE 0)
                    - (IF h = from /\ a = asset THEN amount ELSE 0)]]
  BY DEF Transfer
<1> QED
  BY <1>1, <1>2
=============================================================================
