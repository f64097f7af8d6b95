------------------------------- MODULE Ledger -------------------------------
(***************************************************************************)
(* What the contract models of both chains share: moving an asset between  *)
(* holders, and sums over order ids.  The contracts never compute a sum:   *)
(* it states what they hold against what they owe.                         *)
(***************************************************************************)
EXTENDS Integers

\* The balances after `amount' of `asset' moves from one holder to another:
\* an ERC-20, a Stellar asset contract or the chain's native asset, all of
\* which move exactly the amount they are asked to.
Transfer(b, from, to, asset, amount) ==
    [h \in DOMAIN b |->
        [a \in DOMAIN b[h] |->
            b[h][a] + (IF h = to /\ a = asset THEN amount ELSE 0)
                    - (IF h = from /\ a = asset THEN amount ELSE 0)]]

\* f[1] + ... + f[n]
SumTo(f, n) ==
    LET s[i \in Nat] == IF i = 0 THEN 0 ELSE s[i - 1] + f[i] IN s[n]
=============================================================================
