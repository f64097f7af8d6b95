--------------------------- MODULE MCSorobanHTLC ----------------------------
(***************************************************************************)
(* Model-checking instance of SorobanHTLC: two orders that may share a     *)
(* hashlock, a resolver without a trustline for one asset.                 *)
(***************************************************************************)
EXTENDS SorobanHTLC

CONSTANTS user, resolver, secret, usdc

MCBind(id, bytes) == <<id, bytes>>
MCSha256(bytes) == <<"sha256", bytes>>

MCHashlocks == {MCSha256(MCBind(1, secret)), MCSha256(secret)}
MCNoTrustline == {<<resolver, usdc>>}
MCDeposits == {-1, 0, 1}
MCBalance ==
    [a \in Accounts |-> [x \in Assets |-> IF a = resolver THEN 0 ELSE 2]]
=============================================================================
