---------------------------- MODULE MCHTLCEscrow ----------------------------
(***************************************************************************)
(* Model-checking instances of HTLCEscrow: one user, one resolver, ETH and *)
(* one token.  A byte string is a raw secret or a secret behind a 32-byte  *)
(* order id; digests are free of collisions.                               *)
(***************************************************************************)
EXTENDS HTLCEscrow

CONSTANTS user, resolver, secret

RawBytes == <<secret>>
BoundBytes(id) == <<id, secret>>

MCSha256(bytes) == <<"sha256", bytes>>

MCPreimages == {RawBytes, BoundBytes(1)}
MCHashlocks == {MCSha256(RawBytes)}
MCBalance ==
    [a \in Accounts |-> [x \in Assets |->
        IF a = resolver THEN 0 ELSE IF x = Native THEN 2 ELSE 1]]
=============================================================================
