----------------------------- MODULE MCDelivery -----------------------------
(***************************************************************************)
(* Instances of Delivery for TLC: up to two recipients in a first domain,  *)
(* which are interchangeable, and one in a second.                         *)
(***************************************************************************)
EXTENDS Delivery, TLC

CONSTANTS r1, r2, r3, d1, d2

MCDomainOf == [r \in Rcpts |-> IF r \in {r1, r2} THEN d1 ELSE d2]

RcptSymmetry == Permutations({r1, r2})
=============================================================================
