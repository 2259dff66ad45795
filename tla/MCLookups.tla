------------------------------ MODULE MCLookups -----------------------------
(***************************************************************************)
(* Lookups on a small instance: an account, credentials and an address to  *)
(* verify, asked about by more sessions than there are slots.              *)
(***************************************************************************)
EXTENDS Lookups, TLC

CONSTANTS c1, c2, c3, account, credentials, address, w1, w2

MCKindOf == (account :> "account") @@ (credentials :> "auth") @@ (address :> "verify")
=============================================================================
