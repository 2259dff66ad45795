-------------------------- MODULE MCInboundSession --------------------------
(***************************************************************************)
(* Instances of InboundSession for TLC.                                    *)
(***************************************************************************)
EXTENDS InboundSession, TLC

CONSTANTS h1, h2, a1, a2

\* Nothing tells one address, or one EHLO domain, from another.
SessionSymmetry == Permutations(Addresses) \cup Permutations(Helos)
=============================================================================
