----------------------------- MODULE MCDelegation -----------------------------
(***************************************************************************)
(* Delegation for TLC: a call of each of two gateways.                     *)
(***************************************************************************)
EXTENDS Delegation, TLC
CONSTANTS g1, g2, c1, c2

MCGateways == {g1, g2}
MCCalls == {c1, c2}
MCAt == (c1 :> g1) @@ (c2 :> g2)
=============================================================================
