------------------------------ MODULE MCChaos ------------------------------
(***************************************************************************)
(* Constants for model checking Chaos: two links.                          *)
(***************************************************************************)
EXTENDS Chaos

CONSTANTS c1, c2

TwoLinks == <<c1, c2>>
=============================================================================
