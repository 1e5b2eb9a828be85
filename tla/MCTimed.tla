------------------------------ MODULE MCTimed ------------------------------
(***************************************************************************)
(* Constants for model checking Timed.                                     *)
(***************************************************************************)
EXTENDS Timed

BothBytes1 == [e \in Endpoint |-> 1]
=============================================================================
