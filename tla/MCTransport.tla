---------------------------- MODULE MCTransport ----------------------------
(***************************************************************************)
(* Constants for model checking Transport.                                 *)
(***************************************************************************)
EXTENDS TransportInv

\* Workloads: how many bytes each side writes.
NoBytes == [e \in Endpoint |-> 0]

ClientBytes3 == [e \in Endpoint |-> IF e = "client" THEN 3 ELSE 0]

ClientBytes4 == [e \in Endpoint |-> IF e = "client" THEN 4 ELSE 0]

ClientBytes1 == [e \in Endpoint |-> IF e = "client" THEN 1 ELSE 0]
=============================================================================
