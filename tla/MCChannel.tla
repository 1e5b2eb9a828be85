----------------------------- MODULE MCChannel -----------------------------
(***************************************************************************)
(* Profiles and scripts on which TLC checks Channel.                       *)
(***************************************************************************)
EXTENDS Channel

\* FaultProfile::CLEAN with another base delay.
Clean(delay) ==
    [loss |-> "never", duplication |-> "never", reorder_max_delay |-> 0,
     corruption |-> "never", truncation |-> "never", base_delay |-> delay]

Hostile ==
    [loss |-> "maybe", duplication |-> "maybe", reorder_max_delay |-> 1,
     corruption |-> "maybe", truncation |-> "maybe", base_delay |-> 1]

\* Every datagram is sent twice, and never out of order.
Doubling == [Clean(0) EXCEPT !.duplication = "always", !.loss = "maybe"]

AllProfiles == {Clean(1), Hostile, Doubling}

Rule(index, fault, arg) == [index |-> index, fault |-> fault, arg |-> arg]

AllScripts ==
    {<< >>,
     <<Rule(0, "Duplicate", 0), Rule(0, "Delay", 2), Rule(1, "Drop", 0)>>,
     <<Rule(0, "Corrupt", 1), Rule(1, "Truncate", 0), Rule(1, "Delay", 0)>>}
=============================================================================
