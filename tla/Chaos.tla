------------------------------- MODULE Chaos -------------------------------
(***************************************************************************)
(* run_chaos (crates/workload, chaos.rs): one loop that drives the clients *)
(* and servers of module Rpc tick by tick, makes the calls of a random     *)
(* schedule, and in the end replays the execution log.                     *)
(*                                                                         *)
(* The clock that Rpc leaves out is here: a call is repeated or given up   *)
(* exactly when retry_deadline ticks have passed.  sent_at is kept as an   *)
(* age, the schedule as the ticks left before its next call.  What a link  *)
(* delivers during a tick, if anything, is a choice, whatever the profile. *)
(* The servers' half of a link's turn comes first in the code; as the two  *)
(* halves touch different ends of the queues, their steps commute.         *)
(***************************************************************************)
EXTENDS Rpc

CONSTANTS
    Links,          \* the clients in the order of `links'
    Calls,          \* ChaosConfig::calls
    MaxTicks,       \* ChaosConfig::max_ticks
    MaxGap,         \* the longest gap of the schedule (4)
    RetryDeadline   \* RpcClient::retry_deadline (25)

ASSUME ChaosAssumption ==
    /\ Calls \in Nat /\ MaxGap \in Nat \ {0} /\ RetryDeadline \in Nat \ {0}
    /\ MaxCalls >= Calls
    /\ Links \in Seq(Clients) /\ Clients = {Links[i] : i \in 1 .. Len(Links)}
    /\ MaxTicks \in Nat
    /\ MaxTicks >= 1 + MaxGap * Calls + MaxAttempts * RetryDeadline

VARIABLES
    tick,
    turn,          \* 0: the schedule; i: links[i]; Len(Links) + 1: polling
    sent_at,       \* sent_at[c][id]: the age of a pending call's last copy
    wait,          \* the ticks left before the next call of the schedule
    fired, calls_failed,
    outcome        \* "running", and how run_chaos has ended

harness == <<tick, turn, sent_at, wait, fired, calls_failed, outcome>>

chaosVars == <<vars, harness>>

ChaosInit ==
    /\ Init
    /\ tick = 1 /\ turn = 0
    /\ sent_at = [c \in Clients |-> NoCalls]
    /\ wait \in 1 .. MaxGap
    /\ fired = 0 /\ calls_failed = 0
    /\ outcome = "running"

-----------------------------------------------------------------------------

\* A call of the schedule is due.
Fire(c, op) ==
    /\ turn = 0 /\ fired < Calls /\ wait = 0
    /\ Call(c, op)
    /\ sent_at' = [sent_at EXCEPT ![c] = With(@, next_id[c], 0)]
    /\ fired' = fired + 1
    /\ wait' \in 1 .. MaxGap
    /\ turn' = 1
    /\ UNCHANGED <<tick, calls_failed, outcome>>

NotDue ==
    /\ turn = 0 /\ ~(fired < Calls /\ wait = 0)
    /\ turn' = 1
    /\ UNCHANGED <<vars, tick, sent_at, wait, fired, calls_failed, outcome>>

\* A frame becomes complete at the server or the client of the link whose
\* turn it is.
Deliver(c) ==
    /\ turn \in 1 .. Len(Links) /\ c = Links[turn]
    /\ Execute(c) \/ Replay(c) \/ OnResponse(c)
    /\ sent_at' = [sent_at EXCEPT ![c] = [id \in DOMAIN pending'[c] |-> @[id]]]
    /\ UNCHANGED <<tick, turn, wait, fired, calls_failed, outcome>>

\* The calls of c that have been waiting past retry_deadline.
Overdue(c) == {id \in DOMAIN pending[c] : sent_at[c][id] >= RetryDeadline}

\* on_tick of the link's client.
TickLink(c) ==
    /\ turn \in 1 .. Len(Links) /\ c = Links[turn]
    /\ \/ Overdue(c) # {} /\ OnTick(c, Overdue(c))
       \/ Overdue(c) = {} /\ UNCHANGED vars
    /\ sent_at' = [sent_at EXCEPT ![c] =
                     [id \in DOMAIN pending'[c] |->
                        IF id \in Overdue(c) THEN 0 ELSE @[id]]]
    /\ turn' = turn + 1
    /\ UNCHANGED <<tick, wait, fired, calls_failed, outcome>>

\* poll_completed and poll_failed of one client.
Poll(c) ==
    /\ turn > Len(Links) /\ outcome = "running"
    /\ \/ PollCompleted(c) /\ UNCHANGED calls_failed
       \/ PollFailed(c) /\ calls_failed' = calls_failed + Cardinality(failed[c])
    /\ UNCHANGED <<tick, turn, sent_at, wait, fired, outcome>>

\* Mutation: the run is checked before the clients are polled.
Polled_Early == TRUE

Polled == \A c \in Clients : completed[c] = << >> /\ failed[c] = {}

\* Mutation: only the schedule is waited for.
Drained_ScheduleOnly == fired = Calls

\* all_pending_drained
Drained == fired = Calls /\ \A c \in Clients : DOMAIN pending[c] = {}

\* The end of the loop's body: the run has drained, and its log is replayed,
\* or there are no ticks left, or the next tick comes.
Check ==
    /\ turn > Len(Links) /\ outcome = "running" /\ Polled
    /\ \/ /\ Drained
          /\ outcome' = IF \A i \in 1 .. Len(log) : log[i].result = replayed[i]
                          THEN "ok" ELSE "mismatch"
          /\ UNCHANGED <<tick, turn, sent_at, wait>>
       \/ /\ ~Drained /\ tick >= MaxTicks
          /\ outcome' = "did_not_drain"
          /\ UNCHANGED <<tick, turn, sent_at, wait>>
       \/ /\ ~Drained /\ tick < MaxTicks
          /\ tick' = tick + 1 /\ turn' = 0
          /\ sent_at' = [c \in Clients |->
                           [id \in DOMAIN sent_at[c] |-> sent_at[c][id] + 1]]
          /\ wait' = IF fired < Calls THEN wait - 1 ELSE 0
          /\ UNCHANGED outcome
    /\ UNCHANGED <<vars, fired, calls_failed>>

-----------------------------------------------------------------------------

\* What the loop does next, apart from what the links deliver.
Go ==
    \/ \E c \in Clients, op \in Op : Fire(c, op)
    \/ NotDue
    \/ \E c \in Clients : TickLink(c)
    \/ \E c \in Clients : Poll(c)
    \/ Check

ChaosNext == Go \/ \E c \in Clients : Deliver(c)

\* The loop goes on; that a link delivers anything is not assumed.
ChaosSpec == ChaosInit /\ [][ChaosNext]_chaosVars /\ WF_chaosVars(Go)

-----------------------------------------------------------------------------

\* How many answers the clients have got, and how many calls failed.
Answered == Cardinality(UNION {{c} \X (1 .. Len(answered[c])) : c \in Clients})

GivenUp == Cardinality(UNION {{c} \X gaveUp[c] : c \in Clients})

\* run_chaos never reports that it "did not drain", however little the links
\* deliver: the retries of every call are used up before max_ticks.
DrainsInTime == outcome # "did_not_drain"

\* The ChaosSummary of a run that ends well is true: calls_completed, which
\* is only computed as a difference, is the number of answers the clients
\* have got; executions is no less and no more than the calls made; and no
\* call is left open.
SummaryTrue ==
    outcome = "ok" =>
        /\ calls_failed = GivenUp
        /\ fired - calls_failed = Answered
        /\ Answered <= Len(log) /\ Len(log) <= fired
        /\ Answered + GivenUp = Calls

\* run_chaos is one of the ways of driving clients and servers that Rpc
\* allows, and it is a fair one: until it ends, each call runs into its
\* deadline again and again, and it ends only when none is left.
DrivesRpcFairly == FairSpec
=============================================================================
