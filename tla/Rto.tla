-------------------------------- MODULE Rto --------------------------------
(***************************************************************************)
(* An RtoEstimator (module Estimator) under every sequence of samples and  *)
(* timeouts.                                                               *)
(***************************************************************************)
EXTENDS Estimator

CONSTANT MaxRtt  \* the longest round trip measured (a bound)

ASSUME RtoAssumption == MaxRtt \in Nat

VARIABLES
    est,       \* the estimator
    low, high  \* history: the least and the greatest sample so far

vars == <<est, low, high>>

Init == est = NewEstimator /\ low = 0 /\ high = 0

OnSample(rtt) ==
    /\ est' = Sampled(est, rtt)
    /\ low' = IF est.sampled THEN Least(low, rtt) ELSE rtt
    /\ high' = IF est.sampled THEN Most(high, rtt) ELSE rtt

OnTimeout == est' = TimedOut(est) /\ UNCHANGED <<low, high>>

Next == (\E rtt \in 0 .. MaxRtt : OnSample(rtt)) \/ OnTimeout

Spec == Init /\ [][Next]_vars

-----------------------------------------------------------------------------

\* The estimator's fields are naturals: no subtraction in on_sample goes
\* below zero, and the backoff stays within its cap.
TypeOK ==
    /\ est \in [sampled : BOOLEAN, srtt : Nat, rttvar : Nat,
                backoff : 1 .. MaxBackoff]
    /\ low \in Nat /\ high \in Nat

\* The timer is always armed with something between min_rto and max_rto,
\* after any sequence of samples and timeouts; the fairness of Transport's
\* timers rests on it.
TimeoutInRange == Current(est) \in MinRto .. MaxRto

\* The rounding of the fixed-point arithmetic never carries the smoothed
\* round trip outside the round trips that were measured.
EstimateWithinSamples ==
    est.sampled => /\ low <= est.srtt \div Scale
                   /\ est.srtt \div Scale <= high

\* A timeout never shortens the timer.
TimeoutBacksOff == [][OnTimeout => Current(est') >= Current(est)]_vars
=============================================================================
