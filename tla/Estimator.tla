----------------------------- MODULE Estimator -----------------------------
(***************************************************************************)
(* The retransmission timeout of one connection (crates/transport, rto.rs, *)
(* RtoEstimator): Jacobson/Karels smoothing in integer arithmetic, with a  *)
(* backoff that doubles at each timeout.  An estimator is a record; srtt   *)
(* and rttvar are scaled, and sampled is FALSE while srtt is None.         *)
(***************************************************************************)
EXTENDS Integers

CONSTANTS
    MinRto, MaxRto,  \* Config::min_rto and max_rto
    Scale,           \* rto.rs SCALE (8)
    MaxBackoff       \* the cap in on_timeout (64)

ASSUME EstimatorAssumption ==
    /\ MinRto \in Nat \ {0} /\ MaxRto \in Nat /\ MinRto <= MaxRto
    /\ Scale \in Nat \ {0, 1} /\ MaxBackoff \in Nat \ {0}

Least(a, b) == IF a <= b THEN a ELSE b

Most(a, b) == IF a >= b THEN a ELSE b

NewEstimator == [sampled |-> FALSE, srtt |-> 0, rttvar |-> 0, backoff |-> 1]

BaseRto(r) ==
    LET estimate == IF r.sampled
                      THEN r.srtt \div Scale
                             + 4 * Most(r.rttvar \div (Scale \div 2), 1)
                      ELSE MinRto
    IN  Least(Most(estimate, MinRto), MaxRto)

\* Mutation: the backoff is applied after the bound.
Current_Unbounded(r) == BaseRto(r) * r.backoff

Current(r) == Least(BaseRto(r) * r.backoff, MaxRto)

AbsDiff(a, b) == IF a >= b THEN a - b ELSE b - a

\* Mutation: the smoothing adds an eighth without taking one off.
Smoothed_Grows(s, rtt) == s + (rtt * Scale) \div 8

Smoothed(s, rtt) == s - s \div 8 + (rtt * Scale) \div 8

\* on_sample: the first sample sets the estimate, later ones move it.
Sampled(r, rtt) ==
    [sampled |-> TRUE,
     srtt |-> IF r.sampled THEN Smoothed(r.srtt, rtt) ELSE rtt * Scale,
     rttvar |-> IF r.sampled
                  THEN r.rttvar - r.rttvar \div 4
                         + (AbsDiff(rtt, r.srtt \div Scale) * (Scale \div 2))
                             \div 4
                  ELSE (rtt * Scale) \div 2,
     backoff |-> 1]

\* Mutation: the backoff wraps around at its cap.
Doubled_Wraps(b) == IF b * 2 > MaxBackoff THEN 1 ELSE b * 2

Doubled(b) == Least(b * 2, MaxBackoff)

\* on_timeout
TimedOut(r) == [r EXCEPT !.backoff = Doubled(@)]
=============================================================================
