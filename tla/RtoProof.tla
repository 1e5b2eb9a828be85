------------------------------ MODULE RtoProof ------------------------------
(***************************************************************************)
(* For every configuration and every sequence of samples and timeouts: the *)
(* timer of a connection is always within min_rto and max_rto, a timeout   *)
(* never shortens it, and the smoothed round trip stays between the least  *)
(* and the greatest that were measured.                                    *)
(***************************************************************************)
EXTENDS Rto, EstimatorProof

\* The fields of the estimator stay natural, the backoff within its cap.
THEOREM EstimatorTypeCorrect == Spec => []TypeOK
<1>1. Init => TypeOK
  <2>1. 1 \in 1 .. MaxBackoff /\ 0 \in Nat
    BY EstimatorAssumption
  <2> QED
    BY <2>1 DEF Init, NewEstimator, TypeOK
<1>2. TypeOK /\ [Next]_vars => TypeOK'
  <2> SUFFICES ASSUME TypeOK, [Next]_vars PROVE TypeOK'
    OBVIOUS
  <2>1. est \in EstimatorType
    BY DEF TypeOK, EstimatorType
  <2>2. ASSUME NEW rtt \in 0 .. MaxRtt, OnSample(rtt) PROVE TypeOK'
    <3>1. rtt \in Nat
      BY RtoAssumption
    <3>2. est' \in EstimatorType
      BY <2>1, <2>2, <3>1, SampledType DEF OnSample
    <3> QED
      BY <2>2, <3>1, <3>2 DEF OnSample, TypeOK, EstimatorType, Least, Most
  <2>3. CASE OnTimeout
    <3>1. est' \in EstimatorType
      BY <2>1, <2>3, TimedOutType DEF OnTimeout
    <3> QED
      BY <2>3, <3>1 DEF OnTimeout, TypeOK, EstimatorType
  <2>4. CASE UNCHANGED vars
    BY <2>4 DEF vars, TypeOK
  <2> QED
    BY <2>2, <2>3, <2>4 DEF Next
<1> QED
  BY <1>1, <1>2, PTL DEF Spec

\* current() is between min_rto and max_rto, so an armed timer runs out
\* after at most max_rto ticks.
THEOREM TimerBounded == Spec => []TimeoutInRange
<1>1. TypeOK => TimeoutInRange
  BY CurrentRange DEF TypeOK, EstimatorType, TimeoutInRange
<1> QED
  BY <1>1, EstimatorTypeCorrect, PTL

-----------------------------------------------------------------------------
(* The smoothed round trip *)

\* The smoothed round trip, still scaled, is between the scaled samples.
SampleInv ==
    est.sampled => low * Scale <= est.srtt /\ est.srtt <= high * Scale

\* Scaling keeps the order of two round trips.
LEMMA ScaleMonotone ==
    ASSUME NEW a \in Nat, NEW b \in Nat, a <= b
    PROVE  a * Scale \in Nat /\ b * Scale \in Nat /\ a * Scale <= b * Scale
<1>1. Scale \in Nat
  BY EstimatorAssumption
<1>2. b = a + (b - a) /\ b - a \in Nat
  OBVIOUS
<1>3. (b - a) * Scale \in Nat /\ b * Scale = a * Scale + (b - a) * Scale
  BY <1>1, <1>2
<1> QED
  BY <1>1, <1>3

\* An average of two numbers, with the rounding of on_sample: seven eighths
\* of one, rounded up, and an eighth of the other, rounded down.
LEMMA SmoothedBetween ==
    ASSUME NEW l \in Nat, NEW h \in Nat, NEW s \in Nat, NEW x \in Nat,
           l <= s, s <= h, l <= x, x <= h
    PROVE  LET t == s - s \div 8 + x \div 8 IN l <= t /\ t <= h
OBVIOUS

\* on_sample keeps the estimate between the samples, the new one included.
LEMMA SampleStep ==
    ASSUME TypeOK, SampleInv, NEW rtt \in Nat, OnSample(rtt)
    PROVE  SampleInv'
<1>1. /\ est.srtt \in Nat /\ low \in Nat /\ high \in Nat
      /\ est'.srtt = IF est.sampled
                       THEN est.srtt - est.srtt \div 8 + (rtt * Scale) \div 8
                       ELSE rtt * Scale
      /\ low' = IF est.sampled THEN Least(low, rtt) ELSE rtt
      /\ high' = IF est.sampled THEN Most(high, rtt) ELSE rtt
  BY DEF TypeOK, OnSample, Sampled, Smoothed
<1>2. CASE ~est.sampled
  <2>1. rtt * Scale \in Nat
    BY ScaleMonotone
  <2> QED
    BY <1>1, <1>2, <2>1 DEF SampleInv
<1>3. CASE est.sampled
  <2>1. /\ low' \in Nat /\ low' <= low /\ low' <= rtt
        /\ high' \in Nat /\ high <= high' /\ rtt <= high'
    BY <1>1, <1>3 DEF Least, Most
  <2>2. /\ low' * Scale \in Nat /\ high' * Scale \in Nat /\ rtt * Scale \in Nat
        /\ low' * Scale <= low * Scale /\ low * Scale \in Nat
        /\ high * Scale <= high' * Scale /\ high * Scale \in Nat
        /\ low' * Scale <= rtt * Scale /\ rtt * Scale <= high' * Scale
    BY <1>1, <2>1, ScaleMonotone
  <2>3. low' * Scale <= est.srtt /\ est.srtt <= high' * Scale
    BY <1>1, <1>3, <2>2 DEF SampleInv
  <2> QED
    BY <1>1, <1>3, <2>2, <2>3, SmoothedBetween DEF SampleInv
<1> QED
  BY <1>2, <1>3

\* Dividing by the scale undoes it.
LEMMA Unscaled ==
    ASSUME NEW l \in Nat, NEW h \in Nat, NEW s \in Nat,
           l * Scale <= s, s <= h * Scale
    PROVE  l <= s \div Scale /\ s \div Scale <= h
<1> DEFINE d == s \div Scale
           r == s % Scale
<1>1. Scale \in Nat \ {0}
  BY EstimatorAssumption
<1>2. d \in Nat /\ r \in Nat /\ r < Scale /\ s = d * Scale + r
  BY <1>1
<1> HIDE DEF d, r
<1>3. ASSUME d + 1 <= l PROVE FALSE
  <2>1. (d + 1) * Scale <= l * Scale /\ (d + 1) * Scale \in Nat
    BY <1>2, <1>3, ScaleMonotone
  <2>2. (d + 1) * Scale = d * Scale + Scale
    BY <1>1, <1>2
  <2>3. l * Scale \in Nat /\ d * Scale \in Nat
    BY <1>1, <1>2
  <2> QED
    BY <1>1, <1>2, <2>1, <2>2, <2>3
<1>4. ASSUME h + 1 <= d PROVE FALSE
  <2>1. (h + 1) * Scale <= d * Scale /\ (h + 1) * Scale \in Nat
    BY <1>2, <1>4, ScaleMonotone
  <2>2. (h + 1) * Scale = h * Scale + Scale
    BY <1>1
  <2>3. h * Scale \in Nat /\ d * Scale \in Nat
    BY <1>1, <1>2
  <2> QED
    BY <1>1, <1>2, <2>1, <2>2, <2>3
<1> QED
  BY <1>2, <1>3, <1>4 DEF d

\* The fixed-point rounding of on_sample never carries the smoothed round
\* trip outside the round trips that were measured.
THEOREM EstimateBounded == Spec => []EstimateWithinSamples
<1>1. Init => SampleInv
  BY DEF Init, NewEstimator, SampleInv
<1>2. TypeOK /\ SampleInv /\ [Next]_vars => SampleInv'
  <2> SUFFICES ASSUME TypeOK, SampleInv, [Next]_vars PROVE SampleInv'
    OBVIOUS
  <2>1. ASSUME NEW rtt \in 0 .. MaxRtt, OnSample(rtt) PROVE SampleInv'
    <3>1. rtt \in Nat
      BY RtoAssumption
    <3> QED
      BY <2>1, <3>1, SampleStep
  <2>2. CASE OnTimeout
    BY <2>2 DEF OnTimeout, TimedOut, TypeOK, SampleInv
  <2>3. CASE UNCHANGED vars
    BY <2>3 DEF vars, SampleInv
  <2> QED
    BY <2>1, <2>2, <2>3 DEF Next
<1>3. TypeOK /\ SampleInv => EstimateWithinSamples
  BY Unscaled DEF TypeOK, SampleInv, EstimateWithinSamples
<1> QED
  BY <1>1, <1>2, <1>3, EstimatorTypeCorrect, PTL DEF Spec

\* on_timeout never shortens the timer, whatever the backoff has come to.
THEOREM BackoffMonotone == Spec => TimeoutBacksOff
<1>1. ASSUME TypeOK, OnTimeout
      PROVE  Current(est') >= Current(est)
  <2>1. est \in EstimatorType
    BY <1>1 DEF TypeOK, EstimatorType
  <2> DEFINE b == est.backoff
             a == BaseRto(est)
             c == Doubled(b)
  <2>2. est' = [est EXCEPT !.backoff = c]
    BY <1>1 DEF OnTimeout, TimedOut
  <2>3. b \in Nat /\ c \in Nat /\ b <= c /\ est'.backoff = c
    BY <2>1, <2>2, EstimatorAssumption DEF EstimatorType, Doubled, Least
  <2>4. BaseRto(est') = a
    BY <2>1, <2>2 DEF BaseRto, EstimatorType
  <2>5. a \in Nat
    BY <2>1, BaseRange, EstimatorAssumption
  <2> HIDE DEF a, b, c
  <2>6. a * b \in Nat /\ a * c \in Nat /\ a * b <= a * c
    <3>1. c - b \in Nat /\ a * c = a * b + a * (c - b)
      BY <2>3, <2>5
    <3>2. a * (c - b) \in Nat /\ a * b \in Nat
      BY <2>3, <2>5, <3>1
    <3> QED
      BY <3>1, <3>2
  <2>7. Current(est) = Least(a * b, MaxRto) /\ Current(est') = Least(a * c, MaxRto)
    BY <2>3, <2>4 DEF Current, a, b
  <2> QED
    BY <2>6, <2>7, EstimatorAssumption DEF Least
<1>2. TypeOK /\ [Next]_vars => [OnTimeout => Current(est') >= Current(est)]_vars
  BY <1>1
<1> QED
  BY <1>2, EstimatorTypeCorrect, PTL DEF Spec, TimeoutBacksOff
=============================================================================
