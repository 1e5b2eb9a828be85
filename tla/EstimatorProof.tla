--------------------------- MODULE EstimatorProof ---------------------------
(***************************************************************************)
(* What the operators of Estimator return, for every configuration: an     *)
(* estimator stays one, and its timer is within min_rto and max_rto.  The  *)
(* proofs about Rto and about Timed rest on these facts.                   *)
(***************************************************************************)
EXTENDS Estimator, TLAPS

EstimatorType ==
    [sampled : BOOLEAN, srtt : Nat, rttvar : Nat, backoff : 1 .. MaxBackoff]

\* A quarter or an eighth of a natural is a natural, and no more than it.
LEMMA Quotient ==
    ASSUME NEW a \in Nat, NEW d \in Nat \ {0}
    PROVE  a \div d \in Nat /\ a \div d <= a
OBVIOUS

\* What is left when that part is taken off is natural.
LEMMA Remainder ==
    ASSUME NEW a \in Nat, NEW d \in Nat \ {0}
    PROVE  a - a \div d \in Nat
BY Quotient

\* on_sample keeps the fields of an estimator natural.
LEMMA SampledType ==
    ASSUME NEW r \in EstimatorType, NEW rtt \in Nat
    PROVE  Sampled(r, rtt) \in EstimatorType
<1> USE EstimatorAssumption
<1> DEFINE x == rtt * Scale
           d == AbsDiff(rtt, r.srtt \div Scale)
           h == Scale \div 2
           y == d * h
<1>1. r.sampled \in BOOLEAN /\ r.srtt \in Nat /\ r.rttvar \in Nat
  BY DEF EstimatorType
<1>2. x \in Nat /\ x \div 2 \in Nat /\ x \div 8 \in Nat
  <2>1. x \in Nat
    OBVIOUS
  <2> HIDE DEF x
  <2> QED
    BY <2>1, Quotient
<1>3. y \div 4 \in Nat
  <2>1. r.srtt \div Scale \in Nat /\ h \in Nat
    BY <1>1, Quotient
  <2>2. d \in Nat
    BY <2>1 DEF AbsDiff
  <2> HIDE DEF d, h
  <2>3. y \in Nat
    BY <2>1, <2>2
  <2> HIDE DEF y
  <2> QED
    BY <2>3, Quotient
<1>4. /\ r.rttvar - r.rttvar \div 4 \in Nat
      /\ r.srtt - r.srtt \div 8 \in Nat
  BY <1>1, Remainder
<1> DEFINE s == IF r.sampled THEN r.srtt - r.srtt \div 8 + x \div 8 ELSE x
           v == IF r.sampled THEN r.rttvar - r.rttvar \div 4 + y \div 4
                             ELSE x \div 2
<1>5. Sampled(r, rtt) =
        [sampled |-> TRUE, srtt |-> s, rttvar |-> v, backoff |-> 1]
  BY DEF Sampled, Smoothed
<1>6. s \in Nat /\ v \in Nat
  <2> HIDE DEF x, y
  <2> QED
    BY <1>2, <1>3, <1>4
<1>7. 1 \in 1 .. MaxBackoff
  OBVIOUS
<1> HIDE DEF s, v
<1> QED
  BY <1>5, <1>6, <1>7 DEF EstimatorType

\* So does on_timeout, and the backoff stays within its cap.
LEMMA TimedOutType ==
    ASSUME NEW r \in EstimatorType
    PROVE  TimedOut(r) \in EstimatorType
BY EstimatorAssumption DEF EstimatorType, TimedOut, Doubled, Least

\* Before the backoff the timer is between min_rto and max_rto.
LEMMA BaseRange ==
    ASSUME NEW r \in EstimatorType
    PROVE  BaseRto(r) \in MinRto .. MaxRto
<1> USE EstimatorAssumption
<1> DEFINE estimate == IF r.sampled
                         THEN r.srtt \div Scale
                                + 4 * Most(r.rttvar \div (Scale \div 2), 1)
                         ELSE MinRto
<1>1. estimate \in Int
  <2>1. Scale \div 2 \in Nat \ {0}
    OBVIOUS
  <2>2. r.srtt \in Nat /\ r.rttvar \in Nat
    BY DEF EstimatorType
  <2>3. r.rttvar \div (Scale \div 2) \in Nat /\ r.srtt \div Scale \in Nat
    BY <2>1, <2>2, Quotient
  <2> QED
    BY <2>3 DEF Most
<1> HIDE DEF estimate
<1>2. BaseRto(r) = Least(Most(estimate, MinRto), MaxRto)
  BY DEF BaseRto, estimate
<1> QED
  BY <1>1, <1>2 DEF Least, Most

\* A timer is armed with at least min_rto and at most max_rto.
LEMMA CurrentRange ==
    ASSUME NEW r \in EstimatorType
    PROVE  Current(r) \in MinRto .. MaxRto
<1> USE EstimatorAssumption
<1>1. BaseRto(r) \in MinRto .. MaxRto
  BY BaseRange
<1>2. r.backoff \in Nat /\ r.backoff >= 1
  BY DEF EstimatorType
<1>3. BaseRto(r) * r.backoff \in Nat /\ BaseRto(r) * r.backoff >= MinRto
  BY <1>1, <1>2
<1> QED
  BY <1>1, <1>3 DEF Current, Least
=============================================================================
