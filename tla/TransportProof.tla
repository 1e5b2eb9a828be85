-------------------------- MODULE TransportProof ----------------------------
(***************************************************************************)
(* Proofs about Transport and Timed, for every configuration, every        *)
(* workload and every network, in three parts.                             *)
(*                                                                         *)
(* The pair of connections: TypeOK and PrefixDelivery.  The lemmas follow  *)
(* the methods of Connection: one for each operator that makes a new send  *)
(* or receive state.                                                       *)
(*                                                                         *)
(* The streams: first flow control, how the queue is cut into segments,    *)
(* how much of it the window lets out, and that it never stalls.  Then the *)
(* segments: no byte is forgotten or stranded, the oldest segment is never *)
(* taken for SACKed (SegmentInv), and what is in flight fits the           *)
(* receiver's capacity (WindowInv).  Then the end of a stream: Closed is   *)
(* delivered (CloseInv), and the pair implements ReliableStream.           *)
(*                                                                         *)
(* The clocked connections of Timed: they are connections of Transport,    *)
(* whose theorems they inherit; no sample is taken from what was sent      *)
(* twice; and a connection that hears nothing ends within (max_retries +   *)
(* 1) * max_rto ticks.                                                     *)
(***************************************************************************)
EXTENDS Timed, TransportInv, EstimatorProof, FiniteSetTheorems,
        SequenceTheorems, WellFoundedInduction, TLAPS

-----------------------------------------------------------------------------
(* Arithmetic and finite sets *)

\* A nonempty set of naturals has a least element.
LEMMA NatMin ==
    ASSUME NEW T \in SUBSET Nat, T # {}
    PROVE  \E x \in T : \A y \in T : x <= y
<1> DEFINE R == OpToRel(<, Nat)
<1>1. IsWellFoundedOn(R, Nat)
  BY NatLessThanWellFounded
<1>2. \A x, y \in Nat : <<y, x>> \in R <=> y < x
  BY DEF OpToRel
<1> HIDE DEF R
<1>3. PICK x \in T : \A y \in T : ~(<<y, x>> \in R)
  BY <1>1, WFMin, Zenon
<1>4. ASSUME NEW y \in T
      PROVE  x <= y
  <2>1. x \in Nat /\ y \in Nat
    OBVIOUS
  <2>2. ~(y < x)
    BY <1>2, <1>3, <2>1
  <2> QED
    BY <2>1, <2>2
<1> QED
  BY <1>4

\* A nonempty set of naturals with an upper bound has a greatest element.
LEMMA NatMax ==
    ASSUME NEW T \in SUBSET Nat, T # {},
           NEW n \in Nat, \A x \in T : x <= n
    PROVE  \E x \in T : \A y \in T : y <= x
<1> DEFINE U == {i \in Nat : n - i \in T}
<1>1. U \in SUBSET Nat /\ U # {}
  <2>1. PICK x \in T : TRUE
    OBVIOUS
  <2>2. n - x \in Nat /\ n - (n - x) = x
    BY <2>1
  <2> QED
    BY <2>1, <2>2
<1>2. PICK i \in U : \A j \in U : i <= j
  BY <1>1, NatMin
<1>3. ASSUME NEW y \in T
      PROVE  y <= n - i
  <2>1. y \in Nat /\ n - y \in Nat /\ n - (n - y) = y
    OBVIOUS
  <2>2. n - y \in U
    BY <2>1
  <2>3. i <= n - y
    BY <1>2, <2>2
  <2> QED
    BY <2>1, <2>3, <1>2
<1>4. n - i \in T
  BY <1>2
<1> QED
  BY <1>3, <1>4

\* Halving, and dividing by a window, stays within the naturals.
LEMMA DivNat ==
    ASSUME NEW a \in Nat, NEW b \in Nat \ {0}
    PROVE  a \div b \in Nat
OBVIOUS

\* The bytes of a map whose entries all end by offset n are finitely many.
LEMMA BytesOfFinite ==
    ASSUME NEW f, IsMap(f, Seq(Nat)), NEW n \in Nat,
           \A q \in DOMAIN f : q + Len(f[q]) <= n
    PROVE  Cardinality(BytesOf(f)) \in Nat
<1> DEFINE B == (0 .. n) \X (1 .. n)
<1>1. IsFiniteSet(B)
  <2>1. IsFiniteSet(0 .. n) /\ IsFiniteSet(1 .. n)
    BY FS_Interval
  <2> QED
    BY <2>1, FS_Product
<1>2. BytesOf(f) \subseteq B
  <2> SUFFICES ASSUME NEW q \in DOMAIN f
               PROVE  {q} \X (1 .. Len(f[q])) \subseteq B
    BY DEF BytesOf
  <2>1. q \in Nat /\ f[q] \in Seq(Nat)
    BY DEF IsMap
  <2>2. Len(f[q]) \in Nat
    BY <2>1
  <2>3. q + Len(f[q]) <= n
    OBVIOUS
  <2> QED
    BY <2>1, <2>2, <2>3
<1>3. IsFiniteSet(BytesOf(f))
  BY <1>1, <1>2, FS_Subset
<1> QED
  BY <1>3, FS_CardinalityType

-----------------------------------------------------------------------------
(* Windows and admission *)

\* in_flight_bytes of a well-formed send side is a number.
LEMMA InFlightNat ==
    ASSUME NEW s, NEW w, SndType(s), SndInv(s, w)
    PROVE  InFlightBytes(s) \in Nat
<1> DEFINE f == SegmentData(s.unacked)
<1>1. IsMap(f, Seq(Nat)) /\ DOMAIN f = DOMAIN s.unacked
  BY DEF SndType, SegmentData, IsMap, Segment
<1>2. \A q \in DOMAIN f : q + Len(f[q]) <= s.next_seq
  BY DEF SndInv, IsPartWithin, SegmentData
<1>3. s.next_seq \in Nat
  BY DEF SndType
<1> HIDE DEF f
<1>4. Cardinality(BytesOf(f)) \in Nat
  BY <1>1, <1>2, <1>3, BytesOfFinite
<1> QED
  BY <1>4 DEF InFlightBytes, f

\* try_send_more admits no more than is queued.
LEMMA AdmittedRange ==
    ASSUME NEW c, NEW s, NEW w, SndType(s), SndInv(s, w)
    PROVE  Admitted(c, s) \in 0 .. Len(s.send_queue)
<1>1. InFlightBytes(s) \in Nat
  BY InFlightNat
<1>2. s.peer_window \in Nat /\ s.cwnd \in Nat
  BY ConfigAssumption DEF SndType
<1>3. Len(s.send_queue) \in Nat
  BY DEF SndType
<1> QED
  BY <1>1, <1>2, <1>3
     DEF Admitted, EffectiveWindow, Lesser, Greater, SaturatingSub

\* The advertised window of a well-formed receive side fits a u32.
LEMMA WindowRange ==
    ASSUME NEW r, NEW got, NEW n \in Nat, RcvType(r), RcvInv(r, got, n)
    PROVE  AdvertisedWindow(r) \in 0 .. U32Max
<1>1. \A q \in DOMAIN r.recv_buffer : q + Len(r.recv_buffer[q]) <= n
  BY DEF RcvInv, IsPartWithin
<1>2. Cardinality(BytesOf(r.recv_buffer)) \in Nat
  BY <1>1, BytesOfFinite DEF RcvType
<1>3. Len(r.delivered) \in Nat
  BY DEF RcvType
<1> QED
  BY <1>2, <1>3, ConfigAssumption
     DEF AdvertisedWindow, HeldBytes, SaturatingSub

-----------------------------------------------------------------------------
(* The send side *)

\* A segment cut from the queue is the part of the stream it is numbered as.
LEMMA NewSegmentPart ==
    ASSUME NEW s, NEW w, SndType(s), SndInv(s, w),
           NEW n \in 0 .. Len(s.send_queue), NEW q \in Cuts(s, n)
    PROVE  /\ q \in Nat
           /\ NewSegment(s, n, q) \in Segment
           /\ IsPartWithin(NewSegment(s, n, q).data, q, s.next_seq + n)
<1> DEFINE a == q - s.next_seq + 1
           b == Lesser(q - s.next_seq + SegmentSize, n)
           d == SubSeq(s.send_queue, a, b)
<1>1. s.next_seq \in Nat /\ s.send_queue \in Seq(Nat)
  BY DEF SndType
<1>2. n \in Nat /\ Len(s.send_queue) \in Nat /\ n <= Len(s.send_queue)
  BY <1>1
<1>3. q \in Nat /\ s.next_seq <= q /\ q < s.next_seq + n
  BY <1>1, <1>2 DEF Cuts
<1>4. a \in Nat /\ b \in Nat /\ 1 <= a /\ a <= b /\ b <= n
  BY SMTT(30), <1>1, <1>2, <1>3, ConfigAssumption DEF Lesser
<1> HIDE DEF a, b
<1>5. \A i \in a .. b : s.send_queue[i] \in Nat
  BY SMTT(30), <1>1, <1>2, <1>4
<1>6. /\ d \in Seq(Nat)
      /\ Len(d) = b - a + 1
      /\ \A i \in 1 .. b - a + 1 : d[i] = s.send_queue[a + i - 1]
  BY SMTT(30), <1>4, <1>5, SubSeqProperties
<1> HIDE DEF d
<1>7. NewSegment(s, n, q) = [data |-> d, retransmit_count |-> 0,
                             sacked |-> FALSE]
  BY DEF NewSegment, a, b, d
<1>8. IsPart(d, q)
  <2> SUFFICES ASSUME NEW i \in 1 .. Len(d)
               PROVE  d[i] = q + i
    BY DEF IsPart
  <2>1. a + i - 1 \in 1 .. Len(s.send_queue)
    BY <1>2, <1>4, <1>6
  <2>2. d[i] = s.next_seq + (a + i - 1)
    BY <1>6, <2>1 DEF SndInv, IsPart
  <2> QED
    BY SMTT(30), <2>2, <1>1, <1>3, <1>4 DEF a
<1>9. q + Len(d) <= s.next_seq + n
  BY SMTT(30), <1>1, <1>2, <1>3, <1>4, <1>6 DEF a
<1>10. NewSegment(s, n, q) \in Segment /\ NewSegment(s, n, q).data = d
  BY <1>6, <1>7 DEF Segment
<1> QED
  BY <1>3, <1>8, <1>9, <1>10 DEF IsPartWithin

\* try_send_more keeps the send side well formed.
LEMMA TrySendMoreOK ==
    ASSUME NEW c, NEW s, NEW w \in Nat, SndType(s), SndInv(s, w)
    PROVE  /\ SndType(TrySendMore(c, s))
           /\ SndInv(TrySendMore(c, s), w)
           /\ TrySendMore(c, s).next_seq >= s.next_seq
           /\ Cuts(s, Admitted(c, s)) \subseteq DOMAIN TrySendMore(c, s).unacked
<1> DEFINE n == Admitted(c, s)
           t == TrySendMore(c, s)
           rest == SubSeq(s.send_queue, n + 1, Len(s.send_queue))
           un == [q \in (DOMAIN s.unacked) \cup Cuts(s, n) |->
                    IF q \in Cuts(s, n) THEN NewSegment(s, n, q)
                                        ELSE s.unacked[q]]
<1>1. n \in 0 .. Len(s.send_queue)
  BY AdmittedRange
<1>2. t = [s EXCEPT !.send_queue = rest, !.next_seq = s.next_seq + n,
                    !.unacked = un]
  BY DEF TrySendMore
<1> HIDE DEF n, t
<1>3. s.next_seq \in Nat /\ s.send_queue \in Seq(Nat) /\ n \in Nat
      /\ Len(s.send_queue) \in Nat
  BY <1>1 DEF SndType
<1>4. /\ rest \in Seq(Nat)
      /\ Len(rest) = Len(s.send_queue) - n
      /\ \A i \in 1 .. Len(s.send_queue) - n : rest[i] = s.send_queue[n + i]
  <2>1. \A i \in (n + 1) .. Len(s.send_queue) : s.send_queue[i] \in Nat
    BY <1>3
  <2>2. /\ rest \in Seq(Nat)
        /\ Len(rest) = IF n + 1 <= Len(s.send_queue)
                         THEN Len(s.send_queue) - (n + 1) + 1 ELSE 0
        /\ \A i \in 1 .. Len(s.send_queue) - (n + 1) + 1 :
              rest[i] = s.send_queue[(n + 1) + i - 1]
    BY <2>1, <1>3, SubSeqProperties
  <2> QED
    BY <2>2, <1>1, <1>3
<1>5. \A q \in Cuts(s, n) :
         /\ q \in Nat
         /\ NewSegment(s, n, q) \in Segment
         /\ IsPartWithin(NewSegment(s, n, q).data, q, s.next_seq + n)
  BY <1>1, NewSegmentPart
<1>6. IsMap(un, Segment)
  BY <1>5 DEF SndType, IsMap
<1>7. \A q \in DOMAIN un : IsPartWithin(un[q].data, q, s.next_seq + n)
  <2> SUFFICES ASSUME NEW q \in DOMAIN un
               PROVE  IsPartWithin(un[q].data, q, s.next_seq + n)
    OBVIOUS
  <2>1. CASE q \in Cuts(s, n)
    BY <2>1, <1>5
  <2>2. CASE q \notin Cuts(s, n)
    <3>1. q \in DOMAIN s.unacked /\ un[q] = s.unacked[q]
      BY <2>2
    <3>2. /\ q \in Nat
          /\ s.unacked[q].data \in Seq(Nat)
          /\ IsPart(s.unacked[q].data, q)
          /\ q + Len(s.unacked[q].data) <= s.next_seq
      BY <3>1 DEF SndType, SndInv, IsMap, IsPartWithin, Segment
    <3>3. Len(s.unacked[q].data) \in Nat
      BY <3>2
    <3> QED
      BY <3>1, <3>2, <3>3, <1>3 DEF IsPartWithin
  <2> QED
    BY <2>1, <2>2
<1> HIDE DEF rest, un
<1>8. /\ t.send_queue = rest /\ t.next_seq = s.next_seq + n
      /\ t.unacked = un /\ t.send_base = s.send_base
      /\ t.peer_window = s.peer_window /\ t.cwnd = s.cwnd
      /\ t.ssthresh = s.ssthresh /\ t.dup_ack_count = s.dup_ack_count
      /\ t = [send_queue |-> t.send_queue, next_seq |-> t.next_seq,
              send_base |-> t.send_base, unacked |-> t.unacked,
              peer_window |-> t.peer_window, cwnd |-> t.cwnd,
              ssthresh |-> t.ssthresh, dup_ack_count |-> t.dup_ack_count]
  BY <1>2 DEF SndType
<1>9. SndType(t)
  BY <1>3, <1>4, <1>6, <1>8 DEF SndType
<1>10. IsPart(rest, s.next_seq + n)
  <2> SUFFICES ASSUME NEW i \in 1 .. Len(rest)
               PROVE  rest[i] = s.next_seq + n + i
    BY DEF IsPart
  <2>1. i \in 1 .. Len(s.send_queue) - n
    BY <1>4
  <2>2. n + i \in 1 .. Len(s.send_queue)
    BY <1>3, <2>1
  <2>3. rest[i] = s.send_queue[n + i]
    BY <1>4, <2>1
  <2>4. \A j \in 1 .. Len(s.send_queue) : s.send_queue[j] = s.next_seq + j
    BY DEF SndInv, IsPart
  <2>5. s.send_queue[n + i] = s.next_seq + (n + i)
    BY <2>2, <2>4
  <2> QED
    BY SMTT(30), <1>3, <2>1, <2>3, <2>5
<1>11. SndInv(t, w)
  BY <1>3, <1>4, <1>7, <1>8, <1>10 DEF SndInv
<1>12. Cuts(s, n) \subseteq DOMAIN t.unacked
  BY <1>8 DEF un
<1> QED
  BY <1>3, <1>8, <1>9, <1>11, <1>12 DEF n, t

\* t is the send side s with other windows and counts, and at most the
\* segments of s: what every method but send and try_send_more leaves.
Keeps(s, t) ==
    /\ SndType(t)
    /\ t.next_seq = s.next_seq
    /\ t.send_queue = s.send_queue
    /\ DOMAIN t.unacked \subseteq DOMAIN s.unacked
    /\ \A q \in DOMAIN t.unacked : t.unacked[q].data = s.unacked[q].data

\* What keeps the segments keeps the invariant of the send side.
LEMMA KeepsInv ==
    ASSUME NEW s, NEW t, NEW w, SndInv(s, w), Keeps(s, t)
    PROVE  SndInv(t, w)
BY DEF Keeps, SndInv

\* Two methods in a row, each keeping the segments.
LEMMA KeepsTrans ==
    ASSUME NEW s, NEW t, NEW u, Keeps(s, t), Keeps(t, u)
    PROVE  Keeps(s, u)
BY DEF Keeps

\* Both ways to change cwnd and ssthresh stay within u32.
LEMMA WindowSteps ==
    ASSUME NEW s, SndType(s), NEW n \in Nat
    PROVE  Grow(s, n) \in 0 .. U32Max /\ Halved(s) \in 0 .. U32Max
<1>1. s.cwnd \in Nat /\ s.cwnd <= U32Max /\ s.ssthresh \in Nat
  BY ConfigAssumption DEF SndType
<1>2. SegmentSize * SegmentSize \in Nat
  BY ConfigAssumption
<1>3. Greater(s.cwnd, 1) \in Nat \ {0}
  BY <1>1 DEF Greater
<1>4. (SegmentSize * SegmentSize) \div Greater(s.cwnd, 1) \in Nat
  BY <1>2, <1>3, DivNat
<1>5. Greater((SegmentSize * SegmentSize) \div Greater(s.cwnd, 1), 1) \in Nat
  BY <1>4 DEF Greater
<1>6. \A a \in Nat : SaturatingAdd(s.cwnd, a) \in 0 .. U32Max
  BY <1>1, ConfigAssumption DEF SaturatingAdd, Lesser
<1>7. Grow(s, n) \in 0 .. U32Max
  BY <1>5, <1>6 DEF Grow
<1>8. Halved(s) \in 0 .. U32Max
  BY <1>1, ConfigAssumption DEF Halved, Greater
<1> QED
  BY <1>7, <1>8

\* on_datagram, adopting the peer's window.
LEMMA AdoptWindowKeeps ==
    ASSUME NEW s, NEW m, SndType(s), m.header.window \in 0 .. U32Max
    PROVE  Keeps(s, AdoptWindow(s, m))
BY DEF AdoptWindow, Keeps, SndType

\* apply_ack of a new cumulative ack only drops segments.
LEMMA AckNewKeeps ==
    ASSUME NEW s, SndType(s), NEW ack \in Nat, ack > s.send_base
    PROVE  Keeps(s, AckNew(s, ack))
<1>1. ack - s.send_base \in Nat
  BY DEF SndType
<1> DEFINE g == Grow(s, ack - s.send_base)
<1>2. g \in 0 .. U32Max
  BY <1>1, WindowSteps
<1> DEFINE un == [q \in {x \in DOMAIN s.unacked : x >= ack} |-> s.unacked[q]]
<1>3. /\ IsMap(un, Segment) /\ DOMAIN un \subseteq DOMAIN s.unacked
      /\ \A q \in DOMAIN un : un[q].data = s.unacked[q].data
  BY DEF SndType, IsMap
<1> DEFINE t == AckNew(s, ack)
<1>4. t = [s EXCEPT !.unacked = un, !.send_base = ack, !.dup_ack_count = 0,
                    !.cwnd = g]
  BY DEF AckNew
<1> HIDE DEF un, g, t
<1>5. /\ t.send_queue = s.send_queue /\ t.next_seq = s.next_seq
      /\ t.unacked = un
  BY <1>4 DEF SndType
<1>6. SndType(t)
  BY <1>2, <1>3, <1>4, <1>5 DEF SndType
<1>7. Keeps(s, t)
  BY <1>3, <1>5, <1>6 DEF Keeps
<1> QED
  BY <1>7 DEF t

\* Outstanding segments have an oldest one.
LEMMA OldestIn ==
    ASSUME NEW s, SndType(s), DOMAIN s.unacked # {}
    PROVE  Oldest(s) \in DOMAIN s.unacked
<1>1. \E q \in DOMAIN s.unacked : \A p \in DOMAIN s.unacked : q <= p
  BY NatMin DEF SndType, IsMap
<1> QED
  BY <1>1 DEF Oldest

\* apply_ack, the fast retransmit.
LEMMA FastRetransmitKeeps ==
    ASSUME NEW s, SndType(s), DOMAIN s.unacked # {}
    PROVE  Keeps(s, FastRetransmit(s))
<1> DEFINE o  == Oldest(s)
           un == [s.unacked EXCEPT ![o].retransmit_count = CountRetransmit(@)]
<1>1. o \in DOMAIN s.unacked
  BY OldestIn
<1>2. \A n \in Nat : CountRetransmit(n) \in Nat
  BY ConfigAssumption DEF CountRetransmit, Lesser
<1>3. \A q \in DOMAIN s.unacked : s.unacked[q] \in Segment
  BY DEF SndType, IsMap
<1>4. /\ DOMAIN un = DOMAIN s.unacked
      /\ \A q \in DOMAIN un :
            un[q] = IF q = o
                      THEN [s.unacked[q] EXCEPT !.retransmit_count =
                                                  CountRetransmit(@)]
                      ELSE s.unacked[q]
  BY <1>1 DEF SndType, IsMap
<1>5. \A q \in DOMAIN un : un[q] \in Segment /\ un[q].data = s.unacked[q].data
  <2> SUFFICES ASSUME NEW q \in DOMAIN s.unacked
               PROVE  LET g == [s.unacked[q] EXCEPT !.retransmit_count =
                                                      CountRetransmit(@)]
                      IN  g \in Segment /\ g.data = s.unacked[q].data
    BY <1>3, <1>4
  <2> QED
    BY <1>2, <1>3 DEF Segment
<1>6. IsMap(un, Segment)
  BY <1>4, <1>5 DEF IsMap, SndType
<1> DEFINE h == Halved(s)
           t == FastRetransmit(s)
<1>7. t = [s EXCEPT !.dup_ack_count = 0, !.ssthresh = h, !.cwnd = h,
                    !.unacked = un]
  BY DEF FastRetransmit
<1>8. h \in 0 .. U32Max
  BY WindowSteps
<1> HIDE DEF un, h, t
<1>9. /\ t.send_queue = s.send_queue /\ t.next_seq = s.next_seq
      /\ t.unacked = un
  BY <1>7 DEF SndType
<1>10. SndType(t)
  BY <1>6, <1>7, <1>8, <1>9 DEF SndType
<1>11. Keeps(s, t)
  BY <1>4, <1>5, <1>9, <1>10 DEF Keeps
<1> QED
  BY <1>11 DEF t

\* Replacing segments by segments with the same data keeps the stream.
LEMMA SegmentsKeeps ==
    ASSUME NEW s, SndType(s), NEW un, DOMAIN un = DOMAIN s.unacked,
           un = [q \in DOMAIN un |-> un[q]],
           \A q \in DOMAIN un :
               un[q] \in Segment /\ un[q].data = s.unacked[q].data
    PROVE  Keeps(s, [s EXCEPT !.unacked = un])
<1> DEFINE t == [s EXCEPT !.unacked = un]
<1>1. IsMap(un, Segment)
  BY DEF IsMap, SndType
<1>2. /\ t.send_queue = s.send_queue /\ t.next_seq = s.next_seq
      /\ t.unacked = un
  BY DEF SndType
<1>3. SndType(t)
  BY <1>1, <1>2 DEF SndType
<1> QED
  BY <1>2, <1>3 DEF Keeps

\* apply_ack, the SACK ranges.
LEMMA MarkSackedKeeps ==
    ASSUME NEW s, NEW sack, SndType(s)
    PROVE  Keeps(s, MarkSacked(s, sack))
<1> DEFINE In(q) == \E x \in sack : x.start <= q /\ q <= x.end
           un == [q \in DOMAIN s.unacked |->
                    IF In(q) THEN [s.unacked[q] EXCEPT !.sacked = TRUE]
                             ELSE s.unacked[q]]
<1>1. MarkSacked(s, sack) = [s EXCEPT !.unacked = un]
  BY DEF MarkSacked
<1> HIDE DEF In
<1>2. DOMAIN un = DOMAIN s.unacked /\ un = [q \in DOMAIN un |-> un[q]]
  OBVIOUS
<1>3. \A q \in DOMAIN un : un[q] \in Segment /\ un[q].data = s.unacked[q].data
  <2> SUFFICES ASSUME NEW q \in DOMAIN s.unacked
               PROVE  un[q] \in Segment /\ un[q].data = s.unacked[q].data
    OBVIOUS
  <2>1. s.unacked[q] \in Segment
    BY DEF SndType, IsMap
  <2> QED
    BY <2>1 DEF Segment
<1> HIDE DEF un
<1> QED
  BY <1>1, <1>2, <1>3, SegmentsKeeps

\* apply_ack keeps the send side well formed.
LEMMA AckSndKeeps ==
    ASSUME NEW s, NEW h, SndType(s), h.ack \in Nat
    PROVE  Keeps(s, AckSnd(s, h))
<1>1. CASE h.ack > s.send_base
  <2>1. Keeps(s, AckNew(s, h.ack))
    BY <1>1, AckNewKeeps
  <2>2. Keeps(AckNew(s, h.ack), MarkSacked(AckNew(s, h.ack), h.sack))
    BY <2>1, MarkSackedKeeps DEF Keeps
  <2> QED
    BY <1>1, <2>1, <2>2, KeepsTrans DEF AckSnd
<1>2. CASE ~(h.ack > s.send_base) /\ FastRetransmits(s, h.ack)
  BY <1>2, FastRetransmitKeeps DEF AckSnd, FastRetransmits, IsDupAck
<1>3. CASE /\ ~(h.ack > s.send_base) /\ ~FastRetransmits(s, h.ack)
           /\ IsDupAck(s, h.ack)
  <2> DEFINE k == s.dup_ack_count + 1
             t == [s EXCEPT !.dup_ack_count = k]
  <2>1. k \in Nat
    BY DEF SndType
  <2>2. AckSnd(s, h) = MarkSacked(t, h.sack)
    BY <1>3 DEF AckSnd
  <2> HIDE DEF k
  <2>3. Keeps(s, t) /\ t.unacked = s.unacked
    BY <2>1 DEF Keeps, SndType
  <2> HIDE DEF t
  <2>4. Keeps(t, MarkSacked(t, h.sack))
    BY <2>3, MarkSackedKeeps DEF Keeps
  <2> QED
    BY <2>2, <2>3, <2>4, KeepsTrans
<1>4. CASE /\ ~(h.ack > s.send_base) /\ ~FastRetransmits(s, h.ack)
           /\ ~IsDupAck(s, h.ack)
  BY <1>4, MarkSackedKeeps DEF AckSnd
<1> QED
  BY <1>1, <1>2, <1>3, <1>4

\* A data timeout keeps the send side well formed, also when it gives up.
LEMMA DataTimeoutKeeps ==
    ASSUME NEW s, SndType(s)
    PROVE  /\ Keeps(s, DataTimeout(s))
           /\ Keeps(s, [DataTimeout(s) EXCEPT !.unacked = << >>])
<1> DEFINE un == [q \in DOMAIN s.unacked |->
                    IF q \in Unsacked(s)
                      THEN [s.unacked[q] EXCEPT
                              !.retransmit_count = CountRetransmit(@)]
                      ELSE s.unacked[q]]
           h == Halved(s)
           d == DataTimeout(s)
           z == [d EXCEPT !.unacked = << >>]
<1>1. d = [s EXCEPT !.ssthresh = h, !.cwnd = SegmentSize,
                    !.dup_ack_count = 0, !.unacked = un]
  BY DEF DataTimeout
<1>2. h \in 0 .. U32Max /\ SegmentSize \in 0 .. U32Max
  BY WindowSteps, ConfigAssumption
<1>4. \A q \in DOMAIN un : un[q] \in Segment /\ un[q].data = s.unacked[q].data
  <2> SUFFICES ASSUME NEW q \in DOMAIN s.unacked
               PROVE  un[q] \in Segment /\ un[q].data = s.unacked[q].data
    OBVIOUS
  <2>1. s.unacked[q] \in Segment
    BY DEF SndType, IsMap
  <2>2. \A n \in Nat : CountRetransmit(n) \in Nat
    BY ConfigAssumption DEF CountRetransmit, Lesser
  <2> QED
    BY <2>1, <2>2 DEF Segment
<1>5. IsMap(un, Segment) /\ DOMAIN un = DOMAIN s.unacked
  BY <1>4 DEF SndType, IsMap
<1> HIDE DEF un, h, d
<1>6. /\ d.send_queue = s.send_queue /\ d.next_seq = s.next_seq
      /\ d.unacked = un
  BY <1>1 DEF SndType
<1>7. SndType(d)
  BY <1>1, <1>2, <1>5, <1>6 DEF SndType
<1>8. Keeps(s, d)
  BY <1>4, <1>5, <1>6, <1>7 DEF Keeps
<1>9. IsMap(<< >>, Segment) /\ DOMAIN << >> = {}
  BY DEF IsMap
<1>10. /\ z.send_queue = d.send_queue /\ z.next_seq = d.next_seq
       /\ z.unacked = << >>
  BY <1>7 DEF SndType
<1>11. SndType(z)
  BY <1>7, <1>9, <1>10 DEF SndType
<1>12. Keeps(d, z)
  BY <1>9, <1>10, <1>11 DEF Keeps
<1> QED
  BY <1>8, <1>12, KeepsTrans DEF d

-----------------------------------------------------------------------------
(* The receive side *)

\* A buffer as deliver_data builds it: no empty entry, all within n bytes.
IsBuffer(buf, n) ==
    /\ IsMap(buf, Seq(Nat))
    /\ \A q \in DOMAIN buf : Len(buf[q]) > 0 /\ IsPartWithin(buf[q], q, n)

\* The end of a buffered entry is an offset beyond its start.
LEMMA EndOfFacts ==
    ASSUME NEW buf, NEW n \in Nat, IsBuffer(buf, n), NEW q \in DOMAIN buf
    PROVE  /\ q \in Nat /\ buf[q] \in Seq(Nat) /\ Len(buf[q]) \in Nat
           /\ EndOf(buf, q) \in Nat /\ q < EndOf(buf, q) /\ EndOf(buf, q) <= n
<1>1. q \in Nat /\ buf[q] \in Seq(Nat)
  BY DEF IsBuffer, IsMap
<1>2. Len(buf[q]) \in Nat
  BY <1>1
<1>3. Len(buf[q]) > 0 /\ q + Len(buf[q]) <= n
  BY DEF IsBuffer, IsPartWithin
<1> QED
  BY <1>1, <1>2, <1>3 DEF EndOf

\* A run goes on as long as there is an entry to go on with.
LEMMA RunClosed ==
    ASSUME NEW buf, NEW from,
           NEW j \in {from} \cup {EndOf(buf, i) : i \in Run(buf, from)},
           j \in DOMAIN buf
    PROVE  j \in Run(buf, from)
<1> SUFFICES ASSUME NEW S \in SUBSET DOMAIN buf,
                    \A x \in {from} \cup {EndOf(buf, i) : i \in S} :
                       x \in DOMAIN buf => x \in S
             PROVE  j \in S
  BY DEF Run
<1>1. Run(buf, from) \subseteq S
  BY DEF Run
<1> QED
  BY <1>1

\* Every entry of a run but the first starts where another one ends.
LEMMA RunSupported ==
    ASSUME NEW buf, NEW from, NEW q \in Run(buf, from), q # from
    PROVE  \E p \in Run(buf, from) : EndOf(buf, p) = q
<1> SUFFICES ASSUME \A p \in Run(buf, from) : EndOf(buf, p) # q
             PROVE  FALSE
  OBVIOUS
<1> DEFINE S == Run(buf, from) \ {q}
<1>1. S \in SUBSET DOMAIN buf
  BY DEF Run
<1>2. ASSUME NEW x \in {from} \cup {EndOf(buf, i) : i \in S},
             x \in DOMAIN buf
      PROVE  x \in S
  <2>1. x \in Run(buf, from)
    BY <1>2, RunClosed
  <2>2. x # q
    BY <1>2
  <2> QED
    BY <2>1, <2>2
<1>3. q \in S
  BY <1>1, <1>2 DEF Run
<1> QED
  BY <1>3

\* A run covers every offset from its start to its end, and its end exists.
LEMMA RunCovers ==
    ASSUME NEW buf, NEW n \in Nat, IsBuffer(buf, n), NEW from \in Nat,
           from <= n
    PROVE  /\ RunEnd(buf, from) \in from .. n
           /\ \A o \in from .. RunEnd(buf, from) - 1 :
                 \E k \in Run(buf, from) : k <= o /\ o < EndOf(buf, k)
<1> DEFINE R == Run(buf, from)
           E == {from} \cup {EndOf(buf, q) : q \in R}
           e == RunEnd(buf, from)
<1>1. R \subseteq DOMAIN buf
  BY DEF Run
<1>2. \A q \in R : /\ q \in Nat /\ EndOf(buf, q) \in Nat
                   /\ q < EndOf(buf, q) /\ EndOf(buf, q) <= n
  BY <1>1, EndOfFacts
<1>3. \A q \in R : q # from => \E p \in R : EndOf(buf, p) = q
  BY RunSupported
<1>4. \A q \in R : from <= q
  <2> DEFINE T == {q \in R : q < from}
  <2> SUFFICES ASSUME T # {} PROVE FALSE
    BY <1>2
  <2>1. PICK q \in T : \A y \in T : q <= y
    BY <1>2, NatMin
  <2>2. PICK p \in R : EndOf(buf, p) = q
    BY <1>2, <1>3, <2>1
  <2>3. p < q /\ p \in Nat /\ q \in Nat
    BY <1>2, <2>1, <2>2
  <2> QED
    BY <2>1, <2>2, <2>3
<1>5. \E p \in E : p \notin DOMAIN buf
  <2>1. E \in SUBSET Nat /\ E # {} /\ \A x \in E : x <= n
    BY <1>2
  <2>2. PICK p \in E : \A y \in E : y <= p
    BY <2>1, NatMax
  <2>3. ASSUME p \in DOMAIN buf PROVE FALSE
    <3>1. p \in R
      BY <2>2, <2>3, RunClosed
    <3> QED
      BY <3>1, <2>2, <1>2
  <2> QED
    BY <2>2, <2>3
<1>6. e \in E
  BY <1>5 DEF RunEnd
<1> HIDE DEF R, e
<1>7. e \in from .. n
  <2>1. CASE e = from
    BY <2>1
  <2>2. CASE e # from
    BY <2>2, <1>2, <1>4, <1>6
  <2> QED
    BY <2>1, <2>2
<1>8. ASSUME NEW o \in from .. e - 1
      PROVE  \E k \in R : k <= o /\ o < EndOf(buf, k)
  <2> SUFFICES ASSUME \A k \in R : ~(k <= o /\ o < EndOf(buf, k))
               PROVE  FALSE
    OBVIOUS
  <2> DEFINE T == {k \in R : k > o}
  <2>1. o \in Nat /\ from <= o /\ o < e
    BY <1>7
  <2>2. PICK j \in R : EndOf(buf, j) = e
    BY <1>6, <2>1
  <2>3. j \in T
    BY <2>1, <2>2, <1>2
  <2>4. PICK k \in T : \A y \in T : k <= y
    BY <2>3, <1>2, NatMin
  <2>5. PICK i \in R : EndOf(buf, i) = k
    BY <2>1, <2>4, <1>2, <1>3
  <2>6. i < k /\ o < k /\ i \in Nat /\ k \in Nat
    BY <1>2, <2>4, <2>5
  <2>7. i \in T
    BY <2>1, <2>5, <2>6
  <2> QED
    BY <2>4, <2>6, <2>7
<1> QED
  BY <1>7, <1>8 DEF R, e

\* What the drain loop of deliver_data takes from the buffer is the next
\* part of the stream.
LEMMA GatherPart ==
    ASSUME NEW buf, NEW n \in Nat, IsBuffer(buf, n), NEW from \in Nat,
           from <= n
    PROVE  LET to == RunEnd(buf, from)
               g  == Gather(buf, Run(buf, from), from, to)
           IN  g \in Seq(Nat) /\ Len(g) = to - from /\ IsPart(g, from)
<1> DEFINE to == RunEnd(buf, from)
           R  == Run(buf, from)
           Has(k, i) == k < from + i /\ from + i <= EndOf(buf, k)
           K(i) == CHOOSE k \in R : Has(k, i)
           g  == Gather(buf, R, from, to)
<1>1. to \in Nat /\ from <= to
  BY RunCovers
<1>2. R \subseteq DOMAIN buf
  BY DEF Run
<1>3. g = [i \in 1 .. (to - from) |-> buf[K(i)][from + i - K(i)]]
  BY DEF Gather
<1>4. ASSUME NEW i \in 1 .. (to - from)
      PROVE  buf[K(i)][from + i - K(i)] = from + i
  <2>1. from + i - 1 \in from .. to - 1
    BY <1>1
  <2>2. PICK k \in R : k <= from + i - 1 /\ from + i - 1 < EndOf(buf, k)
    BY <2>1, RunCovers
  <2>3. k \in Nat /\ EndOf(buf, k) \in Nat
    BY <1>2, <2>2, EndOfFacts
  <2>4. Has(k, i)
    BY <2>2, <2>3, <1>1
  <2>5. K(i) \in R /\ Has(K(i), i)
    BY <2>4
  <2> HIDE DEF K
  <2> DEFINE c == K(i)
  <2>6. /\ c \in DOMAIN buf /\ c \in Nat /\ Len(buf[c]) \in Nat
        /\ c < from + i /\ from + i <= c + Len(buf[c])
    BY <2>5, <1>2, EndOfFacts DEF EndOf
  <2>7. from + i - c \in 1 .. Len(buf[c])
    BY <2>6, <1>1
  <2>8. buf[c][from + i - c] = c + (from + i - c)
    BY <2>6, <2>7 DEF IsBuffer, IsPartWithin, IsPart
  <2> QED
    BY <2>6, <2>8, <1>1
<1> HIDE DEF g, K, to, R
<1>5. g = [i \in 1 .. (to - from) |-> from + i]
  BY <1>3, <1>4
<1>6. to - from \in Nat
  BY <1>1
<1>7. g \in Seq(Nat) /\ Len(g) = to - from
  BY <1>5, <1>6
<1>8. IsPart(g, from)
  BY <1>5, <1>7 DEF IsPart
<1> QED
  BY <1>7, <1>8 DEF g, to, R

\* Two adjacent parts of a stream make one.
LEMMA ConcatPart ==
    ASSUME NEW a \in Seq(Nat), NEW b \in Seq(Nat), NEW q \in Nat,
           IsPart(a, q), IsPart(b, q + Len(a))
    PROVE  /\ a \o b \in Seq(Nat)
           /\ Len(a \o b) = Len(a) + Len(b)
           /\ IsPart(a \o b, q)
<1>1. /\ a \o b \in Seq(Nat)
      /\ Len(a \o b) = Len(a) + Len(b)
      /\ \A i \in 1 .. Len(a) + Len(b) :
            (a \o b)[i] = IF i <= Len(a) THEN a[i] ELSE b[i - Len(a)]
  BY ConcatProperties
<1>2. Len(a) \in Nat /\ Len(b) \in Nat
  OBVIOUS
<1>3. ASSUME NEW i \in 1 .. Len(a) + Len(b)
      PROVE  (a \o b)[i] = q + i
  <2>1. CASE i <= Len(a)
    BY <2>1, <1>1, <1>2 DEF IsPart
  <2>2. CASE i > Len(a)
    <3>1. i - Len(a) \in 1 .. Len(b)
      BY <2>2, <1>2
    <3>2. b[i - Len(a)] = q + Len(a) + (i - Len(a))
      BY <3>1 DEF IsPart
    <3>3. (a \o b)[i] = b[i - Len(a)]
      BY <2>2, <1>1, <1>2
    <3> QED
      BY <3>2, <3>3, <1>2
  <2> QED
    BY <2>1, <2>2, <1>2
<1> QED
  BY <1>1, <1>3 DEF IsPart

\* The tail of a segment past what was already delivered.
LEMMA SkipPart ==
    ASSUME NEW d \in Seq(Nat), NEW q \in Nat, IsPart(d, q),
           NEW e \in Nat, q <= e, e < q + Len(d)
    PROVE  LET t == SubSeq(d, e - q + 1, Len(d))
           IN  /\ t \in Seq(Nat) /\ Len(t) = q + Len(d) - e
               /\ IsPart(t, e)
<1> DEFINE m == e - q + 1
           t == SubSeq(d, m, Len(d))
<1>1. Len(d) \in Nat
  OBVIOUS
<1>2. m \in Nat /\ 1 <= m /\ m <= Len(d)
  BY <1>1
<1>3. \A i \in m .. Len(d) : d[i] \in Nat
  BY <1>1, <1>2
<1> HIDE DEF m
<1>4. /\ t \in Seq(Nat)
      /\ Len(t) = Len(d) - m + 1
      /\ \A i \in 1 .. Len(d) - m + 1 : t[i] = d[m + i - 1]
  BY <1>1, <1>2, <1>3, SubSeqProperties
<1> HIDE DEF t
<1>5. ASSUME NEW i \in 1 .. Len(d) - m + 1
      PROVE  t[i] = e + i
  <2>1. m + i - 1 \in 1 .. Len(d)
    BY <1>1, <1>2
  <2>2. t[i] = q + (m + i - 1)
    BY <1>4, <2>1 DEF IsPart
  <2> QED
    BY <2>2, <1>2 DEF m
<1>6. IsPart(t, e)
  BY <1>4, <1>5 DEF IsPart
<1>7. Len(t) = q + Len(d) - e
  BY <1>1, <1>4 DEF m
<1> QED
  BY <1>4, <1>6, <1>7 DEF t, m

\* deliver_data keeps the receive side well formed.
LEMMA DeliverDataOK ==
    ASSUME NEW r, NEW got \in Seq(Nat), NEW n \in Nat,
           RcvType(r), RcvInv(r, got, n),
           NEW seq \in Nat, NEW data \in Seq(Nat),
           data # << >> => IsPartWithin(data, seq, n)
    PROVE  /\ RcvType(DeliverData(r, seq, data))
           /\ RcvInv(DeliverData(r, seq, data), got, n)
<1> DEFINE old == r.expected_seq
           buf == r.recv_buffer
           stop == seq + Len(data)
<1>1. /\ old \in Nat /\ r.delivered \in Seq(Nat) /\ IsMap(buf, Seq(Nat))
      /\ Len(data) \in Nat /\ Len(got) \in Nat /\ Len(r.delivered) \in Nat
      /\ stop \in Nat
  BY DEF RcvType
<1>2. IsBuffer(buf, n)
  BY <1>1 DEF IsBuffer, RcvInv
<1>3. CASE stop <= old \/ data = << >>
  BY <1>3 DEF DeliverData
<1>4. CASE ~(stop <= old \/ data = << >>) /\ seq <= old
  <2> DEFINE keys == Run(buf, stop)
             to   == RunEnd(buf, stop)
             skip == SubSeq(data, old - seq + 1, Len(data))
             more == Gather(buf, keys, stop, to)
             rest == [q \in DOMAIN buf \ keys |-> buf[q]]
             ds   == r.delivered \o skip
             dl   == ds \o more
  <2>1. DeliverData(r, seq, data)
          = [expected_seq |-> to, recv_buffer |-> rest, delivered |-> dl]
    BY <1>4 DEF DeliverData, DeliverInOrder
  <2>2. stop <= n /\ IsPart(data, seq) /\ old < stop
    BY <1>1, <1>4 DEF IsPartWithin
  <2>3. to \in Nat /\ stop <= to /\ to <= n
    BY <1>1, <1>2, <2>2, RunCovers
  <2>4. skip \in Seq(Nat) /\ Len(skip) = stop - old /\ IsPart(skip, old)
    <3>1. /\ data \in Seq(Nat) /\ IsPart(data, seq) /\ old \in Nat
          /\ seq <= old /\ old < seq + Len(data)
      BY <1>1, <1>4, <2>2
    <3> HIDE DEF old
    <3> QED
      BY <3>1, SkipPart
  <2>5. more \in Seq(Nat) /\ Len(more) = to - stop /\ IsPart(more, stop)
    BY <1>1, <1>2, <2>2, GatherPart
  <2>6. /\ IsPart(r.delivered, Len(got)) /\ Len(got) + Len(r.delivered) = old
        /\ IsPart(got, 0)
    BY DEF RcvInv
  <2>7. IsMap(rest, Seq(Nat))
    BY <1>1 DEF IsMap
  <2>8. \A q \in DOMAIN rest :
           Len(rest[q]) > 0 /\ IsPartWithin(rest[q], q, n)
    BY <1>2 DEF IsBuffer
  <2>0. stop \in Nat /\ old \in Nat
    BY <1>1
  <2> HIDE DEF keys, to, skip, more, rest, stop, old, buf
  <2>9. /\ ds \in Seq(Nat) /\ Len(ds) = Len(r.delivered) + Len(skip)
        /\ IsPart(ds, Len(got))
    BY <1>1, <2>4, <2>6, ConcatPart
  <2> HIDE DEF ds
  <2>10. Len(got) + Len(ds) = stop
    <3>1. Len(ds) = Len(r.delivered) + (stop - old)
      BY <2>4, <2>9
    <3>2. Len(got) + Len(r.delivered) = old
      BY <2>6
    <3>3. Len(got) \in Nat /\ Len(r.delivered) \in Nat /\ Len(ds) \in Nat
      BY <1>1, <2>9
    <3> QED
      BY <3>1, <3>2, <3>3, <2>0
  <2>11. /\ dl \in Seq(Nat) /\ Len(dl) = Len(ds) + Len(more)
         /\ IsPart(dl, Len(got))
    BY <1>1, <2>5, <2>9, <2>10, ConcatPart
  <2> HIDE DEF dl
  <2>12. Len(got) + Len(dl) = to
    <3>1. Len(dl) = Len(ds) + (to - stop)
      BY <2>5, <2>11
    <3>2. Len(got) \in Nat /\ Len(ds) \in Nat
      BY <1>1, <2>9
    <3> QED
      BY SMTT(30), <3>1, <3>2, <2>0, <2>3, <2>10
  <2> DEFINE t == [expected_seq |-> to, recv_buffer |-> rest, delivered |-> dl]
  <2>13. RcvType(t)
    BY <2>3, <2>7, <2>11 DEF RcvType
  <2>14. RcvInv(t, got, n)
    BY <2>3, <2>6, <2>8, <2>11, <2>12 DEF RcvInv
  <2> QED
    BY <2>1, <2>13, <2>14
<1>5. CASE ~(stop <= old \/ data = << >>) /\ ~(seq <= old)
  <2> DEFINE nb == [q \in (DOMAIN buf) \cup {seq} |->
                      IF q = seq THEN data ELSE buf[q]]
             t  == [r EXCEPT !.recv_buffer = nb]
  <2>1. DeliverData(r, seq, data) = t
    BY <1>5 DEF DeliverData
  <2>2. IsMap(nb, Seq(Nat))
    BY <1>1 DEF IsMap
  <2>3. Len(data) > 0 /\ IsPartWithin(data, seq, n)
    BY <1>1, <1>5
  <2>4. \A q \in DOMAIN nb : Len(nb[q]) > 0 /\ IsPartWithin(nb[q], q, n)
    BY <2>3, <1>2 DEF IsBuffer
  <2> HIDE DEF nb
  <2>5. /\ t.expected_seq = r.expected_seq /\ t.delivered = r.delivered
        /\ t.recv_buffer = nb
    BY DEF RcvType
  <2>6. RcvType(t)
    BY <2>2, <2>5 DEF RcvType
  <2>7. RcvInv(t, got, n)
    BY <2>4, <2>5 DEF RcvInv
  <2> QED
    BY <2>1, <2>6, <2>7
<1> QED
  BY <1>3, <1>4, <1>5

-----------------------------------------------------------------------------
(* Control state and datagrams *)

\* The parts of the methods that change the control state.
LEMMA CtlOps ==
    ASSUME NEW c \in CtlType
    PROVE  /\ CheckFullyClosed(c) \in CtlType
           /\ \A s : MaybeSendFin(c, s) \in CtlType
           /\ \A m : CompleteHandshake(c, m) \in CtlType
BY DEF CtlType, State, CheckFullyClosed, MaybeSendFin, CompleteHandshake

\* drain_and_maybe_fin leaves a well-formed control state.
LEMMA DrainCtlType ==
    ASSUME NEW c \in CtlType, NEW s
    PROVE  DrainCtl(c, s) \in CtlType
<1>1. MaybeSendFin(c, TrySendMore(c, s)) \in CtlType
  BY CtlOps
<1> QED
  BY <1>1, CtlOps DEF DrainCtl

\* So does apply_ack.
LEMMA AckCtlType ==
    ASSUME NEW c \in CtlType, NEW s, NEW h
    PROVE  AckCtl(c, s, h) \in CtlType
<1>1. [c EXCEPT !.fin_acked = TRUE, !.fin_pending = 0] \in CtlType
  BY DEF CtlType
<1> QED
  BY <1>1, CtlOps DEF AckCtl

\* Datagrams that e may send once it has taken n bytes off its queue.
GoodOut(M, e, n) ==
    \A m \in M : m.src = e /\ DatagramType(m) /\ NetInv(m, n)

\* Datagrams of two parts of one handler.
LEMMA GoodOutUnion ==
    ASSUME NEW M, NEW N, NEW e, NEW n, GoodOut(M, e, n), GoodOut(N, e, n)
    PROVE  GoodOut(M \cup N, e, n)
BY DEF GoodOut

\* A datagram without data, whatever its flags.
LEMMA EmptyDatagramGood ==
    ASSUME NEW e \in Endpoint, NEW flags \in SUBSET Flag, NEW seq \in Nat,
           NEW fin_ack \in BOOLEAN, NEW r, NEW got, NEW k \in Nat,
           RcvType(r), RcvInv(r, got, k), NEW n
    PROVE  GoodOut({Datagram(e, flags, seq, Header(r, fin_ack), << >>)}, e, n)
<1> DEFINE w == AdvertisedWindow(r)
           h == [ack |-> r.expected_seq, fin_ack |-> fin_ack,
                 window |-> w, sack |-> CurrentSackRanges(r)]
           m == [src |-> e, flags |-> flags, seq |-> seq, header |-> h,
                 data |-> << >>]
<1>1. w \in 0 .. U32Max
  BY WindowRange
<1>2. r.expected_seq \in Nat
  BY DEF RcvType
<1> HIDE DEF w
<1>3. h.ack \in Nat /\ h.fin_ack \in BOOLEAN /\ h.window \in 0 .. U32Max
  BY <1>1, <1>2
<1>4. Datagram(e, flags, seq, Header(r, fin_ack), << >>) = m
  BY DEF Datagram, Header, w
<1> HIDE DEF h
<1>5. m.src = e /\ m.data = << >> /\ DatagramType(m)
  BY <1>3 DEF DatagramType
<1> QED
  BY <1>4, <1>5 DEF GoodOut, NetInv

\* A datagram with a segment of a well-formed send side.
LEMMA DataFrameGood ==
    ASSUME NEW e \in Endpoint, NEW s, NEW v, SndType(s), SndInv(s, v),
           NEW q \in DOMAIN s.unacked, NEW r, NEW got, NEW k \in Nat,
           RcvType(r), RcvInv(r, got, k)
    PROVE  GoodOut({DataFrame(e, q, s, r)}, e, s.next_seq)
<1> DEFINE w == AdvertisedWindow(r)
           h == [ack |-> r.expected_seq, fin_ack |-> FALSE,
                 window |-> w, sack |-> CurrentSackRanges(r)]
           d == s.unacked[q].data
           m == [src |-> e, flags |-> {"ACK"}, seq |-> q, header |-> h,
                 data |-> d]
<1>1. w \in 0 .. U32Max
  BY WindowRange
<1>2. r.expected_seq \in Nat
  BY DEF RcvType
<1>3. q \in Nat /\ d \in Seq(Nat) /\ IsPartWithin(d, q, s.next_seq)
  BY DEF SndType, SndInv, IsMap, Segment
<1>4. DataFrame(e, q, s, r) = m
  BY DEF DataFrame, Datagram, Header
<1> HIDE DEF w, d
<1>5. h.ack \in Nat /\ h.fin_ack \in BOOLEAN /\ h.window \in 0 .. U32Max
  BY <1>1, <1>2
<1> HIDE DEF h
<1>6. m.src = e /\ m.data = d /\ m.seq = q /\ DatagramType(m)
  BY <1>3, <1>5 DEF DatagramType, Flag
<1> QED
  BY <1>3, <1>4, <1>6 DEF GoodOut, NetInv

\* What drain_and_maybe_fin returns.
LEMMA DrainOutGood ==
    ASSUME NEW e \in Endpoint, NEW c, NEW s, NEW w \in Nat,
           SndType(s), SndInv(s, w), NEW r, NEW got, NEW k \in Nat,
           RcvType(r), RcvInv(r, got, k)
    PROVE  GoodOut(DrainOut(e, c, s, r), e, DrainSnd(c, s).next_seq)
<1> DEFINE t == TrySendMore(c, s)
           C == Cuts(s, Admitted(c, s))
<1>1. SndType(t) /\ SndInv(t, w) /\ C \subseteq DOMAIN t.unacked
  BY TrySendMoreOK
<1>2. t.send_base \in Nat
  BY <1>1 DEF SndType
<1> HIDE DEF t, C
<1>3. \A q \in C : GoodOut({DataFrame(e, q, t, r)}, e, t.next_seq)
  BY <1>1, DataFrameGood
<1>4. GoodOut({Fin(e, t, r)}, e, t.next_seq)
  BY <1>2, EmptyDatagramGood DEF Fin, Flag
<1>5. GoodOut({DataFrame(e, q, t, r) : q \in C}, e, t.next_seq)
  BY <1>3 DEF GoodOut
<1>6. GoodOut(IF FinReady(c, t) THEN {Fin(e, t, r)} ELSE {}, e, t.next_seq)
  BY <1>4 DEF GoodOut
<1> QED
  BY <1>5, <1>6, GoodOutUnion DEF DrainOut, DrainSnd, t, C

-----------------------------------------------------------------------------
(* The invariant is inductive *)

\* There are two endpoints.
LEMMA PeerFacts ==
    \A e \in Endpoint : /\ Peer(e) \in Endpoint /\ Peer(e) # e
                        /\ Peer(Peer(e)) = e
                        /\ \A x \in Endpoint : x = e \/ x = Peer(e)
BY DEF Endpoint, Peer

\* More bytes sent never spoils what was sent and received before.
LEMMA MoreSent ==
    ASSUME NEW k \in Nat, NEW n \in Nat, k <= n
    PROVE  /\ \A r, got : RcvType(r) /\ RcvInv(r, got, k) => RcvInv(r, got, n)
           /\ \A m : DatagramType(m) /\ NetInv(m, k) => NetInv(m, n)
<1>1. ASSUME NEW d \in Seq(Nat), NEW q \in Nat, IsPartWithin(d, q, k)
      PROVE  IsPartWithin(d, q, n)
  <2>1. Len(d) \in Nat
    OBVIOUS
  <2> QED
    BY <1>1, <2>1 DEF IsPartWithin
<1>2. ASSUME NEW r, NEW got, RcvType(r), RcvInv(r, got, k)
      PROVE  RcvInv(r, got, n)
  <2>1. \A q \in DOMAIN r.recv_buffer :
           /\ q \in Nat /\ r.recv_buffer[q] \in Seq(Nat)
           /\ IsPartWithin(r.recv_buffer[q], q, k)
    BY <1>2 DEF RcvType, RcvInv, IsMap
  <2>2. \A q \in DOMAIN r.recv_buffer : IsPartWithin(r.recv_buffer[q], q, n)
    BY <2>1, <1>1
  <2>3. r.expected_seq <= n
    BY <1>2 DEF RcvType, RcvInv
  <2> QED
    BY <1>2, <2>2, <2>3 DEF RcvInv
<1>3. ASSUME NEW m, DatagramType(m), NetInv(m, k)
      PROVE  NetInv(m, n)
  BY <1>1, <1>3 DEF DatagramType, NetInv
<1> QED
  BY <1>2, <1>3

\* A step of endpoint e that leaves its own part well formed, and sends only
\* well-formed datagrams, preserves the invariant.
LEMMA StepOK ==
    ASSUME IndInv, NEW e \in Endpoint, NEW c \in CtlType, NEW s, NEW r, NEW M,
           NEW w \in Nat, NEW g \in Seq(Nat), NEW k \in Nat,
           ctl' = [ctl EXCEPT ![e] = c],
           snd' = [snd EXCEPT ![e] = s],
           rcv' = [rcv EXCEPT ![e] = r],
           net' = net \cup M,
           written' = [written EXCEPT ![e] = w],
           closedAt' = [closedAt EXCEPT ![e] = k],
           received' = [received EXCEPT ![e] = g],
           SndType(s), SndInv(s, w), s.next_seq >= snd[e].next_seq,
           RcvType(r), RcvInv(r, g, snd[Peer(e)].next_seq),
           GoodOut(M, e, s.next_seq)
    PROVE  IndInv'
<1> USE DEF IndInv
<1> DEFINE p == Peer(e)
<1>1. p \in Endpoint /\ p # e /\ Peer(p) = e /\ Endpoint = {e, p}
  BY PeerFacts
<1>2. /\ snd'[e] = s /\ snd'[p] = snd[p] /\ DOMAIN snd' = Endpoint
      /\ rcv'[e] = r /\ rcv'[p] = rcv[p] /\ DOMAIN rcv' = Endpoint
      /\ snd' = [x \in Endpoint |-> snd'[x]]
      /\ rcv' = [x \in Endpoint |-> rcv'[x]]
      /\ written'[e] = w /\ written'[p] = written[p]
      /\ received'[e] = g /\ received'[p] = received[p]
  BY <1>1 DEF TypeOK
<1>3. /\ SndType(snd[p]) /\ SndInv(snd[p], written[p])
      /\ RcvType(rcv[p]) /\ RcvInv(rcv[p], received[p], snd[e].next_seq)
      /\ snd[e].next_seq \in Nat /\ s.next_seq \in Nat
  BY <1>1 DEF TypeOK, StreamInv, SndType
<1>4. RcvInv(rcv[p], received[p], s.next_seq)
  BY <1>3, MoreSent
<1>5. TypeOK'
  <2>1. ctl' \in [Endpoint -> CtlType] /\ written' \in [Endpoint -> Nat]
        /\ closedAt' \in [Endpoint -> Nat]
        /\ received' \in [Endpoint -> Seq(Nat)]
    BY DEF TypeOK
  <2>2. \A m \in net' : DatagramType(m)
    BY DEF TypeOK, GoodOut
  <2> QED
    BY <1>1, <1>2, <1>3, <2>1, <2>2 DEF TypeOK
<1>6. \A x \in Endpoint : SndInv(snd'[x], written'[x])
  BY <1>1, <1>2, <1>3
<1>7. \A x \in Endpoint : RcvInv(rcv'[x], received'[x], snd'[Peer(x)].next_seq)
  BY <1>1, <1>2, <1>4
<1>8. ASSUME NEW m \in net'
      PROVE  NetInv(m, snd'[m.src].next_seq)
  <2>1. CASE m \in M
    BY <2>1, <1>2 DEF GoodOut
  <2>2. CASE m \in net
    <3>1. /\ DatagramType(m) /\ NetInv(m, snd[m.src].next_seq)
          /\ m.src \in Endpoint
      BY <2>2 DEF TypeOK, StreamInv, DatagramType
    <3>2. CASE m.src = e
      BY <3>1, <3>2, <1>2, <1>3, MoreSent
    <3>3. CASE m.src = p
      BY <3>1, <3>3, <1>2
    <3> QED
      BY <3>1, <3>2, <3>3, <1>1
  <2> QED
    BY <2>1, <2>2
<1> QED
  BY <1>5, <1>6, <1>7, <1>8 DEF StreamInv

\* What the invariant says of one endpoint.
LEMMA Local ==
    ASSUME IndInv, NEW e \in Endpoint
    PROVE  /\ ctl[e] \in CtlType
           /\ SndType(snd[e]) /\ SndInv(snd[e], written[e])
           /\ RcvType(rcv[e])
           /\ RcvInv(rcv[e], received[e], snd[Peer(e)].next_seq)
           /\ snd[Peer(e)].next_seq \in Nat /\ snd[e].next_seq \in Nat
           /\ written[e] \in Nat /\ closedAt[e] \in Nat
           /\ received[e] \in Seq(Nat)
           /\ ctl = [ctl EXCEPT ![e] = ctl[e]]
           /\ snd = [snd EXCEPT ![e] = snd[e]]
           /\ rcv = [rcv EXCEPT ![e] = rcv[e]]
           /\ written = [written EXCEPT ![e] = written[e]]
           /\ closedAt = [closedAt EXCEPT ![e] = closedAt[e]]
           /\ received = [received EXCEPT ![e] = received[e]]
<1>1. Peer(e) \in Endpoint
  BY PeerFacts
<1>2. /\ ctl[e] \in CtlType /\ SndType(snd[e]) /\ RcvType(rcv[e])
      /\ written[e] \in Nat /\ closedAt[e] \in Nat
      /\ received[e] \in Seq(Nat) /\ SndType(snd[Peer(e)])
  BY <1>1 DEF IndInv, TypeOK
<1>3. /\ SndInv(snd[e], written[e])
      /\ RcvInv(rcv[e], received[e], snd[Peer(e)].next_seq)
  BY DEF IndInv, StreamInv
<1>4. snd[Peer(e)].next_seq \in Nat /\ snd[e].next_seq \in Nat
  BY <1>2 DEF SndType
<1>5. /\ ctl = [ctl EXCEPT ![e] = ctl[e]]
      /\ written = [written EXCEPT ![e] = written[e]]
      /\ closedAt = [closedAt EXCEPT ![e] = closedAt[e]]
      /\ received = [received EXCEPT ![e] = received[e]]
  BY DEF IndInv, TypeOK
<1>6. /\ snd = [snd EXCEPT ![e] = snd[e]]
      /\ rcv = [rcv EXCEPT ![e] = rcv[e]]
  BY DEF IndInv, TypeOK
<1> QED
  BY <1>2, <1>3, <1>4, <1>5, <1>6

\* The bytes of a send() are a part of the stream.
LEMMA BytesPart ==
    ASSUME NEW v \in Nat, NEW n \in Nat
    PROVE  /\ Bytes(v, n) \in Seq(Nat) /\ Len(Bytes(v, n)) = n
           /\ IsPart(Bytes(v, n), v)
<1> DEFINE b == [i \in 1 .. n |-> v + i]
<1>1. b \in [1 .. n -> Nat]
  OBVIOUS
<1>2. b \in Seq(Nat) /\ Len(b) = n
  BY <1>1
<1>3. \A i \in 1 .. n : b[i] = v + i
  OBVIOUS
<1> HIDE DEF b
<1>4. IsPart(b, v)
  BY <1>2, <1>3 DEF IsPart
<1> QED
  BY <1>2, <1>4 DEF Bytes, b

\* send: the new bytes are the next part of the stream.
LEMMA SendOK ==
    ASSUME IndInv, NEW e \in Endpoint, NEW n \in Nat, Send(e, n)
    PROVE  IndInv'
<1> DEFINE q == snd[e].send_queue
           b == Bytes(written[e], n)
           s == [snd[e] EXCEPT !.send_queue = q \o b]
           w == written[e] + n
           c == DrainCtl(ctl[e], s)
           t == DrainSnd(ctl[e], s)
           M == DrainOut(e, ctl[e], s, rcv[e])
<1>1. /\ ctl' = [ctl EXCEPT ![e] = c] /\ snd' = [snd EXCEPT ![e] = t]
      /\ written' = [written EXCEPT ![e] = w]
      /\ net' = net \cup M
      /\ rcv' = rcv /\ closedAt' = closedAt /\ received' = received
  BY DEF Send
<1>2. w \in Nat
  BY Local
<1>3. /\ q \in Seq(Nat) /\ Len(q) \in Nat /\ snd[e].next_seq \in Nat
      /\ IsPart(q, snd[e].next_seq) /\ snd[e].next_seq + Len(q) = written[e]
  BY Local DEF SndType, SndInv
<1>4. b \in Seq(Nat) /\ Len(b) = n /\ IsPart(b, written[e])
  BY Local, BytesPart
<1> HIDE DEF b, q
<1>5. /\ q \o b \in Seq(Nat) /\ Len(q \o b) = Len(q) + n
      /\ IsPart(q \o b, snd[e].next_seq)
  BY <1>3, <1>4, ConcatPart
<1> DEFINE qb == q \o b
<1> HIDE DEF qb
<1>6. /\ s = [snd[e] EXCEPT !.send_queue = qb]
      /\ qb \in Seq(Nat) /\ Len(qb) = Len(q) + n /\ IsPart(qb, snd[e].next_seq)
  BY <1>5 DEF qb
<1> HIDE DEF s
<1>7. /\ s.send_queue = qb /\ s.next_seq = snd[e].next_seq
      /\ s.unacked = snd[e].unacked
  BY <1>6, Local DEF SndType
<1>8. SndType(s)
  BY ZenonT(30), <1>6, <1>7, Local DEF SndType
<1>9. SndInv(s, w)
  <2>1. s.next_seq + Len(s.send_queue) = w
    BY <1>3, <1>6, <1>7
  <2> QED
    BY <2>1, <1>6, <1>7, Local DEF SndInv
<1> HIDE DEF w
<1>10. SndType(t) /\ SndInv(t, w) /\ t.next_seq >= snd[e].next_seq
  BY <1>2, <1>7, <1>8, <1>9, TrySendMoreOK DEF DrainSnd
<1>11. c \in CtlType
  BY Local, DrainCtlType
<1>12. GoodOut(M, e, t.next_seq)
  BY <1>2, <1>8, <1>9, Local, DrainOutGood
<1> HIDE DEF c, t, M
<1>13. /\ rcv' = [rcv EXCEPT ![e] = rcv[e]]
       /\ closedAt' = [closedAt EXCEPT ![e] = closedAt[e]]
       /\ received' = [received EXCEPT ![e] = received[e]]
  BY <1>1, Local
<1>14. /\ closedAt[e] \in Nat /\ received[e] \in Seq(Nat)
       /\ RcvType(rcv[e])
       /\ RcvInv(rcv[e], received[e], snd[Peer(e)].next_seq)
  BY Local
<1> QED
  BY <1>1, <1>2, <1>10, <1>11, <1>12, <1>13, <1>14, StepOK

\* close
LEMMA CloseOK ==
    ASSUME IndInv, NEW e \in Endpoint, Close(e)
    PROVE  IndInv'
<1> DEFINE c0 == [ctl[e] EXCEPT !.close_requested = TRUE]
           c == DrainCtl(c0, snd[e])
           t == DrainSnd(c0, snd[e])
           M == DrainOut(e, c0, snd[e], rcv[e])
           k == IF ctl[e].close_requested THEN closedAt[e] ELSE written[e]
<1>1. /\ ctl' = [ctl EXCEPT ![e] = c] /\ snd' = [snd EXCEPT ![e] = t]
      /\ closedAt' = [closedAt EXCEPT ![e] = k]
      /\ net' = net \cup M
      /\ rcv' = rcv /\ written' = written /\ received' = received
  BY DEF Close
<1>2. k \in Nat
  BY Local
<1>3. c0 \in CtlType
  BY Local DEF CtlType
<1> HIDE DEF c0, k
<1>4. c \in CtlType
  BY <1>3, DrainCtlType
<1>5. SndType(t) /\ SndInv(t, written[e]) /\ t.next_seq >= snd[e].next_seq
  BY Local, TrySendMoreOK DEF DrainSnd
<1>6. GoodOut(M, e, t.next_seq)
  BY Local, DrainOutGood
<1> HIDE DEF c, t, M
<1> QED
  BY <1>1, <1>2, <1>4, <1>5, <1>6, Local, StepOK

\* recv
LEMMA RecvOK ==
    ASSUME IndInv, NEW e \in Endpoint, Recv(e)
    PROVE  IndInv'
<1> DEFINE d == rcv[e].delivered
           g == received[e] \o d
           r == [rcv[e] EXCEPT !.delivered = << >>]
           n == snd[Peer(e)].next_seq
<1>1. /\ received' = [received EXCEPT ![e] = g]
      /\ rcv' = [rcv EXCEPT ![e] = r]
      /\ ctl' = ctl /\ snd' = snd /\ net' = net \cup {}
      /\ written' = written /\ closedAt' = closedAt
  <2>1. rcv' = [rcv EXCEPT ![e] = r]
    BY DEF Recv, IndInv, TypeOK
  <2> QED
    BY <2>1 DEF Recv
<1>2. /\ d \in Seq(Nat) /\ IsPart(d, Len(received[e])) /\ IsPart(received[e], 0)
      /\ Len(received[e]) + Len(d) = rcv[e].expected_seq
  BY Local DEF RcvType, RcvInv
<1>3. Len(received[e]) \in Nat /\ 0 + Len(received[e]) = Len(received[e])
  BY Local
<1>4. g \in Seq(Nat) /\ Len(g) = Len(received[e]) + Len(d) /\ IsPart(g, 0)
  BY <1>2, <1>3, Local, ConcatPart
<1>5. /\ r.expected_seq = rcv[e].expected_seq /\ r.delivered = << >>
      /\ r.recv_buffer = rcv[e].recv_buffer
  BY Local DEF RcvType
<1>6. r = [expected_seq |-> rcv[e].expected_seq, recv_buffer |-> rcv[e].recv_buffer,
           delivered |-> << >>]
  BY Local DEF RcvType
<1> HIDE DEF g, d, r
<1>10. RcvType(r)
  <2>1. << >> \in Seq(Nat)
    OBVIOUS
  <2>2. /\ rcv[e].expected_seq \in Nat
        /\ IsMap(rcv[e].recv_buffer, Seq(Nat))
    BY Local DEF RcvType
  <2>3. r \in [expected_seq : Nat, recv_buffer : {r.recv_buffer},
               delivered : Seq(Nat)]
    BY <2>1, <2>2, <1>5, <1>6
  <2> QED
    BY <2>2, <2>3, <1>5 DEF RcvType
<1>7. RcvInv(r, g, n)
  <2>1. rcv[e].expected_seq \in Nat
    BY Local DEF RcvType
  <2>2. Len(g) + Len(r.delivered) = r.expected_seq
    BY <1>2, <1>4, <1>5, <2>1
  <2>3. IsPart(r.delivered, Len(g))
    BY <1>5 DEF IsPart
  <2> QED
    BY <1>4, <1>5, <2>2, <2>3, Local DEF RcvInv
<1>8. GoodOut({}, e, snd[e].next_seq)
  BY DEF GoodOut
<1>9. snd[e].next_seq >= snd[e].next_seq
  BY Local
<1>11. /\ ctl' = [ctl EXCEPT ![e] = ctl[e]]
       /\ snd' = [snd EXCEPT ![e] = snd[e]]
       /\ written' = [written EXCEPT ![e] = written[e]]
       /\ closedAt' = [closedAt EXCEPT ![e] = closedAt[e]]
  BY <1>1, Local
<1>12. /\ ctl[e] \in CtlType /\ written[e] \in Nat /\ closedAt[e] \in Nat
       /\ SndType(snd[e]) /\ SndInv(snd[e], written[e])
  BY Local
<1> QED
  BY <1>1, <1>4, <1>7, <1>8, <1>9, <1>10, <1>11, <1>12, StepOK

\* The steps that are not calls of the application.
LEMMA HandlerOK ==
    ASSUME IndInv, NEW e \in Endpoint, NEW c \in CtlType, NEW s, NEW r, NEW M,
           ctl' = [ctl EXCEPT ![e] = c],
           snd' = [snd EXCEPT ![e] = s],
           rcv' = [rcv EXCEPT ![e] = r],
           net' = net \cup M,
           UNCHANGED <<written, closedAt, received>>,
           SndType(s), SndInv(s, written[e]), s.next_seq >= snd[e].next_seq,
           RcvType(r), RcvInv(r, received[e], snd[Peer(e)].next_seq),
           GoodOut(M, e, s.next_seq)
    PROVE  IndInv'
<1>1. /\ written' = [written EXCEPT ![e] = written[e]]
      /\ closedAt' = [closedAt EXCEPT ![e] = closedAt[e]]
      /\ received' = [received EXCEPT ![e] = received[e]]
      /\ written[e] \in Nat /\ closedAt[e] \in Nat /\ received[e] \in Seq(Nat)
  BY Local
<1> QED
  BY <1>1, StepOK

\* ... and that leave the receive side alone, and of the send side only
\* change windows and counts or drop segments.
LEMMA QuietOK ==
    ASSUME IndInv, NEW e \in Endpoint, NEW c \in CtlType, NEW s, NEW M,
           ctl' = [ctl EXCEPT ![e] = c],
           snd' = [snd EXCEPT ![e] = s],
           net' = net \cup M,
           UNCHANGED <<rcv, written, closedAt, received>>,
           Keeps(snd[e], s),
           GoodOut(M, e, snd[e].next_seq)
    PROVE  IndInv'
<1>1. /\ rcv' = [rcv EXCEPT ![e] = rcv[e]] /\ RcvType(rcv[e])
      /\ RcvInv(rcv[e], received[e], snd[Peer(e)].next_seq)
  BY Local
<1>2. SndInv(s, written[e])
  BY Local, KeepsInv
<1>3. SndType(s) /\ s.next_seq = snd[e].next_seq /\ s.next_seq >= snd[e].next_seq
  BY Local DEF Keeps
<1> QED
  BY <1>1, <1>2, <1>3, HandlerOK

\* A datagram in the network, as its receiver sees it.
LEMMA ArrivesFacts ==
    ASSUME IndInv, NEW e \in Endpoint, NEW m, Arrives(e, m)
    PROVE  /\ DatagramType(m)
           /\ m.header.window \in 0 .. U32Max /\ m.header.ack \in Nat
           /\ m.seq \in Nat /\ m.data \in Seq(Nat)
           /\ m.data # << >> => IsPartWithin(m.data, m.seq, snd[Peer(e)].next_seq)
BY DEF Arrives, IndInv, TypeOK, StreamInv, DatagramType, NetInv

\* Doing nothing keeps the segments.
LEMMA KeepsSelf ==
    ASSUME NEW s, SndType(s)
    PROVE  Keeps(s, s)
BY DEF Keeps

\* The datagrams without data that the handlers build.
LEMMA ControlGood ==
    ASSUME IndInv, NEW e \in Endpoint, NEW n
    PROVE  /\ GoodOut({Syn(e, rcv[e])}, e, n)
           /\ GoodOut({SynAck(e, rcv[e])}, e, n)
           /\ GoodOut({HandshakeAck(e, rcv[e])}, e, n)
<1>1. /\ {"SYN"} \in SUBSET Flag /\ {"SYN", "ACK"} \in SUBSET Flag
      /\ {"ACK"} \in SUBSET Flag /\ 0 \in Nat /\ FALSE \in BOOLEAN
  BY DEF Flag
<1>2. /\ RcvType(rcv[e]) /\ snd[Peer(e)].next_seq \in Nat
      /\ RcvInv(rcv[e], received[e], snd[Peer(e)].next_seq)
  BY Local
<1> QED
  BY <1>1, <1>2, EmptyDatagramGood DEF Syn, SynAck, HandshakeAck

\* Acknowledgements and FINs, from any state of the send side.
LEMMA AckGood ==
    ASSUME NEW e \in Endpoint, NEW s, SndType(s), NEW r, NEW got, NEW k \in Nat,
           RcvType(r), RcvInv(r, got, k), NEW n, NEW f \in BOOLEAN
    PROVE  GoodOut({PureAck(e, s, r, f)}, e, n) /\ GoodOut({Fin(e, s, r)}, e, n)
<1>1. /\ {"FIN", "ACK"} \in SUBSET Flag /\ {"ACK"} \in SUBSET Flag
      /\ FALSE \in BOOLEAN /\ s.send_base \in Nat
  BY DEF Flag, SndType
<1> QED
  BY <1>1, EmptyDatagramGood DEF PureAck, Fin

\* on_datagram in state Closed.
LEMMA ReAckFinOK ==
    ASSUME IndInv, NEW e \in Endpoint, NEW m, ReAckFin(e, m)
    PROVE  IndInv'
<1> DEFINE s == AdoptWindow(snd[e], m)
           M == {PureAck(e, snd[e], rcv[e], TRUE)}
<1>1. /\ snd' = [snd EXCEPT ![e] = s] /\ net' = net \cup M
      /\ UNCHANGED <<rcv, written, closedAt, received>> /\ Arrives(e, m)
  BY DEF ReAckFin
<1>2. ctl' = [ctl EXCEPT ![e] = ctl[e]] /\ ctl[e] \in CtlType
  BY Local DEF ReAckFin
<1>3. Keeps(snd[e], s)
  BY <1>1, Local, ArrivesFacts, AdoptWindowKeeps
<1>4. GoodOut(M, e, snd[e].next_seq)
  BY Local, AckGood
<1> HIDE DEF s, M
<1> QED
  BY <1>1, <1>2, <1>3, <1>4, QuietOK

\* on_datagram, the segments that only update the peer's window.
LEMMA IgnoreOK ==
    ASSUME IndInv, NEW e \in Endpoint, NEW m, Ignore(e, m)
    PROVE  IndInv'
<1> DEFINE s == AdoptWindow(snd[e], m)
<1>1. /\ snd' = [snd EXCEPT ![e] = s] /\ net' = net \cup {}
      /\ UNCHANGED <<rcv, written, closedAt, received>> /\ Arrives(e, m)
  BY DEF Ignore
<1>2. ctl' = [ctl EXCEPT ![e] = ctl[e]] /\ ctl[e] \in CtlType
  BY Local DEF Ignore
<1>3. Keeps(snd[e], s)
  BY <1>1, Local, ArrivesFacts, AdoptWindowKeeps
<1>4. GoodOut({}, e, snd[e].next_seq)
  BY DEF GoodOut
<1> HIDE DEF s
<1> QED
  BY <1>1, <1>2, <1>3, <1>4, QuietOK

\* on_datagram of a SYN.
LEMMA OnSynOK ==
    ASSUME IndInv, NEW e \in Endpoint, NEW m, OnSyn(e, m)
    PROVE  IndInv'
<1> DEFINE s == AdoptWindow(snd[e], m)
           M == {SynAck(e, rcv[e])}
           opened == [ctl[e] EXCEPT !.state = "SynReceived", !.handshake = 1]
<1>1. /\ snd' = [snd EXCEPT ![e] = s] /\ net' = net \cup M
      /\ UNCHANGED <<rcv, written, closedAt, received>> /\ Arrives(e, m)
  BY DEF OnSyn
<1>2. \E c \in CtlType : ctl' = [ctl EXCEPT ![e] = c]
  <2>1. opened \in CtlType
    BY ZenonT(30), Local DEF CtlType, State
  <2>2. ctl' = [ctl EXCEPT ![e] = opened] \/ ctl' = [ctl EXCEPT ![e] = ctl[e]]
    <3>1. ctl \in [Endpoint -> CtlType]
      BY DEF IndInv, TypeOK
    <3>2. CASE UNCHANGED ctl
      BY <3>2, Local
    <3>3. CASE ctl' = [ctl EXCEPT ![e].state = "SynReceived", ![e].handshake = 1]
      BY <3>1, <3>3
    <3> QED
      BY <3>2, <3>3 DEF OnSyn
  <2> QED
    BY <2>1, <2>2, Local
<1>3. Keeps(snd[e], s)
  BY <1>1, Local, ArrivesFacts, AdoptWindowKeeps
<1>4. GoodOut(M, e, snd[e].next_seq)
  BY ControlGood
<1> HIDE DEF s, M
<1> QED
  BY <1>1, <1>2, <1>3, <1>4, QuietOK

\* on_datagram, the shared Established/Closing block.
LEMMA ProcessOK ==
    ASSUME IndInv, NEW e \in Endpoint, NEW m, Process(e, m)
    PROVE  IndInv'
<1> DEFINE c0  == CompleteHandshake(ctl[e], m)
           s0  == AdoptWindow(snd[e], m)
           ack == "ACK" \in m.flags
           fin == "FIN" \in m.flags
           c1  == IF ack THEN AckCtl(c0, s0, m.header) ELSE c0
           s1  == IF ack THEN AckSnd(s0, m.header) ELSE s0
           r1  == DeliverData(rcv[e], m.seq, m.data)
           c2  == [c1 EXCEPT !.peer_fin_seen = @ \/ fin]
           n   == snd[Peer(e)].next_seq
           got == received[e]
           c   == DrainCtl(c2, s1)
           s   == DrainSnd(c2, s1)
           M1  == IF {"SYN", "ACK"} \subseteq m.flags
                    THEN {HandshakeAck(e, rcv[e])} ELSE {}
           M2  == IF ack THEN AckOut(e, s0, rcv[e], m.header) ELSE {}
           M3  == IF m.data # << >> \/ fin THEN {PureAck(e, s1, r1, fin)} ELSE {}
           M4  == DrainOut(e, c2, s1, r1)
           M   == ((M1 \cup M2) \cup M3) \cup M4
<1>1. /\ Arrives(e, m)
      /\ ctl' = [ctl EXCEPT ![e] = c] /\ snd' = [snd EXCEPT ![e] = s]
      /\ rcv' = [rcv EXCEPT ![e] = r1]
      /\ UNCHANGED <<written, closedAt, received>>
  BY DEF Process
<1>2. net' = net \cup M
  BY DEF Process
<1>3. /\ m.header.window \in 0 .. U32Max /\ m.header.ack \in Nat
      /\ m.seq \in Nat /\ m.data \in Seq(Nat)
      /\ m.data # << >> => IsPartWithin(m.data, m.seq, n)
  BY <1>1, ArrivesFacts
<1>4. /\ ctl[e] \in CtlType /\ SndType(snd[e]) /\ SndInv(snd[e], written[e])
      /\ RcvType(rcv[e]) /\ RcvInv(rcv[e], got, n) /\ n \in Nat
      /\ got \in Seq(Nat) /\ written[e] \in Nat /\ snd[e].next_seq \in Nat
  BY Local
<1> HIDE DEF n, got
<1>5. c2 \in CtlType
  <2>1. c0 \in CtlType
    BY <1>4, CtlOps
  <2>2. c1 \in CtlType
    BY <2>1, AckCtlType
  <2> HIDE DEF c1, fin
  <2>3. fin \in BOOLEAN
    BY DEF fin
  <2> QED
    BY <2>2, <2>3 DEF CtlType
<1> HIDE DEF c2
<1>6. c \in CtlType
  BY <1>5, DrainCtlType
<1>7. Keeps(snd[e], s0) /\ SndType(s0) /\ SndInv(s0, written[e])
      /\ s0.next_seq = snd[e].next_seq
  BY SMTT(30), <1>3, <1>4, AdoptWindowKeeps, KeepsInv DEF Keeps
<1> HIDE DEF s0
<1>8. Keeps(s0, s1)
  BY <1>3, <1>7, AckSndKeeps, KeepsSelf
<1>9. SndType(s1) /\ SndInv(s1, written[e]) /\ s1.next_seq = snd[e].next_seq
  BY <1>7, <1>8, KeepsInv DEF Keeps
<1> HIDE DEF s1
<1>10. SndType(s) /\ SndInv(s, written[e]) /\ s.next_seq >= snd[e].next_seq
  BY <1>4, <1>9, TrySendMoreOK DEF DrainSnd
<1>11. RcvType(r1) /\ RcvInv(r1, got, n)
  BY <1>3, <1>4, DeliverDataOK
<1> HIDE DEF r1
<1>12. GoodOut(M4, e, s.next_seq)
  BY <1>4, <1>9, <1>11, DrainOutGood
<1>13. GoodOut({}, e, s.next_seq)
  BY DEF GoodOut
<1>14. GoodOut(M1, e, s.next_seq)
  BY <1>13, ControlGood
<1>15. GoodOut(M3, e, s.next_seq)
  <2>1. fin \in BOOLEAN
    OBVIOUS
  <2> HIDE DEF fin
  <2> QED
    BY <2>1, <1>4, <1>9, <1>11, <1>13, AckGood
<1> HIDE DEF s
<1>16. GoodOut(M2, e, s.next_seq)
  <2>1. CASE ack /\ FastRetransmits(s0, m.header.ack)
    <3>1. Oldest(s0) \in DOMAIN s0.unacked
      BY <1>7, <2>1, OldestIn DEF FastRetransmits, IsDupAck
    <3>2. GoodOut({DataFrame(e, Oldest(s0), s0, rcv[e])}, e, s0.next_seq)
      BY <3>1, <1>4, <1>7, DataFrameGood
    <3>3. s.next_seq \in Nat
      BY <1>10 DEF SndType
    <3>4. GoodOut({DataFrame(e, Oldest(s0), s0, rcv[e])}, e, s.next_seq)
      BY <3>2, <3>3, <1>4, <1>7, <1>10, MoreSent DEF GoodOut
    <3> QED
      BY <2>1, <3>4 DEF AckOut
  <2> QED
    BY <2>1, <1>13 DEF AckOut
<1> HIDE DEF M1, M2, M3, M4
<1>17. GoodOut(M, e, s.next_seq)
  <2>1. GoodOut(M1 \cup M2, e, s.next_seq)
    BY <1>14, <1>16, GoodOutUnion
  <2>2. GoodOut((M1 \cup M2) \cup M3, e, s.next_seq)
    BY <2>1, <1>15, GoodOutUnion
  <2> QED
    BY <2>2, <1>12, GoodOutUnion
<1> HIDE DEF M, c
<1>18. RcvInv(r1, received[e], snd[Peer(e)].next_seq)
  BY <1>11 DEF n, got
<1> QED
  BY <1>1, <1>2, <1>6, <1>10, <1>11, <1>17, <1>18, HandlerOK

\* A connection with another state, or another count, is one still.
LEMMA CtlUpdate ==
    ASSUME NEW c \in CtlType, NEW n \in Nat
    PROVE  /\ [c EXCEPT !.state = "Failed", !.handshake = 0] \in CtlType
           /\ [c EXCEPT !.handshake = n] \in CtlType
           /\ [c EXCEPT !.fin_pending = n] \in CtlType
           /\ [c EXCEPT !.state = "Failed", !.fin_pending = 0] \in CtlType
<1>1. "Failed" \in State /\ 0 \in Nat
  BY DEF State
<1>2. [c EXCEPT !.state = "Failed", !.handshake = 0] \in CtlType
  BY <1>1 DEF CtlType
<1>3. [c EXCEPT !.handshake = n] \in CtlType
  BY DEF CtlType
<1>4. [c EXCEPT !.fin_pending = n] \in CtlType
  BY DEF CtlType
<1>5. [c EXCEPT !.state = "Failed", !.fin_pending = 0] \in CtlType
  BY <1>1 DEF CtlType
<1> QED
  BY <1>2, <1>3, <1>4, <1>5

\* on_tick while the handshake is under way.
LEMMA HandshakeTimeoutOK ==
    ASSUME IndInv, NEW e \in Endpoint, HandshakeTimeout(e)
    PROVE  IndInv'
<1> DEFINE failed == [ctl[e] EXCEPT !.state = "Failed", !.handshake = 0]
           again  == [ctl[e] EXCEPT !.handshake = ctl[e].handshake + 1]
           M      == {IF ctl[e].state = "SynSent" THEN Syn(e, rcv[e])
                                                  ELSE SynAck(e, rcv[e])}
<1>1. /\ UNCHANGED <<rcv, written, closedAt, received>>
      /\ snd' = [snd EXCEPT ![e] = snd[e]]
  BY Local DEF HandshakeTimeout
<1>2. Keeps(snd[e], snd[e])
  BY SMTT(30), Local, KeepsSelf
<1>3. failed \in CtlType /\ again \in CtlType
  <2>1. ctl[e] \in CtlType /\ ctl[e].handshake + 1 \in Nat
    BY Local DEF CtlType
  <2> QED
    BY <2>1, CtlUpdate
<1>4. GoodOut(M, e, snd[e].next_seq) /\ GoodOut({}, e, snd[e].next_seq)
  BY ControlGood DEF GoodOut
<1>5. \/ ctl' = [ctl EXCEPT ![e] = failed] /\ net' = net \cup {}
      \/ ctl' = [ctl EXCEPT ![e] = again] /\ net' = net \cup M
  <2>1. ctl \in [Endpoint -> CtlType]
    BY DEF IndInv, TypeOK
  <2>2. CASE /\ ctl' = [ctl EXCEPT ![e].state = "Failed", ![e].handshake = 0]
             /\ UNCHANGED net
    BY <2>1, <2>2
  <2>3. CASE /\ ctl' = [ctl EXCEPT ![e].handshake = ctl[e].handshake + 1]
             /\ net' = net \cup M
    BY <2>1, <2>3
  <2> QED
    BY <2>2, <2>3 DEF HandshakeTimeout
<1> HIDE DEF failed, again, M
<1>6. CASE ctl' = [ctl EXCEPT ![e] = failed] /\ net' = net \cup {}
  BY <1>6, <1>1, <1>2, <1>3, <1>4, QuietOK
<1>7. CASE ctl' = [ctl EXCEPT ![e] = again] /\ net' = net \cup M
  BY <1>7, <1>1, <1>2, <1>3, <1>4, QuietOK
<1> QED
  BY <1>5, <1>6, <1>7

\* The segments sent again by a timeout.
LEMMA ResendGood ==
    ASSUME IndInv, NEW e \in Endpoint
    PROVE  GoodOut({DataFrame(e, q, snd[e], rcv[e]) : q \in Unsacked(snd[e])},
                   e, snd[e].next_seq)
<1>1. /\ SndType(snd[e]) /\ SndInv(snd[e], written[e]) /\ RcvType(rcv[e])
      /\ RcvInv(rcv[e], received[e], snd[Peer(e)].next_seq)
      /\ snd[Peer(e)].next_seq \in Nat
  BY Local
<1>2. ASSUME NEW q \in Unsacked(snd[e])
      PROVE  GoodOut({DataFrame(e, q, snd[e], rcv[e])}, e, snd[e].next_seq)
  <2>1. q \in DOMAIN snd[e].unacked
    BY DEF Unsacked
  <2> QED
    BY <2>1, <1>1, DataFrameGood
<1> QED
  BY <1>2 DEF GoodOut

\* on_tick, the last data timeout.
LEMMA GiveUpDataOK ==
    ASSUME IndInv, NEW e \in Endpoint, GiveUpData(e)
    PROVE  IndInv'
<1> DEFINE c == [ctl[e] EXCEPT !.state = "Failed"]
           s == [DataTimeout(snd[e]) EXCEPT !.unacked = << >>]
           M == {DataFrame(e, q, snd[e], rcv[e]) : q \in Unsacked(snd[e])}
<1>1. /\ UNCHANGED <<rcv, written, closedAt, received>>
      /\ snd' = [snd EXCEPT ![e] = s] /\ net' = net \cup M
  BY DEF GiveUpData
<1>2. ctl' = [ctl EXCEPT ![e] = c]
  BY DEF GiveUpData, IndInv, TypeOK
<1>3. c \in CtlType
  BY ZenonT(30), Local DEF CtlType, State
<1>4. Keeps(snd[e], s)
  BY Local, DataTimeoutKeeps
<1>5. GoodOut(M, e, snd[e].next_seq)
  BY ResendGood
<1> HIDE DEF c, s, M
<1> QED
  BY <1>1, <1>2, <1>3, <1>4, <1>5, QuietOK

\* on_tick, the data timer and the FIN's timer.
LEMMA TickOK ==
    ASSUME IndInv, NEW e \in Endpoint, NEW d \in BOOLEAN, NEW f \in BOOLEAN,
           Tick(e, d, f)
    PROVE  IndInv'
<1> DEFINE s == IF d THEN DataTimeout(snd[e]) ELSE snd[e]
           M1 == IF d
                   THEN {DataFrame(e, q, snd[e], rcv[e]) : q \in Unsacked(snd[e])}
                   ELSE {}
           p == IF f THEN ctl[e].fin_pending + 1 ELSE ctl[e].fin_pending
           c == [ctl[e] EXCEPT !.fin_pending = p]
           failed == [ctl[e] EXCEPT !.state = "Failed", !.fin_pending = 0]
           M2 == IF f THEN {Fin(e, s, rcv[e])} ELSE {}
           M3 == DrainOut(e, c, s, rcv[e])
           M == (M1 \cup M2) \cup M3
           t == DrainSnd(c, s)
<1>1. UNCHANGED <<rcv, written, closedAt, received>>
  BY DEF Tick
<1>2. /\ ctl[e] \in CtlType /\ SndType(snd[e]) /\ SndInv(snd[e], written[e])
      /\ RcvType(rcv[e])
      /\ RcvInv(rcv[e], received[e], snd[Peer(e)].next_seq)
      /\ snd[Peer(e)].next_seq \in Nat /\ snd[e].next_seq \in Nat
      /\ written[e] \in Nat /\ rcv' = [rcv EXCEPT ![e] = rcv[e]]
  BY SMTT(30), <1>1, Local
<1>3. c \in CtlType /\ failed \in CtlType
  <2>1. p \in Nat
    BY <1>2 DEF CtlType
  <2> HIDE DEF p
  <2> QED
    BY <2>1, <1>2, CtlUpdate
<1>4. Keeps(snd[e], s)
  BY <1>2, DataTimeoutKeeps, KeepsSelf
<1>5. GoodOut({}, e, snd[e].next_seq)
  BY DEF GoodOut
<1>6. GoodOut(M1, e, snd[e].next_seq)
  BY <1>5, ResendGood
<1>7. \/ /\ ctl' = [ctl EXCEPT ![e] = failed]
         /\ snd' = [snd EXCEPT ![e] = s]
         /\ net' = net \cup M1
      \/ /\ ctl' = [ctl EXCEPT ![e] = DrainCtl(c, s)]
         /\ snd' = [snd EXCEPT ![e] = t]
         /\ net' = net \cup M
  <2>1. ctl \in [Endpoint -> CtlType]
    BY DEF IndInv, TypeOK
  <2>2. [ctl EXCEPT ![e].state = "Failed", ![e].fin_pending = 0]
          = [ctl EXCEPT ![e] = failed]
    BY <2>1
  <2> HIDE DEF failed, t
  <2> QED
    BY <2>2 DEF Tick, t
<1> HIDE DEF c, failed, s, M1
<1>8. CASE /\ ctl' = [ctl EXCEPT ![e] = failed]
           /\ snd' = [snd EXCEPT ![e] = s]
           /\ net' = net \cup M1
  BY <1>8, <1>1, <1>3, <1>4, <1>6, QuietOK
<1>9. CASE /\ ctl' = [ctl EXCEPT ![e] = DrainCtl(c, s)]
           /\ snd' = [snd EXCEPT ![e] = t]
           /\ net' = net \cup M
  <2>1. SndType(s) /\ SndInv(s, written[e]) /\ s.next_seq = snd[e].next_seq
    BY <1>2, <1>4, KeepsInv DEF Keeps
  <2>2. SndType(t) /\ SndInv(t, written[e]) /\ t.next_seq >= snd[e].next_seq
    BY <1>2, <2>1, TrySendMoreOK DEF DrainSnd
  <2>3. GoodOut(M3, e, t.next_seq)
    BY <1>2, <2>1, DrainOutGood
  <2> HIDE DEF t
  <2>4. t.next_seq \in Nat
    BY <2>2 DEF SndType
  <2>5. GoodOut(M1, e, t.next_seq)
    BY <1>2, <1>6, <2>2, <2>4, MoreSent DEF GoodOut
  <2>6. GoodOut({}, e, t.next_seq)
    BY DEF GoodOut
  <2>7. GoodOut(M2, e, t.next_seq)
    <3>1. GoodOut({Fin(e, s, rcv[e])}, e, t.next_seq)
      BY <1>2, <2>1, AckGood
    <3> QED
      BY <3>1, <2>6
  <2> HIDE DEF M2, M3
  <2>8. GoodOut(M, e, t.next_seq)
    <3>1. GoodOut(M1 \cup M2, e, t.next_seq)
      BY <2>5, <2>7, GoodOutUnion
    <3> QED
      BY <3>1, <2>3, GoodOutUnion
  <2> DEFINE cd == DrainCtl(c, s)
  <2>9. cd \in CtlType
    BY <1>3, DrainCtlType
  <2>10. ctl' = [ctl EXCEPT ![e] = cd]
    BY <1>9
  <2> HIDE DEF M, cd
  <2> QED
    BY <1>9, <1>1, <1>2, <2>2, <2>8, <2>9, <2>10, HandlerOK
<1> QED
  BY <1>7, <1>8, <1>9

\* connect() and listen().
LEMMA InitOK == Init => IndInv
<1> SUFFICES ASSUME Init PROVE IndInv
  OBVIOUS
<1> USE ConfigAssumption
<1>1. << >> \in Seq(Nat) /\ Len(<< >>) = 0 /\ DOMAIN << >> = {}
  OBVIOUS
<1>2. BlankRcv.expected_seq = 0 /\ BlankRcv.recv_buffer = << >>
      /\ BlankRcv.delivered = << >>
  BY DEF BlankRcv
<1>3. RcvType(BlankRcv)
  BY <1>1 DEF BlankRcv, RcvType, IsMap
<1>4. RcvInv(BlankRcv, << >>, 0)
  BY <1>1, <1>2 DEF RcvInv, IsPart
<1>5. /\ BlankSnd.unacked = << >> /\ BlankSnd.next_seq = 0
      /\ BlankSnd.send_queue = << >>
  BY DEF BlankSnd
<1>6. SndType(BlankSnd)
  <2>1. SegmentSize \in 0 .. U32Max /\ 2 * SegmentSize \in 0 .. U32Max
        /\ U32Max \in 0 .. U32Max
    OBVIOUS
  <2> DEFINE two == 2 * SegmentSize
  <2>2. BlankSnd = [send_queue |-> << >>, next_seq |-> 0, send_base |-> 0,
            unacked |-> << >>, peer_window |-> SegmentSize,
            cwnd |-> two, ssthresh |-> U32Max, dup_ack_count |-> 0]
    BY DEF BlankSnd
  <2> HIDE DEF two
  <2>3. IsMap(BlankSnd.unacked, Segment)
    BY <1>1, <1>5 DEF IsMap
  <2> QED
    BY <1>1, <1>5, <2>1, <2>2, <2>3 DEF SndType, two
<1>7. SndInv(BlankSnd, 0)
  BY <1>1, <1>5 DEF SndInv, IsPart
<1>8. /\ \A e \in Endpoint : /\ snd[e] = BlankSnd /\ rcv[e] = BlankRcv
                             /\ written[e] = 0 /\ received[e] = << >>
      /\ snd = [e \in Endpoint |-> snd[e]] /\ rcv = [e \in Endpoint |-> rcv[e]]
  BY DEF Init
<1>9. /\ ctl \in [Endpoint -> CtlType] /\ written \in [Endpoint -> Nat]
      /\ closedAt \in [Endpoint -> Nat] /\ received \in [Endpoint -> Seq(Nat)]
  <2>1. ctl \in [Endpoint -> CtlType]
    BY DEF Init, ConnectCtl, BlankCtl, CtlType, State
  <2> QED
    BY <2>1, <1>1 DEF Init
<1>10. GoodOut(net, "client", 0)
  <2>1. {"SYN"} \in SUBSET Flag /\ FALSE \in BOOLEAN /\ "client" \in Endpoint
    BY DEF Flag, Endpoint
  <2> QED
    BY <1>3, <1>4, <2>1, EmptyDatagramGood DEF Init, Syn
<1>11. TypeOK
  BY <1>3, <1>6, <1>8, <1>9, <1>10 DEF TypeOK, GoodOut
<1>12. StreamInv
  <2>1. \A e \in Endpoint : SndInv(snd[e], written[e])
    BY <1>7, <1>8
  <2>2. \A e \in Endpoint : RcvInv(rcv[e], received[e], snd[Peer(e)].next_seq)
    BY <1>4, <1>5, <1>8, PeerFacts
  <2>3. \A m \in net : NetInv(m, snd[m.src].next_seq)
    BY <1>5, <1>8, <1>10 DEF GoodOut, DatagramType
  <2> QED
    BY <2>1, <2>2, <2>3 DEF StreamInv
<1> QED
  BY <1>11, <1>12 DEF IndInv

\* Every step of Next, or none, preserves the invariant.
LEMMA NextOK == IndInv /\ [Next]_vars => IndInv'
<1> SUFFICES ASSUME IndInv, [Next]_vars PROVE IndInv'
  OBVIOUS
<1>1. CASE UNCHANGED vars
  BY <1>1 DEF vars, IndInv, TypeOK, StreamInv
<1>2. ASSUME NEW e \in Endpoint, NEW n \in 1 .. MaxBytes[e], Send(e, n)
      PROVE  IndInv'
  <2>1. n \in Nat
    BY WorkloadAssumption
  <2> QED
    BY <2>1, <1>2, SendOK
<1>3. ASSUME NEW e \in Endpoint, OnDatagram(e)
      PROVE  IndInv'
  BY <1>3, ReAckFinOK, OnSynOK, ProcessOK, IgnoreOK DEF OnDatagram
<1>4. ASSUME NEW e \in Endpoint, OnTick(e)
      PROVE  IndInv'
  BY <1>4, HandshakeTimeoutOK, GiveUpDataOK, TickOK DEF OnTick
<1> QED
  BY <1>1, <1>2, <1>3, <1>4, CloseOK, RecvOK DEF Next

\* The invariant of TransportInv holds in every reachable state.
THEOREM Invariance == Spec => []IndInv
BY InitOK, NextOK, PTL DEF Spec

\* Both connections, and everything on the wire, keep the shape and the u32
\* range that connection.rs and segment.rs give them, whatever the network
\* does and however the applications call send, recv and close.
THEOREM TypeCorrect == Spec => []TypeOK
<1>1. IndInv => TypeOK
  BY DEF IndInv
<1> QED
  BY <1>1, Invariance, PTL

\* "Exactly once, in order" for every configuration, every amount of data
\* and every behaviour of the network: what deliver_data has handed up is
\* the first expected_seq bytes that the peer's application wrote.
THEOREM ExactlyOnceInOrder == Spec => []PrefixDelivery
<1>1. ASSUME IndInv
      PROVE  PrefixDelivery
  <2> SUFFICES ASSUME NEW e \in Endpoint
               PROVE  /\ Len(Stream(e)) = rcv[e].expected_seq
                      /\ \A i \in 1 .. Len(Stream(e)) : Stream(e)[i] = i
                      /\ rcv[e].expected_seq <= written[Peer(e)]
    BY DEF PrefixDelivery
  <2> DEFINE a == received[e]
             b == rcv[e].delivered
             x == rcv[e].expected_seq
             p == Peer(e)
  <2>1. /\ a \in Seq(Nat) /\ b \in Seq(Nat) /\ x \in Nat /\ Len(a) \in Nat
        /\ IsPart(a, 0) /\ IsPart(b, Len(a)) /\ Len(a) + Len(b) = x
        /\ x <= snd[p].next_seq
    <3>1. /\ a \in Seq(Nat) /\ RcvType(rcv[e])
          /\ RcvInv(rcv[e], a, snd[p].next_seq)
      BY <1>1, Local
    <3>2. b \in Seq(Nat) /\ x \in Nat
      BY <3>1 DEF RcvType
    <3>3. /\ IsPart(a, 0) /\ IsPart(b, Len(a)) /\ Len(a) + Len(b) = x
          /\ x <= snd[p].next_seq
      BY <3>1 DEF RcvInv
    <3>4. a \in Seq(Nat) /\ Len(a) \in Nat
      BY <3>1
    <3> HIDE DEF a, b, x, p
    <3> QED
      BY <3>2, <3>3, <3>4
  <2>2. /\ snd[p].next_seq + Len(snd[p].send_queue) = written[p]
        /\ snd[p].next_seq \in Nat /\ Len(snd[p].send_queue) \in Nat
    BY <1>1, Local, PeerFacts DEF SndType, SndInv
  <2>3. x <= written[p]
    BY <2>1, <2>2
  <2> HIDE DEF a, b, x, p
  <2>4. 0 + Len(a) = Len(a)
    BY <2>1
  <2>5. a \o b \in Seq(Nat) /\ Len(a \o b) = x /\ IsPart(a \o b, 0)
    BY <2>1, <2>4, ConcatPart
  <2>6. \A i \in 1 .. Len(a \o b) : (a \o b)[i] = i
    BY <2>5 DEF IsPart
  <2> QED
    BY <2>3, <2>5, <2>6 DEF Stream, a, b, x, p
<1> QED
  BY <1>1, Invariance, PTL

-----------------------------------------------------------------------------
(***************************************************************************)
(* The streams                                                             *)
(***************************************************************************)

-----------------------------------------------------------------------------
(* Cutting the queue into segments *)

\* Division with remainder.
LEMMA DivMod ==
    ASSUME NEW x \in Nat, NEW k \in Nat \ {0}
    PROVE  /\ x = k * (x \div k) + (x % k)
           /\ x % k \in 0 .. k - 1 /\ x \div k \in Nat
OBVIOUS

\* Multiples of k are at least k apart, and have no remainder.
LEMMA Multiples ==
    ASSUME NEW k \in Nat \ {0}, NEW a \in Nat, NEW b \in Nat
    PROVE  /\ k * a < k * b => k * a + k <= k * b
           /\ (k * a) % k = 0 /\ k * a \in Nat
<1>1. ASSUME k * a < k * b
      PROVE  k * a + k <= k * b
  <2>1. a < b
    BY <1>1
  <2>2. a + 1 <= b
    BY <2>1
  <2>3. k * (a + 1) <= k * b
    BY <2>2
  <2> QED
    BY <2>3
<1>2. (k * a) % k = 0
  OBVIOUS
<1>3. k * a \in Nat
  OBVIOUS
<1> QED
  BY <1>1, <1>2, <1>3

\* The cuts lie among the admitted bytes, at least a segment apart, and the
\* segments that start there reach from each cut to the next.
LEMMA CutFacts ==
    ASSUME NEW s, s.next_seq \in Nat, NEW n \in Nat
    PROVE  /\ \A q \in Cuts(s, n) :
                 q \in Nat /\ s.next_seq <= q /\ q < s.next_seq + n
           /\ \A p, q \in Cuts(s, n) : p < q => p + SegmentSize <= q
           /\ \A o \in s.next_seq .. s.next_seq + n - 1 :
                 \E q \in Cuts(s, n) : q <= o /\ o < q + SegmentSize
<1> DEFINE b == s.next_seq
<1> USE ConfigAssumption
<1>1. \A q \in Cuts(s, n) : /\ q \in Nat /\ b <= q /\ q < b + n
                            /\ q - b \in Nat /\ (q - b) % SegmentSize = 0
  BY DEF Cuts
<1>2. ASSUME NEW p \in Cuts(s, n), NEW q \in Cuts(s, n), p < q
      PROVE  p + SegmentSize <= q
  <2> DEFINE u == p - b
             v == q - b
             x == u \div SegmentSize
             y == v \div SegmentSize
  <2>1. u \in Nat /\ u % SegmentSize = 0 /\ v \in Nat /\ v % SegmentSize = 0
    BY <1>1
  <2> HIDE DEF u, v
  <2>2. /\ u = SegmentSize * x + (u % SegmentSize) /\ x \in Nat
        /\ v = SegmentSize * y + (v % SegmentSize) /\ y \in Nat
    BY <2>1, DivMod
  <2> HIDE DEF x, y
  <2>3. SegmentSize * x \in Nat /\ SegmentSize * y \in Nat
    BY <2>2, Multiples
  <2>4. u = SegmentSize * x /\ x \in Nat
    BY <2>1, <2>2, <2>3
  <2>5. v = SegmentSize * y /\ y \in Nat
    BY <2>1, <2>2, <2>3
  <2>6. u < v
    BY <1>1, <1>2 DEF u, v
  <2>7. SegmentSize * x + SegmentSize <= SegmentSize * y
    BY <2>4, <2>5, <2>6, Multiples
  <2>8. u + SegmentSize <= v
    BY <2>4, <2>5, <2>7
  <2> QED
    BY <2>8, <1>1 DEF u, v
<1>3. ASSUME NEW o \in b .. b + n - 1
      PROVE  \E q \in Cuts(s, n) : q <= o /\ o < q + SegmentSize
  <2> DEFINE x == (o - b) \div SegmentSize
             y == SegmentSize * x
             z == (o - b) % SegmentSize
  <2>1. o - b \in Nat /\ o \in Nat
    OBVIOUS
  <2>2. x \in Nat /\ o - b = y + z /\ z \in 0 .. SegmentSize - 1
    BY <2>1, DivMod
  <2> HIDE DEF x, z
  <2>3. y \in Nat /\ y % SegmentSize = 0
    BY <2>2, Multiples
  <2> HIDE DEF y
  <2>4. b + y <= o /\ o < b + y + SegmentSize
    BY <2>1, <2>2, <2>3
  <2>5. (b + y) - b = y /\ b + y \in b .. b + n - 1
    BY <2>1, <2>3, <2>4
  <2>6. b + y \in Cuts(s, n)
    BY <2>3, <2>5 DEF Cuts
  <2> QED
    BY <2>4, <2>6
<1> QED
  BY <1>1, <1>2, <1>3

\* A new segment is full, or ends with the last admitted byte.
LEMMA NewSegmentEnd ==
    ASSUME NEW s, NEW w, SndType(s), SndInv(s, w),
           NEW n \in 0 .. Len(s.send_queue), NEW q \in Cuts(s, n)
    PROVE  LET d == NewSegment(s, n, q).data
           IN  /\ Len(d) \in Nat \ {0}
               /\ q + Len(d) = Lesser(q + SegmentSize, s.next_seq + n)
<1> DEFINE a == q - s.next_seq + 1
           b == Lesser(q - s.next_seq + SegmentSize, n)
           d == SubSeq(s.send_queue, a, b)
<1>1. s.next_seq \in Nat /\ s.send_queue \in Seq(Nat)
  BY DEF SndType
<1>2. n \in Nat /\ Len(s.send_queue) \in Nat /\ n <= Len(s.send_queue)
  BY <1>1
<1>3. q \in Nat /\ s.next_seq <= q /\ q < s.next_seq + n
  BY <1>1, <1>2, CutFacts
<1>4. a \in Nat /\ b \in Nat /\ 1 <= a /\ a <= b /\ b <= n
  BY <1>1, <1>2, <1>3, ConfigAssumption DEF Lesser
<1>5. q + (b - a + 1) = Lesser(q + SegmentSize, s.next_seq + n)
  BY <1>1, <1>2, <1>3, ConfigAssumption DEF Lesser
<1> HIDE DEF a, b
<1>6. \A i \in a .. b : s.send_queue[i] \in Nat
  BY <1>1, <1>2, <1>4
<1>7. Len(d) = b - a + 1
  BY <1>4, <1>6, SubSeqProperties
<1> HIDE DEF d
<1>8. NewSegment(s, n, q).data = d
  BY DEF NewSegment, a, b, d
<1> QED
  BY <1>4, <1>5, <1>7, <1>8

-----------------------------------------------------------------------------
(* Flow control *)

\* The bytes in flight of a map, when it is cut down to some of its entries
\* or extended by others.
LEMMA BytesFinite ==
    ASSUME NEW s, NEW w, SndType(s), SndInv(s, w)
    PROVE  IsFiniteSet(BytesOf(SegmentData(s.unacked)))
<1> DEFINE f == SegmentData(s.unacked)
           n == s.next_seq
           B == (0 .. n) \X (1 .. n)
<1>1. n \in Nat
  BY DEF SndType
<1>2. \A q \in DOMAIN f : q \in Nat /\ Len(f[q]) \in Nat /\ q + Len(f[q]) <= n
  BY DEF SndType, SndInv, IsPartWithin, SegmentData, IsMap, Segment
<1> HIDE DEF f, n
<1>3. BytesOf(f) \subseteq B
  <2> SUFFICES ASSUME NEW q \in DOMAIN f
               PROVE  {q} \X (1 .. Len(f[q])) \subseteq B
    BY DEF BytesOf
  <2>1. q \in 0 .. n /\ \A i \in 1 .. Len(f[q]) : i \in 1 .. n
    BY <1>1, <1>2
  <2> QED
    BY <2>1
<1>4. IsFiniteSet(B)
  <2>1. IsFiniteSet(0 .. n) /\ IsFiniteSet(1 .. n)
    BY <1>1, FS_Interval
  <2> QED
    BY <2>1, FS_Product
<1> QED
  BY <1>3, <1>4, FS_Subset DEF f

\* Dropping segments leaves no more bytes in flight.
LEMMA KeepsInFlight ==
    ASSUME NEW s, NEW t, NEW w, SndType(s), SndInv(s, w), Keeps(s, t)
    PROVE  InFlightBytes(t) <= InFlightBytes(s)
<1> DEFINE f == SegmentData(s.unacked)
           g == SegmentData(t.unacked)
<1>1. /\ DOMAIN g = DOMAIN t.unacked /\ DOMAIN g \subseteq DOMAIN f
      /\ \A q \in DOMAIN g : g[q] = f[q]
  BY DEF Keeps, SegmentData
<1> HIDE DEF f, g
<1>2. BytesOf(g) \subseteq BytesOf(f)
  BY <1>1 DEF BytesOf
<1>3. IsFiniteSet(BytesOf(f))
  BY BytesFinite DEF f
<1>4. Cardinality(BytesOf(g)) <= Cardinality(BytesOf(f))
  BY <1>2, <1>3, FS_Subset
<1> QED
  BY <1>4 DEF InFlightBytes, f, g

\* The segments of try_send_more hold no more bytes than were admitted.
LEMMA NewBytes ==
    ASSUME NEW s, NEW w, SndType(s), SndInv(s, w),
           NEW n \in 0 .. Len(s.send_queue)
    PROVE  LET g == [q \in Cuts(s, n) |-> NewSegment(s, n, q).data]
           IN  IsFiniteSet(BytesOf(g)) /\ Cardinality(BytesOf(g)) <= n
<1> DEFINE g == [q \in Cuts(s, n) |-> NewSegment(s, n, q).data]
           b == s.next_seq
           h == [x \in BytesOf(g) |-> x[1] + x[2] - b]
<1>1. b \in Nat /\ n \in Nat
  BY DEF SndType
<1>2. \A q \in Cuts(s, n) :
         /\ q \in Nat /\ b <= q /\ q < b + n
         /\ Len(g[q]) \in Nat
         /\ q + Len(g[q]) <= q + SegmentSize /\ q + Len(g[q]) <= b + n
  <2> SUFFICES ASSUME NEW q \in Cuts(s, n)
               PROVE  /\ q \in Nat /\ b <= q /\ q < b + n
                      /\ Len(g[q]) \in Nat
                      /\ q + Len(g[q]) <= q + SegmentSize
                      /\ q + Len(g[q]) <= b + n
    OBVIOUS
  <2>1. q \in Nat /\ b <= q /\ q < b + n
    BY <1>1, CutFacts
  <2>2. Len(g[q]) \in Nat /\ q + Len(g[q]) = Lesser(q + SegmentSize, b + n)
    BY NewSegmentEnd
  <2> QED
    BY <1>1, <2>1, <2>2, ConfigAssumption DEF Lesser
<1>3. \A p, q \in Cuts(s, n) : p < q => p + SegmentSize <= q
  BY <1>1, CutFacts
<1>4. DOMAIN g = Cuts(s, n)
  OBVIOUS
<1> HIDE DEF g, b
<1>5. \A x \in BytesOf(g) : /\ x[1] \in Cuts(s, n) /\ x[2] \in 1 .. Len(g[x[1]])
                            /\ x = <<x[1], x[2]>>
  BY <1>4 DEF BytesOf
<1>6. \A x \in BytesOf(g) :
         /\ x[1] \in Nat /\ x[2] \in Nat /\ x[2] > 0 /\ x[2] <= SegmentSize
         /\ x[1] + x[2] - b \in 1 .. n
  <2> SUFFICES ASSUME NEW x \in BytesOf(g)
               PROVE  /\ x[1] \in Nat /\ x[2] \in Nat /\ x[2] > 0
                      /\ x[2] <= SegmentSize /\ x[1] + x[2] - b \in 1 .. n
    OBVIOUS
  <2> DEFINE q == x[1]
             i == x[2]
  <2>1. q \in Cuts(s, n) /\ i \in 1 .. Len(g[q])
    BY <1>5
  <2> HIDE DEF q, i
  <2>2. /\ q \in Nat /\ b <= q /\ Len(g[q]) \in Nat
        /\ q + Len(g[q]) <= q + SegmentSize /\ q + Len(g[q]) <= b + n
    BY <1>2, <2>1
  <2>3. i \in Nat /\ i > 0 /\ i <= Len(g[q])
    BY <2>1, <2>2
  <2>4. i <= SegmentSize /\ q + i - b \in 1 .. n
    BY <1>1, <2>2, <2>3, ConfigAssumption
  <2> QED
    BY <2>2, <2>3, <2>4 DEF q, i
<1>7. ASSUME NEW x \in BytesOf(g), NEW y \in BytesOf(g), x[1] + x[2] = y[1] + y[2]
      PROVE  x = y
  <2> DEFINE p == x[1]
             i == x[2]
             q == y[1]
             j == y[2]
  <2>1. /\ p \in Cuts(s, n) /\ q \in Cuts(s, n) /\ x = <<p, i>> /\ y = <<q, j>>
        /\ p \in Nat /\ i \in Nat /\ i > 0 /\ i <= SegmentSize
        /\ q \in Nat /\ j \in Nat /\ j > 0 /\ j <= SegmentSize
        /\ p + i = q + j
    BY <1>5, <1>6, <1>7
  <2> HIDE DEF p, q, i, j
  <2>2. ~(p < q) /\ ~(q < p)
    BY <1>3, <2>1, ConfigAssumption
  <2>3. p = q /\ i = j
    BY <2>1, <2>2
  <2> QED
    BY <2>1, <2>3
<1>8. h \in Injection(BytesOf(g), 1 .. n)
  <2>1. h \in [BytesOf(g) -> 1 .. n]
    BY <1>6
  <2>2. ASSUME NEW x \in BytesOf(g), NEW y \in BytesOf(g), h[x] = h[y]
        PROVE  x = y
    <3>1. x[1] + x[2] - b = y[1] + y[2] - b
      BY <2>2
    <3>2. x[1] + x[2] = y[1] + y[2]
      <4>1. /\ x[1] \in Nat /\ x[2] \in Nat /\ y[1] \in Nat /\ y[2] \in Nat
        BY <1>6
      <4> QED
        BY SMTT(30), <1>1, <3>1, <4>1
    <3> QED
      BY <3>2, <1>7
  <2> QED
    BY <2>1, <2>2 DEF Injection, IsInjective
<1>9. IsFiniteSet(1 .. n) /\ Cardinality(1 .. n) = n
  <2>1. /\ IsFiniteSet(1 .. n)
        /\ Cardinality(1 .. n) = IF 1 > n THEN 0 ELSE n - 1 + 1
    BY <1>1, FS_Interval
  <2> QED
    BY <1>1, <2>1
<1> HIDE DEF h
<1>10. IsFiniteSet(BytesOf(g)) /\ Cardinality(BytesOf(g)) <= Cardinality(1 .. n)
  BY <1>8, <1>9, FS_Injection
<1> QED
  BY <1>9, <1>10 DEF g

\* try_send_more puts no more bytes in flight than it admits.
LEMMA DrainInFlight ==
    ASSUME NEW c, NEW s, NEW w, SndType(s), SndInv(s, w)
    PROVE  InFlightBytes(TrySendMore(c, s)) <= InFlightBytes(s) + Admitted(c, s)
<1> DEFINE n == Admitted(c, s)
           un == [q \in (DOMAIN s.unacked) \cup Cuts(s, n) |->
                    IF q \in Cuts(s, n) THEN NewSegment(s, n, q) ELSE s.unacked[q]]
           f == SegmentData(s.unacked)
           g == [q \in Cuts(s, n) |-> NewSegment(s, n, q).data]
           h == SegmentData(un)
<1>1. n \in 0 .. Len(s.send_queue)
  BY AdmittedRange
<1>2. TrySendMore(c, s).unacked = un
  BY DEF TrySendMore, SndType
<1> HIDE DEF n
<1>3. n \in Nat
  BY <1>1 DEF SndType
<1>4. IsFiniteSet(BytesOf(g)) /\ Cardinality(BytesOf(g)) <= n
  BY <1>1, NewBytes
<1>5. IsFiniteSet(BytesOf(f))
  BY BytesFinite
<1>6. BytesOf(h) \subseteq BytesOf(f) \cup BytesOf(g)
  <2>1. DOMAIN h = DOMAIN f \cup DOMAIN g
    BY DEF SegmentData
  <2>2. \A q \in DOMAIN h : \/ q \in DOMAIN f /\ h[q] = f[q]
                            \/ q \in DOMAIN g /\ h[q] = g[q]
    BY DEF SegmentData
  <2> HIDE DEF f, g, h
  <2> QED
    BY <2>1, <2>2 DEF BytesOf
<1> HIDE DEF f, g, h
<1>7. /\ IsFiniteSet(BytesOf(f) \cup BytesOf(g))
      /\ Cardinality(BytesOf(f) \cup BytesOf(g))
            <= Cardinality(BytesOf(f)) + Cardinality(BytesOf(g))
  <2>1. /\ IsFiniteSet(BytesOf(f) \cup BytesOf(g))
        /\ IsFiniteSet(BytesOf(f) \cap BytesOf(g))
        /\ Cardinality(BytesOf(f) \cup BytesOf(g))
             = Cardinality(BytesOf(f)) + Cardinality(BytesOf(g))
                 - Cardinality(BytesOf(f) \cap BytesOf(g))
    BY <1>4, <1>5, FS_Union, FS_Intersection
  <2>2. /\ Cardinality(BytesOf(f)) \in Nat /\ Cardinality(BytesOf(g)) \in Nat
        /\ Cardinality(BytesOf(f) \cap BytesOf(g)) \in Nat
    BY <1>4, <1>5, <2>1, FS_CardinalityType
  <2> QED
    BY <2>1, <2>2
<1>8. Cardinality(BytesOf(h)) <= Cardinality(BytesOf(f) \cup BytesOf(g))
  BY <1>6, <1>7, FS_Subset
<1>9. IsFiniteSet(BytesOf(h))
  BY <1>6, <1>7, FS_Subset
<1>10. /\ Cardinality(BytesOf(f)) \in Nat /\ Cardinality(BytesOf(g)) \in Nat
       /\ Cardinality(BytesOf(h)) \in Nat
       /\ Cardinality(BytesOf(f) \cup BytesOf(g)) \in Nat
  BY <1>4, <1>5, <1>7, <1>9, FS_CardinalityType
<1>11. Cardinality(BytesOf(h)) <= Cardinality(BytesOf(f)) + n
  BY <1>3, <1>4, <1>7, <1>8, <1>10
<1> QED
  BY <1>2, <1>11 DEF InFlightBytes, f, h, n

\* The two states in which a connection sends data.
Open == {"Established", "Closing"}

\* What try_send_more leaves: new data only within the window or as a probe
\* of one byte, and something in flight if there is something to send.
LEMMA DrainWindow ==
    ASSUME NEW c, NEW s, NEW w \in Nat, SndType(s), SndInv(s, w)
    PROVE  LET t == TrySendMore(c, s)
           IN  /\ t.next_seq > s.next_seq =>
                     InFlightBytes(t) <= Greater(EffectiveWindow(s), 1)
               /\ t.next_seq = s.next_seq => InFlightBytes(t) <= InFlightBytes(s)
               /\ t.peer_window = s.peer_window /\ t.cwnd = s.cwnd
               /\ c.state \in Open /\ t.send_queue # << >> => DOMAIN t.unacked # {}
               /\ c.state \notin Open => t.next_seq = s.next_seq
<1> DEFINE n == Admitted(c, s)
           t == TrySendMore(c, s)
           fl == InFlightBytes(s)
           ew == EffectiveWindow(s)
           un == [q \in (DOMAIN s.unacked) \cup Cuts(s, n) |->
                    IF q \in Cuts(s, n) THEN NewSegment(s, n, q) ELSE s.unacked[q]]
<1>1. n \in 0 .. Len(s.send_queue)
  BY AdmittedRange
<1>2. /\ t.next_seq = s.next_seq + n /\ t.unacked = un
      /\ t.peer_window = s.peer_window /\ t.cwnd = s.cwnd
      /\ t.send_queue = SubSeq(s.send_queue, n + 1, Len(s.send_queue))
  BY DEF TrySendMore, SndType
<1>3. /\ s.next_seq \in Nat /\ Len(s.send_queue) \in Nat /\ n \in Nat
      /\ s.send_queue \in Seq(Nat)
  BY <1>1 DEF SndType
<1>4. fl \in Nat /\ ew \in Nat
  <2>1. s.peer_window \in Nat /\ s.cwnd \in Nat
    BY ConfigAssumption DEF SndType
  <2> QED
    BY <2>1, InFlightNat DEF EffectiveWindow, Lesser
<1>5. InFlightBytes(t) <= fl + n
  BY DrainInFlight
<1>6. InFlightBytes(t) \in Nat
  <2>1. SndType(t) /\ SndInv(t, w)
    BY TrySendMoreOK
  <2> HIDE DEF t
  <2> QED
    BY <2>1, InFlightNat
<1>7. n = IF c.state \in Open
            THEN Lesser(Len(s.send_queue),
                        IF fl = 0 THEN Greater(SaturatingSub(ew, fl), 1)
                                  ELSE SaturatingSub(ew, fl))
            ELSE 0
  BY DEF Admitted, Open
<1> HIDE DEF n, t, fl, ew
<1>8. n > 0 => fl + n <= Greater(ew, 1)
  BY <1>3, <1>4, <1>7 DEF Lesser, Greater, SaturatingSub
<1>9. t.next_seq > s.next_seq => InFlightBytes(t) <= Greater(ew, 1)
  <2> SUFFICES ASSUME t.next_seq > s.next_seq
               PROVE  InFlightBytes(t) <= Greater(ew, 1)
    OBVIOUS
  <2>1. n > 0
    BY <1>2, <1>3
  <2>2. fl + n \in Nat /\ Greater(ew, 1) \in Nat
    BY <1>3, <1>4 DEF Greater
  <2> QED
    BY <2>1, <2>2, <1>5, <1>6, <1>8
<1>10. t.next_seq = s.next_seq => InFlightBytes(t) <= fl
  BY <1>2, <1>3, <1>4, <1>5, <1>6
<1>11. ASSUME c.state \in Open, t.send_queue # << >>
       PROVE  DOMAIN t.unacked # {}
  <2>1. CASE DOMAIN s.unacked # {}
    BY <2>1, <1>2
  <2>2. CASE DOMAIN s.unacked = {}
    <3>1. fl = 0
      <4>1. BytesOf(SegmentData(s.unacked)) = {}
        BY <2>2 DEF BytesOf, SegmentData
      <4> QED
        BY <4>1, FS_EmptySet DEF InFlightBytes, fl
    <3>2. Len(s.send_queue) # 0
      <4> SUFFICES ASSUME Len(s.send_queue) = 0 PROVE FALSE
        OBVIOUS
      <4>1. n + 1 > Len(s.send_queue)
        BY <1>3
      <4>2. t.send_queue = << >>
        BY <1>2, <1>3, <4>1, SubSeqProperties
      <4> QED
        BY <1>11, <4>2
    <3>3. n > 0
      BY <1>3, <1>4, <1>7, <1>11, <3>1, <3>2 DEF Lesser, Greater
    <3>4. s.next_seq \in s.next_seq .. s.next_seq + n - 1
      BY <1>3, <3>3
    <3>5. \E q \in Cuts(s, n) : TRUE
      BY <1>3, <3>4, CutFacts
    <3> QED
      BY <1>2, <3>5
  <2> QED
    BY <2>1, <2>2
<1>12. c.state \notin Open => t.next_seq = s.next_seq
  BY <1>2, <1>3, <1>7
<1> QED
  BY <1>2, <1>9, <1>10, <1>11, <1>12 DEF t, fl, ew

\* What every handler of e does to its send side: it brings it to s and its
\* control state to c, dropping segments perhaps but sending nothing new,
\* and then runs drain_and_maybe_fin, unless it ends in a state that sends
\* nothing, or is recv().
Shape(e, c, s) ==
    /\ SndType(s) /\ SndInv(s, written'[e])
    /\ s.next_seq = snd[e].next_seq
    /\ InFlightBytes(s) <= InFlightBytes(snd[e])
    /\ c.state \in Open =>
          \/ ctl[e].state \in Open /\ s.peer_window = snd[e].peer_window
          \/ \E m \in From(Peer(e)) : s.peer_window = m.header.window
    /\ \A d \in Endpoint \ {e} : ctl'[d] = ctl[d] /\ snd'[d] = snd[d]
    /\ \/ snd'[e] = TrySendMore(c, s) /\ ctl'[e] = DrainCtl(c, s)
       \/ snd'[e] = s /\ ctl'[e].state \notin Open
       \/ snd'[e] = snd[e] /\ ctl'[e] = ctl[e]

\* A connection that is open after drain_and_maybe_fin was so before it.
LEMMA DrainOpen ==
    ASSUME NEW c \in CtlType, NEW s, DrainCtl(c, s).state \in Open
    PROVE  c.state \in Open
BY DEF DrainCtl, MaybeSendFin, FinReady, CheckFullyClosed, CtlType, Open

\* send() puts the next part of the stream on the queue.
LEMMA SendQueue ==
    ASSUME IndInv, NEW e \in Endpoint, NEW n \in Nat
    PROVE  LET s == [snd[e] EXCEPT !.send_queue = @ \o Bytes(written[e], n)]
           IN  /\ SndType(s) /\ SndInv(s, written[e] + n)
               /\ s.next_seq = snd[e].next_seq /\ s.unacked = snd[e].unacked
               /\ s.peer_window = snd[e].peer_window
<1> DEFINE q == snd[e].send_queue
           b == Bytes(written[e], n)
           qb == q \o b
           s == [snd[e] EXCEPT !.send_queue = qb]
           w == written[e] + n
<1>1. SndType(snd[e]) /\ SndInv(snd[e], written[e]) /\ written[e] \in Nat
  BY Local
<1>2. q \in Seq(Nat) /\ snd[e].next_seq \in Nat /\ Len(q) \in Nat
      /\ IsPart(q, snd[e].next_seq) /\ snd[e].next_seq + Len(q) = written[e]
  BY <1>1 DEF SndType, SndInv
<1>3. b \in Seq(Nat) /\ Len(b) = n /\ IsPart(b, written[e])
  BY <1>1, BytesPart
<1> HIDE DEF q, b
<1>4. /\ qb \in Seq(Nat) /\ Len(qb) = Len(q) + n
      /\ IsPart(qb, snd[e].next_seq)
  BY <1>2, <1>3, ConcatPart
<1> HIDE DEF qb
<1>5. /\ s.send_queue = qb /\ s.next_seq = snd[e].next_seq
      /\ s.unacked = snd[e].unacked /\ s.peer_window = snd[e].peer_window
  BY <1>1 DEF SndType
<1>6. SndType(s)
  BY <1>1, <1>4 DEF SndType
<1>7. [snd[e] EXCEPT !.send_queue = @ \o Bytes(written[e], n)] = s
  BY DEF qb, q, b
<1> HIDE DEF s
<1>8. SndInv(s, w)
  <2>1. s.next_seq + Len(s.send_queue) = w
    <3>1. Len(s.send_queue) = Len(q) + n
      BY <1>4, <1>5
    <3>2. snd[e].next_seq + (Len(q) + n) = written[e] + n
      BY <1>1, <1>2
    <3> QED
      BY <1>5, <3>1, <3>2
  <2>2. IsPart(s.send_queue, s.next_seq)
    BY <1>4, <1>5
  <2> QED
    BY <2>1, <2>2, <1>1, <1>5 DEF SndInv
<1> QED
  BY <1>5, <1>6, <1>7, <1>8

\* send()
LEMMA SendShape ==
    ASSUME IndInv, NEW e \in Endpoint, NEW n \in Nat, Send(e, n)
    PROVE  \E c \in CtlType : \E s : Shape(e, c, s)
<1> DEFINE s == [snd[e] EXCEPT !.send_queue = @ \o Bytes(written[e], n)]
           w == written[e] + n
<1>1. /\ ctl' = [ctl EXCEPT ![e] = DrainCtl(ctl[e], s)]
      /\ snd' = [snd EXCEPT ![e] = TrySendMore(ctl[e], s)]
      /\ written' = [written EXCEPT ![e] = w]
  BY DEF Send, DrainSnd
<1>2. /\ ctl[e] \in CtlType /\ SndType(snd[e]) /\ SndInv(snd[e], written[e])
      /\ written[e] \in Nat
  BY Local
<1>3. /\ SndType(s) /\ SndInv(s, w) /\ s.next_seq = snd[e].next_seq
      /\ s.unacked = snd[e].unacked /\ s.peer_window = snd[e].peer_window
  BY SendQueue
<1> HIDE DEF s
<1>4. InFlightBytes(s) = InFlightBytes(snd[e]) /\ InFlightBytes(s) \in Nat
  BY <1>3, InFlightNat DEF InFlightBytes
<1>5. /\ \A d \in Endpoint \ {e} : ctl'[d] = ctl[d] /\ snd'[d] = snd[d]
      /\ ctl'[e] = DrainCtl(ctl[e], s) /\ snd'[e] = TrySendMore(ctl[e], s)
      /\ written'[e] = w
  BY <1>1 DEF IndInv, TypeOK
<1>6. Shape(e, ctl[e], s)
  BY <1>3, <1>4, <1>5 DEF Shape
<1> QED
  BY <1>2, <1>6

\* Handlers that do not change what was written.
LEMMA KeepsShape ==
    ASSUME IndInv, NEW e \in Endpoint, NEW c \in CtlType, NEW s,
           Keeps(snd[e], s), written' = written, NEW d \in CtlType, NEW t,
           ctl' = [ctl EXCEPT ![e] = d], snd' = [snd EXCEPT ![e] = t],
           \/ t = TrySendMore(c, s) /\ d = DrainCtl(c, s)
           \/ t = s /\ d.state \notin Open
           \/ t = snd[e] /\ d = ctl[e],
           c.state \in Open =>
              \/ ctl[e].state \in Open /\ s.peer_window = snd[e].peer_window
              \/ \E m \in From(Peer(e)) : s.peer_window = m.header.window
    PROVE  Shape(e, c, s)
<1>1. SndType(snd[e]) /\ SndInv(snd[e], written[e])
  BY Local
<1>2. SndType(s) /\ SndInv(s, written'[e]) /\ s.next_seq = snd[e].next_seq
  BY <1>1, KeepsInv DEF Keeps
<1>3. InFlightBytes(s) <= InFlightBytes(snd[e])
  BY <1>1, KeepsInFlight
<1>4. /\ \A x \in Endpoint \ {e} : ctl'[x] = ctl[x] /\ snd'[x] = snd[x]
      /\ ctl'[e] = d /\ snd'[e] = t
  BY DEF IndInv, TypeOK
<1> QED
  BY <1>2, <1>3, <1>4 DEF Shape

\* close() and recv()
LEMMA CloseRecvShape ==
    ASSUME IndInv, NEW e \in Endpoint, Close(e) \/ Recv(e)
    PROVE  \E c \in CtlType : \E s : Shape(e, c, s)
<1>1. ctl[e] \in CtlType /\ Keeps(snd[e], snd[e])
  BY Local, KeepsSelf
<1>2. CASE Close(e)
  <2> DEFINE c == [ctl[e] EXCEPT !.close_requested = TRUE]
             d == DrainCtl(c, snd[e])
             t == TrySendMore(c, snd[e])
  <2>1. c \in CtlType /\ c.state = ctl[e].state
    BY <1>1 DEF CtlType
  <2>2. /\ ctl' = [ctl EXCEPT ![e] = d] /\ snd' = [snd EXCEPT ![e] = t]
        /\ written' = written
    BY <1>2 DEF Close, DrainSnd
  <2> HIDE DEF c
  <2>3. d \in CtlType
    BY <2>1, DrainCtlType
  <2>4. (t = TrySendMore(c, snd[e]) /\ d = DrainCtl(c, snd[e]))
    OBVIOUS
  <2> HIDE DEF d, t
  <2>5. Shape(e, c, snd[e])
    BY <1>1, <2>1, <2>2, <2>3, <2>4, KeepsShape
  <2> QED
    BY <2>1, <2>5
<1>3. CASE Recv(e)
  <2>1. /\ ctl' = [ctl EXCEPT ![e] = ctl[e]] /\ snd' = [snd EXCEPT ![e] = snd[e]]
        /\ written' = written
    BY <1>3, Local DEF Recv
  <2>2. Shape(e, ctl[e], snd[e])
    BY <1>1, <2>1, KeepsShape
  <2> QED
    BY <1>1, <2>2
<1> QED
  BY <1>2, <1>3

\* on_datagram when nothing but the window is adopted
LEMMA QuietShape ==
    ASSUME IndInv, NEW e \in Endpoint, NEW m,
           ReAckFin(e, m) \/ OnSyn(e, m) \/ Ignore(e, m)
    PROVE  \E c \in CtlType : \E s : Shape(e, c, s)
<1> DEFINE s == AdoptWindow(snd[e], m)
           opened == [ctl[e] EXCEPT !.state = "SynReceived", !.handshake = 1]
<1>1. ctl[e] \in CtlType /\ SndType(snd[e])
  BY Local
<1>2. Arrives(e, m) /\ written' = written /\ snd' = [snd EXCEPT ![e] = s]
  BY DEF ReAckFin, OnSyn, Ignore
<1>3. m.header.window \in 0 .. U32Max
  BY <1>2, ArrivesFacts
<1>4. Keeps(snd[e], s)
  BY <1>1, <1>3, AdoptWindowKeeps
<1> HIDE DEF s
<1>5. PICK d \in CtlType : d.state \notin Open /\ ctl' = [ctl EXCEPT ![e] = d]
  <2>1. CASE ReAckFin(e, m) \/ Ignore(e, m)
    <3>1. ctl' = [ctl EXCEPT ![e] = ctl[e]]
      BY <2>1, Local DEF ReAckFin, Ignore
    <3>2. ctl[e].state \notin Open
      BY <2>1 DEF ReAckFin, Ignore, CompleteHandshake, Open
    <3> QED
      BY <1>1, <3>1, <3>2
  <2>2. CASE OnSyn(e, m)
    <3>1. opened \in CtlType /\ opened.state = "SynReceived"
      BY <1>1 DEF CtlType, State
    <3>2. ctl \in [Endpoint -> CtlType] /\ ctl = [ctl EXCEPT ![e] = ctl[e]]
      BY Local DEF IndInv, TypeOK
    <3>3. \/ ctl' = [ctl EXCEPT ![e] = opened]
          \/ ctl' = [ctl EXCEPT ![e] = ctl[e]] /\ ctl[e].state = "SynReceived"
      BY <2>2, <3>2 DEF OnSyn
    <3> HIDE DEF opened
    <3> QED
      BY <1>1, <3>1, <3>3 DEF Open
  <2> QED
    BY <2>1, <2>2
<1>6. Shape(e, d, s)
  BY <1>2, <1>4, <1>5, KeepsShape
<1> QED
  BY <1>6

\* on_datagram, the shared block
LEMMA ProcessShape ==
    ASSUME IndInv, NEW e \in Endpoint, NEW m, Process(e, m)
    PROVE  \E c \in CtlType : \E s : Shape(e, c, s)
<1> DEFINE c0  == CompleteHandshake(ctl[e], m)
           s0  == AdoptWindow(snd[e], m)
           ack == "ACK" \in m.flags
           fin == "FIN" \in m.flags
           c1  == IF ack THEN AckCtl(c0, s0, m.header) ELSE c0
           s1  == IF ack THEN AckSnd(s0, m.header) ELSE s0
           c2  == [c1 EXCEPT !.peer_fin_seen = @ \/ fin]
           d   == DrainCtl(c2, s1)
           t   == TrySendMore(c2, s1)
<1>1. /\ Arrives(e, m) /\ written' = written
      /\ ctl' = [ctl EXCEPT ![e] = d] /\ snd' = [snd EXCEPT ![e] = t]
  BY DEF Process, DrainSnd
<1>2. m.header.window \in 0 .. U32Max /\ m.header.ack \in Nat
  BY <1>1, ArrivesFacts
<1>3. ctl[e] \in CtlType /\ SndType(snd[e])
  BY Local
<1>4. c2 \in CtlType
  <2>1. c0 \in CtlType
    BY <1>3, CtlOps
  <2>2. c1 \in CtlType
    BY <2>1, AckCtlType
  <2> HIDE DEF c1, fin
  <2>3. fin \in BOOLEAN
    BY DEF fin
  <2> QED
    BY <2>2, <2>3 DEF CtlType
<1>5. Keeps(snd[e], s0) /\ SndType(s0) /\ s0.peer_window = m.header.window
  BY <1>2, <1>3, AdoptWindowKeeps DEF Keeps, AdoptWindow, SndType
<1> HIDE DEF s0
<1>6. Keeps(s0, s1)
  BY <1>2, <1>5, AckSndKeeps, KeepsSelf
<1>7. Keeps(snd[e], s1)
  BY <1>5, <1>6, KeepsTrans
<1>8. s1.peer_window = s0.peer_window
  <2>1. \A x, k : SndType(x) => MarkSacked(x, k).peer_window = x.peer_window
    BY DEF MarkSacked, SndType
  <2>2. \A a : AckNew(s0, a).peer_window = s0.peer_window
    BY <1>5 DEF AckNew, SndType
  <2>3. FastRetransmit(s0).peer_window = s0.peer_window
    BY <1>5 DEF FastRetransmit, SndType
  <2> DEFINE k == s0.dup_ack_count + 1
             s2 == [s0 EXCEPT !.dup_ack_count = k]
  <2>4. s2.peer_window = s0.peer_window /\ SndType(s2)
    <3>1. k \in Nat
      BY <1>5 DEF SndType
    <3> HIDE DEF k
    <3> QED
      BY <1>5, <3>1 DEF SndType
  <2>5. m.header.ack > s0.send_base => SndType(AckNew(s0, m.header.ack))
    BY <1>2, <1>5, AckNewKeeps DEF Keeps
  <2>6. AckSnd(s0, m.header).peer_window = s0.peer_window
    <3> HIDE DEF s2
    <3>1. AckSnd(s0, m.header) =
            IF m.header.ack > s0.send_base
              THEN MarkSacked(AckNew(s0, m.header.ack), m.header.sack)
            ELSE IF FastRetransmits(s0, m.header.ack) THEN FastRetransmit(s0)
            ELSE IF IsDupAck(s0, m.header.ack) THEN MarkSacked(s2, m.header.sack)
            ELSE MarkSacked(s0, m.header.sack)
      BY DEF AckSnd, s2
    <3> QED
      BY <3>1, <1>5, <2>1, <2>2, <2>3, <2>4, <2>5
  <2> QED
    BY <2>6
<1> HIDE DEF c2, s1
<1>9. d \in CtlType
  BY <1>4, DrainCtlType
<1>10. t = TrySendMore(c2, s1) /\ d = DrainCtl(c2, s1)
  OBVIOUS
<1>11. \E x \in From(Peer(e)) : s1.peer_window = x.header.window
  BY <1>1, <1>5, <1>8 DEF Arrives, From
<1> HIDE DEF d, t
<1>12. Shape(e, c2, s1)
  BY <1>1, <1>4, <1>7, <1>9, <1>10, <1>11, KeepsShape
<1> QED
  BY <1>4, <1>12

\* on_tick
LEMMA TickShape ==
    ASSUME IndInv, NEW e \in Endpoint, OnTick(e)
    PROVE  \E c \in CtlType : \E s : Shape(e, c, s)
<1>1. /\ ctl[e] \in CtlType /\ SndType(snd[e]) /\ ctl \in [Endpoint -> CtlType]
      /\ snd = [snd EXCEPT ![e] = snd[e]]
  BY Local DEF IndInv, TypeOK
<1>2. Keeps(snd[e], snd[e])
  BY <1>1, KeepsSelf
<1>3. CASE HandshakeTimeout(e)
  <2> DEFINE failed == [ctl[e] EXCEPT !.state = "Failed", !.handshake = 0]
             again  == [ctl[e] EXCEPT !.handshake = ctl[e].handshake + 1]
  <2>1. failed \in CtlType /\ again \in CtlType
    <3>1. ctl[e].handshake + 1 \in Nat
      BY <1>1 DEF CtlType
    <3> QED
      BY <1>1, <3>1, CtlUpdate
  <2>2. failed.state \notin Open /\ again.state \notin Open
    BY <1>1, <1>3 DEF HandshakeTimeout, Open, CtlType
  <2>3. /\ ctl' = [ctl EXCEPT ![e] = failed] \/ ctl' = [ctl EXCEPT ![e] = again]
        /\ snd' = [snd EXCEPT ![e] = snd[e]] /\ written' = written
    BY <1>1, <1>3 DEF HandshakeTimeout
  <2> HIDE DEF failed, again
  <2>4. Shape(e, failed, snd[e]) \/ Shape(e, again, snd[e])
    BY <1>1, <1>2, <2>1, <2>2, <2>3, KeepsShape
  <2> QED
    BY SMTT(30), <2>1, <2>4
<1>4. CASE GiveUpData(e)
  <2> DEFINE c == [ctl[e] EXCEPT !.state = "Failed"]
             s == [DataTimeout(snd[e]) EXCEPT !.unacked = << >>]
  <2>1. /\ ctl' = [ctl EXCEPT ![e] = c] /\ snd' = [snd EXCEPT ![e] = s]
        /\ written' = written
    BY <1>1, <1>4 DEF GiveUpData
  <2>2. c \in CtlType /\ c.state \notin Open
    BY <1>1 DEF CtlType, State, Open
  <2>3. Keeps(snd[e], s)
    BY <1>1, DataTimeoutKeeps
  <2> HIDE DEF c, s
  <2>4. Shape(e, c, s)
    BY <2>1, <2>2, <2>3, KeepsShape
  <2> QED
    BY <2>2, <2>4
<1>5. ASSUME NEW x \in BOOLEAN, NEW f \in BOOLEAN, Tick(e, x, f)
      PROVE  \E c \in CtlType : \E s : Shape(e, c, s)
  <2> DEFINE s == IF x THEN DataTimeout(snd[e]) ELSE snd[e]
             p == IF f THEN ctl[e].fin_pending + 1 ELSE ctl[e].fin_pending
             c == [ctl[e] EXCEPT !.fin_pending = p]
             failed == [ctl[e] EXCEPT !.state = "Failed", !.fin_pending = 0]
             t == TrySendMore(c, s)
             d == DrainCtl(c, s)
  <2>1. Keeps(snd[e], s)
    BY <1>1, <1>2, DataTimeoutKeeps
  <2>2. s.peer_window = snd[e].peer_window
    BY <1>1 DEF DataTimeout, SndType
  <2>3. c \in CtlType /\ failed \in CtlType
    <3>1. p \in Nat
      BY <1>1 DEF CtlType
    <3> HIDE DEF p
    <3> QED
      BY <1>1, <3>1, CtlUpdate
  <2>4. ctl[e].state \in Open /\ failed.state \notin Open
    BY <1>1, <1>5 DEF Tick, Open, CtlType
  <2>5. /\ written' = written
        /\ \/ ctl' = [ctl EXCEPT ![e] = failed] /\ snd' = [snd EXCEPT ![e] = s]
           \/ ctl' = [ctl EXCEPT ![e] = d] /\ snd' = [snd EXCEPT ![e] = t]
    <3>1. [ctl EXCEPT ![e].state = "Failed", ![e].fin_pending = 0]
            = [ctl EXCEPT ![e] = failed]
      BY <1>1
    <3> HIDE DEF failed, t, d
    <3> QED
      BY <1>5, <3>1 DEF Tick, DrainSnd, t, d
  <2> HIDE DEF s, c, failed
  <2>6. d \in CtlType
    BY <2>3, DrainCtlType
  <2>7. t = TrySendMore(c, s) /\ d = DrainCtl(c, s)
    OBVIOUS
  <2> HIDE DEF t, d
  <2>8. CASE ctl' = [ctl EXCEPT ![e] = failed] /\ snd' = [snd EXCEPT ![e] = s]
    <3>1. Shape(e, failed, s)
      BY <2>1, <2>3, <2>4, <2>5, <2>8, KeepsShape
    <3> QED
      BY <2>3, <3>1
  <2>9. CASE ctl' = [ctl EXCEPT ![e] = d] /\ snd' = [snd EXCEPT ![e] = t]
    <3>1. Shape(e, c, s)
      BY <2>1, <2>2, <2>3, <2>4, <2>5, <2>6, <2>7, <2>9, KeepsShape
    <3> QED
      BY <2>3, <3>1
  <2> QED
    BY <2>5, <2>8, <2>9
<1> QED
  BY <1>3, <1>4, <1>5 DEF OnTick

\* Every step has that shape.
LEMMA StepShape ==
    ASSUME IndInv, Next
    PROVE  \E e \in Endpoint : \E c \in CtlType : \E s : Shape(e, c, s)
<1>1. ASSUME NEW e \in Endpoint, NEW n \in 1 .. MaxBytes[e], Send(e, n)
      PROVE  \E c \in CtlType : \E s : Shape(e, c, s)
  <2>1. n \in Nat
    BY WorkloadAssumption
  <2> QED
    BY <2>1, <1>1, SendShape
<1>2. ASSUME NEW e \in Endpoint, OnDatagram(e)
      PROVE  \E c \in CtlType : \E s : Shape(e, c, s)
  BY <1>2, QuietShape, ProcessShape DEF OnDatagram
<1> QED
  BY <1>1, <1>2, CloseRecvShape, TickShape DEF Next

\* Queued data has something in flight ahead of it, after every handler.
LEMMA QueueStep == IndInv /\ QueueNeverStalls /\ [Next]_vars => QueueNeverStalls'
<1> SUFFICES ASSUME IndInv, QueueNeverStalls, [Next]_vars PROVE QueueNeverStalls'
  OBVIOUS
<1>1. CASE UNCHANGED vars
  BY <1>1 DEF vars, QueueNeverStalls
<1>2. CASE Next
  <2>1. PICK e \in Endpoint, c \in CtlType : \E s : Shape(e, c, s)
    BY <1>2, StepShape
  <2>2. PICK s : Shape(e, c, s)
    BY <2>1
  <2>3. /\ SndType(s) /\ SndInv(s, written'[e]) /\ written'[e] \in Nat
        /\ \A d \in Endpoint \ {e} : ctl'[d] = ctl[d] /\ snd'[d] = snd[d]
        /\ \/ snd'[e] = TrySendMore(c, s) /\ ctl'[e] = DrainCtl(c, s)
           \/ snd'[e] = s /\ ctl'[e].state \notin Open
           \/ snd'[e] = snd[e] /\ ctl'[e] = ctl[e]
    <3>1. IndInv'
      BY NextOK
    <3> QED
      BY <2>2, <3>1 DEF Shape, IndInv, TypeOK
  <2>4. ASSUME ctl'[e].state \in Open, snd'[e].send_queue # << >>
        PROVE  DOMAIN snd'[e].unacked # {}
    <3>1. CASE snd'[e] = TrySendMore(c, s) /\ ctl'[e] = DrainCtl(c, s)
      <4>1. c.state \in Open
        BY <2>4, <3>1, DrainOpen
      <4> QED
        BY <2>3, <2>4, <3>1, <4>1, DrainWindow
    <3>2. CASE snd'[e] = snd[e] /\ ctl'[e] = ctl[e]
      BY <2>4, <3>2 DEF QueueNeverStalls, Open
    <3> QED
      BY <2>3, <2>4, <3>1, <3>2
  <2> QED
    BY <2>3, <2>4 DEF QueueNeverStalls, Open
<1> QED
  BY <1>1, <1>2

\* Data never waits behind a closed window for an update that recv() does
\* not send: an open connection with a queue always has a timer running.
THEOREM QueueNeverStallsHolds == Spec => []QueueNeverStalls
<1>1. Init => QueueNeverStalls
  BY DEF Init, QueueNeverStalls, BlankSnd
<1> QED
  BY <1>1, QueueStep, Invariance, PTL DEF Spec

\* try_send_more admits new data only within the lesser of cwnd and the
\* peer's window as the handler leaves them, or as a probe of one byte.
THEOREM AdmissionHolds == Spec => AdmissionWithinWindow
<1>1. ASSUME IndInv, Next, NEW x \in Endpoint, snd'[x].next_seq > snd[x].next_seq
      PROVE  InFlightBytes(snd'[x]) <= Greater(EffectiveWindow(snd'[x]), 1)
  <2>1. PICK e \in Endpoint, c \in CtlType : \E s : Shape(e, c, s)
    BY <1>1, StepShape
  <2>2. PICK s : Shape(e, c, s)
    BY <2>1
  <2>3. snd[x].next_seq \in Nat
    BY <1>1, Local
  <2>4. x = e
    BY <1>1, <2>2, <2>3 DEF Shape
  <2>5. snd'[e] = TrySendMore(c, s)
    BY <1>1, <2>2, <2>3, <2>4 DEF Shape
  <2>6. written'[e] \in Nat
    <3>1. IndInv'
      BY <1>1, NextOK
    <3> QED
      BY <3>1 DEF IndInv, TypeOK
  <2>7. InFlightBytes(snd'[e]) <= Greater(EffectiveWindow(s), 1)
        /\ snd'[e].peer_window = s.peer_window /\ snd'[e].cwnd = s.cwnd
    BY <1>1, <2>2, <2>4, <2>5, <2>6, DrainWindow DEF Shape
  <2> QED
    BY <2>4, <2>7 DEF EffectiveWindow
<1>2. IndInv /\ [Next]_vars => [AdmitsWithinWindow]_vars
  BY <1>1 DEF AdmitsWithinWindow
<1> QED
  BY <1>2, Invariance, PTL DEF Spec, AdmissionWithinWindow

\* The window in use is one that was advertised.
LEMMA WindowStep ==
    IndInv /\ SegmentInv /\ WindowInv /\ [Next]_vars => WindowInv'
<1> SUFFICES ASSUME IndInv, SegmentInv, WindowInv, [Next]_vars PROVE WindowInv'
  OBVIOUS
<1>1. CASE UNCHANGED vars
  BY <1>1 DEF vars, WindowInv, InFlightWithinCapacity, InFlightBytes
<1>2. CASE Next
  <2>1. PICK e \in Endpoint, c \in CtlType : \E s : Shape(e, c, s)
    BY <1>2, StepShape
  <2>2. PICK s : Shape(e, c, s)
    BY <2>1
  <2> DEFINE K == Greater(RecvWindowCapacity, 1)
  <2>3. /\ IndInv' /\ written'[e] \in Nat /\ InFlightBytes(snd'[e]) \in Nat
        /\ InFlightBytes(snd[e]) \in Nat /\ InFlightBytes(s) \in Nat /\ K \in Nat
    <3>1. IndInv'
      BY NextOK
    <3>2. SndType(snd'[e]) /\ SndInv(snd'[e], written'[e]) /\ written'[e] \in Nat
      BY <3>1 DEF IndInv, TypeOK, StreamInv
    <3>3. SndType(snd[e]) /\ SndInv(snd[e], written[e])
      BY Local
    <3>4. SndType(s) /\ SndInv(s, written'[e])
      BY <2>2 DEF Shape
    <3>5. K \in Nat
      BY ConfigAssumption DEF Greater
    <3> QED
      BY <3>1, <3>2, <3>3, <3>4, <3>5, InFlightNat
  <2>4. c.state \in Open => s.peer_window <= RecvWindowCapacity
    <3>1. \A m \in From(Peer(e)) : m.header.window <= RecvWindowCapacity
      BY DEF SegmentInv, DirectionInv, HeadersInv, Headers
    <3> QED
      BY <2>2, <3>1 DEF Shape, WindowInv, Open
  <2>5. InFlightBytes(snd[e]) <= K /\ InFlightBytes(s) <= K
    BY <2>2, <2>3 DEF WindowInv, InFlightWithinCapacity, Shape
  <2> HIDE DEF K
  <2>6. CASE snd'[e] = TrySendMore(c, s) /\ ctl'[e] = DrainCtl(c, s)
    <3> DEFINE t == TrySendMore(c, s)
    <3>1. /\ SndType(s) /\ SndInv(s, written'[e]) /\ SndType(t)
      BY <2>2, <2>3, TrySendMoreOK DEF Shape
    <3>2. /\ t.next_seq > s.next_seq =>
               InFlightBytes(t) <= Greater(EffectiveWindow(s), 1)
          /\ t.next_seq = s.next_seq => InFlightBytes(t) <= InFlightBytes(s)
          /\ t.peer_window = s.peer_window
          /\ c.state \notin Open => t.next_seq = s.next_seq
          /\ t.next_seq >= s.next_seq
      BY <2>3, <3>1, DrainWindow, TrySendMoreOK
    <3> HIDE DEF t
    <3>3. c.state \in Open =>
            Greater(EffectiveWindow(s), 1) <= K /\ Greater(EffectiveWindow(s), 1) \in Nat
      <4>1. s.peer_window \in Nat /\ s.cwnd \in Nat
        BY <3>1, ConfigAssumption DEF SndType
      <4> QED
        BY <2>4, <4>1, ConfigAssumption DEF EffectiveWindow, Lesser, Greater, K
    <3>4. s.next_seq \in Nat /\ t.next_seq \in Nat
      BY <3>1 DEF SndType
    <3>5. InFlightBytes(t) <= K
      <4>1. CASE t.next_seq > s.next_seq
        BY <4>1, <2>3, <2>6, <3>2, <3>3, <3>4 DEF t
      <4>2. CASE t.next_seq = s.next_seq
        BY <4>2, <2>3, <2>5, <2>6, <3>2 DEF t
      <4> QED
        BY <3>2, <3>4, <4>1, <4>2
    <3>6. ctl'[e].state \in Open => t.peer_window <= RecvWindowCapacity
      BY <2>4, <2>6, <3>2, DrainOpen
    <3> QED
      BY <2>2, <2>6, <3>5, <3>6
         DEF t, K, Shape, WindowInv, InFlightWithinCapacity, Open
  <2>7. CASE snd'[e] = s /\ ctl'[e].state \notin Open
    BY <2>2, <2>5, <2>7 DEF K, Shape, WindowInv, InFlightWithinCapacity, Open
  <2>8. CASE snd'[e] = snd[e] /\ ctl'[e] = ctl[e]
    BY <2>2, <2>8 DEF Shape, WindowInv, InFlightWithinCapacity
  <2> QED
    BY <2>2, <2>6, <2>7, <2>8 DEF Shape
<1> QED
  BY <1>1, <1>2

-----------------------------------------------------------------------------
(* Segments: the send side *)

\* What is in flight.
LEMMA UnackedFacts ==
    ASSUME NEW s, SndType(s)
    PROVE  /\ s.send_base \in Nat /\ s.next_seq \in Nat
           /\ \A q \in DOMAIN s.unacked :
                 /\ q \in Nat /\ s.unacked[q] \in Segment
                 /\ Len(s.unacked[q].data) \in Nat
                 /\ q + Len(s.unacked[q].data) \in Nat
<1>1. s.send_base \in Nat /\ s.next_seq \in Nat
  BY DEF SndType
<1>2. \A q \in DOMAIN s.unacked : q \in Nat /\ s.unacked[q] \in Segment
  BY DEF SndType, IsMap
<1>3. \A d \in Segment : Len(d.data) \in Nat
  BY DEF Segment
<1> QED
  BY <1>1, <1>2, <1>3

\* t has the segments of s: what most methods leave of the send side.
SameSegments(s, t) ==
    /\ t.next_seq = s.next_seq /\ t.send_base = s.send_base
    /\ DOMAIN t.unacked = DOMAIN s.unacked
    /\ \A q \in DOMAIN s.unacked : /\ t.unacked[q].data = s.unacked[q].data
                                   /\ t.unacked[q].sacked = s.unacked[q].sacked

\* They keep the invariant of the send side.
LEMMA SameSender ==
    ASSUME NEW s, NEW t, SameSegments(s, t),
           NEW f, NEW C, NEW H, NEW x, SenderInv(s, f, C, H, x)
    PROVE  SenderInv(t, f, C, H, x)
BY DEF SameSegments, SenderInv, CutInv, Covered

\* The methods that leave the segments alone.
LEMMA SameMethods ==
    ASSUME NEW s, SndType(s)
    PROVE  /\ SameSegments(s, s)
           /\ \A m : SameSegments(s, AdoptWindow(s, m))
           /\ \A k : SameSegments(s, [s EXCEPT !.dup_ack_count = k])
           /\ \A q : SameSegments(s, [s EXCEPT !.send_queue = q])
           /\ DOMAIN s.unacked # {} => SameSegments(s, FastRetransmit(s))
           /\ SameSegments(s, DataTimeout(s))
<1>1. SameSegments(s, s)
  BY DEF SameSegments
<1>2. \A m : SameSegments(s, AdoptWindow(s, m))
  BY DEF SameSegments, AdoptWindow, SndType
<1>3. \A k : SameSegments(s, [s EXCEPT !.dup_ack_count = k])
  BY DEF SameSegments, SndType
<1>4. \A q : SameSegments(s, [s EXCEPT !.send_queue = q])
  BY DEF SameSegments, SndType
<1>5. ASSUME DOMAIN s.unacked # {}
      PROVE  SameSegments(s, FastRetransmit(s))
  <2> DEFINE o == Oldest(s)
             k == CountRetransmit(s.unacked[o].retransmit_count)
             z == [s.unacked[o] EXCEPT !.retransmit_count = k]
             un == [s.unacked EXCEPT ![o] = z]
             t == FastRetransmit(s)
  <2>1. o \in DOMAIN s.unacked
    BY <1>5, OldestIn
  <2> HIDE DEF o
  <2>2. s.unacked[o] \in Segment /\ s.unacked = [q \in DOMAIN s.unacked |-> s.unacked[q]]
    BY <2>1 DEF SndType, IsMap
  <2>3. z.data = s.unacked[o].data /\ z.sacked = s.unacked[o].sacked
    BY <2>2 DEF Segment
  <2>4. t.unacked = un /\ t.next_seq = s.next_seq /\ t.send_base = s.send_base
    BY DEF FastRetransmit, SndType, o
  <2> HIDE DEF z, t
  <2>5. DOMAIN un = DOMAIN s.unacked /\ un[o] = z
        /\ \A q \in DOMAIN s.unacked \ {o} : un[q] = s.unacked[q]
    BY <2>1, <2>2
  <2> HIDE DEF un
  <2>6. SameSegments(s, t)
    BY <2>3, <2>4, <2>5 DEF SameSegments
  <2> QED
    BY <2>6 DEF t
<1>6. SameSegments(s, DataTimeout(s))
  <2> DEFINE un == [q \in DOMAIN s.unacked |->
                      IF q \in Unsacked(s)
                        THEN [s.unacked[q] EXCEPT
                                !.retransmit_count = CountRetransmit(@)]
                        ELSE s.unacked[q]]
             t == DataTimeout(s)
  <2>1. t.unacked = un /\ t.next_seq = s.next_seq /\ t.send_base = s.send_base
    BY DEF DataTimeout, SndType
  <2>2. \A q \in DOMAIN s.unacked : s.unacked[q] \in Segment
    BY UnackedFacts
  <2>3. \A q \in DOMAIN s.unacked : /\ un[q].data = s.unacked[q].data
                                    /\ un[q].sacked = s.unacked[q].sacked
    BY <2>2 DEF Segment
  <2>4. DOMAIN un = DOMAIN s.unacked
    OBVIOUS
  <2> HIDE DEF un, t
  <2>5. SameSegments(s, t)
    BY <2>1, <2>3, <2>4 DEF SameSegments
  <2> QED
    BY <2>5 DEF t
<1> QED
  BY <1>1, <1>2, <1>3, <1>4, <1>5, <1>6

\* apply_ack of a new cumulative ack: it falls between two segments, so all
\* that is left is still covered.
LEMMA AckNewSender ==
    ASSUME NEW s, SndType(s), NEW f, NEW C, NEW H, NEW x,
           SenderInv(s, f, C, H, x),
           NEW h \in H, h.ack \in Nat, h.ack > s.send_base, h.ack <= x,
           Aligned(C, h.ack)
    PROVE  SenderInv(AckNew(s, h.ack), f, C, H, x)
<1> DEFINE a == h.ack
           un == [q \in {k \in DOMAIN s.unacked : k >= a} |-> s.unacked[q]]
           t == AckNew(s, a)
<1>1. t.unacked = un /\ t.next_seq = s.next_seq /\ t.send_base = a
  BY DEF AckNew, SndType
<1>2. /\ DOMAIN un \subseteq DOMAIN s.unacked
      /\ \A q \in DOMAIN un : un[q] = s.unacked[q] /\ q >= a
      /\ \A q \in DOMAIN s.unacked : q >= a => q \in DOMAIN un
  OBVIOUS
<1>3. /\ s.send_base \in Nat /\ s.next_seq \in Nat
      /\ \A q \in DOMAIN s.unacked : /\ q \in Nat
                                     /\ Len(s.unacked[q].data) \in Nat
                                     /\ q + Len(s.unacked[q].data) \in Nat
  BY UnackedFacts
<1> HIDE DEF t, un
<1>4. Covered(s) => Covered(t)
  <2> SUFFICES ASSUME Covered(s), NEW o \in a .. s.next_seq - 1
               PROVE  \E q \in DOMAIN un : q <= o /\ o < q + Len(un[q].data)
    BY <1>1 DEF Covered
  <2>1. o \in s.send_base .. s.next_seq - 1 /\ o \in Nat
    BY <1>3
  <2>2. PICK q \in DOMAIN s.unacked : q <= o /\ o < q + Len(s.unacked[q].data)
    BY <2>1 DEF Covered
  <2> DEFINE z == q + Len(s.unacked[q].data)
  <2>3. <<q, z>> \in C
    BY DEF SenderInv
  <2> HIDE DEF z
  <2>4. a <= q \/ z <= a
    BY <2>3 DEF Aligned
  <2>5. q >= a
    <3>1. q \in Nat /\ z \in Nat /\ o < z
      BY <1>3, <2>2 DEF z
    <3> QED
      BY <2>1, <2>4, <3>1
  <2> QED
    BY <2>2, <2>5, <1>2
<1>5. DOMAIN s.unacked = {} => DOMAIN t.unacked = {}
  BY <1>1, <1>2
<1>6. CutInv(t, C)
  BY <1>1 DEF SenderInv, CutInv
<1>7. \A q \in DOMAIN t.unacked :
         /\ q >= t.send_base
         /\ <<q, q + Len(t.unacked[q].data)>> \in C
         /\ t.unacked[q].sacked => \E g \in H : InSack(g, q)
  BY <1>1, <1>2 DEF SenderInv
<1>8. Covered(t) \/ (f /\ DOMAIN t.unacked = {})
  BY <1>4, <1>5 DEF SenderInv
<1>9. SenderInv(t, f, C, H, x)
  BY <1>1, <1>6, <1>7, <1>8 DEF SenderInv
<1> QED
  BY <1>9 DEF t

\* apply_ack, the SACK ranges of a header that has arrived.
LEMMA MarkSackedSender ==
    ASSUME NEW s, SndType(s), NEW f, NEW C, NEW H, NEW x,
           SenderInv(s, f, C, H, x), NEW h \in H
    PROVE  SenderInv(MarkSacked(s, h.sack), f, C, H, x)
<1> DEFINE In(q) == \E y \in h.sack : y.start <= q /\ q <= y.end
           un == [q \in DOMAIN s.unacked |->
                    IF In(q) THEN [s.unacked[q] EXCEPT !.sacked = TRUE]
                             ELSE s.unacked[q]]
           t == MarkSacked(s, h.sack)
<1>1. t.unacked = un /\ t.next_seq = s.next_seq /\ t.send_base = s.send_base
  BY DEF MarkSacked, SndType
<1>2. \A q \in DOMAIN s.unacked : s.unacked[q] \in Segment
  BY UnackedFacts
<1>3. DOMAIN un = DOMAIN s.unacked
      /\ \A q \in DOMAIN un : /\ un[q].data = s.unacked[q].data
                              /\ In(q) \/ un[q].sacked = s.unacked[q].sacked
  BY <1>2 DEF Segment
<1>4. \A q : In(q) => InSack(h, q)
  BY DEF InSack
<1> HIDE DEF un, t, In
<1>5. Covered(s) => Covered(t)
  BY <1>1, <1>3 DEF Covered
<1>6. \A q \in DOMAIN t.unacked :
         /\ q >= t.send_base
         /\ <<q, q + Len(t.unacked[q].data)>> \in C
         /\ t.unacked[q].sacked => \E g \in H : InSack(g, q)
  BY <1>1, <1>3, <1>4 DEF SenderInv
<1>7. CutInv(t, C)
  BY <1>1 DEF SenderInv, CutInv
<1>8. SenderInv(t, f, C, H, x)
  BY <1>1, <1>3, <1>5, <1>6, <1>7 DEF SenderInv
<1> QED
  BY <1>8 DEF t

\* apply_ack
LEMMA AckSender ==
    ASSUME NEW s, SndType(s), NEW f, NEW C, NEW H, NEW x,
           SenderInv(s, f, C, H, x),
           NEW h \in H, h.ack \in Nat, h.ack <= x, Aligned(C, h.ack)
    PROVE  SenderInv(AckSnd(s, h), f, C, H, x)
<1>1. CASE h.ack > s.send_base
  <2>1. SenderInv(AckNew(s, h.ack), f, C, H, x)
    BY <1>1, AckNewSender
  <2>2. SndType(AckNew(s, h.ack))
    BY <1>1, AckNewKeeps DEF Keeps
  <2>3. SenderInv(MarkSacked(AckNew(s, h.ack), h.sack), f, C, H, x)
    BY <2>1, <2>2, MarkSackedSender
  <2> QED
    BY <1>1, <2>3 DEF AckSnd
<1>2. CASE ~(h.ack > s.send_base) /\ FastRetransmits(s, h.ack)
  <2>1. SameSegments(s, FastRetransmit(s))
    BY <1>2, SameMethods DEF FastRetransmits, IsDupAck
  <2> QED
    BY <1>2, <2>1, SameSender DEF AckSnd
<1>3. CASE /\ ~(h.ack > s.send_base) /\ ~FastRetransmits(s, h.ack)
           /\ IsDupAck(s, h.ack)
  <2> DEFINE k == s.dup_ack_count + 1
             t == [s EXCEPT !.dup_ack_count = k]
  <2>1. k \in Nat
    BY DEF SndType
  <2> HIDE DEF k
  <2>2. SndType(t) /\ SameSegments(s, t)
    BY <2>1, SameMethods DEF SndType
  <2> HIDE DEF t
  <2>3. SenderInv(MarkSacked(t, h.sack), f, C, H, x)
    BY <2>2, SameSender, MarkSackedSender
  <2> QED
    BY <1>3, <2>3 DEF AckSnd, t, k
<1>4. CASE /\ ~(h.ack > s.send_base) /\ ~FastRetransmits(s, h.ack)
           /\ ~IsDupAck(s, h.ack)
  BY <1>4, MarkSackedSender DEF AckSnd
<1> QED
  BY <1>1, <1>2, <1>3, <1>4

\* The segments that try_send_more cuts.
NewExtents(c, s) ==
    {<<q, q + Len(TrySendMore(c, s).unacked[q].data)>> : q \in Cuts(s, Admitted(c, s))}

\* They follow those before, without a gap and without overlap.
LEMMA DrainSender ==
    ASSUME NEW c, NEW s, NEW w \in Nat, SndType(s), SndInv(s, w),
           NEW C, NEW H, NEW x \in Nat, x <= s.next_seq,
           NEW f, f => c.state = "Failed", SenderInv(s, f, C, H, x)
    PROVE  /\ SenderInv(TrySendMore(c, s), f, C \cup NewExtents(c, s), H, x)
           /\ \A a \in NewExtents(c, s) : a[1] \in Nat /\ a[1] >= s.next_seq
<1> DEFINE n == Admitted(c, s)
           t == TrySendMore(c, s)
           b == s.next_seq
           N == NewExtents(c, s)
           un == [q \in (DOMAIN s.unacked) \cup Cuts(s, n) |->
                    IF q \in Cuts(s, n) THEN NewSegment(s, n, q) ELSE s.unacked[q]]
<1>1. n \in 0 .. Len(s.send_queue)
  BY AdmittedRange
<1>2. t.next_seq = b + n /\ t.unacked = un /\ t.send_base = s.send_base
  BY DEF TrySendMore, SndType
<1>3. n > 0 => c.state # "Failed"
  BY DEF Admitted
<1>4. /\ b \in Nat /\ s.send_base \in Nat
      /\ \A q \in DOMAIN s.unacked : /\ q \in Nat
                                     /\ Len(s.unacked[q].data) \in Nat
                                     /\ q + Len(s.unacked[q].data) \in Nat
  BY UnackedFacts
<1> HIDE DEF n
<1>5. n \in Nat
  BY <1>1 DEF SndType
<1> DEFINE L(q) == Len(NewSegment(s, n, q).data)
<1>6. \A q \in Cuts(s, n) :
         /\ q \in Nat /\ b <= q /\ q < b + n
         /\ L(q) \in Nat /\ L(q) > 0 /\ q + L(q) = Lesser(q + SegmentSize, b + n)
         /\ NewSegment(s, n, q).sacked = FALSE
  <2>1. \A q \in Cuts(s, n) : q \in Nat /\ b <= q /\ q < b + n
    BY <1>4, <1>5, CutFacts
  <2>2. \A q \in Cuts(s, n) :
           L(q) \in Nat \ {0} /\ q + L(q) = Lesser(q + SegmentSize, b + n)
    BY <1>1, NewSegmentEnd
  <2>3. \A q \in Cuts(s, n) : NewSegment(s, n, q).sacked = FALSE
    BY DEF NewSegment
  <2> HIDE DEF L
  <2> QED
    BY <2>1, <2>2, <2>3
<1>7. \A q \in DOMAIN un : \/ q \in Cuts(s, n) /\ un[q] = NewSegment(s, n, q)
                           \/ q \in DOMAIN s.unacked /\ un[q] = s.unacked[q]
  OBVIOUS
<1>8. \A q \in Cuts(s, n) : q \in DOMAIN un /\ un[q] = NewSegment(s, n, q)
  OBVIOUS
<1>9. N = {<<q, q + L(q)>> : q \in Cuts(s, n)}
  BY <1>2, <1>8 DEF NewExtents, n
<1> HIDE DEF N, L
<1>10. \A a \in N : \E q \in Cuts(s, n) : a = <<q, q + L(q)>>
  BY <1>9
<1>11. \A q \in Cuts(s, n) : <<q, q + L(q)>> \in N
  BY <1>9
<1>12. \A q \in Cuts(s, n) : q + L(q) <= b + n /\ q + L(q) \in Nat
                             /\ q + L(q) <= q + SegmentSize
  BY <1>4, <1>5, <1>6, ConfigAssumption DEF Lesser
<1>13. \A a \in N : /\ a[1] \in Nat /\ a[2] \in Nat /\ a[1] < a[2]
                    /\ b <= a[1] /\ a[2] <= b + n
  BY <1>4, <1>5, <1>6, <1>10, <1>12
<1>14. \A a \in C : /\ a[1] \in Nat /\ a[2] \in Nat /\ a[1] < a[2] /\ a[2] <= b
  BY DEF SenderInv, CutInv
<1>15. Apart(C \cup N)
  <2> SUFFICES ASSUME NEW a \in C \cup N, NEW d \in C \cup N
               PROVE  a = d \/ a[2] <= d[1] \/ d[2] <= a[1]
    BY DEF Apart
  <2>1. CASE a \in C /\ d \in C
    BY <2>1 DEF SenderInv, CutInv, Apart
  <2>2. CASE a \in C /\ d \in N
    BY <2>2, <1>4, <1>13, <1>14
  <2>3. CASE a \in N /\ d \in C
    BY <2>3, <1>4, <1>13, <1>14
  <2>4. CASE a \in N /\ d \in N
    <3>1. PICK p \in Cuts(s, n) : a = <<p, p + L(p)>>
      BY <2>4, <1>10
    <3>2. PICK q \in Cuts(s, n) : d = <<q, q + L(q)>>
      BY <2>4, <1>10
    <3>3. /\ p < q => p + SegmentSize <= q
          /\ q < p => q + SegmentSize <= p
      BY <1>4, <1>5, CutFacts
    <3>4. /\ p \in Nat /\ q \in Nat /\ p + L(p) \in Nat /\ q + L(q) \in Nat
          /\ p + L(p) <= p + SegmentSize /\ q + L(q) <= q + SegmentSize
      BY <1>6, <1>12
    <3>5. p = q \/ p + L(p) <= q \/ q + L(q) <= p
      BY <3>3, <3>4, ConfigAssumption
    <3> QED
      BY <3>1, <3>2, <3>5
  <2> QED
    BY <2>1, <2>2, <2>3, <2>4
<1>16. CutInv(t, C \cup N)
  <2>1. \A a \in C \cup N : /\ a[1] \in Nat /\ a[2] \in Nat /\ a[1] < a[2]
                            /\ a[2] <= b + n
    BY <1>4, <1>5, <1>13, <1>14
  <2> QED
    BY <1>2, <1>15, <2>1 DEF CutInv
<1>17. \A q \in DOMAIN s.unacked : <<q, q + Len(s.unacked[q].data)>> \in C /\ q < b
  <2>1. \A q \in DOMAIN s.unacked : <<q, q + Len(s.unacked[q].data)>> \in C
    BY DEF SenderInv
  <2> SUFFICES ASSUME NEW q \in DOMAIN s.unacked
               PROVE  q < b
    BY <2>1
  <2> DEFINE z == q + Len(s.unacked[q].data)
  <2>2. <<q, z>> \in C /\ q \in Nat /\ z \in Nat
    BY <1>4, <2>1
  <2> HIDE DEF z
  <2>3. q < z /\ z <= b
    BY <2>2, <1>14
  <2> QED
    BY <2>2, <2>3, <1>4
<1>18. \A q \in DOMAIN s.unacked : q \notin Cuts(s, n) /\ q \in DOMAIN un
                                   /\ un[q] = s.unacked[q]
  <2>1. ASSUME NEW q \in DOMAIN s.unacked, q \in Cuts(s, n)
        PROVE  FALSE
    <3>1. q \in Nat /\ b <= q
      BY <2>1, <1>6
    <3>2. q < b
      BY <2>1, <1>17
    <3> QED
      BY <3>1, <3>2, <1>4
  <2> QED
    BY <2>1
<1> HIDE DEF un, t
<1>19. s.send_base <= b
  BY <1>4 DEF SenderInv
<1>20. ASSUME NEW q \in DOMAIN un
       PROVE  /\ q >= s.send_base
              /\ <<q, q + Len(un[q].data)>> \in C \cup N
              /\ un[q].sacked => \E h \in H : InSack(h, q)
  <2>1. CASE q \in Cuts(s, n)
    <3>1. un[q] = NewSegment(s, n, q) /\ Len(un[q].data) = L(q) /\ ~un[q].sacked
      BY <2>1, <1>6, <1>8 DEF L
    <3>2. q >= s.send_base
      BY <2>1, <1>4, <1>6, <1>19
    <3> QED
      BY <2>1, <3>1, <3>2, <1>11
  <2>2. CASE q \in DOMAIN s.unacked /\ un[q] = s.unacked[q]
    BY <2>2 DEF SenderInv
  <2> QED
    BY <1>7, <2>1, <2>2
<1>21. Covered(s) => Covered(t)
  <2> SUFFICES ASSUME Covered(s), NEW o \in t.send_base .. t.next_seq - 1
               PROVE  \E q \in DOMAIN t.unacked :
                         q <= o /\ o < q + Len(t.unacked[q].data)
    BY Zenon DEF Covered
  <2> SUFFICES \E q \in DOMAIN un : q <= o /\ o < q + Len(un[q].data)
    BY <1>2
  <2>0. o \in s.send_base .. b + n - 1
    <3>1. t.send_base = s.send_base /\ t.next_seq = b + n
      BY <1>2
    <3>2. o \in t.send_base .. t.next_seq - 1
      OBVIOUS
    <3> QED
      BY <3>1, <3>2, <1>4, <1>5
  <2>1. CASE o < b
    <3>1. o \in s.send_base .. b - 1
      BY <2>0, <2>1, <1>4, <1>5
    <3>2. PICK q \in DOMAIN s.unacked : q <= o /\ o < q + Len(s.unacked[q].data)
      BY <3>1 DEF Covered
    <3> QED
      BY <3>2, <1>18
  <2>2. CASE o >= b
    <3>1. o \in b .. b + n - 1
      BY <2>0, <2>2, <1>4, <1>5
    <3>2. PICK q \in Cuts(s, n) : q <= o /\ o < q + SegmentSize
      BY <3>1, <1>4, <1>5, CutFacts
    <3>3. o < Lesser(q + SegmentSize, b + n)
      BY <3>1, <3>2, <1>4, <1>5, <1>6, ConfigAssumption DEF Lesser
    <3>4. o < q + L(q)
      BY <3>3, <1>6
    <3>5. q \in DOMAIN un /\ Len(un[q].data) = L(q)
      BY <1>8 DEF L
    <3> QED
      BY <3>2, <3>4, <3>5
  <2> QED
    BY <2>0, <2>1, <2>2, <1>4, <1>5
<1>22. f => n = 0
  BY <1>3, <1>5
<1>23. n = 0 => Cuts(s, n) = {}
  BY <1>4, <1>6
<1>24. Covered(t) \/ (f /\ DOMAIN t.unacked = {})
  <2>1. Covered(s) \/ (f /\ DOMAIN s.unacked = {})
    BY DEF SenderInv
  <2>2. f /\ DOMAIN s.unacked = {} => DOMAIN un = {}
    BY <1>7, <1>22, <1>23
  <2> QED
    BY <2>1, <2>2, <1>2, <1>21
<1>25. s.send_base <= x /\ (s.send_base = 0 \/ \E h \in H : h.ack = s.send_base)
  BY DEF SenderInv
<1>26. SenderInv(t, f, C \cup N, H, x)
  BY <1>2, <1>16, <1>20, <1>24, <1>25 DEF SenderInv
<1>27. \A a \in N : a[1] \in Nat /\ a[1] >= b
  BY <1>4, <1>13
<1> QED
  BY <1>26, <1>27 DEF t, N

-----------------------------------------------------------------------------
(* Segments: the receive side *)

\* What CutInv says of the segments, whatever the sender.
Pieces(C) ==
    /\ \A a \in C : a[1] \in Nat /\ a[2] \in Nat /\ a[1] < a[2]
    /\ Apart(C)

\* The walk along a run stops where no entry starts, at the start of the
\* run or at the end of one of its entries.
LEMMA RunStops ==
    ASSUME NEW buf, NEW n \in Nat, IsBuffer(buf, n), NEW from \in Nat,
           from <= n
    PROVE  /\ RunEnd(buf, from) \notin DOMAIN buf
           /\ RunEnd(buf, from) = from
                \/ \E k \in Run(buf, from) : RunEnd(buf, from) = EndOf(buf, k)
<1> DEFINE R == Run(buf, from)
           E == {from} \cup {EndOf(buf, q) : q \in R}
<1>1. \A q \in R : /\ q \in Nat /\ EndOf(buf, q) \in Nat
                   /\ q < EndOf(buf, q) /\ EndOf(buf, q) <= n
  BY EndOfFacts DEF Run
<1>2. E \in SUBSET Nat /\ E # {} /\ \A x \in E : x <= n
  BY <1>1
<1>3. PICK p \in E : \A y \in E : y <= p
  BY <1>2, NatMax
<1>4. ASSUME p \in DOMAIN buf PROVE FALSE
  <2>1. p \in R
    BY <1>3, <1>4, RunClosed
  <2>2. EndOf(buf, p) \in E
    BY <2>1
  <2> HIDE DEF R, E
  <2>3. EndOf(buf, p) <= p
    BY <2>2, <1>3
  <2>4. p \in Nat /\ EndOf(buf, p) \in Nat /\ p < EndOf(buf, p)
    BY <2>1, <1>1
  <2> QED
    BY <2>3, <2>4
<1>5. RunEnd(buf, from) \in E /\ RunEnd(buf, from) \notin DOMAIN buf
  BY <1>3, <1>4 DEF RunEnd
<1> QED
  BY <1>5

\* The end of a segment is a boundary between segments.
LEMMA EndAligned ==
    ASSUME NEW C, Pieces(C), NEW d \in C
    PROVE  Aligned(C, d[2])
<1> SUFFICES ASSUME NEW a \in C
             PROVE  d[2] <= a[1] \/ a[2] <= d[2]
  BY DEF Aligned
<1>1. /\ a[1] \in Nat /\ a[2] \in Nat /\ a[1] < a[2]
      /\ d[1] \in Nat /\ d[2] \in Nat /\ d[1] < d[2]
  BY DEF Pieces
<1>2. a = d \/ a[2] <= d[1] \/ d[2] <= a[1]
  BY DEF Pieces, Apart
<1> QED
  BY <1>1, <1>2

\* The byte at expected_seq is one that the receiver does not hold.
LEMMA NotHeld ==
    ASSUME NEW r, RcvType(r), NEW C, ReceiverInv(r, C)
    PROVE  ~Holds(r, r.expected_seq)
<1>1. r.expected_seq \in Nat /\ \A q \in DOMAIN r.recv_buffer : q \in Nat
  BY DEF RcvType, IsMap
<1>2. \A q \in DOMAIN r.recv_buffer : q > r.expected_seq
  BY DEF ReceiverInv
<1> QED
  BY <1>1, <1>2 DEF Holds

\* deliver_data: the receive side gets on, keeps what it holds, and leaves
\* nothing in the buffer that it has passed.
LEMMA DeliverReceiver ==
    ASSUME NEW r, RcvType(r), NEW got, NEW n \in Nat, RcvInv(r, got, n),
           NEW C, Pieces(C), ReceiverInv(r, C),
           NEW seq \in Nat, NEW data \in Seq(Nat),
           data # << >> => /\ IsPartWithin(data, seq, n)
                           /\ <<seq, seq + Len(data)>> \in C
    PROVE  LET d == DeliverData(r, seq, data)
           IN  /\ ReceiverInv(d, C)
               /\ d.expected_seq >= r.expected_seq
               /\ \A o \in Nat : Holds(r, o) => Holds(d, o)
<1> DEFINE old == r.expected_seq
           buf == r.recv_buffer
           stop == seq + Len(data)
           d == DeliverData(r, seq, data)
<1>1. /\ old \in Nat /\ Len(data) \in Nat /\ stop \in Nat
      /\ data # << >> => seq < stop
  BY DEF RcvType
<1>2. IsBuffer(buf, n)
  BY DEF IsBuffer, RcvInv, RcvType
<1>3. \A q \in DOMAIN buf : /\ q \in Nat /\ EndOf(buf, q) \in Nat /\ q < EndOf(buf, q)
                            /\ q > old /\ <<q, EndOf(buf, q)>> \in C
  BY <1>2, EndOfFacts DEF ReceiverInv
<1>4. CASE stop <= old \/ data = << >>
  BY <1>1, <1>4 DEF DeliverData
<1>5. CASE ~(stop <= old \/ data = << >>) /\ seq <= old
  <2> DEFINE keys == Run(buf, stop)
             to   == RunEnd(buf, stop)
  <2>1. /\ d.expected_seq = to
        /\ d.recv_buffer = [q \in DOMAIN buf \ keys |-> buf[q]]
    BY <1>5 DEF DeliverData, DeliverInOrder
  <2>2. stop <= n /\ <<seq, stop>> \in C
    BY <1>5 DEF IsPartWithin
  <2>3. seq = old
    <3>1. old <= seq \/ stop <= old
      BY <2>2 DEF ReceiverInv, Aligned
    <3> QED
      BY <3>1, <1>1, <1>5
  <2>4. /\ to \in Nat /\ stop <= to
        /\ \A o \in stop .. to - 1 : \E k \in keys : k <= o /\ o < EndOf(buf, k)
    BY <1>1, <1>2, <2>2, RunCovers
  <2>5. to \notin DOMAIN buf /\ (to = stop \/ \E k \in keys : to = EndOf(buf, k))
    BY <1>1, <1>2, <2>2, RunStops
  <2>6. keys \subseteq DOMAIN buf
    BY DEF Run
  <2>7. \A q \in keys : q # stop => \E p \in keys : EndOf(buf, p) = q
    BY RunSupported
  <2> HIDE DEF keys, to, d, buf, old, stop
  <2>8. Aligned(C, to)
    <3>1. CASE to = stop
      BY <3>1, <2>2, EndAligned
    <3>2. CASE to # stop
      <4>1. PICK k \in keys : to = EndOf(buf, k)
        BY <3>2, <2>5
      <4>2. <<k, to>> \in C
        BY <4>1, <2>6, <1>3
      <4> QED
        BY <4>2, EndAligned
    <3> QED
      BY <3>1, <3>2
  <2>9. ASSUME NEW q \in DOMAIN buf, q \notin keys
        PROVE  q > to
    <3>0. q \in Nat /\ to \in Nat /\ q # to
      BY <2>4, <2>5, <1>3
    <3> SUFFICES ASSUME q < to PROVE FALSE
      BY <3>0
    <3> DEFINE z == EndOf(buf, q)
    <3>1. q \in Nat /\ z \in Nat /\ q < z /\ q > old /\ <<q, z>> \in C
      BY <1>3
    <3>2. CASE q < stop
      <4>1. <<q, z>> = <<seq, stop>> \/ z <= seq \/ stop <= q
        BY <2>2, <3>1 DEF Pieces, Apart
      <4> QED
        BY <4>1, <3>1, <3>2, <2>3, <1>1
    <3>3. CASE q >= stop
      <4>1. q \in stop .. to - 1
        BY <3>1, <3>3, <2>4, <1>1
      <4>2. PICK k \in keys : k <= q /\ q < EndOf(buf, k)
        BY <4>1, <2>4
      <4> DEFINE y == EndOf(buf, k)
      <4>3. k \in Nat /\ y \in Nat /\ <<k, y>> \in C /\ q < y
        BY <4>2, <2>6, <1>3
      <4> HIDE DEF y, z
      <4>4. <<k, y>> = <<q, z>> \/ y <= q \/ z <= k
        BY <3>1, <4>3 DEF Pieces, Apart
      <4>5. k # q
        BY <2>9
      <4> QED
        BY <3>1, <4>2, <4>3, <4>4, <4>5
    <3> QED
      BY <3>1, <3>2, <3>3, <1>1
  <2>10. \A k \in keys : EndOf(buf, k) <= to
    <3> DEFINE T == {k \in keys : k > to}
    <3>1. \A k \in keys : k \in Nat /\ EndOf(buf, k) \in Nat /\ k < EndOf(buf, k)
                          /\ k # to /\ (to <= k \/ EndOf(buf, k) <= to)
      <4> SUFFICES ASSUME NEW k \in keys
                   PROVE  /\ k \in Nat /\ EndOf(buf, k) \in Nat
                          /\ k < EndOf(buf, k) /\ k # to
                          /\ to <= k \/ EndOf(buf, k) <= to
        OBVIOUS
      <4> DEFINE y == EndOf(buf, k)
      <4>1. k \in Nat /\ y \in Nat /\ k < y /\ <<k, y>> \in C /\ k # to
        BY <1>3, <2>5, <2>6
      <4> HIDE DEF y
      <4>2. to <= k \/ y <= to
        BY <4>1, <2>8 DEF Aligned
      <4> QED
        BY <4>1, <4>2 DEF y
    <3>2. T = {}
      <4> SUFFICES ASSUME T # {} PROVE FALSE
        OBVIOUS
      <4>1. T \in SUBSET Nat
        BY <3>1
      <4>2. PICK k \in T : \A y \in T : k <= y
        BY <4>1, NatMin
      <4>3. k \in keys /\ k > to /\ k \in Nat
        BY <4>1, <4>2
      <4>4. k # stop
        BY <4>3, <2>4, <1>1
      <4>5. PICK p \in keys : EndOf(buf, p) = k
        BY <4>3, <4>4, <2>7
      <4>6. p \in Nat /\ p < k /\ p # to /\ (to <= p \/ k <= to)
        BY <3>1, <4>5
      <4>7. p \in T
        BY <4>3, <4>6, <2>4
      <4> QED
        BY <4>2, <4>3, <4>6, <4>7
    <3> QED
      BY <3>1, <3>2, <2>4
  <2>11. /\ DOMAIN d.recv_buffer = DOMAIN buf \ keys
         /\ \A q \in DOMAIN buf \ keys : EndOf(d.recv_buffer, q) = EndOf(buf, q)
    BY <2>1 DEF EndOf
  <2>12. ReceiverInv(d, C)
    BY <1>3, <2>1, <2>8, <2>9, <2>11 DEF ReceiverInv
  <2>13. to >= old
    BY <1>1, <1>5, <2>4
  <2>14. ASSUME NEW o \in Nat, Holds(r, o) PROVE Holds(d, o)
    <3>1. CASE o < old
      BY <3>1, <2>1, <2>4, <2>13, <1>1 DEF Holds
    <3>2. CASE \E q \in DOMAIN buf : q <= o /\ o < EndOf(buf, q)
      <4>1. PICK q \in DOMAIN buf : q <= o /\ o < EndOf(buf, q)
        BY <3>2
      <4>2. CASE q \in keys
        <5>1. EndOf(buf, q) <= to /\ EndOf(buf, q) \in Nat
          BY <4>2, <2>10, <1>3
        <5>2. o < to
          BY <5>1, <4>1, <2>4
        <5> QED
          BY <5>2, <2>1 DEF Holds
      <4>3. CASE q \notin keys
        BY <4>1, <4>3, <2>11 DEF Holds
      <4> QED
        BY <4>2, <4>3
    <3> QED
      BY <2>14, <3>1, <3>2 DEF Holds, old, buf
  <2> QED
    BY <2>1, <2>12, <2>13, <2>14 DEF d, old
<1>6. CASE ~(stop <= old \/ data = << >>) /\ ~(seq <= old)
  <2> DEFINE nb == [q \in (DOMAIN buf) \cup {seq} |-> IF q = seq THEN data ELSE buf[q]]
  <2>1. d.expected_seq = old /\ d.recv_buffer = nb
    BY <1>6 DEF DeliverData, RcvType
  <2>2. <<seq, stop>> \in C
    BY <1>6
  <2>3. /\ DOMAIN nb = DOMAIN buf \cup {seq} /\ EndOf(nb, seq) = stop
        /\ \A q \in DOMAIN buf : q # seq => EndOf(nb, q) = EndOf(buf, q)
    BY DEF EndOf
  <2> HIDE DEF nb, d, buf, old, stop
  <2>4. ReceiverInv(d, C)
    <3>1. Aligned(C, old)
      BY DEF ReceiverInv, old
    <3>2. seq > old
      BY <1>1, <1>6
    <3>3. \A q \in DOMAIN nb : q > old /\ <<q, EndOf(nb, q)>> \in C
      BY <1>3, <2>2, <2>3, <3>2
    <3> QED
      BY <2>1, <3>1, <3>3 DEF ReceiverInv
  <2>5. ASSUME NEW q \in DOMAIN buf PROVE EndOf(nb, q) = EndOf(buf, q)
    <3>1. CASE q = seq
      <4> DEFINE z == EndOf(buf, q)
      <4>1. z \in Nat /\ q < z /\ <<seq, z>> \in C /\ q \in Nat
        BY <3>1, <1>3
      <4> HIDE DEF z
      <4>2. <<seq, z>> = <<seq, stop>> \/ z <= seq \/ stop <= seq
        BY <4>1, <2>2 DEF Pieces, Apart
      <4>3. z = stop
        BY <4>1, <4>2, <3>1, <1>1, <1>6
      <4> QED
        BY <4>3, <3>1, <2>3 DEF z
    <3> QED
      BY <3>1, <2>3
  <2>6. \A o \in Nat : Holds(r, o) => Holds(d, o)
    BY <2>1, <2>3, <2>5 DEF Holds, old, buf
  <2> QED
    BY <2>1, <2>4, <2>6, <1>1 DEF d, old
<1> QED
  BY <1>4, <1>5, <1>6

-----------------------------------------------------------------------------
(* Segments: the headers *)

\* A SACK range starts beyond expected_seq and is held from end to end.
LEMMA SackHeld ==
    ASSUME NEW r, RcvType(r), NEW got, NEW n \in Nat, RcvInv(r, got, n),
           NEW C, ReceiverInv(r, C), NEW x \in CurrentSackRanges(r)
    PROVE  /\ x.start \in Nat /\ x.start > r.expected_seq /\ x.end \in Int
           /\ \A o \in x.start .. x.end : Holds(r, o)
<1> DEFINE buf == r.recv_buffer
<1>1. IsBuffer(buf, n)
  BY DEF IsBuffer, RcvInv, RcvType
<1>2. PICK q \in DOMAIN buf : x = [start |-> q, end |-> RunEnd(buf, q) - 1]
  BY DEF CurrentSackRanges
<1>3. /\ q \in Nat /\ EndOf(buf, q) \in Nat /\ q < EndOf(buf, q)
      /\ EndOf(buf, q) <= n
  BY <1>1, EndOfFacts
<1> DEFINE to == RunEnd(buf, q)
<1>4. /\ to \in q .. n
      /\ \A o \in q .. to - 1 : \E k \in Run(buf, q) : k <= o /\ o < EndOf(buf, k)
  BY <1>1, <1>3, RunCovers
<1>5. \A o \in q .. to - 1 : Holds(r, o)
  BY <1>4 DEF Holds, Run
<1> HIDE DEF to
<1>6. x.start = q /\ x.end = to - 1 /\ to \in Nat
  BY <1>2, <1>3, <1>4 DEF to
<1>7. q > r.expected_seq
  BY DEF ReceiverInv
<1> QED
  BY <1>3, <1>5, <1>6, <1>7

\* A header made now joins the earlier ones.
LEMMA AddHeader ==
    ASSUME NEW r, RcvType(r), NEW got, NEW n \in Nat, RcvInv(r, got, n),
           NEW C, ReceiverInv(r, C), NEW H, HeadersInv(r, C, H),
           \A h \in H : h.ack \in Nat, NEW f
    PROVE  HeadersInv(r, C, H \cup {Header(r, f)})
<1> DEFINE g == Header(r, f)
           K == CurrentSackRanges(r)
           v == AdvertisedWindow(r)
           old == r.expected_seq
<1>1. g.ack = old /\ g.window = v /\ g.sack = K /\ old \in Nat
  BY DEF Header, RcvType
<1>2. v <= RecvWindowCapacity
  <2>1. v \in 0 .. U32Max
    BY WindowRange
  <2>2. \A q \in DOMAIN r.recv_buffer : q + Len(r.recv_buffer[q]) <= n
    BY DEF RcvInv, IsPartWithin
  <2>3. HeldBytes(r) \in Nat
    <3>1. Cardinality(BytesOf(r.recv_buffer)) \in Nat
      BY <2>2, BytesOfFinite DEF RcvType
    <3>2. Len(r.delivered) \in Nat
      BY DEF RcvType
    <3> QED
      BY <3>1, <3>2 DEF HeldBytes
  <2> QED
    BY <2>3, ConfigAssumption DEF AdvertisedWindow, SaturatingSub
<1>3. \A x \in K : /\ x.start \in Nat /\ x.start > old /\ x.end \in Int
                   /\ \A o \in x.start .. x.end : Holds(r, o)
  BY SackHeld
<1>4. Aligned(C, old) /\ ~Holds(r, old)
  BY NotHeld DEF ReceiverInv
<1> HIDE DEF g, K, v, old
<1>5. \A h \in H : h.ack <= old
  BY DEF HeadersInv, old
<1>6. \A a \in Nat : a <= old => ~InSack(g, a)
  BY <1>1, <1>3 DEF InSack
<1>7. ASSUME NEW h \in H PROVE ~InSack(h, old)
  <2> SUFFICES ASSUME NEW x \in h.sack, x.start <= old, old <= x.end
               PROVE  FALSE
    BY DEF InSack
  <2>1. x.start \in Nat /\ x.end \in Int /\ \A o \in x.start .. x.end : Holds(r, o)
    BY DEF HeadersInv
  <2>2. old \in x.start .. x.end
    BY <2>1, <1>1
  <2> QED
    BY <2>1, <2>2, <1>4
<1>8. ASSUME NEW h \in H \cup {g}
      PROVE  /\ h.ack <= old /\ Aligned(C, h.ack) /\ h.window <= RecvWindowCapacity
             /\ \A x \in h.sack : /\ x.start \in Nat \ {0} /\ x.end \in Int
                                  /\ \A o \in x.start .. x.end : Holds(r, o)
  <2>1. CASE h \in H
    BY <2>1 DEF HeadersInv, old
  <2>2. CASE h = g
    <3>1. h.ack <= old /\ Aligned(C, h.ack) /\ h.window <= RecvWindowCapacity
      BY <2>2, <1>1, <1>2, <1>4
    <3>2. \A x \in K : x.start # 0
      BY <1>1, <1>3
    <3> QED
      BY <2>2, <1>1, <1>3, <3>1, <3>2
  <2> QED
    BY <2>1, <2>2
<1>9. \A a, h \in H \cup {g} : ~InSack(h, a.ack)
  <2>1. \A a, h \in H : ~InSack(h, a.ack)
    BY DEF HeadersInv
  <2>2. \A a \in H \cup {g} : a.ack \in Nat /\ a.ack <= old
    BY <1>1, <1>5
  <2> QED
    BY <1>1, <1>6, <1>7, <2>1, <2>2
<1>10. HeadersInv(r, C, H \cup {g})
  BY <1>8, <1>9 DEF HeadersInv, old
<1> QED
  BY <1>10 DEF g

\* Earlier headers stay good when the receive side gets on.
LEMMA HeadersKept ==
    ASSUME NEW r, NEW d, r.expected_seq \in Nat, d.expected_seq \in Nat,
           d.expected_seq >= r.expected_seq,
           \A o \in Nat : Holds(r, o) => Holds(d, o),
           NEW C, NEW H, HeadersInv(r, C, H), \A h \in H : h.ack \in Nat
    PROVE  HeadersInv(d, C, H)
<1> SUFFICES ASSUME NEW h \in H
             PROVE  /\ h.ack <= d.expected_seq /\ Aligned(C, h.ack)
                    /\ h.window <= RecvWindowCapacity
                    /\ \A x \in h.sack :
                          /\ x.start \in Nat \ {0} /\ x.end \in Int
                          /\ \A o \in x.start .. x.end : Holds(d, o)
  BY DEF HeadersInv
<1>1. /\ h.ack <= r.expected_seq /\ Aligned(C, h.ack) /\ h.ack \in Nat
      /\ h.window <= RecvWindowCapacity
  BY DEF HeadersInv
<1>2. ASSUME NEW x \in h.sack
      PROVE  /\ x.start \in Nat \ {0} /\ x.end \in Int
             /\ \A o \in x.start .. x.end : Holds(d, o)
  <2>1. /\ x.start \in Nat \ {0} /\ x.end \in Int
        /\ \A o \in x.start .. x.end : Holds(r, o)
    BY DEF HeadersInv
  <2>2. \A o \in x.start .. x.end : o \in Nat
    BY <2>1
  <2> QED
    BY <2>1, <2>2
<1> QED
  BY <1>1, <1>2

\* ... and when they are fewer.
LEMMA FewerHeaders ==
    ASSUME NEW r, NEW C, NEW H, NEW K, K \subseteq H, HeadersInv(r, C, H)
    PROVE  HeadersInv(r, C, K)
BY DEF HeadersInv

\* What a handler sends, with headers of the receive side before and after
\* the payload was delivered.
LEMMA MoreHeaders ==
    ASSUME NEW r, NEW d, RcvType(r), RcvType(d), NEW got, NEW has, NEW n \in Nat,
           RcvInv(r, got, n), RcvInv(d, has, n), d.expected_seq >= r.expected_seq,
           \A o \in Nat : Holds(r, o) => Holds(d, o),
           NEW C, ReceiverInv(r, C), ReceiverInv(d, C),
           NEW H, HeadersInv(r, C, H), \A h \in H : h.ack \in Nat,
           NEW K, \A h \in K : \E f \in BOOLEAN : h = Header(r, f) \/ h = Header(d, f)
    PROVE  HeadersInv(d, C, H \cup K)
<1> DEFINE H1 == H \cup {Header(r, TRUE)}
           H2 == H1 \cup {Header(r, FALSE)}
           H3 == H2 \cup {Header(d, TRUE)}
           H4 == H3 \cup {Header(d, FALSE)}
<1>1. r.expected_seq \in Nat /\ d.expected_seq \in Nat
  BY DEF RcvType
<1>2. \A f : Header(r, f).ack \in Nat /\ Header(d, f).ack \in Nat
  BY <1>1 DEF Header
<1>3. HeadersInv(r, C, H1) /\ \A h \in H1 : h.ack \in Nat
  BY <1>2, AddHeader
<1>4. HeadersInv(r, C, H2) /\ \A h \in H2 : h.ack \in Nat
  BY <1>2, <1>3, AddHeader
<1>5. HeadersInv(d, C, H2)
  BY <1>1, <1>4, HeadersKept
<1>6. HeadersInv(d, C, H3) /\ \A h \in H3 : h.ack \in Nat
  BY <1>2, <1>4, <1>5, AddHeader
<1>7. HeadersInv(d, C, H4)
  BY <1>6, AddHeader
<1>8. H \cup K \subseteq H4
  OBVIOUS
<1> QED
  BY <1>7, <1>8, FewerHeaders

-----------------------------------------------------------------------------
(* Segments: a step *)

\* New segments start where the old ones end, so every boundary stays one.
LEMMA MoreSegments ==
    ASSUME NEW C, NEW N, NEW n \in Nat,
           \A a \in N : a \in C \/ (a[1] \in Nat /\ a[1] >= n),
           NEW r, r.expected_seq \in Nat, r.expected_seq <= n, ReceiverInv(r, C),
           NEW H, \A h \in H : h.ack \in Nat, HeadersInv(r, C, H)
    PROVE  ReceiverInv(r, C \cup N) /\ HeadersInv(r, C \cup N, H)
<1>1. ASSUME NEW p \in Nat, p <= n, Aligned(C, p)
      PROVE  Aligned(C \cup N, p)
  <2> SUFFICES ASSUME NEW a \in C \cup N
               PROVE  p <= a[1] \/ a[2] <= p
    BY DEF Aligned
  <2>1. CASE a \in C
    BY <1>1, <2>1 DEF Aligned
  <2>2. CASE a[1] \in Nat /\ a[1] >= n
    BY <1>1, <2>2
  <2> QED
    BY <2>1, <2>2
<1>2. ReceiverInv(r, C \cup N)
  BY <1>1 DEF ReceiverInv
<1>3. \A h \in H : h.ack \in Nat /\ h.ack <= r.expected_seq /\ Aligned(C, h.ack)
  BY DEF HeadersInv
<1>4. \A h \in H : Aligned(C \cup N, h.ack)
  BY <1>1, <1>3
<1>5. HeadersInv(r, C \cup N, H)
  BY <1>4 DEF HeadersInv
<1> QED
  BY <1>2, <1>5

\* More headers on the way, and a receiver that has got on.
LEMMA SenderKept ==
    ASSUME NEW s, s.send_base \in Nat, NEW f, NEW C,
           NEW H, NEW K, H \subseteq K, NEW x \in Nat, NEW y \in Nat, x <= y,
           SenderInv(s, f, C, H, x)
    PROVE  SenderInv(s, f, C, K, y)
<1>1. s.send_base <= y
  BY DEF SenderInv
<1> QED
  BY <1>1 DEF SenderInv

\* The datagrams of e, and what they carry, after e has sent M.
LEMMA SentFacts ==
    ASSUME NEW e \in Endpoint, NEW M, net' = net \cup M, \A m \in M : m.src = e
    PROVE  /\ From(e)' = From(e) \cup M
           /\ From(Peer(e))' = From(Peer(e))
           /\ Extents(From(e) \cup M) = Extents(From(e)) \cup Extents(M)
           /\ Headers(From(e) \cup M) = Headers(From(e)) \cup Headers(M)
<1>1. Peer(e) # e
  BY PeerFacts
<1>2. From(e)' = From(e) \cup M /\ From(Peer(e))' = From(Peer(e))
  BY <1>1 DEF From
<1> QED
  BY <1>2 DEF Extents, Headers

\* What the two invariants say of the two directions at e.
LEMMA LocalSegments ==
    ASSUME IndInv, SegmentInv, NEW e \in Endpoint
    PROVE  /\ DirectionInv(snd[e], ctl[e].state = "Failed", rcv[Peer(e)],
                           Extents(From(e)), Headers(From(Peer(e))))
           /\ DirectionInv(snd[Peer(e)], ctl[Peer(e)].state = "Failed", rcv[e],
                           Extents(From(Peer(e))), Headers(From(e)))
           /\ Pieces(Extents(From(Peer(e)))) /\ Pieces(Extents(From(e)))
           /\ \A h \in Headers(From(Peer(e))) : h.ack \in Nat
           /\ \A h \in Headers(From(e)) : h.ack \in Nat
           /\ rcv[e].expected_seq \in Nat /\ rcv[Peer(e)].expected_seq \in Nat
           /\ rcv[Peer(e)].expected_seq <= snd[e].next_seq
<1>1. Peer(e) \in Endpoint /\ Peer(Peer(e)) = e
  BY PeerFacts
<1>2. /\ DirectionInv(snd[e], ctl[e].state = "Failed", rcv[Peer(e)],
                      Extents(From(e)), Headers(From(Peer(e))))
      /\ DirectionInv(snd[Peer(e)], ctl[Peer(e)].state = "Failed", rcv[e],
                      Extents(From(Peer(e))), Headers(From(e)))
  BY <1>1 DEF SegmentInv
<1>3. Pieces(Extents(From(Peer(e)))) /\ Pieces(Extents(From(e)))
  BY <1>2 DEF DirectionInv, SenderInv, CutInv, Pieces
<1>4. \A m \in net : m.header.ack \in Nat
  BY DEF IndInv, TypeOK, DatagramType
<1>5. \A d \in Endpoint : \A h \in Headers(From(d)) : h.ack \in Nat
  BY <1>4 DEF Headers, From
<1>6. \A d \in Endpoint : RcvType(rcv[d])
  BY DEF IndInv, TypeOK
<1>7. rcv[e].expected_seq \in Nat /\ rcv[Peer(e)].expected_seq \in Nat
  BY <1>1, <1>6 DEF RcvType
<1>8. rcv[Peer(e)].expected_seq <= snd[e].next_seq
  BY <1>1 DEF IndInv, StreamInv, RcvInv
<1> QED
  BY <1>1, <1>2, <1>3, <1>5, <1>7, <1>8

\* Datagrams of e with headers of the receive side q or r.
SentBy(M, e, q, r) ==
    \A m \in M :
        m.src = e /\ \E f \in BOOLEAN : m.header = Header(q, f) \/ m.header = Header(r, f)

\* Their segments are among C or start at n or beyond.
OldOrNew(M, C, n) ==
    \A a \in Extents(M) : a \in C \/ (a[1] \in Nat /\ a[1] >= n)

\* The receive side r is q or has got on from it.
GotOn(q, r) ==
    /\ r.expected_seq >= q.expected_seq
    /\ \A o \in Nat : Holds(q, o) => Holds(r, o)

\* A step of e that keeps its half of the two directions keeps both.
LEMMA SegStep ==
    ASSUME IndInv, SegmentInv, NEW e \in Endpoint, NEW c, NEW s, NEW r, NEW M,
           NEW got,
           ctl' = [ctl EXCEPT ![e] = c], snd' = [snd EXCEPT ![e] = s],
           rcv' = [rcv EXCEPT ![e] = r], net' = net \cup M,
           SentBy(M, e, rcv[e], r), OldOrNew(M, Extents(From(e)), snd[e].next_seq),
           SenderInv(s, c.state = "Failed", Extents(From(e)) \cup Extents(M),
                     Headers(From(Peer(e))), rcv[Peer(e)].expected_seq),
           RcvType(r), RcvInv(r, got, snd[Peer(e)].next_seq),
           ReceiverInv(r, Extents(From(Peer(e)))), GotOn(rcv[e], r)
    PROVE  SegmentInv'
<1> DEFINE p == Peer(e)
           Ce == Extents(From(e))
           Cp == Extents(From(p))
           He == Headers(From(e))
           Hp == Headers(From(p))
           N == Extents(M)
           K == Headers(M)
<1>1. p \in Endpoint /\ p # e /\ Peer(p) = e /\ Endpoint = {e, p}
  BY PeerFacts
<1>2. /\ ctl'[e] = c /\ snd'[e] = s /\ rcv'[e] = r
      /\ ctl'[p] = ctl[p] /\ snd'[p] = snd[p] /\ rcv'[p] = rcv[p]
  BY <1>1 DEF IndInv, TypeOK
<1>3. /\ From(e)' = From(e) \cup M /\ From(p)' = From(p)
      /\ Extents(From(e) \cup M) = Ce \cup N
      /\ Headers(From(e) \cup M) = He \cup K
  <2>1. \A m \in M : m.src = e
    BY DEF SentBy
  <2> QED
    BY <2>1, SentFacts
<1>4. /\ DirectionInv(snd[e], ctl[e].state = "Failed", rcv[p], Ce, Hp)
      /\ DirectionInv(snd[p], ctl[p].state = "Failed", rcv[e], Cp, He)
      /\ \A h \in Hp : h.ack \in Nat
      /\ \A h \in He : h.ack \in Nat
      /\ rcv[e].expected_seq \in Nat /\ rcv[p].expected_seq \in Nat
      /\ rcv[p].expected_seq <= snd[e].next_seq
  BY LocalSegments
<1>5. /\ RcvType(rcv[e]) /\ snd[p].next_seq \in Nat /\ snd[e].next_seq \in Nat
      /\ RcvInv(rcv[e], received[e], snd[p].next_seq) /\ SndType(snd[p])
  BY Local, <1>1
<1>6. r.expected_seq \in Nat /\ snd[p].send_base \in Nat
  BY <1>5 DEF RcvType, SndType
<1>7. \A h \in K : \E f \in BOOLEAN : h = Header(rcv[e], f) \/ h = Header(r, f)
  BY DEF Headers, SentBy
<1> HIDE DEF p, Ce, Cp, He, Hp, N, K
<1>8. DirectionInv(s, c.state = "Failed", rcv[p], Ce \cup N, Hp)
  <2>1. SenderInv(s, c.state = "Failed", Ce \cup N, Hp, rcv[p].expected_seq)
    BY DEF p, Ce, Hp, N
  <2>2. \A a \in N : a \in Ce \/ (a[1] \in Nat /\ a[1] >= snd[e].next_seq)
    BY DEF N, Ce, OldOrNew
  <2>3. ReceiverInv(rcv[p], Ce) /\ HeadersInv(rcv[p], Ce, Hp)
    BY <1>4 DEF DirectionInv
  <2>4. ReceiverInv(rcv[p], Ce \cup N) /\ HeadersInv(rcv[p], Ce \cup N, Hp)
    BY <1>4, <1>5, <2>2, <2>3, MoreSegments
  <2> QED
    BY <2>1, <2>4 DEF DirectionInv
<1>9. DirectionInv(snd[p], ctl[p].state = "Failed", r, Cp, He \cup K)
  <2>1. /\ SenderInv(snd[p], ctl[p].state = "Failed", Cp, He, rcv[e].expected_seq)
        /\ ReceiverInv(rcv[e], Cp) /\ HeadersInv(rcv[e], Cp, He)
    BY <1>4 DEF DirectionInv
  <2>2. SenderInv(snd[p], ctl[p].state = "Failed", Cp, He \cup K, r.expected_seq)
    <3>1. He \subseteq He \cup K
      OBVIOUS
    <3>2. rcv[e].expected_seq <= r.expected_seq
      BY <1>4, <1>6 DEF GotOn
    <3> QED
      BY <1>4, <1>6, <2>1, <3>1, <3>2, SenderKept
  <2>3. ReceiverInv(r, Cp)
    BY DEF Cp, p
  <2>4. RcvInv(r, got, snd[p].next_seq)
    BY DEF p
  <2>5. HeadersInv(r, Cp, He \cup K)
    BY <1>4, <1>5, <1>7, <2>1, <2>3, <2>4, MoreHeaders DEF GotOn
  <2> QED
    BY <2>2, <2>3, <2>5 DEF DirectionInv
<1>10. DirectionInv(snd'[e], ctl'[e].state = "Failed", rcv'[p],
                    Extents(From(e)'), Headers(From(p)'))
  BY <1>2, <1>3, <1>8 DEF Hp
<1>11. DirectionInv(snd'[p], ctl'[p].state = "Failed", rcv'[e],
                    Extents(From(p)'), Headers(From(e)'))
  BY <1>2, <1>3, <1>9 DEF Cp
<1>12. \A x \in Endpoint :
          DirectionInv(snd'[x], ctl'[x].state = "Failed", rcv'[Peer(x)],
                       Extents(From(x)'), Headers(From(Peer(x))'))
  BY <1>1, <1>10, <1>11 DEF p
<1> QED
  BY <1>12 DEF SegmentInv, Extents, Headers

\* Datagrams without data.
LEMMA ControlSent ==
    ASSUME NEW e, NEW s, NEW r
    PROVE  /\ SentBy({Syn(e, r)}, e, r, r) /\ Extents({Syn(e, r)}) = {}
           /\ SentBy({SynAck(e, r)}, e, r, r) /\ Extents({SynAck(e, r)}) = {}
           /\ SentBy({HandshakeAck(e, r)}, e, r, r) /\ Extents({HandshakeAck(e, r)}) = {}
           /\ SentBy({Fin(e, s, r)}, e, r, r) /\ Extents({Fin(e, s, r)}) = {}
           /\ \A f \in BOOLEAN : /\ SentBy({PureAck(e, s, r, f)}, e, r, r)
                                 /\ Extents({PureAck(e, s, r, f)}) = {}
           /\ SentBy({}, e, r, r) /\ Extents({}) = {}
<1> DEFINE D(flags, seq, f) == Datagram(e, flags, seq, Header(r, f), << >>)
<1>1. ASSUME NEW flags, NEW seq, NEW f \in BOOLEAN
      PROVE  SentBy({D(flags, seq, f)}, e, r, r) /\ Extents({D(flags, seq, f)}) = {}
  <2>1. /\ D(flags, seq, f).src = e /\ D(flags, seq, f).header = Header(r, f)
        /\ D(flags, seq, f).data = << >>
    BY DEF Datagram
  <2> HIDE DEF D
  <2> QED
    BY <2>1 DEF SentBy, Extents
<1>2. /\ Syn(e, r) = D({"SYN"}, 0, FALSE)
      /\ SynAck(e, r) = D({"SYN", "ACK"}, 0, FALSE)
      /\ HandshakeAck(e, r) = D({"ACK"}, 0, FALSE)
      /\ Fin(e, s, r) = D({"FIN", "ACK"}, s.send_base, FALSE)
      /\ \A f : PureAck(e, s, r, f) = D({"ACK"}, s.send_base, f)
  BY DEF Syn, SynAck, HandshakeAck, Fin, PureAck
<1>3. SentBy({}, e, r, r) /\ Extents({}) = {}
  BY DEF SentBy, Extents
<1> HIDE DEF D
<1> QED
  BY <1>1, <1>2, <1>3

\* The segments Q of s as datagrams, and where these start and end.
Frames(e, Q, s, r) == {DataFrame(e, q, s, r) : q \in Q}

Spans(Q, s) == {<<q, q + Len(s.unacked[q].data)>> : q \in Q}

\* Datagrams with data.
LEMMA DataSent ==
    ASSUME NEW e, NEW s, NEW r, NEW Q
    PROVE  /\ SentBy(Frames(e, Q, s, r), e, r, r)
           /\ Extents(Frames(e, Q, s, r)) \subseteq Spans(Q, s)
           /\ (\A q \in Q : s.unacked[q].data # << >>) =>
                Extents(Frames(e, Q, s, r)) = Spans(Q, s)
<1> DEFINE M == Frames(e, Q, s, r)
           X == Spans(Q, s)
<1>1. \A q : LET m == DataFrame(e, q, s, r)
             IN  /\ m.src = e /\ m.header = Header(r, FALSE)
                 /\ m.seq = q /\ m.data = s.unacked[q].data
  BY DEF DataFrame, Datagram
<1>2. /\ \A m \in M : \E q \in Q : m = DataFrame(e, q, s, r)
      /\ \A q \in Q : DataFrame(e, q, s, r) \in M
  BY DEF Frames
<1>3. /\ \A a \in X : \E q \in Q : a = <<q, q + Len(s.unacked[q].data)>>
      /\ \A q \in Q : <<q, q + Len(s.unacked[q].data)>> \in X
  BY DEF Spans
<1> HIDE DEF M, X
<1>4. SentBy(M, e, r, r)
  BY <1>1, <1>2 DEF SentBy
<1>5. Extents(M) \subseteq X
  <2> SUFFICES ASSUME NEW m \in M PROVE <<m.seq, m.seq + Len(m.data)>> \in X
    BY DEF Extents
  <2>1. PICK q \in Q : m = DataFrame(e, q, s, r)
    BY <1>2
  <2>2. m.seq = q /\ m.data = s.unacked[q].data
    BY <1>1, <2>1
  <2> QED
    BY <1>3, <2>2
<1>6. ASSUME \A q \in Q : s.unacked[q].data # << >>
      PROVE  X \subseteq Extents(M)
  <2> SUFFICES ASSUME NEW a \in X PROVE a \in Extents(M)
    OBVIOUS
  <2>1. PICK q \in Q : a = <<q, q + Len(s.unacked[q].data)>>
    BY <1>3
  <2>2. PICK m \in M : m.seq = q /\ m.data = s.unacked[q].data
    BY <1>1, <1>2
  <2>3. m.data # << >> /\ a = <<m.seq, m.seq + Len(m.data)>>
    BY <2>1, <2>2, <1>6
  <2> QED
    BY <2>3 DEF Extents
<1> QED
  BY <1>4, <1>5, <1>6 DEF M, X

\* What drain_and_maybe_fin returns.
LEMMA DrainSent ==
    ASSUME NEW e, NEW c, NEW s, NEW w \in Nat, SndType(s), SndInv(s, w), NEW r
    PROVE  /\ SentBy(DrainOut(e, c, s, r), e, r, r)
           /\ Extents(DrainOut(e, c, s, r)) = NewExtents(c, s)
<1> DEFINE t == TrySendMore(c, s)
           n == Admitted(c, s)
           Q == Cuts(s, n)
           M == Frames(e, Q, t, r)
           F == IF FinReady(c, t) THEN {Fin(e, t, r)} ELSE {}
<1>1. n \in 0 .. Len(s.send_queue) /\ Q \subseteq DOMAIN t.unacked
  BY AdmittedRange, TrySendMoreOK
<1>2. \A q \in Q : t.unacked[q] = NewSegment(s, n, q)
  BY DEF TrySendMore, SndType
<1>3. \A q \in Q : Len(t.unacked[q].data) # 0
  BY <1>1, <1>2, NewSegmentEnd
<1>4. \A q \in Q : t.unacked[q].data # << >>
  <2>1. Len(<< >>) = 0
    OBVIOUS
  <2> QED
    BY <1>3, <2>1
<1>5. DrainOut(e, c, s, r) = M \cup F
  BY DEF DrainOut, Frames
<1>6. NewExtents(c, s) = Spans(Q, t)
  BY DEF NewExtents, Spans
<1> HIDE DEF t, n, Q
<1>7. SentBy(M, e, r, r) /\ Extents(M) = Spans(Q, t)
  BY <1>4, DataSent
<1>8. SentBy(F, e, r, r) /\ Extents(F) = {}
  BY ControlSent
<1> HIDE DEF M, F
<1>9. SentBy(M \cup F, e, r, r) /\ Extents(M \cup F) = Extents(M) \cup Extents(F)
  BY <1>7, <1>8 DEF SentBy, Extents
<1> QED
  BY <1>5, <1>6, <1>7, <1>8, <1>9

\* A failure is no worse for the send side.
LEMMA SenderFails ==
    ASSUME NEW s, NEW f, NEW C, NEW H, NEW x, SenderInv(s, f, C, H, x)
    PROVE  SenderInv(s, TRUE, C, H, x)
BY DEF SenderInv

\* What is in flight is among the segments sent, so to send it again adds
\* nothing to them.
LEMMA InFlightSent ==
    ASSUME NEW s, NEW f, NEW C, NEW H, NEW x, SenderInv(s, f, C, H, x),
           NEW Q \in SUBSET DOMAIN s.unacked, NEW e, NEW r
    PROVE  /\ SentBy(Frames(e, Q, s, r), e, r, r)
           /\ Extents(Frames(e, Q, s, r)) \subseteq C
<1>1. Spans(Q, s) \subseteq C
  BY DEF SenderInv, Spans
<1> QED
  BY <1>1, DataSent

\* The handlers that leave the receive side alone and send nothing new.
LEMMA QuietSeg ==
    ASSUME IndInv, SegmentInv, NEW e \in Endpoint, NEW c, NEW s, NEW M,
           ctl' = [ctl EXCEPT ![e] = c], snd' = [snd EXCEPT ![e] = s],
           rcv' = rcv, net' = net \cup M,
           SentBy(M, e, rcv[e], rcv[e]), Extents(M) \subseteq Extents(From(e)),
           SenderInv(s, c.state = "Failed", Extents(From(e)),
                     Headers(From(Peer(e))), rcv[Peer(e)].expected_seq)
    PROVE  SegmentInv'
<1> DEFINE r == rcv[e]
           Ce == Extents(From(e))
<1>1. /\ rcv' = [rcv EXCEPT ![e] = r] /\ RcvType(r)
      /\ RcvInv(r, received[e], snd[Peer(e)].next_seq)
  BY Local
<1>2. ReceiverInv(r, Extents(From(Peer(e)))) /\ r.expected_seq \in Nat
  BY LocalSegments DEF DirectionInv
<1>3. Ce \cup Extents(M) = Ce /\ \A a \in Extents(M) : a \in Ce
  OBVIOUS
<1>4. GotOn(r, r)
  BY <1>2 DEF GotOn
<1>5. SentBy(M, e, rcv[e], r) /\ OldOrNew(M, Ce, snd[e].next_seq)
  BY <1>3 DEF OldOrNew
<1>6. SenderInv(s, c.state = "Failed", Ce \cup Extents(M),
                Headers(From(Peer(e))), rcv[Peer(e)].expected_seq)
  BY <1>3
<1> HIDE DEF r, Ce
<1> QED
  BY <1>1, <1>2, <1>3, <1>4, <1>5, <1>6, SegStep DEF r, Ce

\* The handlers that end in drain_and_maybe_fin.
LEMMA DrainSeg ==
    ASSUME IndInv, SegmentInv, IndInv', NEW e \in Endpoint,
           NEW c \in CtlType, NEW s, NEW w \in Nat, SndType(s), SndInv(s, w),
           s.next_seq = snd[e].next_seq,
           NEW f, f <=> c.state = "Failed",
           SenderInv(s, f, Extents(From(e)),
                     Headers(From(Peer(e))), rcv[Peer(e)].expected_seq),
           NEW r, ReceiverInv(r, Extents(From(Peer(e)))),
           GotOn(rcv[e], r),
           NEW A, Extents(A) \subseteq Extents(From(e)), SentBy(A, e, rcv[e], r),
           ctl' = [ctl EXCEPT ![e] = DrainCtl(c, s)],
           snd' = [snd EXCEPT ![e] = DrainSnd(c, s)],
           rcv' = [rcv EXCEPT ![e] = r],
           net' = net \cup (A \cup DrainOut(e, c, s, r))
    PROVE  SegmentInv'
<1> DEFINE p == Peer(e)
           x == rcv[p].expected_seq
           C == Extents(From(e))
           H == Headers(From(p))
           D == DrainOut(e, c, s, r)
           d == DrainCtl(c, s)
           t == TrySendMore(c, s)
           M == A \cup D
<1>1. SentBy(D, e, r, r) /\ Extents(D) = NewExtents(c, s)
  BY DrainSent
<1>2. x \in Nat /\ x <= s.next_seq /\ p \in Endpoint /\ p # e
  BY LocalSegments, PeerFacts
<1>3. /\ SenderInv(t, f, C \cup NewExtents(c, s), H, x)
      /\ \A a \in NewExtents(c, s) : a[1] \in Nat /\ a[1] >= s.next_seq
  BY <1>2, DrainSender
<1>4. d.state = "Failed" <=> c.state = "Failed"
  BY DEF DrainCtl, MaybeSendFin, FinReady, CheckFullyClosed, CtlType
<1>5. /\ RcvType(r) /\ RcvInv(r, received'[e], snd[p].next_seq)
  <2>1. rcv'[e] = r /\ snd'[p] = snd[p]
    BY <1>2 DEF IndInv, TypeOK
  <2>2. RcvType(rcv'[e]) /\ RcvInv(rcv'[e], received'[e], snd'[p].next_seq)
    BY DEF IndInv, TypeOK, StreamInv
  <2> QED
    BY <2>1, <2>2
<1> HIDE DEF D, d, t
<1>6. Extents(M) = Extents(A) \cup Extents(D)
  BY DEF Extents
<1>7. C \cup Extents(M) = C \cup NewExtents(c, s)
  BY <1>1, <1>6
<1>8. OldOrNew(M, C, snd[e].next_seq)
  BY <1>1, <1>3, <1>6 DEF OldOrNew
<1>9. SentBy(M, e, rcv[e], r)
  BY <1>1 DEF SentBy
<1>10. SenderInv(t, d.state = "Failed", C \cup Extents(M), H, x)
  <2>1. f => d.state = "Failed"
    BY <1>4
  <2>2. SenderInv(t, f, C \cup Extents(M), H, x)
    BY <1>3, <1>7
  <2> QED
    BY <2>1, <2>2 DEF SenderInv
<1>11. /\ ctl' = [ctl EXCEPT ![e] = d] /\ snd' = [snd EXCEPT ![e] = t]
       /\ net' = net \cup M
  BY DEF d, t, D, DrainSnd
<1> HIDE DEF M
<1> QED
  BY ZenonT(30), <1>5, <1>8, <1>9, <1>10, <1>11, SegStep DEF p, x, C, H

\* The direction of which e is the sender, in the terms of the lemmas.
SendsOK(e, s, f) ==
    SenderInv(s, f, Extents(From(e)), Headers(From(Peer(e))),
              rcv[Peer(e)].expected_seq)

\* A handler that leaves the receive side alone and ends in
\* drain_and_maybe_fin.
LEMMA DrainOnlySeg ==
    ASSUME IndInv, SegmentInv, IndInv', NEW e \in Endpoint,
           NEW c \in CtlType, NEW s, NEW w \in Nat, SndType(s), SndInv(s, w),
           s.next_seq = snd[e].next_seq, SendsOK(e, s, c.state = "Failed"),
           NEW A, Extents(A) \subseteq Extents(From(e)),
           SentBy(A, e, rcv[e], rcv[e]),
           ctl' = [ctl EXCEPT ![e] = DrainCtl(c, s)],
           snd' = [snd EXCEPT ![e] = DrainSnd(c, s)],
           rcv' = rcv,
           net' = net \cup (A \cup DrainOut(e, c, s, rcv[e]))
    PROVE  SegmentInv'
<1>1. rcv' = [rcv EXCEPT ![e] = rcv[e]]
  BY Local
<1>2. /\ ReceiverInv(rcv[e], Extents(From(Peer(e))))
      /\ rcv[e].expected_seq \in Nat
  BY LocalSegments DEF DirectionInv
<1>3. GotOn(rcv[e], rcv[e])
  BY <1>2 DEF GotOn
<1> DEFINE f == c.state = "Failed"
<1>4. SenderInv(s, f, Extents(From(e)),
                Headers(From(Peer(e))), rcv[Peer(e)].expected_seq)
  BY DEF SendsOK
<1>5. f <=> c.state = "Failed"
  OBVIOUS
<1> HIDE DEF f
<1> QED
  BY <1>1, <1>2, <1>3, <1>4, <1>5, DrainSeg

\* What holds at e before the step.
LEMMA LocalSends ==
    ASSUME IndInv, SegmentInv, NEW e \in Endpoint
    PROVE  SendsOK(e, snd[e], ctl[e].state = "Failed")
BY LocalSegments DEF SendsOK, DirectionInv

\* ... and after a method that leaves the segments alone.
LEMMA SameSends ==
    ASSUME NEW e, NEW s, NEW t, NEW f, SendsOK(e, s, f), SameSegments(s, t)
    PROVE  SendsOK(e, t, f)
BY SameSender DEF SendsOK

\* send()
LEMMA SendSeg ==
    ASSUME IndInv, SegmentInv, IndInv', NEW e \in Endpoint, NEW n \in Nat, Send(e, n)
    PROVE  SegmentInv'
<1> DEFINE s == [snd[e] EXCEPT !.send_queue = @ \o Bytes(written[e], n)]
           D == DrainOut(e, ctl[e], s, rcv[e])
<1>1. /\ ctl' = [ctl EXCEPT ![e] = DrainCtl(ctl[e], s)]
      /\ snd' = [snd EXCEPT ![e] = DrainSnd(ctl[e], s)]
      /\ net' = net \cup D /\ rcv' = rcv
  BY DEF Send
<1>2. /\ SndType(s) /\ SndInv(s, written[e] + n) /\ s.next_seq = snd[e].next_seq
      /\ SndType(snd[e]) /\ written[e] + n \in Nat /\ ctl[e] \in CtlType
  <2>1. SndType(s) /\ SndInv(s, written[e] + n) /\ s.next_seq = snd[e].next_seq
    BY SendQueue
  <2>2. SndType(snd[e]) /\ written[e] \in Nat /\ ctl[e] \in CtlType
    BY Local
  <2> HIDE DEF s
  <2> QED
    BY <2>1, <2>2
<1>3. SendsOK(e, s, ctl[e].state = "Failed")
  <2>1. SameSegments(snd[e], s)
    BY <1>2, SameMethods
  <2> QED
    BY <2>1, LocalSends, SameSends
<1>4. SentBy({}, e, rcv[e], rcv[e]) /\ Extents({}) \subseteq Extents(From(e))
  BY ControlSent
<1>5. net' = net \cup ({} \cup D)
  BY <1>1
<1> HIDE DEF s
<1> QED
  BY <1>1, <1>2, <1>3, <1>4, <1>5, DrainOnlySeg

\* close()
LEMMA CloseSeg ==
    ASSUME IndInv, SegmentInv, IndInv', NEW e \in Endpoint, Close(e)
    PROVE  SegmentInv'
<1> DEFINE c == [ctl[e] EXCEPT !.close_requested = TRUE]
           D == DrainOut(e, c, snd[e], rcv[e])
<1>1. /\ ctl' = [ctl EXCEPT ![e] = DrainCtl(c, snd[e])]
      /\ snd' = [snd EXCEPT ![e] = DrainSnd(c, snd[e])]
      /\ net' = net \cup D /\ rcv' = rcv
  BY DEF Close
<1>2. /\ SndType(snd[e]) /\ SndInv(snd[e], written[e]) /\ written[e] \in Nat
      /\ ctl[e] \in CtlType
  BY Local
<1>3. c \in CtlType /\ c.state = ctl[e].state
  BY <1>2 DEF CtlType
<1> HIDE DEF c
<1>4. SendsOK(e, snd[e], c.state = "Failed")
  BY <1>3, LocalSends
<1>5. SentBy({}, e, rcv[e], rcv[e]) /\ Extents({}) \subseteq Extents(From(e))
  BY ControlSent
<1>6. net' = net \cup ({} \cup D)
  BY <1>1
<1> QED
  BY <1>1, <1>2, <1>3, <1>4, <1>5, <1>6, DrainOnlySeg

\* recv()
LEMMA RecvSeg ==
    ASSUME IndInv, SegmentInv, IndInv', NEW e \in Endpoint, Recv(e)
    PROVE  SegmentInv'
<1> DEFINE r == [rcv[e] EXCEPT !.delivered = << >>]
<1>1. /\ ctl' = [ctl EXCEPT ![e] = ctl[e]] /\ snd' = [snd EXCEPT ![e] = snd[e]]
      /\ rcv' = [rcv EXCEPT ![e] = r] /\ net' = net \cup {}
  BY Local DEF Recv, IndInv, TypeOK
<1>2. RcvType(rcv[e]) /\ Peer(e) \in Endpoint /\ Peer(e) # e
  BY Local, PeerFacts
<1>3. r.expected_seq = rcv[e].expected_seq /\ r.recv_buffer = rcv[e].recv_buffer
  BY <1>2 DEF RcvType
<1> HIDE DEF r
<1>4. RcvType(r) /\ RcvInv(r, received'[e], snd[Peer(e)].next_seq)
  <2>1. rcv'[e] = r /\ snd'[Peer(e)] = snd[Peer(e)]
    BY <1>1, <1>2 DEF IndInv, TypeOK
  <2>2. RcvType(rcv'[e]) /\ RcvInv(rcv'[e], received'[e], snd'[Peer(e)].next_seq)
    BY DEF IndInv, TypeOK, StreamInv
  <2> QED
    BY <2>1, <2>2
<1>5. /\ ReceiverInv(rcv[e], Extents(From(Peer(e))))
      /\ rcv[e].expected_seq \in Nat
  BY LocalSegments DEF DirectionInv
<1>6. ReceiverInv(r, Extents(From(Peer(e)))) /\ GotOn(rcv[e], r)
  BY <1>3, <1>5 DEF ReceiverInv, GotOn, Holds
<1>7. SentBy({}, e, rcv[e], r) /\ Extents({}) = {}
  BY DEF SentBy, Extents
<1>8. OldOrNew({}, Extents(From(e)), snd[e].next_seq)
  BY <1>7 DEF OldOrNew
<1>9. SenderInv(snd[e], ctl[e].state = "Failed", Extents(From(e)) \cup Extents({}),
                Headers(From(Peer(e))), rcv[Peer(e)].expected_seq)
  <2>1. Extents(From(e)) \cup Extents({}) = Extents(From(e))
    BY <1>7
  <2> QED
    BY <2>1, LocalSends DEF SendsOK
<1> QED
  BY <1>1, <1>4, <1>6, <1>7, <1>8, <1>9, SegStep

\* on_datagram when nothing but the window is adopted
LEMMA AdoptSeg ==
    ASSUME IndInv, SegmentInv, NEW e \in Endpoint, NEW m,
           ReAckFin(e, m) \/ OnSyn(e, m) \/ Ignore(e, m)
    PROVE  SegmentInv'
<1> DEFINE s == AdoptWindow(snd[e], m)
           r == rcv[e]
<1>1. snd' = [snd EXCEPT ![e] = s] /\ rcv' = rcv /\ SndType(snd[e])
  BY Local DEF ReAckFin, OnSyn, Ignore
<1>2. PICK M : /\ net' = net \cup M /\ SentBy(M, e, r, r)
               /\ Extents(M) \subseteq Extents(From(e))
  <2>1. CASE ReAckFin(e, m)
    BY <2>1, ControlSent DEF ReAckFin
  <2>2. CASE OnSyn(e, m)
    BY <2>2, ControlSent DEF OnSyn
  <2>3. CASE Ignore(e, m)
    <3>1. net' = net \cup {}
      BY <2>3 DEF Ignore
    <3> QED
      BY <3>1, ControlSent
  <2> QED
    BY <2>1, <2>2, <2>3
<1>3. PICK c : /\ ctl' = [ctl EXCEPT ![e] = c]
               /\ c.state = "Failed" <=> ctl[e].state = "Failed"
  <2> DEFINE c == [ctl[e] EXCEPT !.state = "SynReceived", !.handshake = 1]
  <2>1. ctl[e] \in CtlType /\ ctl = [ctl EXCEPT ![e] = ctl[e]] /\ ctl \in [Endpoint -> CtlType]
    BY Local DEF IndInv, TypeOK
  <2>2. CASE ctl' = ctl
    BY <2>1, <2>2
  <2>3. CASE /\ ctl[e].state = "Listening"
             /\ ctl' = [ctl EXCEPT ![e].state = "SynReceived", ![e].handshake = 1]
    <3>1. ctl' = [ctl EXCEPT ![e] = c]
      BY <2>1, <2>3
    <3>2. c.state = "SynReceived"
      BY <2>1 DEF CtlType
    <3> HIDE DEF c
    <3> QED
      BY <2>3, <3>1, <3>2
  <2> QED
    BY <2>2, <2>3 DEF ReAckFin, OnSyn, Ignore
<1>4. SameSegments(snd[e], s)
  BY <1>1, SameMethods
<1> HIDE DEF s
<1>5. SendsOK(e, s, c.state = "Failed")
  <2>1. SendsOK(e, s, ctl[e].state = "Failed")
    BY <1>4, LocalSends, SameSends
  <2> QED
    BY <1>3, <2>1 DEF SendsOK, SenderInv
<1> QED
  BY <1>1, <1>2, <1>3, <1>5, QuietSeg DEF SendsOK

\* on_datagram, the shared block
LEMMA ProcessSeg ==
    ASSUME IndInv, SegmentInv, IndInv', NEW e \in Endpoint, NEW m, Process(e, m)
    PROVE  SegmentInv'
<1> DEFINE c0  == CompleteHandshake(ctl[e], m)
           s0  == AdoptWindow(snd[e], m)
           ack == "ACK" \in m.flags
           fin == "FIN" \in m.flags
           c1  == IF ack THEN AckCtl(c0, s0, m.header) ELSE c0
           s1  == IF ack THEN AckSnd(s0, m.header) ELSE s0
           r   == rcv[e]
           r1  == DeliverData(r, m.seq, m.data)
           c2  == [c1 EXCEPT !.peer_fin_seen = @ \/ fin]
           p   == Peer(e)
           n   == snd[p].next_seq
           C   == Extents(From(e))
           M1  == IF {"SYN", "ACK"} \subseteq m.flags
                    THEN {HandshakeAck(e, r)} ELSE {}
           M2  == IF ack THEN AckOut(e, s0, r, m.header) ELSE {}
           M3  == IF m.data # << >> \/ fin THEN {PureAck(e, s1, r1, fin)} ELSE {}
           A   == M1 \cup M2 \cup M3
<1>1. /\ Arrives(e, m) /\ c0.state \in {"Established", "Closing"}
      /\ ctl' = [ctl EXCEPT ![e] = DrainCtl(c2, s1)]
      /\ snd' = [snd EXCEPT ![e] = DrainSnd(c2, s1)]
      /\ rcv' = [rcv EXCEPT ![e] = r1]
      /\ net' = net \cup (A \cup DrainOut(e, c2, s1, r1))
  BY DEF Process
<1>2. /\ m.header.window \in 0 .. U32Max /\ m.header.ack \in Nat
      /\ m.seq \in Nat /\ m.data \in Seq(Nat)
      /\ m.data # << >> => IsPartWithin(m.data, m.seq, n)
      /\ m \in From(p)
  BY <1>1, ArrivesFacts DEF Arrives, From
<1>3. /\ ctl[e] \in CtlType /\ SndType(snd[e]) /\ SndInv(snd[e], written[e])
      /\ RcvType(r) /\ RcvInv(r, received[e], n) /\ n \in Nat /\ written[e] \in Nat
  BY Local
<1>4. c2 \in CtlType /\ c2.state # "Failed" /\ ctl[e].state # "Failed"
  <2>1. c0 \in CtlType
    BY <1>3, CtlOps
  <2>2. ctl[e].state # "Failed"
    BY <1>1 DEF CompleteHandshake
  <2>3. c1 \in CtlType
    BY <2>1, AckCtlType
  <2>4. c1.state # "Failed"
    <3> HIDE DEF c0
    <3> QED
      BY <1>1, <2>1 DEF AckCtl, CheckFullyClosed, CtlType
  <2> HIDE DEF c1, fin
  <2>5. fin \in BOOLEAN
    BY DEF fin
  <2> QED
    BY <2>2, <2>3, <2>4, <2>5 DEF CtlType
<1> HIDE DEF c2
<1>5. SendsOK(e, s0, FALSE) /\ SndType(s0) /\ Keeps(snd[e], s0)
  <2>1. SendsOK(e, snd[e], FALSE)
    BY <1>4, LocalSends DEF SendsOK, SenderInv
  <2>2. SameSegments(snd[e], s0)
    BY <1>3, SameMethods
  <2>3. Keeps(snd[e], s0)
    BY <1>2, <1>3, AdoptWindowKeeps
  <2> HIDE DEF s0
  <2>4. SendsOK(e, s0, FALSE)
    BY <2>1, <2>2, SameSends
  <2> QED
    BY <2>3, <2>4 DEF Keeps
<1> HIDE DEF s0
<1>6. SendsOK(e, s1, FALSE)
  <2>1. m.header \in Headers(From(p))
    BY <1>2 DEF Headers
  <2>2. m.header.ack <= rcv[p].expected_seq /\ Aligned(C, m.header.ack)
    BY <2>1, LocalSegments DEF DirectionInv, HeadersInv
  <2>3. SendsOK(e, AckSnd(s0, m.header), FALSE)
    BY <1>2, <1>5, <2>1, <2>2, AckSender DEF SendsOK
  <2> QED
    BY <1>5, <2>3
<1>7. SndType(s1) /\ SndInv(s1, written[e]) /\ s1.next_seq = snd[e].next_seq
  <2>1. Keeps(s0, s1)
    BY <1>2, <1>5, AckSndKeeps, KeepsSelf
  <2>2. Keeps(snd[e], s1)
    BY <1>5, <2>1, KeepsTrans
  <2> QED
    BY <1>3, <2>2, KeepsInv DEF Keeps
<1> HIDE DEF s1
<1>8. ReceiverInv(r1, Extents(From(p))) /\ GotOn(r, r1)
  <2>1. Pieces(Extents(From(p))) /\ ReceiverInv(r, Extents(From(p)))
    BY LocalSegments DEF DirectionInv
  <2>2. m.data # << >> => <<m.seq, m.seq + Len(m.data)>> \in Extents(From(p))
    BY <1>2 DEF Extents
  <2> QED
    BY <1>2, <1>3, <2>1, <2>2, DeliverReceiver DEF GotOn
<1> HIDE DEF r1
<1>9. SentBy({}, e, r, r1) /\ Extents({}) = {}
  BY DEF SentBy, Extents
<1>10. SentBy(M1, e, r, r1) /\ Extents(M1) \subseteq C
  <2>1. SentBy({HandshakeAck(e, r)}, e, r, r) /\ Extents({HandshakeAck(e, r)}) = {}
    BY ControlSent
  <2>2. SentBy({HandshakeAck(e, r)}, e, r, r1)
    BY <2>1 DEF SentBy
  <2> QED
    BY <1>9, <2>1, <2>2
<1>11. SentBy(M2, e, r, r1) /\ Extents(M2) \subseteq C
  <2>1. CASE ack /\ FastRetransmits(s0, m.header.ack)
    <3> DEFINE Q == {Oldest(s0)}
    <3>1. Q \in SUBSET DOMAIN s0.unacked
      BY <1>5, <2>1, OldestIn DEF FastRetransmits, IsDupAck
    <3>2. M2 = Frames(e, Q, s0, r)
      BY <2>1 DEF AckOut, Frames
    <3> HIDE DEF Q
    <3>3. /\ SentBy(Frames(e, Q, s0, r), e, r, r)
          /\ Extents(Frames(e, Q, s0, r)) \subseteq C
      BY <1>5, <3>1, InFlightSent DEF SendsOK
    <3>4. SentBy(Frames(e, Q, s0, r), e, r, r1)
      BY <3>3 DEF SentBy
    <3> QED
      BY <3>2, <3>3, <3>4
  <2>2. CASE ~(ack /\ FastRetransmits(s0, m.header.ack))
    BY <2>2, <1>9 DEF AckOut
  <2> QED
    BY <2>1, <2>2
<1>12. SentBy(M3, e, r, r1) /\ Extents(M3) \subseteq C
  <2>1. fin \in BOOLEAN
    OBVIOUS
  <2> HIDE DEF fin
  <2>2. SentBy({PureAck(e, s1, r1, fin)}, e, r1, r1)
        /\ Extents({PureAck(e, s1, r1, fin)}) = {}
    BY <2>1, ControlSent
  <2> QED
    BY <1>9, <2>2 DEF SentBy
<1> HIDE DEF M1, M2, M3
<1>13. SentBy(A, e, r, r1) /\ Extents(A) \subseteq C
  <2>1. Extents(A) = Extents(M1) \cup Extents(M2) \cup Extents(M3)
    BY DEF Extents
  <2>2. SentBy(A, e, r, r1)
    BY <1>10, <1>11, <1>12 DEF SentBy
  <2> QED
    BY <1>10, <1>11, <1>12, <2>1, <2>2
<1> HIDE DEF A
<1>14. FALSE <=> c2.state = "Failed"
  BY <1>4
<1> QED
  BY <1>1, <1>3, <1>4, <1>6, <1>7, <1>8, <1>13, <1>14, DrainSeg DEF SendsOK

\* on_tick, the handshake timer
LEMMA HandshakeSeg ==
    ASSUME IndInv, SegmentInv, NEW e \in Endpoint, HandshakeTimeout(e)
    PROVE  SegmentInv'
<1> DEFINE failed == [ctl[e] EXCEPT !.state = "Failed", !.handshake = 0]
           again  == [ctl[e] EXCEPT !.handshake = ctl[e].handshake + 1]
<1>1. /\ snd' = [snd EXCEPT ![e] = snd[e]] /\ rcv' = rcv /\ ctl[e] \in CtlType
      /\ ctl \in [Endpoint -> CtlType]
  BY Local DEF HandshakeTimeout, IndInv, TypeOK
<1>2. SendsOK(e, snd[e], ctl[e].state = "Failed") /\ SendsOK(e, snd[e], TRUE)
  BY LocalSends, SenderFails DEF SendsOK
<1>3. CASE /\ ctl' = [ctl EXCEPT ![e].state = "Failed", ![e].handshake = 0]
           /\ net' = net
  <2>1. ctl' = [ctl EXCEPT ![e] = failed] /\ net' = net \cup {}
    BY <1>1, <1>3
  <2>2. failed.state = "Failed"
    BY <1>1 DEF CtlType
  <2> HIDE DEF failed
  <2>3. SenderInv(snd[e], failed.state = "Failed", Extents(From(e)),
                  Headers(From(Peer(e))), rcv[Peer(e)].expected_seq)
    BY <1>2, <2>2 DEF SendsOK, SenderInv
  <2>4. SentBy({}, e, rcv[e], rcv[e]) /\ Extents({}) \subseteq Extents(From(e))
    BY ControlSent
  <2> QED
    BY <1>1, <2>1, <2>3, <2>4, QuietSeg
<1>4. CASE /\ ctl' = [ctl EXCEPT ![e].handshake = ctl[e].handshake + 1]
           /\ net' = net \cup {IF ctl[e].state = "SynSent"
                                 THEN Syn(e, rcv[e]) ELSE SynAck(e, rcv[e])}
  <2> DEFINE M == {IF ctl[e].state = "SynSent"
                     THEN Syn(e, rcv[e]) ELSE SynAck(e, rcv[e])}
  <2>1. ctl' = [ctl EXCEPT ![e] = again] /\ net' = net \cup M
    BY <1>1, <1>4
  <2>2. again.state = ctl[e].state
    BY <1>1 DEF CtlType
  <2> HIDE DEF again
  <2>3. SenderInv(snd[e], again.state = "Failed", Extents(From(e)),
                  Headers(From(Peer(e))), rcv[Peer(e)].expected_seq)
    BY <1>2, <2>2 DEF SendsOK
  <2>4. SentBy(M, e, rcv[e], rcv[e]) /\ Extents(M) \subseteq Extents(From(e))
    BY ControlSent
  <2> HIDE DEF M
  <2> QED
    BY <1>1, <2>1, <2>3, <2>4, QuietSeg
<1> QED
  BY <1>3, <1>4 DEF HandshakeTimeout

\* on_tick, the data timer for the last time: nothing is in flight any more.
LEMMA GiveUpSeg ==
    ASSUME IndInv, SegmentInv, NEW e \in Endpoint, GiveUpData(e)
    PROVE  SegmentInv'
<1> DEFINE c == [ctl[e] EXCEPT !.state = "Failed"]
           t == DataTimeout(snd[e])
           s == [t EXCEPT !.unacked = << >>]
           M == Frames(e, Unsacked(snd[e]), snd[e], rcv[e])
<1>1. /\ ctl[e] \in CtlType /\ ctl \in [Endpoint -> CtlType] /\ SndType(snd[e])
  BY Local DEF IndInv, TypeOK
<1>2. /\ ctl' = [ctl EXCEPT ![e] = c] /\ snd' = [snd EXCEPT ![e] = s]
      /\ net' = net \cup M /\ rcv' = rcv
  BY <1>1 DEF GiveUpData, Frames
<1>3. c.state = "Failed"
  BY <1>1 DEF CtlType
<1>4. /\ s.unacked = << >> /\ s.send_base = snd[e].send_base
      /\ s.next_seq = snd[e].next_seq
  BY <1>1 DEF DataTimeout, SndType
<1>5. SendsOK(e, snd[e], ctl[e].state = "Failed")
  BY LocalSends
<1>6. SentBy(M, e, rcv[e], rcv[e]) /\ Extents(M) \subseteq Extents(From(e))
  <2>1. Unsacked(snd[e]) \in SUBSET DOMAIN snd[e].unacked
    BY DEF Unsacked
  <2> QED
    BY <1>5, <2>1, InFlightSent DEF SendsOK
<1> HIDE DEF c, s, M
<1>7. DOMAIN s.unacked = {}
  BY <1>4
<1>8. SendsOK(e, s, c.state = "Failed")
  BY <1>3, <1>4, <1>5, <1>7 DEF SendsOK, SenderInv, CutInv
<1> QED
  BY <1>2, <1>6, <1>8, QuietSeg DEF SendsOK

\* on_tick, the rest
LEMMA TickSeg ==
    ASSUME IndInv, SegmentInv, IndInv', NEW e \in Endpoint,
           NEW x \in BOOLEAN, NEW f \in BOOLEAN, Tick(e, x, f)
    PROVE  SegmentInv'
<1> DEFINE s == IF x THEN DataTimeout(snd[e]) ELSE snd[e]
           n == IF f THEN ctl[e].fin_pending + 1 ELSE ctl[e].fin_pending
           c == [ctl[e] EXCEPT !.fin_pending = n]
           failed == [ctl[e] EXCEPT !.state = "Failed", !.fin_pending = 0]
           r == rcv[e]
           Q == Unsacked(snd[e])
           A == IF x THEN Frames(e, Q, snd[e], r) ELSE {}
           B == IF f THEN {Fin(e, s, r)} ELSE {}
<1>1. /\ ctl[e] \in CtlType /\ ctl \in [Endpoint -> CtlType] /\ SndType(snd[e])
      /\ SndInv(snd[e], written[e]) /\ written[e] \in Nat
  BY Local DEF IndInv, TypeOK
<1>2. /\ rcv' = rcv
      /\ \/ /\ ctl' = [ctl EXCEPT ![e] = failed] /\ snd' = [snd EXCEPT ![e] = s]
            /\ net' = net \cup A
         \/ /\ ctl' = [ctl EXCEPT ![e] = DrainCtl(c, s)]
            /\ snd' = [snd EXCEPT ![e] = DrainSnd(c, s)]
            /\ net' = net \cup A \cup B \cup DrainOut(e, c, s, r)
  <2>1. [ctl EXCEPT ![e].state = "Failed", ![e].fin_pending = 0]
          = [ctl EXCEPT ![e] = failed]
    BY <1>1
  <2> HIDE DEF failed
  <2> QED
    BY <2>1 DEF Tick, Frames
<1>3. c \in CtlType /\ c.state = ctl[e].state /\ failed.state = "Failed"
  <2>1. n \in Nat
    BY <1>1 DEF CtlType
  <2> HIDE DEF n
  <2> QED
    BY <1>1, <2>1 DEF CtlType
<1>4. SendsOK(e, snd[e], ctl[e].state = "Failed")
  BY LocalSends
<1>5. SendsOK(e, s, ctl[e].state = "Failed")
  <2>1. SameSegments(snd[e], s)
    BY <1>1, SameMethods
  <2> QED
    BY <1>4, <2>1, SameSends
<1>6. SndType(s) /\ SndInv(s, written[e]) /\ s.next_seq = snd[e].next_seq
  <2>1. Keeps(snd[e], s)
    BY <1>1, KeepsSelf, DataTimeoutKeeps
  <2> QED
    BY <1>1, <2>1, KeepsInv DEF Keeps
<1> HIDE DEF s, c, failed
<1>7. SentBy({}, e, r, r) /\ Extents({}) \subseteq Extents(From(e))
  BY ControlSent
<1>8. SentBy(A, e, r, r) /\ Extents(A) \subseteq Extents(From(e))
  <2>1. Q \in SUBSET DOMAIN snd[e].unacked
    BY DEF Unsacked
  <2>2. /\ SentBy(Frames(e, Q, snd[e], r), e, r, r)
        /\ Extents(Frames(e, Q, snd[e], r)) \subseteq Extents(From(e))
    BY <1>4, <2>1, InFlightSent DEF SendsOK
  <2> QED
    BY <1>7, <2>2
<1>9. SentBy(B, e, r, r) /\ Extents(B) \subseteq Extents(From(e))
  BY <1>7, ControlSent
<1> HIDE DEF A, B
<1>10. CASE /\ ctl' = [ctl EXCEPT ![e] = failed] /\ snd' = [snd EXCEPT ![e] = s]
            /\ net' = net \cup A
  <2>1. SendsOK(e, s, failed.state = "Failed")
    BY <1>3, <1>5 DEF SendsOK, SenderInv
  <2> QED
    BY <1>2, <1>8, <1>10, <2>1, QuietSeg DEF SendsOK
<1>11. CASE /\ ctl' = [ctl EXCEPT ![e] = DrainCtl(c, s)]
            /\ snd' = [snd EXCEPT ![e] = DrainSnd(c, s)]
            /\ net' = net \cup A \cup B \cup DrainOut(e, c, s, r)
  <2> DEFINE M == A \cup B
             D == DrainOut(e, c, s, r)
  <2>1. SentBy(M, e, r, r) /\ Extents(M) \subseteq Extents(From(e))
    BY <1>8, <1>9 DEF SentBy, Extents
  <2>2. net' = net \cup (M \cup D)
    BY <1>11
  <2>3. SendsOK(e, s, c.state = "Failed")
    BY <1>3, <1>5
  <2> HIDE DEF M
  <2> QED
    BY <1>1, <1>2, <1>3, <1>6, <1>11, <2>1, <2>2, <2>3, DrainOnlySeg
<1> QED
  BY <1>2, <1>10, <1>11

\* The segment invariant is inductive.
LEMMA NextSeg == IndInv /\ SegmentInv /\ [Next]_vars => SegmentInv'
<1> SUFFICES ASSUME IndInv, SegmentInv, [Next]_vars PROVE SegmentInv'
  OBVIOUS
<1>1. CASE UNCHANGED vars
  BY <1>1 DEF vars, SegmentInv, From
<1>2. CASE Next
  <2>1. IndInv'
    BY NextOK
  <2>2. ASSUME NEW e \in Endpoint, NEW n \in 1 .. MaxBytes[e], Send(e, n)
        PROVE  SegmentInv'
    <3>1. n \in Nat
      BY WorkloadAssumption
    <3> QED
      BY <2>1, <2>2, <3>1, SendSeg
  <2>3. ASSUME NEW e \in Endpoint, OnDatagram(e)
        PROVE  SegmentInv'
    BY <2>1, <2>3, AdoptSeg, ProcessSeg DEF OnDatagram
  <2>4. ASSUME NEW e \in Endpoint, OnTick(e)
        PROVE  SegmentInv'
    BY <2>1, <2>4, HandshakeSeg, GiveUpSeg, TickSeg DEF OnTick
  <2> QED
    BY <1>2, <2>1, <2>2, <2>3, <2>4, CloseSeg, RecvSeg DEF Next
<1> QED
  BY <1>1, <1>2

\* Nothing has been sent at first but a SYN.
LEMMA InitSeg == Init => SegmentInv
<1> SUFFICES ASSUME Init PROVE SegmentInv
  OBVIOUS
<1> DEFINE r == BlankRcv
           g == Header(r, FALSE)
<1>1. DOMAIN << >> = {} /\ Len(<< >>) = 0
  OBVIOUS
<1>2. /\ BlankSnd.unacked = << >> /\ BlankSnd.next_seq = 0 /\ BlankSnd.send_base = 0
      /\ r.expected_seq = 0 /\ r.recv_buffer = << >> /\ r.delivered = << >>
  BY DEF BlankSnd, BlankRcv
<1>3. RcvType(r) /\ RcvInv(r, << >>, 0)
  <2>1. RcvType(r)
    BY <1>1 DEF BlankRcv, RcvType, IsMap
  <2> QED
    BY <1>1, <1>2, <2>1 DEF RcvInv, IsPart
<1>4. \A e \in Endpoint : snd[e] = BlankSnd /\ rcv[Peer(e)] = r
  BY PeerFacts DEF Init
<1>5. \A e : \A h \in Headers(From(e)) : h = g
  <2>1. Syn("client", r).header = g
    BY DEF Syn, Datagram
  <2> QED
    BY <2>1 DEF Init, From, Headers
<1>6. \A e : Extents(From(e)) = {}
  <2>1. Syn("client", r).data = << >>
    BY DEF Syn, Datagram
  <2> QED
    BY <2>1 DEF Init, From, Extents
<1> HIDE DEF r, g
<1>7. ReceiverInv(r, {})
  BY <1>1, <1>2 DEF ReceiverInv, Aligned
<1>8. HeadersInv(r, {}, {g})
  <2>1. HeadersInv(r, {}, {})
    BY DEF HeadersInv
  <2>2. HeadersInv(r, {}, {} \cup {g})
    BY <1>3, <1>7, <2>1, AddHeader DEF g
  <2> QED
    BY <2>2
<1>9. \A f, H : SenderInv(BlankSnd, f, {}, H, 0)
  <2>1. Covered(BlankSnd)
    BY <1>2 DEF Covered
  <2> QED
    BY <1>1, <1>2, <2>1 DEF SenderInv, CutInv, Apart
<1> SUFFICES ASSUME NEW e \in Endpoint
             PROVE  DirectionInv(snd[e], ctl[e].state = "Failed", rcv[Peer(e)],
                                 Extents(From(e)), Headers(From(Peer(e))))
  BY DEF SegmentInv
<1> DEFINE H == Headers(From(Peer(e)))
<1>10. HeadersInv(r, {}, H)
  <2>1. H \subseteq {g}
    BY <1>5
  <2> QED
    BY <1>8, <2>1, FewerHeaders
<1> QED
  BY <1>2, <1>4, <1>6, <1>7, <1>9, <1>10 DEF DirectionInv

\* No window is in use at first, and nothing is in flight.
LEMMA InitWindow == Init => WindowInv
<1> SUFFICES ASSUME Init PROVE WindowInv
  OBVIOUS
<1>1. \A e \in Endpoint : ctl[e].state \in {"SynSent", "Listening"}
  BY DEF Init, ConnectCtl, BlankCtl
<1>2. \A e \in Endpoint : snd[e].unacked = << >>
  BY DEF Init, BlankSnd
<1>3. BytesOf(SegmentData(<< >>)) = {}
  <2>1. DOMAIN << >> = {}
    OBVIOUS
  <2> QED
    BY <2>1 DEF BytesOf, SegmentData
<1>4. \A e \in Endpoint : InFlightBytes(snd[e]) = 0
  BY <1>2, <1>3, FS_EmptySet DEF InFlightBytes
<1>5. 0 <= Greater(RecvWindowCapacity, 1)
  BY ConfigAssumption DEF Greater
<1> QED
  BY <1>1, <1>4, <1>5 DEF WindowInv, InFlightWithinCapacity

\* The streams are cut into segments once and for all; what is sent again,
\* SACKed, buffered and acknowledged are always the same pieces, and the
\* windows in use were advertised.
THEOREM SegmentInvariance == Spec => [](SegmentInv /\ WindowInv)
<1>1. Init => SegmentInv /\ WindowInv
  BY InitSeg, InitWindow
<1>2. IndInv /\ SegmentInv /\ WindowInv /\ [Next]_vars => (SegmentInv /\ WindowInv)'
  BY NextSeg, WindowStep
<1> QED
  BY <1>1, <1>2, Invariance, PTL DEF Spec

\* apply_ack never forgets a byte the peer has not got in order: each byte
\* from send_base on is in exactly one unacked segment.
THEOREM NothingForgottenHolds == Spec => []NothingForgotten
<1>1. ASSUME IndInv, SegmentInv PROVE NothingForgotten
  <2> SUFFICES ASSUME NEW e \in Endpoint
               PROVE  /\ snd[e].send_base <= rcv[Peer(e)].expected_seq
                      /\ ctl[e].state # "Failed" =>
                           \A o \in snd[e].send_base .. snd[e].next_seq - 1 :
                              Cardinality({q \in DOMAIN snd[e].unacked :
                                  q <= o /\ o < q + Len(snd[e].unacked[q].data)}) = 1
    BY DEF NothingForgotten
  <2> DEFINE s == snd[e]
             C == Extents(From(e))
             H == Headers(From(Peer(e)))
             x == rcv[Peer(e)].expected_seq
             End(q) == q + Len(s.unacked[q].data)
  <2>1. SenderInv(s, ctl[e].state = "Failed", C, H, x) /\ Pieces(C) /\ SndType(s)
    BY <1>1, LocalSegments, Local DEF DirectionInv
  <2> HIDE DEF s, C, H, x
  <2>2. s.send_base <= x
    BY <2>1 DEF SenderInv
  <2>3. ASSUME ctl[e].state # "Failed", NEW o \in s.send_base .. s.next_seq - 1
        PROVE  Cardinality({q \in DOMAIN s.unacked : q <= o /\ o < End(q)}) = 1
    <3>1. Covered(s)
      BY <2>1, <2>3 DEF SenderInv
    <3>2. PICK q \in DOMAIN s.unacked : q <= o /\ o < End(q)
      BY <3>1 DEF Covered
    <3>3. \A p \in DOMAIN s.unacked : p \in Nat /\ End(p) \in Nat /\ <<p, End(p)>> \in C
      BY <2>1, UnackedFacts DEF SenderInv
    <3>4. o \in Nat
      BY <2>1, UnackedFacts
    <3> HIDE DEF End
    <3>5. ASSUME NEW p \in DOMAIN s.unacked, p <= o, o < End(p)
          PROVE  p = q
      <4>1. <<p, End(p)>> \in C /\ <<q, End(q)>> \in C
        BY <3>3
      <4>2. <<p, End(p)>> = <<q, End(q)>> \/ End(p) <= q \/ End(q) <= p
        BY <4>1, <2>1 DEF Pieces, Apart
      <4>3. \/ p = q
            \/ End(p) <= q
            \/ End(q) <= p
        BY <4>2
      <4>4. p \in Nat /\ q \in Nat /\ End(p) \in Nat /\ End(q) \in Nat
        BY <3>3
      <4>5. p <= o /\ o < End(p) /\ q <= o /\ o < End(q)
        BY <3>2, <3>5
      <4> QED
        BY <3>4, <4>3, <4>4, <4>5
    <3>6. {p \in DOMAIN s.unacked : p <= o /\ o < End(p)} = {q}
      BY <3>2, <3>5
    <3> QED
      BY <3>6, FS_Singleton
  <2> QED
    BY <2>2, <2>3 DEF s, x, End
<1> QED
  BY <1>1, Invariance, SegmentInvariance, PTL

\* The segment that on_tick watches is never one that is marked as SACKed:
\* it starts at send_base, an ack that the receiver has sent, and no header
\* SACKs a byte that another header asks for.
THEOREM OldestNeverSackedHolds == Spec => []OldestNeverSacked
<1>1. ASSUME IndInv, SegmentInv PROVE OldestNeverSacked
  <2> SUFFICES ASSUME NEW e \in Endpoint, DOMAIN snd[e].unacked # {},
                      snd[e].unacked[Oldest(snd[e])].sacked
               PROVE  FALSE
    BY DEF OldestNeverSacked
  <2> DEFINE s == snd[e]
             C == Extents(From(e))
             H == Headers(From(Peer(e)))
             x == rcv[Peer(e)].expected_seq
             End(q) == q + Len(s.unacked[q].data)
             a == Oldest(s)
             b == s.send_base
  <2>1. /\ SenderInv(s, ctl[e].state = "Failed", C, H, x) /\ SndType(s)
        /\ HeadersInv(rcv[Peer(e)], C, H)
    BY <1>1, LocalSegments, Local DEF DirectionInv
  <2>2. DOMAIN s.unacked # {} /\ s.unacked[a].sacked
    OBVIOUS
  <2>3. a \in DOMAIN s.unacked /\ \A q \in DOMAIN s.unacked : a <= q
    <3>1. \E q \in DOMAIN s.unacked : \A p \in DOMAIN s.unacked : q <= p
      BY <2>1, <2>2, NatMin DEF SndType, IsMap
    <3> QED
      BY <3>1 DEF Oldest
  <2> HIDE DEF s, C, H, x, a
  <2>4. /\ b \in Nat /\ s.next_seq \in Nat
        /\ \A q \in DOMAIN s.unacked : q \in Nat /\ End(q) \in Nat /\ q >= b
                                       /\ <<q, End(q)>> \in C
    BY <2>1, UnackedFacts DEF SenderInv
  <2>5. a = b
    <3>1. a < End(a) /\ End(a) <= s.next_seq
      <4> DEFINE y == End(a)
      <4>1. <<a, y>> \in C /\ CutInv(s, C)
        BY <2>1, <2>3, <2>4 DEF SenderInv
      <4> HIDE DEF y
      <4>2. a < y /\ y <= s.next_seq
        BY <4>1 DEF CutInv
      <4> QED
        BY <4>2 DEF y
    <3>2. a \in Nat /\ End(a) \in Nat /\ a >= b
      BY <2>3, <2>4
    <3> HIDE DEF End
    <3>3. b \in b .. s.next_seq - 1
      <4>1. b \in Nat /\ s.next_seq \in Nat
        BY <2>4
      <4> HIDE DEF b
      <4> QED
        BY <3>1, <3>2, <4>1
    <3>4. Covered(s)
      BY <2>1, <2>2 DEF SenderInv
    <3>5. PICK q \in DOMAIN s.unacked : q <= b /\ b < q + Len(s.unacked[q].data)
      BY <3>3, <3>4 DEF Covered
    <3>6. a <= q /\ q \in Nat /\ b \in Nat
      BY <2>3, <2>4
    <3> HIDE DEF b
    <3> QED
      BY <3>5, <3>2, <3>6
  <2>6. PICK h \in H : InSack(h, b)
    BY <2>1, <2>2, <2>3, <2>5 DEF SenderInv
  <2>7. b # 0
    <3>1. PICK y \in h.sack : y.start <= b /\ b <= y.end
      BY <2>6 DEF InSack
    <3>2. y.start \in Nat \ {0}
      BY <2>1 DEF HeadersInv
    <3> QED
      BY <2>4, <3>1, <3>2
  <2>8. PICK g \in H : g.ack = b
    BY <2>1, <2>7 DEF SenderInv
  <2> QED
    BY <2>1, <2>6, <2>8 DEF HeadersInv
<1> QED
  BY <1>1, Invariance, SegmentInvariance, PTL

\* deliver_data leaves nothing behind in the buffer, and buffers no byte
\* twice.
THEOREM NoStrandedEntryHolds == Spec => []NoStrandedEntry
<1>1. ASSUME IndInv, SegmentInv PROVE NoStrandedEntry
  <2> SUFFICES ASSUME NEW e \in Endpoint
               PROVE  LET buf == rcv[e].recv_buffer
                      IN  /\ \A q \in DOMAIN buf : q > rcv[e].expected_seq
                          /\ \A p, q \in DOMAIN buf : p < q => EndOf(buf, p) <= q
    BY DEF NoStrandedEntry
  <2> DEFINE r == rcv[e]
             buf == r.recv_buffer
             n == snd[Peer(e)].next_seq
             C == Extents(From(Peer(e)))
  <2>1. ReceiverInv(r, C) /\ Pieces(C)
    BY <1>1, LocalSegments DEF DirectionInv
  <2>2. IsBuffer(buf, n) /\ n \in Nat
    BY <1>1, Local DEF IsBuffer, RcvInv, RcvType
  <2> HIDE DEF r, buf, n, C
  <2>3. \A q \in DOMAIN buf : q > r.expected_seq /\ <<q, EndOf(buf, q)>> \in C
    BY <2>1 DEF ReceiverInv, buf
  <2>4. ASSUME NEW p \in DOMAIN buf, NEW q \in DOMAIN buf, p < q
        PROVE  EndOf(buf, p) <= q
    <3> DEFINE x == EndOf(buf, p)
               y == EndOf(buf, q)
    <3>1. p \in Nat /\ q \in Nat /\ x \in Nat /\ y \in Nat /\ q < y
      BY <2>2, EndOfFacts
    <3>2. <<p, x>> \in C /\ <<q, y>> \in C
      BY <2>3
    <3> HIDE DEF x, y
    <3>3. <<p, x>> = <<q, y>> \/ x <= q \/ y <= p
      BY <2>1, <3>2 DEF Pieces, Apart
    <3>4. x <= q
      BY <2>4, <3>1, <3>3
    <3> QED
      BY <3>4 DEF x
  <2> QED
    BY <2>3, <2>4 DEF r, buf
<1> QED
  BY <1>1, Invariance, SegmentInvariance, PTL

\* A sender never has more unacknowledged than Config::recv_window_capacity
\* of its peer, but for the one byte that probes a closed window.
THEOREM InFlightWithinCapacityHolds == Spec => []InFlightWithinCapacity
<1>1. WindowInv => InFlightWithinCapacity
  BY DEF WindowInv
<1> QED
  BY <1>1, SegmentInvariance, PTL

-----------------------------------------------------------------------------
(* The control state *)

\* When nothing is queued or in flight, the peer has all that was written.
LEMMA AllDelivered ==
    ASSUME NEW s, NEW w \in Nat, SndType(s), SndInv(s, w),
           NEW f, NEW C, NEW H, NEW x \in Nat, SenderInv(s, f, C, H, x), ~f,
           s.send_queue = << >>, DOMAIN s.unacked = {}
    PROVE  w <= x
<1>1. s.next_seq \in Nat /\ s.send_base \in Nat
  BY DEF SndType
<1>2. w = s.next_seq
  <2>1. Len(<< >>) = 0
    OBVIOUS
  <2> QED
    BY <1>1, <2>1 DEF SndInv
<1>3. s.next_seq <= s.send_base
  <2>1. Covered(s)
    BY DEF SenderInv
  <2>2. \A o \in s.send_base .. s.next_seq - 1 : FALSE
    BY <2>1 DEF Covered
  <2>3. s.send_base \notin s.send_base .. s.next_seq - 1
    BY <2>2
  <2> QED
    BY <1>1, <2>3
<1> QED
  BY <1>1, <1>2, <1>3 DEF SenderInv

\* ControlInv survives progress of the peer.
LEMMA ControlMono ==
    ASSUME NEW c, NEW k \in Nat, NEW w, NEW x \in Nat, NEW y \in Nat, x <= y,
           NEW F, NEW P, NEW Q, NEW R, NEW S, P => R, Q => S,
           ControlInv(c, k, w, x, F, P, Q)
    PROVE  ControlInv(c, k, w, y, F, R, S)
BY DEF ControlInv

\* A FIN on its way may be sent again.
LEMMA ControlAgain ==
    ASSUME NEW c, NEW k, NEW w, NEW x, NEW F, NEW P, NEW Q,
           ControlInv(c, k, w, x, F, P, Q)
    PROVE  ControlInv(c, k, w, x, F \/ c.fin_pending # 0, P, Q)
BY DEF ControlInv

\* The parts of the handlers that change the control state.
LEMMA ControlOps ==
    ASSUME NEW c \in CtlType, NEW k, NEW w, NEW x, NEW F, NEW P, NEW Q,
           ControlInv(c, k, w, x, F, P, Q)
    PROVE  /\ \A m : ControlInv(CompleteHandshake(c, m), k, w, x, F, P, Q)
           /\ ControlInv([c EXCEPT !.state = "Failed", !.handshake = 0],
                         k, w, x, F, P, Q)
           /\ \A n : ControlInv([c EXCEPT !.handshake = n], k, w, x, F, P, Q)
           /\ c.state = "Listening" =>
                ControlInv([c EXCEPT !.state = "SynReceived", !.handshake = 1],
                           k, w, x, F, P, Q)
           /\ ControlInv([c EXCEPT !.state = "Failed"], k, w, x, F, P, Q)
           /\ ControlInv([c EXCEPT !.state = "Failed", !.fin_pending = 0],
                         k, w, x, F, P, Q)
           /\ \A n \in Nat : c.fin_pending # 0 =>
                ControlInv([c EXCEPT !.fin_pending = n], k, w, x, F, P, Q)
BY DEF ControlInv, CtlType, CompleteHandshake

\* apply_ack believes a fin_ack.
LEMMA AckControl ==
    ASSUME NEW c \in CtlType, NEW k, NEW w, NEW x, NEW F, NEW P, NEW Q,
           ControlInv(c, k, w, x, F, P, Q), NEW s, NEW h, h.fin_ack => Q,
           c.state \in Open
    PROVE  /\ ControlInv(AckCtl(c, s, h), k, w, x, F, P, Q)
           /\ AckCtl(c, s, h).peer_fin_seen = c.peer_fin_seen
           /\ AckCtl(c, s, h).close_requested = c.close_requested
<1> DEFINE a == [c EXCEPT !.fin_acked = TRUE, !.fin_pending = 0]
<1>1. /\ a \in CtlType /\ a.state = c.state /\ a.peer_fin_seen = c.peer_fin_seen
      /\ a.close_requested = c.close_requested /\ a.fin_acked /\ a.fin_pending = 0
  BY DEF CtlType
<1>2. AckCtl(c, s, h) = IF h.fin_ack /\ ~FastRetransmits(s, h.ack)
                          THEN CheckFullyClosed(a) ELSE c
  BY DEF AckCtl
<1> HIDE DEF a
<1>3. ASSUME Q PROVE ControlInv(a, k, w, x, F, P, Q)
  BY <1>1, <1>3 DEF ControlInv
<1>4. /\ CheckFullyClosed(a).peer_fin_seen = c.peer_fin_seen
      /\ CheckFullyClosed(a).close_requested = c.close_requested
      /\ Q => ControlInv(CheckFullyClosed(a), k, w, x, F, P, Q)
  BY <1>1, <1>3 DEF ControlInv, CheckFullyClosed, CtlType
<1> QED
  BY <1>2, <1>4

\* drain_and_maybe_fin sends a FIN when all is delivered.
LEMMA DrainControl ==
    ASSUME NEW c \in CtlType, NEW k, NEW w, NEW x, NEW F, NEW P, NEW Q,
           ControlInv(c, k, w, x, F, P, Q), NEW s,
           FinReady(c, TrySendMore(c, s)) => k <= x
    PROVE  /\ ControlInv(DrainCtl(c, s), k, w, x,
                         F \/ FinReady(c, TrySendMore(c, s)), P, Q)
           /\ DrainCtl(c, s).peer_fin_seen = c.peer_fin_seen
           /\ DrainCtl(c, s).close_requested = c.close_requested
<1> DEFINE t == TrySendMore(c, s)
           d == MaybeSendFin(c, t)
<1>1. /\ d \in CtlType /\ d.peer_fin_seen = c.peer_fin_seen
      /\ d.close_requested = c.close_requested
  BY CtlOps DEF MaybeSendFin, CtlType
<1>2. ControlInv(d, k, w, x, F \/ FinReady(c, t), P, Q)
  <2>1. CASE FinReady(c, t)
    <3>1. /\ d.state = "Closing" /\ d.fin_acked = c.fin_acked
          /\ c.close_requested /\ k <= x
      BY <2>1 DEF MaybeSendFin, FinReady, CtlType
    <3> HIDE DEF d
    <3> QED
      BY <1>1, <3>1 DEF ControlInv
  <2>2. CASE ~FinReady(c, t)
    <3>1. d = c
      BY <2>2 DEF MaybeSendFin
    <3> HIDE DEF d
    <3> QED
      BY <2>2, <3>1 DEF ControlInv
  <2> QED
    BY <2>1, <2>2
<1> HIDE DEF d
<1>3. /\ ControlInv(CheckFullyClosed(d), k, w, x, F \/ FinReady(c, t), P, Q)
      /\ CheckFullyClosed(d).peer_fin_seen = c.peer_fin_seen
      /\ CheckFullyClosed(d).close_requested = c.close_requested
  BY <1>1, <1>2 DEF ControlInv, CheckFullyClosed, CtlType
<1> QED
  BY <1>3 DEF DrainCtl, d

-----------------------------------------------------------------------------
(* What is sent *)

\* The datagrams M of e: a fin_ack among them says that e has seen the peer's
\* FIN, and a FIN among them that F holds.
SaysOf(M, e, seen, F) ==
    /\ \A m \in M : m.src = e
    /\ ClosingSent(M, seen)
    /\ FinIn(M) => F

\* Datagrams without data.
LEMMA ControlSays ==
    ASSUME NEW e, NEW s, NEW r, NEW seen, NEW F
    PROVE  /\ SaysOf({Syn(e, r)}, e, seen, F)
           /\ SaysOf({SynAck(e, r)}, e, seen, F)
           /\ SaysOf({HandshakeAck(e, r)}, e, seen, F)
           /\ F => SaysOf({Fin(e, s, r)}, e, seen, F)
           /\ \A f : (f => seen) => SaysOf({PureAck(e, s, r, f)}, e, seen, F)
           /\ SaysOf({}, e, seen, F)
<1> DEFINE D(flags, seq, f) == Datagram(e, flags, seq, Header(r, f), << >>)
<1>1. ASSUME NEW flags, NEW seq, NEW f, f => seen, "FIN" \in flags => F
      PROVE  SaysOf({D(flags, seq, f)}, e, seen, F)
  <2>1. /\ D(flags, seq, f).src = e /\ D(flags, seq, f).header = Header(r, f)
        /\ D(flags, seq, f).data = << >> /\ D(flags, seq, f).flags = flags
        /\ Header(r, f).fin_ack = f
    BY DEF Datagram, Header
  <2> HIDE DEF D
  <2> QED
    BY <1>1, <2>1 DEF SaysOf, ClosingSent, FinIn
<1>2. /\ Syn(e, r) = D({"SYN"}, 0, FALSE)
      /\ SynAck(e, r) = D({"SYN", "ACK"}, 0, FALSE)
      /\ HandshakeAck(e, r) = D({"ACK"}, 0, FALSE)
      /\ Fin(e, s, r) = D({"FIN", "ACK"}, s.send_base, FALSE)
      /\ \A f : PureAck(e, s, r, f) = D({"ACK"}, s.send_base, f)
  BY DEF Syn, SynAck, HandshakeAck, Fin, PureAck
<1>3. SaysOf({}, e, seen, F)
  BY DEF SaysOf, ClosingSent, FinIn
<1>4. "FIN" \notin {"SYN"} /\ "FIN" \notin {"SYN", "ACK"} /\ "FIN" \notin {"ACK"}
  OBVIOUS
<1> HIDE DEF D
<1> QED
  BY ZenonT(30), <1>1, <1>2, <1>3, <1>4

\* Datagrams with data.
LEMMA DataSays ==
    ASSUME NEW e, NEW s, NEW r, NEW Q, NEW seen, NEW F
    PROVE  SaysOf(Frames(e, Q, s, r), e, seen, F)
<1>1. \A q : LET m == DataFrame(e, q, s, r)
             IN  m.src = e /\ ~ m.header.fin_ack /\ "FIN" \notin m.flags
  BY DEF DataFrame, Datagram, Header
<1>2. \A m \in Frames(e, Q, s, r) : \E q \in Q : m = DataFrame(e, q, s, r)
  BY DEF Frames
<1> QED
  BY <1>1, <1>2 DEF SaysOf, ClosingSent, FinIn

\* Two parts of one handler.
LEMMA SaysUnion ==
    ASSUME NEW e, NEW seen, NEW F, NEW G, NEW M, NEW N,
           SaysOf(M, e, seen, F), SaysOf(N, e, seen, G)
    PROVE  SaysOf(M \cup N, e, seen, F \/ G)
BY DEF SaysOf, ClosingSent, FinIn

\* What drain_and_maybe_fin returns.
LEMMA DrainSays ==
    ASSUME NEW e, NEW c, NEW s, NEW r, NEW seen
    PROVE  SaysOf(DrainOut(e, c, s, r), e, seen, FinReady(c, TrySendMore(c, s)))
<1> DEFINE t == TrySendMore(c, s)
           M == Frames(e, Cuts(s, Admitted(c, s)), t, r)
           B == IF FinReady(c, t) THEN {Fin(e, t, r)} ELSE {}
<1>1. DrainOut(e, c, s, r) = M \cup B
  BY DEF DrainOut, Frames
<1>2. SaysOf(M, e, seen, FALSE)
  BY DataSays
<1>3. SaysOf(B, e, seen, FinReady(c, t))
  BY ControlSays
<1> HIDE DEF t, M, B
<1>4. SaysOf(M \cup B, e, seen, FinReady(c, t))
  BY <1>2, <1>3 DEF SaysOf, ClosingSent, FinIn
<1> QED
  BY <1>1, <1>4 DEF t

-----------------------------------------------------------------------------
(* The handlers keep CloseInv *)

\* The control state c of e, when e was given w bytes, k of them before
\* close().
Control(e, c, k, w) ==
    ControlInv(c, k, w, rcv[Peer(e)].expected_seq, FinIn(From(e)),
               FinIn(From(Peer(e))), ctl[Peer(e)].peer_fin_seen)

\* What CloseInv says of e.
LEMMA LocalClose ==
    ASSUME CloseInv, NEW e \in Endpoint
    PROVE  /\ Control(e, ctl[e], closedAt[e], written[e])
           /\ ClosingSent(From(e), ctl[e].peer_fin_seen)
           /\ ClosingSent(From(Peer(e)), ctl[Peer(e)].peer_fin_seen)
BY PeerFacts DEF CloseInv, Control

\* A step of e that keeps its half of the invariant keeps all of it.
LEMMA CloseStep ==
    ASSUME IndInv, CloseInv, NEW e \in Endpoint, NEW d, NEW r, NEW M,
           ctl' = [ctl EXCEPT ![e] = d], rcv' = [rcv EXCEPT ![e] = r],
           net' = net \cup M,
           NEW k, NEW w, closedAt' = [closedAt EXCEPT ![e] = k],
           written' = [written EXCEPT ![e] = w],
           r.expected_seq \in Nat, rcv[e].expected_seq <= r.expected_seq,
           NEW F, FinIn(From(e)) => F, SaysOf(M, e, d.peer_fin_seen, F),
           ctl[e].peer_fin_seen => d.peer_fin_seen,
           ControlInv(d, k, w, rcv[Peer(e)].expected_seq, F,
                      FinIn(From(Peer(e))), ctl[Peer(e)].peer_fin_seen)
    PROVE  CloseInv'
<1> DEFINE p == Peer(e)
<1>1. p \in Endpoint /\ p # e /\ Peer(p) = e /\ Endpoint = {e, p}
  BY PeerFacts
<1>2. /\ ctl'[e] = d /\ rcv'[e] = r /\ closedAt'[e] = k /\ written'[e] = w
      /\ ctl'[p] = ctl[p] /\ rcv'[p] = rcv[p] /\ closedAt'[p] = closedAt[p]
      /\ written'[p] = written[p]
  BY <1>1 DEF IndInv, TypeOK
<1>3. From(e)' = From(e) \cup M /\ From(p)' = From(p)
  <2>1. \A m \in M : m.src = e
    BY DEF SaysOf
  <2> QED
    BY <1>1, <2>1 DEF From
<1>4. closedAt[p] \in Nat /\ rcv[e].expected_seq \in Nat
  BY <1>1, Local DEF RcvType
<1> HIDE DEF p
<1>5. FinIn(From(e) \cup M) => F
  BY DEF FinIn, SaysOf
<1>6. ControlInv(d, k, w, rcv[p].expected_seq, FinIn(From(e) \cup M),
                 FinIn(From(p)), ctl[p].peer_fin_seen)
  BY <1>5 DEF p, ControlInv
<1>7. ControlInv(ctl[p], closedAt[p], written[p], r.expected_seq,
                 FinIn(From(p)), FinIn(From(e) \cup M), d.peer_fin_seen)
  <2>1. ControlInv(ctl[p], closedAt[p], written[p], rcv[e].expected_seq,
                   FinIn(From(p)), FinIn(From(e)), ctl[e].peer_fin_seen)
    BY <1>1, LocalClose DEF Control
  <2>2. FinIn(From(e)) => FinIn(From(e) \cup M)
    BY DEF FinIn
  <2> QED
    BY <1>4, <2>1, <2>2, ControlMono
<1>8. /\ ClosingSent(From(e) \cup M, d.peer_fin_seen)
      /\ ClosingSent(From(p), ctl[p].peer_fin_seen)
  BY LocalClose DEF p, SaysOf, ClosingSent
<1>9. \A x \in Endpoint :
        /\ ControlInv(ctl'[x], closedAt'[x], written'[x], rcv'[Peer(x)].expected_seq,
                      FinIn(From(x)'), FinIn(From(Peer(x))'),
                      ctl'[Peer(x)].peer_fin_seen)
        /\ ClosingSent(From(x)', ctl'[x].peer_fin_seen)
  <2>1. /\ ControlInv(ctl'[e], closedAt'[e], written'[e], rcv'[p].expected_seq,
                      FinIn(From(e)'), FinIn(From(p)'), ctl'[p].peer_fin_seen)
        /\ ClosingSent(From(e)', ctl'[e].peer_fin_seen)
    BY <1>2, <1>3, <1>6, <1>8
  <2>2. /\ ControlInv(ctl'[p], closedAt'[p], written'[p], rcv'[e].expected_seq,
                      FinIn(From(p)'), FinIn(From(e)'), ctl'[e].peer_fin_seen)
        /\ ClosingSent(From(p)', ctl'[p].peer_fin_seen)
    BY <1>2, <1>3, <1>7, <1>8
  <2> QED
    BY <1>1, <2>1, <2>2 DEF p
<1> QED
  BY <1>9 DEF CloseInv, ClosingSent, FinIn, ControlInv

\* The handlers that end in drain_and_maybe_fin.
LEMMA DrainClose ==
    ASSUME IndInv, CloseInv, IndInv', SegmentInv', NEW e \in Endpoint,
           NEW c \in CtlType, NEW s, NEW r, NEW A,
           ctl' = [ctl EXCEPT ![e] = DrainCtl(c, s)],
           snd' = [snd EXCEPT ![e] = DrainSnd(c, s)],
           rcv' = [rcv EXCEPT ![e] = r],
           net' = net \cup (A \cup DrainOut(e, c, s, r)),
           NEW k \in Nat, NEW w \in Nat, closedAt' = [closedAt EXCEPT ![e] = k],
           written' = [written EXCEPT ![e] = w],
           r.expected_seq \in Nat, rcv[e].expected_seq <= r.expected_seq,
           Control(e, c, k, w), ctl[e].peer_fin_seen => c.peer_fin_seen,
           SaysOf(A, e, c.peer_fin_seen, c.fin_pending # 0)
    PROVE  CloseInv'
<1> DEFINE p == Peer(e)
           d == DrainCtl(c, s)
           t == TrySendMore(c, s)
           x == rcv[p].expected_seq
           D == DrainOut(e, c, s, r)
           F == FinIn(From(e)) \/ c.fin_pending # 0
           G == FinReady(c, t)
           M == A \cup D
<1>1. p \in Endpoint /\ p # e /\ x \in Nat
  BY PeerFacts, Local DEF RcvType
<1>2. /\ snd'[e] = t /\ written'[e] = w /\ ctl'[e] = d /\ rcv'[p] = rcv[p]
  BY <1>1 DEF IndInv, TypeOK, DrainSnd
<1>3. /\ SndType(t) /\ SndInv(t, w)
  BY <1>2 DEF IndInv, TypeOK, StreamInv
<1>4. G => d.state # "Failed"
  BY DEF DrainCtl, MaybeSendFin, FinReady, CheckFullyClosed, CtlType
<1> HIDE DEF t, d
<1>5. ASSUME G PROVE k <= x
  <2> DEFINE f == ctl'[e].state = "Failed"
             C == Extents(From(e))'
             H == Headers(From(p))'
  <2>1. SenderInv(snd'[e], f, C, H, rcv'[p].expected_seq)
    BY DEF SegmentInv, DirectionInv, p
  <2>2. ~f
    BY <1>2, <1>4, <1>5
  <2>3. t.send_queue = << >> /\ DOMAIN t.unacked = {} /\ c.close_requested
    BY <1>5 DEF FinReady
  <2> HIDE DEF f, C, H
  <2>4. SenderInv(t, f, C, H, x)
    BY <1>2, <2>1
  <2>5. w <= x
    BY <1>1, <1>3, <2>2, <2>3, <2>4, AllDelivered
  <2>6. k <= w
    BY <2>3 DEF Control, ControlInv
  <2> QED
    BY <1>1, <2>5, <2>6
<1>6. /\ ControlInv(d, k, w, x, F \/ G, FinIn(From(p)), ctl[p].peer_fin_seen)
      /\ d.peer_fin_seen = c.peer_fin_seen
  <2>1. ControlInv(c, k, w, x, F, FinIn(From(p)), ctl[p].peer_fin_seen)
    BY ControlAgain DEF Control
  <2> HIDE DEF F, x, p
  <2> QED
    BY <1>5, <2>1, DrainControl DEF d, t
<1>7. SaysOf(M, e, d.peer_fin_seen, F \/ G)
  <2>1. SaysOf(D, e, c.peer_fin_seen, G)
    BY DrainSays DEF t
  <2> HIDE DEF D
  <2> QED
    BY <1>6, <2>1 DEF SaysOf, ClosingSent, FinIn
<1>8. FinIn(From(e)) => F \/ G
  OBVIOUS
<1>9. ctl' = [ctl EXCEPT ![e] = d] /\ net' = net \cup M
  BY DEF d
<1> HIDE DEF F, G, M
<1> QED
  BY <1>6, <1>7, <1>8, <1>9, CloseStep DEF p, x

\* The step leaves the receive sides and the applications' history alone.
NothingReceived == rcv' = rcv /\ closedAt' = closedAt /\ written' = written

\* The handlers that only change the control state of e and send M.
LEMMA QuietClose ==
    ASSUME IndInv, CloseInv, NEW e \in Endpoint, NEW d, NEW M,
           ctl' = [ctl EXCEPT ![e] = d], net' = net \cup M, NothingReceived,
           SaysOf(M, e, d.peer_fin_seen, FinIn(From(e))),
           d.peer_fin_seen = ctl[e].peer_fin_seen,
           Control(e, d, closedAt[e], written[e])
    PROVE  CloseInv'
<1> DEFINE r == rcv[e]
           k == closedAt[e]
           w == written[e]
<1>1. /\ rcv' = [rcv EXCEPT ![e] = r]
      /\ closedAt' = [closedAt EXCEPT ![e] = k]
      /\ written' = [written EXCEPT ![e] = w]
      /\ r.expected_seq \in Nat
  BY Local DEF RcvType, NothingReceived
<1>2. rcv[e].expected_seq <= r.expected_seq
  BY <1>1
<1>3. ctl[e].peer_fin_seen => d.peer_fin_seen
  OBVIOUS
<1> DEFINE F == FinIn(From(e))
<1>4. ControlInv(d, k, w, rcv[Peer(e)].expected_seq, F,
                 FinIn(From(Peer(e))), ctl[Peer(e)].peer_fin_seen)
  BY DEF Control
<1>5. (FinIn(From(e)) => F) /\ SaysOf(M, e, d.peer_fin_seen, F)
  OBVIOUS
<1> HIDE DEF r, k, w, F
<1> QED
  BY <1>1, <1>2, <1>3, <1>4, <1>5, CloseStep

\* send()
LEMMA SendClose ==
    ASSUME IndInv, CloseInv, IndInv', SegmentInv', NEW e \in Endpoint,
           NEW n \in Nat, Send(e, n)
    PROVE  CloseInv'
<1> DEFINE s == [snd[e] EXCEPT !.send_queue = @ \o Bytes(written[e], n)]
           c == ctl[e]
           D == DrainOut(e, c, s, rcv[e])
           w == written[e] + n
<1>1. /\ ctl' = [ctl EXCEPT ![e] = DrainCtl(c, s)]
      /\ snd' = [snd EXCEPT ![e] = DrainSnd(c, s)]
      /\ net' = net \cup ({} \cup D) /\ rcv' = rcv /\ closedAt' = closedAt
      /\ written' = [written EXCEPT ![e] = w]
  BY DEF Send
<1> HIDE DEF s
<1>2. /\ c \in CtlType /\ written[e] \in Nat /\ closedAt[e] \in Nat
      /\ rcv = [rcv EXCEPT ![e] = rcv[e]] /\ rcv[e].expected_seq \in Nat
      /\ closedAt = [closedAt EXCEPT ![e] = closedAt[e]]
  BY Local DEF RcvType
<1>3. w \in Nat /\ rcv[e].expected_seq <= rcv[e].expected_seq
  BY <1>2
<1>4. Control(e, c, closedAt[e], w)
  BY <1>2, LocalClose DEF Control, ControlInv
<1>5. SaysOf({}, e, c.peer_fin_seen, c.fin_pending # 0)
  BY ControlSays
<1> HIDE DEF c, w, D
<1> QED
  BY <1>1, <1>2, <1>3, <1>4, <1>5, DrainClose DEF c, D

\* close(): what has been written by now counts, unless it was called before.
LEMMA CloseClose ==
    ASSUME IndInv, CloseInv, IndInv', SegmentInv', NEW e \in Endpoint, Close(e)
    PROVE  CloseInv'
<1> DEFINE c == [ctl[e] EXCEPT !.close_requested = TRUE]
           s == snd[e]
           D == DrainOut(e, c, s, rcv[e])
           k == IF ctl[e].close_requested THEN closedAt[e] ELSE written[e]
<1>1. /\ ctl' = [ctl EXCEPT ![e] = DrainCtl(c, s)]
      /\ snd' = [snd EXCEPT ![e] = DrainSnd(c, s)]
      /\ net' = net \cup ({} \cup D) /\ rcv' = rcv /\ written' = written
      /\ closedAt' = [closedAt EXCEPT ![e] = k]
  BY DEF Close
<1>2. /\ ctl[e] \in CtlType /\ written[e] \in Nat /\ closedAt[e] \in Nat
      /\ rcv = [rcv EXCEPT ![e] = rcv[e]] /\ rcv[e].expected_seq \in Nat
      /\ written = [written EXCEPT ![e] = written[e]]
  BY Local DEF RcvType
<1>3. k \in Nat /\ rcv[e].expected_seq <= rcv[e].expected_seq
  BY <1>2
<1>4. /\ c \in CtlType /\ c.peer_fin_seen = ctl[e].peer_fin_seen /\ c.close_requested
      /\ c.state = ctl[e].state /\ c.fin_pending = ctl[e].fin_pending
      /\ c.fin_acked = ctl[e].fin_acked
  BY <1>2 DEF CtlType
<1> HIDE DEF c
<1>5. Control(e, c, k, written[e])
  BY <1>2, <1>4, LocalClose DEF Control, ControlInv
<1>6. SaysOf({}, e, c.peer_fin_seen, c.fin_pending # 0)
  BY ControlSays
<1> HIDE DEF s, k, D
<1> QED
  BY <1>1, <1>2, <1>3, <1>4, <1>5, <1>6, DrainClose DEF D

\* recv()
LEMMA RecvClose ==
    ASSUME IndInv, CloseInv, NEW e \in Endpoint, Recv(e)
    PROVE  CloseInv'
<1> DEFINE r == [rcv[e] EXCEPT !.delivered = << >>]
<1>1. /\ rcv' = [rcv EXCEPT ![e] = r] /\ net' = net \cup {}
      /\ ctl' = [ctl EXCEPT ![e] = ctl[e]]
      /\ closedAt' = [closedAt EXCEPT ![e] = closedAt[e]]
      /\ written' = [written EXCEPT ![e] = written[e]]
  BY Local DEF Recv, IndInv, TypeOK
<1>2. r.expected_seq = rcv[e].expected_seq /\ rcv[e].expected_seq \in Nat
  BY Local DEF RcvType
<1> HIDE DEF r
<1>3. r.expected_seq \in Nat /\ rcv[e].expected_seq <= r.expected_seq
  BY <1>2
<1>4. SaysOf({}, e, ctl[e].peer_fin_seen, FinIn(From(e)))
  BY ControlSays
<1> QED
  BY <1>1, <1>3, <1>4, LocalClose, CloseStep DEF Control

\* on_datagram when nothing but the window is adopted
LEMMA AdoptClose ==
    ASSUME IndInv, CloseInv, NEW e \in Endpoint, NEW m,
           ReAckFin(e, m) \/ OnSyn(e, m) \/ Ignore(e, m)
    PROVE  CloseInv'
<1> DEFINE F == FinIn(From(e))
           c == ctl[e]
           o == [c EXCEPT !.state = "SynReceived", !.handshake = 1]
<1>1. /\ rcv' = rcv /\ closedAt' = closedAt /\ written' = written
      /\ ctl = [ctl EXCEPT ![e] = c] /\ c \in CtlType
      /\ ctl \in [Endpoint -> CtlType]
  BY Local DEF ReAckFin, OnSyn, Ignore, IndInv, TypeOK
<1>2. Control(e, c, closedAt[e], written[e])
  BY LocalClose
<1>3. CASE ReAckFin(e, m)
  <2>1. ctl' = [ctl EXCEPT ![e] = c] /\ net' = net \cup {PureAck(e, snd[e], rcv[e], TRUE)}
    BY <1>1, <1>3 DEF ReAckFin
  <2>2. c.peer_fin_seen
    BY <1>2, <1>3 DEF ReAckFin, Control, ControlInv
  <2>3. SaysOf({PureAck(e, snd[e], rcv[e], TRUE)}, e, c.peer_fin_seen, F)
    BY <2>2, ControlSays
  <2> QED
    BY <1>1, <1>2, <2>1, <2>3, QuietClose DEF NothingReceived
<1>4. CASE Ignore(e, m)
  <2>1. ctl' = [ctl EXCEPT ![e] = c] /\ net' = net \cup {}
    BY <1>1, <1>4 DEF Ignore
  <2>2. SaysOf({}, e, c.peer_fin_seen, F)
    BY ControlSays
  <2> QED
    BY <1>1, <1>2, <2>1, <2>2, QuietClose DEF NothingReceived
<1>5. CASE OnSyn(e, m)
  <2> DEFINE M == {SynAck(e, rcv[e])}
  <2>1. /\ \/ ctl' = [ctl EXCEPT ![e] = o] /\ c.state = "Listening"
           \/ ctl' = [ctl EXCEPT ![e] = c]
        /\ net' = net \cup M
    BY ZenonT(30), <1>1, <1>5 DEF OnSyn
  <2>2. o.peer_fin_seen = c.peer_fin_seen
    BY <1>1 DEF CtlType
  <2>3. c.state = "Listening" => Control(e, o, closedAt[e], written[e])
    BY ZenonT(30), <1>1, <1>2, ControlOps DEF Control
  <2>4. SaysOf(M, e, c.peer_fin_seen, F)
    BY ControlSays
  <2> HIDE DEF o, M
  <2>5. CASE ctl' = [ctl EXCEPT ![e] = o] /\ c.state = "Listening"
    BY <1>1, <2>1, <2>2, <2>3, <2>4, <2>5, QuietClose DEF NothingReceived
  <2>6. CASE ctl' = [ctl EXCEPT ![e] = c]
    BY <1>1, <1>2, <2>1, <2>4, <2>6, QuietClose DEF NothingReceived
  <2> QED
    BY <2>1, <2>5, <2>6
<1> QED
  BY <1>3, <1>4, <1>5

\* on_datagram never takes back what the receive side has.
LEMMA ProcessGotOn ==
    ASSUME IndInv, SegmentInv, NEW e \in Endpoint, NEW m, Arrives(e, m)
    PROVE  GotOn(rcv[e], DeliverData(rcv[e], m.seq, m.data))
<1> DEFINE C == Extents(From(Peer(e)))
           n == snd[Peer(e)].next_seq
           r == rcv[e]
<1>1. /\ m.seq \in Nat /\ m.data \in Seq(Nat)
      /\ m.data # << >> => IsPartWithin(m.data, m.seq, n)
      /\ m \in From(Peer(e))
  BY ArrivesFacts DEF Arrives, From
<1>2. RcvType(r) /\ RcvInv(r, received[e], n) /\ n \in Nat
  BY Local
<1>3. Pieces(C) /\ ReceiverInv(r, C)
  BY LocalSegments DEF DirectionInv
<1>4. m.data # << >> => <<m.seq, m.seq + Len(m.data)>> \in C
  BY <1>1 DEF Extents
<1> QED
  BY <1>1, <1>2, <1>3, <1>4, DeliverReceiver DEF GotOn

\* on_datagram, the shared block: the peer's FIN is seen, its fin_ack
\* believed, and the own FIN sent.
LEMMA ProcessClose ==
    ASSUME IndInv, SegmentInv, CloseInv, IndInv', SegmentInv',
           NEW e \in Endpoint, NEW m, Process(e, m)
    PROVE  CloseInv'
<1> DEFINE c0  == CompleteHandshake(ctl[e], m)
           s0  == AdoptWindow(snd[e], m)
           ack == "ACK" \in m.flags
           fin == "FIN" \in m.flags
           c1  == IF ack THEN AckCtl(c0, s0, m.header) ELSE c0
           s1  == IF ack THEN AckSnd(s0, m.header) ELSE s0
           r   == rcv[e]
           r1  == DeliverData(r, m.seq, m.data)
           c2  == [c1 EXCEPT !.peer_fin_seen = c1.peer_fin_seen \/ fin]
           p   == Peer(e)
           M1  == IF {"SYN", "ACK"} \subseteq m.flags
                    THEN {HandshakeAck(e, r)} ELSE {}
           M2  == IF ack THEN AckOut(e, s0, r, m.header) ELSE {}
           M3  == IF m.data # << >> \/ fin THEN {PureAck(e, s1, r1, fin)} ELSE {}
           A   == M1 \cup M2 \cup M3
           k   == closedAt[e]
           w   == written[e]
<1>1. /\ Arrives(e, m) /\ c0.state \in Open
      /\ ctl' = [ctl EXCEPT ![e] = DrainCtl(c2, s1)]
      /\ snd' = [snd EXCEPT ![e] = DrainSnd(c2, s1)]
      /\ rcv' = [rcv EXCEPT ![e] = r1]
      /\ net' = net \cup (A \cup DrainOut(e, c2, s1, r1))
      /\ closedAt' = closedAt /\ written' = written
  BY DEF Process, Open
<1>2. m \in From(p) /\ fin \in BOOLEAN
  BY <1>1 DEF Arrives, From
<1>3. /\ ctl[e] \in CtlType /\ k \in Nat /\ w \in Nat /\ r.expected_seq \in Nat
      /\ closedAt = [closedAt EXCEPT ![e] = k] /\ written = [written EXCEPT ![e] = w]
  BY Local DEF RcvType
<1>4. (fin => FinIn(From(p))) /\ (m.header.fin_ack => ctl[p].peer_fin_seen)
  BY <1>2, LocalClose DEF FinIn, ClosingSent
<1>5. c0 \in CtlType /\ Control(e, c0, k, w) /\ c0.peer_fin_seen = ctl[e].peer_fin_seen
  <2>1. c0.peer_fin_seen = ctl[e].peer_fin_seen
    BY <1>3 DEF CompleteHandshake, CtlType
  <2>2. Control(e, c0, k, w)
    BY ZenonT(30), <1>3, LocalClose, ControlOps DEF Control
  <2> QED
    BY ZenonT(30), <1>3, <2>1, <2>2, CtlOps
<1> HIDE DEF c0, s0
<1>6. c1 \in CtlType /\ Control(e, c1, k, w) /\ c1.peer_fin_seen = ctl[e].peer_fin_seen
  BY <1>1, <1>4, <1>5, AckCtlType, AckControl DEF Control
<1> HIDE DEF c1, s1, fin
<1>7. /\ c2 \in CtlType /\ Control(e, c2, k, w)
      /\ c2.peer_fin_seen = (c1.peer_fin_seen \/ fin)
  <2>1. c2 \in CtlType /\ c2.peer_fin_seen = (c1.peer_fin_seen \/ fin)
    BY <1>2, <1>6 DEF CtlType
  <2>2. Control(e, c2, k, w)
    <3>1. /\ c2.state = c1.state /\ c2.close_requested = c1.close_requested
          /\ c2.fin_pending = c1.fin_pending /\ c2.fin_acked = c1.fin_acked
      BY <1>6 DEF CtlType
    <3> HIDE DEF c2
    <3> QED
      BY <1>4, <1>6, <2>1, <3>1 DEF Control, ControlInv
  <2> QED
    BY <2>1, <2>2
<1> HIDE DEF c2
<1>8. r1.expected_seq \in Nat /\ r.expected_seq <= r1.expected_seq
  <2>1. rcv'[e] = r1
    BY <1>1 DEF IndInv, TypeOK
  <2>2. RcvType(rcv'[e])
    BY DEF IndInv, TypeOK
  <2>3. r1.expected_seq \in Nat
    BY <2>1, <2>2 DEF RcvType
  <2>4. GotOn(r, r1)
    BY <1>1, ProcessGotOn
  <2> QED
    BY <1>3, <2>3, <2>4 DEF GotOn
<1> HIDE DEF r1
<1>9. SaysOf(A, e, c2.peer_fin_seen, c2.fin_pending # 0)
  <2> DEFINE seen == c2.peer_fin_seen
             F == c2.fin_pending # 0
  <2>1. fin => seen
    BY <1>7
  <2> HIDE DEF seen, F
  <2>2. SaysOf({}, e, seen, F)
    BY ControlSays
  <2>3. SaysOf(M1, e, seen, F)
    BY <2>2, ControlSays
  <2>4. SaysOf(M2, e, seen, F)
    <3>1. {DataFrame(e, Oldest(s0), s0, r)} = Frames(e, {Oldest(s0)}, s0, r)
      BY DEF Frames
    <3>2. SaysOf({DataFrame(e, Oldest(s0), s0, r)}, e, seen, F)
      BY <3>1, DataSays
    <3> QED
      BY <2>2, <3>2 DEF AckOut
  <2>5. SaysOf(M3, e, seen, F)
    BY <2>1, <2>2, ControlSays
  <2> HIDE DEF M1, M2, M3
  <2>6. SaysOf(A, e, seen, F)
    BY <2>3, <2>4, <2>5 DEF SaysOf, ClosingSent, FinIn
  <2> QED
    BY <2>6 DEF seen, F
<1> HIDE DEF A
<1>10. ctl[e].peer_fin_seen => c2.peer_fin_seen
  BY <1>6, <1>7
<1>11. rcv[e].expected_seq <= r1.expected_seq
  BY <1>8
<1>12. closedAt' = [closedAt EXCEPT ![e] = k] /\ written' = [written EXCEPT ![e] = w]
  BY <1>1, <1>3
<1> HIDE DEF k, w
<1> QED
  BY <1>1, <1>3, <1>7, <1>8, <1>9, <1>10, <1>11, <1>12, DrainClose

\* on_tick
LEMMA TickClose ==
    ASSUME IndInv, CloseInv, IndInv', SegmentInv', NEW e \in Endpoint, OnTick(e)
    PROVE  CloseInv'
<1> DEFINE F == FinIn(From(e))
           c == ctl[e]
           r == rcv[e]
           k == closedAt[e]
           w == written[e]
<1>1. /\ ctl = [ctl EXCEPT ![e] = c] /\ c \in CtlType
      /\ ctl \in [Endpoint -> CtlType] /\ k \in Nat /\ w \in Nat
      /\ rcv = [rcv EXCEPT ![e] = r] /\ r.expected_seq \in Nat
      /\ closedAt = [closedAt EXCEPT ![e] = k] /\ written = [written EXCEPT ![e] = w]
  BY Local DEF IndInv, TypeOK, RcvType
<1>2. Control(e, c, k, w)
  BY LocalClose
<1>3. CASE HandshakeTimeout(e)
  <2> DEFINE failed == [c EXCEPT !.state = "Failed", !.handshake = 0]
             again  == [c EXCEPT !.handshake = c.handshake + 1]
             M == {IF c.state = "SynSent" THEN Syn(e, r) ELSE SynAck(e, r)}
  <2>1. /\ rcv' = rcv /\ closedAt' = closedAt /\ written' = written
        /\ \/ ctl' = [ctl EXCEPT ![e] = failed] /\ net' = net \cup {}
           \/ ctl' = [ctl EXCEPT ![e] = again] /\ net' = net \cup M
    BY ZenonT(30), <1>1, <1>3 DEF HandshakeTimeout
  <2>2. failed.peer_fin_seen = c.peer_fin_seen /\ again.peer_fin_seen = c.peer_fin_seen
    BY <1>1 DEF CtlType
  <2>3. Control(e, failed, k, w) /\ Control(e, again, k, w)
    BY ZenonT(30), <1>1, <1>2, ControlOps DEF Control
  <2>4. SaysOf({}, e, c.peer_fin_seen, F) /\ SaysOf(M, e, c.peer_fin_seen, F)
    BY ControlSays
  <2> HIDE DEF failed, again, M
  <2>5. CASE ctl' = [ctl EXCEPT ![e] = failed] /\ net' = net \cup {}
    BY <2>1, <2>2, <2>3, <2>4, <2>5, QuietClose DEF NothingReceived
  <2>6. CASE ctl' = [ctl EXCEPT ![e] = again] /\ net' = net \cup M
    BY <2>1, <2>2, <2>3, <2>4, <2>6, QuietClose DEF NothingReceived
  <2> QED
    BY <2>1, <2>5, <2>6
<1>4. CASE GiveUpData(e)
  <2> DEFINE failed == [c EXCEPT !.state = "Failed"]
             M == Frames(e, Unsacked(snd[e]), snd[e], r)
  <2>1. /\ rcv' = rcv /\ closedAt' = closedAt /\ written' = written
        /\ ctl' = [ctl EXCEPT ![e] = failed] /\ net' = net \cup M
    BY <1>1, <1>4 DEF GiveUpData, Frames
  <2>2. failed.peer_fin_seen = c.peer_fin_seen
    BY <1>1 DEF CtlType
  <2>3. Control(e, failed, k, w)
    BY ZenonT(30), <1>1, <1>2, ControlOps DEF Control
  <2>4. SaysOf(M, e, c.peer_fin_seen, F)
    BY DataSays
  <2> HIDE DEF failed, M
  <2> QED
    BY <2>1, <2>2, <2>3, <2>4, QuietClose DEF NothingReceived
<1>5. ASSUME NEW x \in BOOLEAN, NEW f \in BOOLEAN, Tick(e, x, f)
      PROVE  CloseInv'
  <2> DEFINE s == IF x THEN DataTimeout(snd[e]) ELSE snd[e]
             n == IF f THEN c.fin_pending + 1 ELSE c.fin_pending
             d == [c EXCEPT !.fin_pending = n]
             failed == [c EXCEPT !.state = "Failed", !.fin_pending = 0]
             A == IF x THEN Frames(e, Unsacked(snd[e]), snd[e], r) ELSE {}
             B == IF f THEN {Fin(e, s, r)} ELSE {}
  <2>1. /\ rcv' = rcv /\ closedAt' = closedAt /\ written' = written
        /\ f => c.fin_pending # 0
        /\ \/ ctl' = [ctl EXCEPT ![e] = failed] /\ net' = net \cup A
           \/ /\ ctl' = [ctl EXCEPT ![e] = DrainCtl(d, s)]
              /\ snd' = [snd EXCEPT ![e] = DrainSnd(d, s)]
              /\ net' = net \cup A \cup B \cup DrainOut(e, d, s, r)
    <3>1. [ctl EXCEPT ![e].state = "Failed", ![e].fin_pending = 0]
            = [ctl EXCEPT ![e] = failed]
      BY ZenonT(30), <1>1
    <3> HIDE DEF failed
    <3> QED
      BY <1>5, <3>1 DEF Tick, Frames
  <2>2. n \in Nat /\ (f => n # 0)
    BY <1>1 DEF CtlType
  <2>3. d \in CtlType /\ Control(e, d, k, w)
    <3>1. CASE f
      <4> HIDE DEF n
      <4>1. d \in CtlType
        BY <1>1, <2>2 DEF CtlType
      <4> QED
        BY ZenonT(30), <1>1, <1>2, <2>1, <2>2, <3>1, <4>1, ControlOps DEF Control
    <3>2. CASE ~f
      <4>1. d = c
        BY <1>1, <3>2 DEF CtlType
      <4> QED
        BY <1>1, <1>2, <4>1
    <3> QED
      BY <3>1, <3>2
  <2>4. /\ failed.peer_fin_seen = c.peer_fin_seen
        /\ d.peer_fin_seen = c.peer_fin_seen /\ d.fin_pending = n
    BY SMTT(30), <1>1 DEF CtlType
  <2>5. Control(e, failed, k, w)
    BY ZenonT(30), <1>1, <1>2, ControlOps DEF Control
  <2>6. SaysOf(A, e, c.peer_fin_seen, F) /\ SaysOf(A, e, c.peer_fin_seen, d.fin_pending # 0)
    BY DataSays, ControlSays
  <2>7. SaysOf(B, e, c.peer_fin_seen, d.fin_pending # 0)
    BY <2>2, <2>4, ControlSays
  <2> HIDE DEF failed, s, n, d, A, B
  <2>8. CASE ctl' = [ctl EXCEPT ![e] = failed] /\ net' = net \cup A
    BY <2>1, <2>4, <2>5, <2>6, <2>8, QuietClose DEF NothingReceived
  <2>9. CASE /\ ctl' = [ctl EXCEPT ![e] = DrainCtl(d, s)]
             /\ snd' = [snd EXCEPT ![e] = DrainSnd(d, s)]
             /\ net' = net \cup A \cup B \cup DrainOut(e, d, s, r)
    <3> DEFINE D == DrainOut(e, d, s, r)
               M == A \cup B
    <3>1. SaysOf(M, e, d.peer_fin_seen, d.fin_pending # 0)
      BY <2>4, <2>6, <2>7 DEF SaysOf, ClosingSent, FinIn
    <3>2. net' = net \cup (M \cup D)
      BY <2>9
    <3>3. rcv[e].expected_seq <= r.expected_seq /\ r.expected_seq \in Nat
      BY <1>1
    <3>4. /\ rcv' = [rcv EXCEPT ![e] = r] /\ closedAt' = [closedAt EXCEPT ![e] = k]
          /\ written' = [written EXCEPT ![e] = w] /\ k \in Nat /\ w \in Nat
      BY <1>1, <2>1
    <3>5. ctl[e].peer_fin_seen => d.peer_fin_seen
      BY <2>4
    <3> HIDE DEF M, k, w, r
    <3> QED
      BY <2>3, <2>9, <3>1, <3>2, <3>3, <3>4, <3>5, DrainClose
  <2> QED
    BY <2>1, <2>8, <2>9
<1> QED
  BY <1>3, <1>4, <1>5 DEF OnTick

\* The closing invariant is inductive.
LEMMA NextClose ==
    IndInv /\ SegmentInv /\ CloseInv /\ [Next]_vars => CloseInv'
<1> SUFFICES ASSUME IndInv, SegmentInv, CloseInv, [Next]_vars PROVE CloseInv'
  OBVIOUS
<1>1. CASE UNCHANGED vars
  BY <1>1 DEF vars, CloseInv, From
<1>2. CASE Next
  <2>1. IndInv' /\ SegmentInv'
    BY NextOK, NextSeg
  <2>2. ASSUME NEW e \in Endpoint, NEW n \in 1 .. MaxBytes[e], Send(e, n)
        PROVE  CloseInv'
    <3>1. n \in Nat
      BY WorkloadAssumption
    <3> QED
      BY <2>1, <2>2, <3>1, SendClose
  <2>3. ASSUME NEW e \in Endpoint, OnDatagram(e)
        PROVE  CloseInv'
    BY <2>1, <2>3, AdoptClose, ProcessClose DEF OnDatagram
  <2> QED
    BY <1>2, <2>1, <2>2, <2>3, CloseClose, RecvClose, TickClose DEF Next
<1> QED
  BY <1>1, <1>2

\* At first nobody has closed.
LEMMA InitClose == Init => CloseInv
<1> SUFFICES ASSUME Init, NEW e \in Endpoint
             PROVE  /\ ControlInv(ctl[e], closedAt[e], written[e],
                                  rcv[Peer(e)].expected_seq, FinIn(From(e)),
                                  FinIn(From(Peer(e))), ctl[Peer(e)].peer_fin_seen)
                    /\ ClosingSent(From(e), ctl[e].peer_fin_seen)
  BY DEF CloseInv
<1> DEFINE c == ctl[e]
           m == Syn("client", BlankRcv)
<1>1. /\ ~c.close_requested /\ c.fin_pending = 0 /\ ~c.fin_acked
      /\ ~c.peer_fin_seen /\ c.state \in {"SynSent", "Listening"}
  BY DEF Init, ConnectCtl, BlankCtl
<1>2. m.flags = {"SYN"} /\ ~ m.header.fin_ack
  BY DEF Syn, Datagram, Header
<1>3. \A x \in From(e) : x = m
  BY DEF Init, From
<1> HIDE DEF c, m
<1>4. ~FinIn(From(e)) /\ ClosingSent(From(e), c.peer_fin_seen)
  BY <1>2, <1>3 DEF FinIn, ClosingSent
<1> QED
  BY <1>1, <1>4 DEF ControlInv, c

\* Who has sent a FIN has delivered all it was given before close(), and a
\* FIN counts as acknowledged, or as seen, only when it was.
THEOREM CloseInvariance == Spec => []CloseInv
<1>1. Init => IndInv /\ SegmentInv /\ CloseInv
  BY InitOK, InitSeg, InitClose
<1>2. IndInv /\ SegmentInv /\ CloseInv /\ [Next]_vars
        => (IndInv /\ SegmentInv /\ CloseInv)'
  BY NextOK, NextSeg, NextClose
<1> QED
  BY <1>1, <1>2, PTL DEF Spec

\* close() is graceful: a connection is Closed only when either side has all
\* that the other was given before it closed.
THEOREM GracefulCloseHolds == Spec => []GracefulClose
<1>1. ASSUME IndInv, CloseInv PROVE GracefulClose
  <2> SUFFICES ASSUME NEW e \in Endpoint, ctl[e].state = "Closed"
               PROVE  /\ rcv[Peer(e)].expected_seq >= closedAt[e]
                      /\ rcv[e].expected_seq >= closedAt[Peer(e)]
                      /\ ctl[Peer(e)].peer_fin_seen
                      /\ ctl[Peer(e)].state \in {"Closing", "Closed", "Failed"}
    BY DEF GracefulClose
  <2> DEFINE p == Peer(e)
  <2>1. p \in Endpoint /\ Peer(p) = e
    BY PeerFacts
  <2>2. /\ Control(e, ctl[e], closedAt[e], written[e])
        /\ Control(p, ctl[p], closedAt[p], written[p])
    BY <1>1, <2>1, LocalClose
  <2>3. /\ closedAt[e] \in Nat /\ closedAt[p] \in Nat
        /\ rcv[e].expected_seq \in Nat /\ rcv[p].expected_seq \in Nat
    BY <1>1, <2>1, Local DEF RcvType
  <2>4. /\ closedAt[e] <= rcv[p].expected_seq /\ ctl[p].peer_fin_seen
        /\ FinIn(From(p))
    BY <2>2 DEF Control, ControlInv
  <2>5. /\ closedAt[p] <= rcv[e].expected_seq
        /\ ctl[p].state \in {"Closing", "Closed", "Failed"}
    BY <2>1, <2>2, <2>4 DEF Control, ControlInv
  <2> QED
    BY <2>3, <2>4, <2>5
<1> QED
  BY <1>1, Invariance, CloseInvariance, PTL

-----------------------------------------------------------------------------
(* Two connections implement ReliableStream *)

\* The variables of ReliableStream that are not variables of Transport.
Closed == [e \in Endpoint |-> ctl[e].close_requested]

Arrived == [e \in Endpoint |-> rcv[e].expected_seq]

Eof == [e \in Endpoint |-> ctl[e].peer_fin_seen]

\* The steps of ReliableStream in these terms.
LEMMA Writes ==
    ASSUME NEW e \in Endpoint, written'[e] \in Nat, written'[e] > written[e],
           written' = [written EXCEPT ![e] = written'[e]],
           UNCHANGED <<Closed, closedAt, Arrived, received, Eof>>
    PROVE  RS!Write(e)
BY DEF RS!Write, Closed, Arrived, Eof

LEMMA Closes ==
    ASSUME NEW e \in Endpoint, ~Closed[e], Closed' = [Closed EXCEPT ![e] = TRUE],
           closedAt' = [closedAt EXCEPT ![e] = written[e]],
           UNCHANGED <<written, Arrived, received, Eof>>
    PROVE  RS!CloseStream(e)
BY DEF RS!CloseStream, Closed, Arrived, Eof

LEMMA Arriving ==
    ASSUME NEW e \in Endpoint, NEW a \in (Arrived[e] + 1) .. written[Peer(e)],
           Arrived' = [Arrived EXCEPT ![e] = a],
           UNCHANGED <<written, Closed, closedAt, received, Eof>>
    PROVE  RS!Arrive(e)
BY DEF RS!Arrive, Closed, Arrived, Eof

LEMMA Ends ==
    ASSUME NEW e \in Endpoint, Closed[Peer(e)], Arrived[e] >= closedAt[Peer(e)],
           Eof' = [Eof EXCEPT ![e] = TRUE],
           UNCHANGED <<written, Closed, closedAt, Arrived, received>>
    PROVE  RS!EndOfStream(e)
BY DEF RS!EndOfStream, Closed, Arrived, Eof

LEMMA Reads ==
    ASSUME NEW e \in Endpoint,
           received' = [received EXCEPT ![e] = [i \in 1 .. Arrived[e] |-> i]],
           UNCHANGED <<written, Closed, closedAt, Arrived, Eof>>
    PROVE  RS!Read(e)
BY DEF RS!Read, Closed, Arrived, Eof

LEMMA Stutters ==
    ASSUME UNCHANGED <<written, Closed, closedAt, Arrived, received, Eof>>
    PROVE  UNCHANGED RS!vars
BY DEF RS!vars, Closed, Arrived, Eof

\* A function of the endpoints changes at e only.
LEMMA OneChanged ==
    ASSUME NEW f, NEW g, NEW e \in Endpoint,
           f = [x \in Endpoint |-> f[x]], g = [x \in Endpoint |-> g[x]],
           \A x \in Endpoint \ {e} : g[x] = f[x]
    PROVE  g = [f EXCEPT ![e] = g[e]] /\ (g[e] = f[e] => g = f)
OBVIOUS

\* Steps of e in these terms.
LEMMA Mapped ==
    ASSUME IndInv, NEW e \in Endpoint, NEW d, NEW r,
           ctl' = [ctl EXCEPT ![e] = d], rcv' = [rcv EXCEPT ![e] = r]
    PROVE  /\ Closed' = [Closed EXCEPT ![e] = d.close_requested]
           /\ Eof' = [Eof EXCEPT ![e] = d.peer_fin_seen]
           /\ Arrived' = [Arrived EXCEPT ![e] = r.expected_seq]
           /\ d.close_requested = ctl[e].close_requested => Closed' = Closed
           /\ d.peer_fin_seen = ctl[e].peer_fin_seen => Eof' = Eof
           /\ r.expected_seq = rcv[e].expected_seq => Arrived' = Arrived
<1>1. /\ ctl'[e] = d /\ \A x \in Endpoint \ {e} : ctl'[x] = ctl[x]
      /\ rcv'[e] = r /\ \A x \in Endpoint \ {e} : rcv'[x] = rcv[x]
  BY DEF IndInv, TypeOK
<1>2. /\ Closed' = [x \in Endpoint |-> ctl'[x].close_requested]
      /\ Eof' = [x \in Endpoint |-> ctl'[x].peer_fin_seen]
      /\ Arrived' = [x \in Endpoint |-> rcv'[x].expected_seq]
  BY DEF Closed, Eof, Arrived
<1>3. /\ Closed = [x \in Endpoint |-> Closed[x]] /\ Closed' = [x \in Endpoint |-> Closed'[x]]
      /\ Eof = [x \in Endpoint |-> Eof[x]] /\ Eof' = [x \in Endpoint |-> Eof'[x]]
      /\ Arrived = [x \in Endpoint |-> Arrived[x]]
      /\ Arrived' = [x \in Endpoint |-> Arrived'[x]]
  BY <1>2 DEF Closed, Eof, Arrived
<1>4. /\ Closed[e] = ctl[e].close_requested /\ Closed'[e] = d.close_requested
      /\ Eof[e] = ctl[e].peer_fin_seen /\ Eof'[e] = d.peer_fin_seen
      /\ Arrived[e] = rcv[e].expected_seq /\ Arrived'[e] = r.expected_seq
  BY <1>1, <1>2 DEF Closed, Eof, Arrived
<1>5. \A x \in Endpoint \ {e} :
        Closed'[x] = Closed[x] /\ Eof'[x] = Eof[x] /\ Arrived'[x] = Arrived[x]
  BY <1>1, <1>2 DEF Closed, Eof, Arrived
<1>6. /\ Closed' = [Closed EXCEPT ![e] = Closed'[e]]
      /\ Closed'[e] = Closed[e] => Closed' = Closed
  BY <1>3, <1>5, OneChanged
<1>7. /\ Eof' = [Eof EXCEPT ![e] = Eof'[e]]
      /\ Eof'[e] = Eof[e] => Eof' = Eof
  BY <1>3, <1>5, OneChanged
<1>8. /\ Arrived' = [Arrived EXCEPT ![e] = Arrived'[e]]
      /\ Arrived'[e] = Arrived[e] => Arrived' = Arrived
  BY <1>3, <1>5, OneChanged
<1> QED
  BY <1>4, <1>6, <1>7, <1>8

\* A step that leaves the control state and the receive side as they are, as
\* far as ReliableStream sees them.
LEMMA QuietMapped ==
    ASSUME IndInv, NEW e \in Endpoint, NEW d,
           ctl' = [ctl EXCEPT ![e] = d], rcv' = rcv,
           d.close_requested = ctl[e].close_requested,
           d.peer_fin_seen = ctl[e].peer_fin_seen
    PROVE  Closed' = Closed /\ Eof' = Eof /\ Arrived' = Arrived
<1>1. rcv' = [rcv EXCEPT ![e] = rcv[e]]
  BY Local
<1> QED
  BY <1>1, Mapped

\* The methods that leave the two flags alone.
LEMMA FlagsKept ==
    ASSUME NEW c \in CtlType
    PROVE  /\ \A s : /\ DrainCtl(c, s).close_requested = c.close_requested
                     /\ DrainCtl(c, s).peer_fin_seen = c.peer_fin_seen
           /\ \A m : /\ CompleteHandshake(c, m).close_requested = c.close_requested
                     /\ CompleteHandshake(c, m).peer_fin_seen = c.peer_fin_seen
           /\ \A s, h : /\ AckCtl(c, s, h).close_requested = c.close_requested
                        /\ AckCtl(c, s, h).peer_fin_seen = c.peer_fin_seen
<1>1. ASSUME NEW d \in CtlType
      PROVE  /\ CheckFullyClosed(d).close_requested = d.close_requested
             /\ CheckFullyClosed(d).peer_fin_seen = d.peer_fin_seen
  BY DEF CheckFullyClosed, CtlType
<1>2. ASSUME NEW s
      PROVE  /\ DrainCtl(c, s).close_requested = c.close_requested
             /\ DrainCtl(c, s).peer_fin_seen = c.peer_fin_seen
  <2> DEFINE d == MaybeSendFin(c, TrySendMore(c, s))
  <2>1. /\ d \in CtlType /\ d.close_requested = c.close_requested
        /\ d.peer_fin_seen = c.peer_fin_seen
    BY CtlOps DEF MaybeSendFin, CtlType
  <2> HIDE DEF d
  <2> QED
    BY <1>1, <2>1 DEF DrainCtl, d
<1>3. \A m : /\ CompleteHandshake(c, m).close_requested = c.close_requested
            /\ CompleteHandshake(c, m).peer_fin_seen = c.peer_fin_seen
  BY DEF CompleteHandshake, CtlType
<1>4. ASSUME NEW s, NEW h
      PROVE  /\ AckCtl(c, s, h).close_requested = c.close_requested
             /\ AckCtl(c, s, h).peer_fin_seen = c.peer_fin_seen
  <2> DEFINE d == [c EXCEPT !.fin_acked = TRUE, !.fin_pending = 0]
  <2>1. /\ d \in CtlType /\ d.close_requested = c.close_requested
        /\ d.peer_fin_seen = c.peer_fin_seen
    BY DEF CtlType
  <2> HIDE DEF d
  <2> QED
    BY <1>1, <2>1 DEF AckCtl, d
<1> QED
  BY <1>2, <1>3, <1>4

\* send() writes.
LEMMA SendRefines ==
    ASSUME IndInv, NEW e \in Endpoint, NEW n \in Nat \ {0}, Send(e, n)
    PROVE  RS!Write(e)
<1>1. ctl[e] \in CtlType /\ written[e] \in Nat /\ written \in [Endpoint -> Nat]
  BY Local DEF IndInv, TypeOK
<1>2. PICK s : ctl' = [ctl EXCEPT ![e] = DrainCtl(ctl[e], s)]
  BY DEF Send
<1>3. /\ rcv' = rcv /\ closedAt' = closedAt /\ received' = received
      /\ written' = [written EXCEPT ![e] = written[e] + n]
  BY DEF Send
<1>4. Closed' = Closed /\ Eof' = Eof /\ Arrived' = Arrived
  BY <1>1, <1>2, <1>3, FlagsKept, QuietMapped
<1>5. written'[e] = written[e] + n
  BY <1>1, <1>3
<1>6. written'[e] \in Nat /\ written'[e] > written[e]
  BY <1>1, <1>5
<1> QED
  BY <1>3, <1>4, <1>5, <1>6, Writes

\* close() closes the stream, the first time.
LEMMA CloseRefines ==
    ASSUME IndInv, NEW e \in Endpoint, Close(e)
    PROVE  RS!CloseStream(e) \/ UNCHANGED RS!vars
<1> DEFINE c == [ctl[e] EXCEPT !.close_requested = TRUE]
           d == DrainCtl(c, snd[e])
<1>1. /\ ctl[e] \in CtlType /\ rcv = [rcv EXCEPT ![e] = rcv[e]]
      /\ closedAt = [closedAt EXCEPT ![e] = closedAt[e]]
  BY Local
<1>2. /\ ctl' = [ctl EXCEPT ![e] = d] /\ rcv' = rcv
      /\ closedAt' = [closedAt EXCEPT
                         ![e] = IF ctl[e].close_requested THEN closedAt[e]
                                                          ELSE written[e]]
      /\ written' = written /\ received' = received
  BY DEF Close
<1>3. c \in CtlType /\ c.close_requested = TRUE /\ c.peer_fin_seen = ctl[e].peer_fin_seen
  BY <1>1 DEF CtlType
<1> HIDE DEF c
<1>4. d.close_requested = TRUE /\ d.peer_fin_seen = ctl[e].peer_fin_seen
  BY <1>3, FlagsKept
<1> HIDE DEF d
<1>5. /\ Closed' = [Closed EXCEPT ![e] = TRUE] /\ Eof' = Eof /\ Arrived' = Arrived
      /\ ctl[e].close_requested = TRUE => Closed' = Closed
  <2>1. ctl' = [ctl EXCEPT ![e] = d] /\ rcv' = [rcv EXCEPT ![e] = rcv[e]]
    BY <1>1, <1>2
  <2>2. /\ Closed' = [Closed EXCEPT ![e] = d.close_requested]
        /\ d.peer_fin_seen = ctl[e].peer_fin_seen => Eof' = Eof
        /\ Arrived' = Arrived
        /\ d.close_requested = ctl[e].close_requested => Closed' = Closed
    BY <2>1, Mapped
  <2> QED
    BY <1>4, <2>2
<1>6. Closed[e] = ctl[e].close_requested /\ ctl[e].close_requested \in BOOLEAN
  BY <1>1 DEF Closed, CtlType
<1>7. CASE ctl[e].close_requested = TRUE
  BY <1>1, <1>2, <1>5, <1>7, Stutters
<1>8. CASE ctl[e].close_requested = FALSE
  BY <1>2, <1>5, <1>6, <1>8, Closes
<1> QED
  BY <1>6, <1>7, <1>8

\* recv() reads all that has arrived.
LEMMA RecvRefines ==
    ASSUME IndInv, NEW e \in Endpoint, Recv(e)
    PROVE  RS!Read(e)
<1> DEFINE g == received[e]
           v == rcv[e].delivered
           n == rcv[e].expected_seq
           r == [rcv[e] EXCEPT !.delivered = << >>]
<1>1. /\ RcvType(rcv[e]) /\ RcvInv(rcv[e], g, snd[Peer(e)].next_seq) /\ g \in Seq(Nat)
      /\ ctl = [ctl EXCEPT ![e] = ctl[e]]
  BY Local
<1>2. /\ v \in Seq(Nat) /\ n \in Nat /\ Len(g) + Len(v) = n
      /\ IsPart(g, 0) /\ IsPart(v, Len(g))
  BY <1>1 DEF RcvType, RcvInv
<1>3. /\ ctl' = [ctl EXCEPT ![e] = ctl[e]] /\ rcv' = [rcv EXCEPT ![e] = r]
      /\ received' = [received EXCEPT ![e] = g \o v]
      /\ written' = written /\ closedAt' = closedAt
  BY <1>1 DEF Recv, IndInv, TypeOK
<1>4. r.expected_seq = n
  BY <1>1 DEF RcvType
<1> HIDE DEF r
<1>5. Closed' = Closed /\ Eof' = Eof /\ Arrived' = Arrived /\ Arrived[e] = n
  BY <1>3, <1>4, Mapped DEF Arrived
<1> HIDE DEF g, v, n
<1>6. g \o v = [i \in 1 .. n |-> i]
  <2>1. g \o v \in Seq(Nat) /\ Len(g \o v) = n
    BY <1>1, <1>2, ConcatPart DEF g
  <2>2. ASSUME NEW i \in 1 .. n
        PROVE  (g \o v)[i] = i
    <3>1. IsPart(g \o v, 0)
      BY <1>1, <1>2, ConcatPart DEF g
    <3> QED
      BY <1>2, <2>1, <3>1 DEF IsPart
  <2>3. g \o v \in [1 .. n -> Nat]
    BY <2>1, LenProperties
  <2> QED
    BY <2>2, <2>3
<1> QED
  BY <1>3, <1>5, <1>6, Reads

\* on_datagram: bytes arrive, or the end of the stream, or nothing.
LEMMA ProcessRefines ==
    ASSUME IndInv, SegmentInv, CloseInv, IndInv', NEW e \in Endpoint, NEW m,
           Process(e, m)
    PROVE  RS!Arrive(e) \/ RS!EndOfStream(e) \/ UNCHANGED RS!vars
<1> DEFINE c0  == CompleteHandshake(ctl[e], m)
           s0  == AdoptWindow(snd[e], m)
           ack == "ACK" \in m.flags
           fin == "FIN" \in m.flags
           c1  == IF ack THEN AckCtl(c0, s0, m.header) ELSE c0
           s1  == IF ack THEN AckSnd(s0, m.header) ELSE s0
           r   == rcv[e]
           r1  == DeliverData(r, m.seq, m.data)
           c2  == [c1 EXCEPT !.peer_fin_seen = c1.peer_fin_seen \/ fin]
           d   == DrainCtl(c2, s1)
           p   == Peer(e)
<1>1. /\ Arrives(e, m)
      /\ ctl' = [ctl EXCEPT ![e] = d] /\ rcv' = [rcv EXCEPT ![e] = r1]
      /\ closedAt' = closedAt /\ written' = written /\ received' = received
  BY DEF Process
<1>2. m \in From(p) /\ fin \in BOOLEAN /\ p \in Endpoint /\ p # e /\ Peer(p) = e
  BY <1>1, PeerFacts DEF Arrives, From
<1>3. ctl[e] \in CtlType /\ r.expected_seq \in Nat /\ written[p] \in Nat
  BY <1>2, Local DEF RcvType
<1>4. GotOn(r, r1)
  BY <1>1, ProcessGotOn
<1>5. /\ d.close_requested = ctl[e].close_requested
      /\ d.peer_fin_seen = (ctl[e].peer_fin_seen \/ fin)
  <2>1. /\ c0 \in CtlType /\ c0.close_requested = ctl[e].close_requested
        /\ c0.peer_fin_seen = ctl[e].peer_fin_seen
    BY <1>3, CtlOps, FlagsKept
  <2> HIDE DEF c0, s0
  <2>2. /\ c1 \in CtlType /\ c1.close_requested = ctl[e].close_requested
        /\ c1.peer_fin_seen = ctl[e].peer_fin_seen
    BY <2>1, AckCtlType, FlagsKept
  <2> HIDE DEF c1, s1, fin
  <2>3. /\ c2 \in CtlType /\ c2.close_requested = c1.close_requested
        /\ c2.peer_fin_seen = (c1.peer_fin_seen \/ fin)
    BY <1>2, <2>2 DEF CtlType
  <2> HIDE DEF c2
  <2> QED
    BY <2>2, <2>3, FlagsKept
<1>6. r1.expected_seq \in Nat /\ r1.expected_seq <= written[p]
  <2>1. rcv'[e] = r1 /\ snd'[p].next_seq = snd[p].next_seq
    BY <1>1, <1>2 DEF IndInv, TypeOK, Process
  <2>2. RcvType(rcv'[e]) /\ RcvInv(rcv'[e], received'[e], snd'[p].next_seq)
    BY DEF IndInv, TypeOK, StreamInv
  <2>3. SndType(snd[p]) /\ SndInv(snd[p], written[p])
    BY <1>2, Local
  <2>4. Len(snd[p].send_queue) \in Nat /\ snd[p].next_seq \in Nat
    BY <2>3 DEF SndType
  <2>5. snd[p].next_seq <= written[p]
    BY <1>3, <2>3, <2>4 DEF SndInv
  <2>6. r1.expected_seq \in Nat /\ r1.expected_seq <= snd[p].next_seq
    BY <2>1, <2>2 DEF RcvType, RcvInv
  <2> QED
    BY <1>3, <2>4, <2>5, <2>6
<1>7. ctl[e].peer_fin_seen \in BOOLEAN
  BY <1>3 DEF CtlType
<1>8. fin => r1 = r
  <2>1. fin => m.data = << >>
    BY <1>2, LocalClose DEF ClosingSent
  <2> QED
    BY <2>1 DEF DeliverData
<1>9. fin => Closed[p] /\ Arrived[e] >= closedAt[p]
  <2> SUFFICES ASSUME fin PROVE Closed[p] /\ Arrived[e] >= closedAt[p]
    OBVIOUS
  <2>1. Control(p, ctl[p], closedAt[p], written[p]) /\ closedAt[p] \in Nat
    BY <1>2, LocalClose, Local
  <2>2. FinIn(From(p))
    BY <1>2 DEF FinIn
  <2>3. ctl[p].close_requested /\ closedAt[p] <= r.expected_seq
    BY <1>2, <2>1, <2>2 DEF Control, ControlInv
  <2> QED
    BY <1>2, <1>3, <2>1, <2>3 DEF Closed, Arrived
<1> HIDE DEF d, r1, fin
<1>10. /\ Closed' = Closed /\ Eof' = [Eof EXCEPT ![e] = d.peer_fin_seen]
       /\ Arrived' = [Arrived EXCEPT ![e] = r1.expected_seq]
       /\ d.peer_fin_seen = ctl[e].peer_fin_seen => Eof' = Eof
       /\ r1.expected_seq = r.expected_seq => Arrived' = Arrived
       /\ Arrived[e] = r.expected_seq
  BY ZenonT(30), <1>1, <1>5, Mapped DEF Arrived
<1>11. CASE fin
  <2>1. Arrived' = Arrived /\ Eof' = [Eof EXCEPT ![e] = TRUE]
    BY <1>5, <1>8, <1>10, <1>11
  <2>2. RS!EndOfStream(e)
    BY <1>1, <1>9, <1>10, <1>11, <2>1, Ends DEF p
  <2> QED
    BY <2>2
<1>12. CASE ~fin
  <2>1. Eof' = Eof
    BY <1>5, <1>7, <1>10, <1>12
  <2>2. CASE r1.expected_seq = r.expected_seq
    BY <1>1, <1>10, <2>1, <2>2, Stutters
  <2>3. CASE r1.expected_seq # r.expected_seq
    <3> DEFINE a == r1.expected_seq
    <3>1. a > r.expected_seq
      BY <1>3, <1>4, <1>6, <2>3 DEF GotOn, r1
    <3>2. a \in (Arrived[e] + 1) .. written[p]
      BY <1>3, <1>6, <1>10, <3>1
    <3> HIDE DEF a
    <3>3. RS!Arrive(e)
      BY <1>1, <1>10, <2>1, <3>2, Arriving DEF a, p
    <3> QED
      BY <3>3
  <2> QED
    BY <2>2, <2>3
<1> QED
  BY <1>11, <1>12

\* The handlers of which ReliableStream sees nothing.
LEMMA QuietRefines ==
    ASSUME IndInv, NEW e \in Endpoint,
           \/ \E m : ReAckFin(e, m) \/ OnSyn(e, m) \/ Ignore(e, m)
           \/ OnTick(e)
    PROVE  UNCHANGED RS!vars
<1> DEFINE c == ctl[e]
           Same(d) == /\ d.close_requested = c.close_requested
                      /\ d.peer_fin_seen = c.peer_fin_seen
<1>1. /\ c \in CtlType /\ ctl = [ctl EXCEPT ![e] = c]
      /\ ctl \in [Endpoint -> CtlType]
  BY Local DEF IndInv, TypeOK
<1>2. /\ rcv' = rcv /\ written' = written /\ closedAt' = closedAt
      /\ received' = received
  BY DEF ReAckFin, OnSyn, Ignore, OnTick, HandshakeTimeout, GiveUpData, Tick
<1>3. \E d : ctl' = [ctl EXCEPT ![e] = d] /\ Same(d)
  <2>1. CASE ctl' = ctl
    BY <1>1, <2>1
  <2>2. ASSUME NEW m, OnSyn(e, m)
        PROVE  \E d : ctl' = [ctl EXCEPT ![e] = d] /\ Same(d)
    <3> DEFINE d == [c EXCEPT !.state = "SynReceived", !.handshake = 1]
    <3>1. ctl' = [ctl EXCEPT ![e] = d] \/ ctl' = ctl
      BY <1>1, <2>2 DEF OnSyn
    <3>2. Same(d)
      BY <1>1 DEF CtlType
    <3> HIDE DEF d, Same
    <3> QED
      BY <2>1, <3>1, <3>2
  <2>3. CASE HandshakeTimeout(e)
    <3> DEFINE d == [c EXCEPT !.state = "Failed", !.handshake = 0]
               a == [c EXCEPT !.handshake = c.handshake + 1]
    <3>1. ctl' = [ctl EXCEPT ![e] = d] \/ ctl' = [ctl EXCEPT ![e] = a]
      BY <1>1, <2>3 DEF HandshakeTimeout
    <3>2. Same(d) /\ Same(a)
      BY <1>1 DEF CtlType
    <3> HIDE DEF d, a, Same
    <3> QED
      BY <3>1, <3>2
  <2>4. CASE GiveUpData(e)
    <3> DEFINE d == [c EXCEPT !.state = "Failed"]
    <3>1. ctl' = [ctl EXCEPT ![e] = d]
      BY <1>1, <2>4 DEF GiveUpData
    <3>2. Same(d)
      BY <1>1 DEF CtlType
    <3> HIDE DEF d, Same
    <3> QED
      BY <3>1, <3>2
  <2>5. ASSUME NEW x \in BOOLEAN, NEW f \in BOOLEAN, Tick(e, x, f)
        PROVE  \E d : ctl' = [ctl EXCEPT ![e] = d] /\ Same(d)
    <3> DEFINE n == IF f THEN c.fin_pending + 1 ELSE c.fin_pending
               s == IF x THEN DataTimeout(snd[e]) ELSE snd[e]
               b == [c EXCEPT !.fin_pending = n]
               a == [c EXCEPT !.state = "Failed", !.fin_pending = 0]
               d == DrainCtl(b, s)
    <3>1. ctl' = [ctl EXCEPT ![e] = a] \/ ctl' = [ctl EXCEPT ![e] = d]
      <4>1. [ctl EXCEPT ![e].state = "Failed", ![e].fin_pending = 0]
              = [ctl EXCEPT ![e] = a]
        BY <1>1
      <4> HIDE DEF a
      <4> QED
        BY <2>5, <4>1 DEF Tick
    <3>2. Same(a)
      BY <1>1 DEF CtlType
    <3>3. Same(d)
      <4>1. n \in Nat
        BY <1>1 DEF CtlType
      <4> HIDE DEF n
      <4>2. b \in CtlType /\ Same(b)
        BY <1>1, <4>1 DEF CtlType
      <4> HIDE DEF b, s
      <4> QED
        BY <4>2, FlagsKept
    <3> HIDE DEF d, a, Same
    <3> QED
      BY <3>1, <3>2, <3>3
  <2> HIDE DEF Same
  <2> QED
    BY <2>1, <2>2, <2>3, <2>4, <2>5 DEF ReAckFin, Ignore, OnTick
<1>4. Closed' = Closed /\ Eof' = Eof /\ Arrived' = Arrived
  BY <1>2, <1>3, QuietMapped
<1> QED
  BY <1>2, <1>4, Stutters

\* Every step of the two connections is one of ReliableStream or none.
LEMMA NextRefines ==
    IndInv /\ SegmentInv /\ CloseInv /\ [Next]_vars => [RS!Next]_(RS!vars)
<1> SUFFICES ASSUME IndInv, SegmentInv, CloseInv, [Next]_vars
             PROVE  RS!Next \/ UNCHANGED RS!vars
  OBVIOUS
<1>1. CASE UNCHANGED vars
  <2>1. UNCHANGED <<written, Closed, closedAt, Arrived, received, Eof>>
    BY <1>1 DEF vars, Closed, Arrived, Eof
  <2> QED
    BY <2>1, Stutters
<1>2. CASE Next
  <2>1. IndInv'
    BY NextOK
  <2>2. ASSUME NEW e \in Endpoint, NEW n \in 1 .. MaxBytes[e], Send(e, n)
        PROVE  RS!Write(e)
    <3>1. n \in Nat \ {0}
      BY WorkloadAssumption
    <3> QED
      BY <2>2, <3>1, SendRefines
  <2>3. ASSUME NEW e \in Endpoint, OnDatagram(e)
        PROVE  RS!Arrive(e) \/ RS!EndOfStream(e) \/ UNCHANGED RS!vars
    BY <2>1, <2>3, ProcessRefines, QuietRefines DEF OnDatagram
  <2>4. \E e \in Endpoint :
          \/ RS!Write(e) \/ RS!CloseStream(e) \/ RS!Arrive(e)
          \/ RS!EndOfStream(e) \/ RS!Read(e) \/ UNCHANGED RS!vars
    BY <1>2, <2>2, <2>3, CloseRefines, RecvRefines, QuietRefines DEF Next
  <2> QED
    BY <2>4 DEF RS!Next
<1> QED
  BY <1>1, <1>2

\* Two connections over a network that loses, repeats and reorders are a pair
\* of reliable byte streams.
THEOREM ImplementsReliableStream == Spec => IsReliableStream
<1>1. Init => RS!Init
  BY DEF Init, RS!Init, ConnectCtl, BlankCtl, BlankRcv
<1> QED
  BY <1>1, NextRefines, Invariance, SegmentInvariance, CloseInvariance, PTL
     DEF Spec, IsReliableStream, RS!Spec

-----------------------------------------------------------------------------
(***************************************************************************)
(* The clocked connections                                                 *)
(***************************************************************************)

\* The ticks that n timeouts take at most.
Spell(n) == n * MaxRto

Handshaking == {"SynSent", "SynReceived"}

\* The ages a of what the control state c and the send side s wait for.
AgeType(a, s) ==
    /\ a.handshake \in Nat /\ a.fin \in Nat
    /\ DOMAIN a.segment = DOMAIN s.unacked
    /\ \A q \in DOMAIN a.segment : a.segment[q] \in Nat

\* No timer is started again once max_retries is passed, and the handshake
\* has one only until it is over.
AttemptsInv(c) ==
    /\ c.handshake <= MaxRetries + 1 /\ c.fin_pending <= MaxRetries + 1
    /\ c.handshake # 0 => c.state \in Handshaking

\* R is what was sent more than once and is still waited for.
ResentInv(c, s, R) ==
    /\ R \subseteq DOMAIN s.unacked
                     \cup (IF c.handshake # 0 THEN {Opening} ELSE {})
    /\ \A q \in R \ {Opening} : s.unacked[q].retransmit_count # 0
    /\ Opening \in R /\ c.handshake = 1 => c.state = "SynReceived"

\* After t ticks of silence a timer that has run out n times since, or
\* before, is a ticks old; done says that on_tick has looked at it now.
Within(t, n, a, done) ==
    /\ t <= Spell(n) + a
    /\ t <= Spell(n + 1)
    /\ done => t < Spell(n + 1)

\* How often the data timer has run out, as far as it counts.
Retries(s) == Lesser(s.unacked[Oldest(s)].retransmit_count, MaxRetries)

\* The silence t is paid for by the timer that will end it: that of the
\* handshake, that of the oldest segment or, with nothing in flight, that
\* of the FIN.
PatienceInv(c, s, a, t, done) ==
    /\ c.handshake # 0 => Within(t, c.handshake - 1, a.handshake, done)
    /\ c.state \in Open /\ DOMAIN s.unacked # {}
         => Within(t, Retries(s), a.segment[Oldest(s)], done)
    /\ c.state \in Open /\ DOMAIN s.unacked = {} /\ c.fin_pending # 0
         => Within(t, c.fin_pending - 1, a.fin, done)
    /\ c.state \in Open /\ DOMAIN s.unacked = {} /\ c.fin_pending = 0 => t = 0
    /\ c.state \in Handshaking \cup {"Listening"} /\ c.handshake = 0 => t = 0
    /\ t <= Spell(MaxRetries + 1)

LocalInv(c, s, r, a, R, t, done) ==
    /\ r \in EstimatorType /\ t \in Nat
    /\ AgeType(a, s) /\ AttemptsInv(c)
    /\ ResentInv(c, s, R)
    /\ PatienceInv(c, s, a, t, done)

\* f is a function on the endpoints.
IsFamily(f) == f = [e \in Endpoint |-> f[e]]

TimedInv ==
    /\ ticked \subseteq Endpoint
    /\ IsFamily(est) /\ IsFamily(age) /\ IsFamily(resent) /\ IsFamily(silence)
    /\ \A e \in Endpoint : LocalInv(ctl[e], snd[e], est[e], age[e], resent[e],
                                    silence[e], e \in ticked)
-----------------------------------------------------------------------------
(* Arithmetic and the estimator *)

\* One more timeout is at most max_rto more ticks.
LEMMA SpellFacts ==
    ASSUME NEW n \in Nat
    PROVE  /\ Spell(n) \in Nat /\ Spell(n + 1) \in Nat
           /\ Spell(n + 1) = Spell(n) + MaxRto
           /\ MaxRto \in Nat \ {0}
BY EstimatorAssumption DEF Spell

\* Fewer timeouts take no longer.
LEMMA SpellMonotone ==
    ASSUME NEW m \in Nat, NEW n \in Nat, m <= n
    PROVE  Spell(m) <= Spell(n)
<1>1. MaxRto \in Nat /\ n - m \in Nat
  BY EstimatorAssumption
<1>2. n * MaxRto = m * MaxRto + (n - m) * MaxRto
  BY <1>1
<1>3. m * MaxRto \in Nat /\ (n - m) * MaxRto \in Nat
  BY <1>1
<1> QED
  BY <1>2, <1>3 DEF Spell

\* What apply_ack makes of an estimator that measures the segments seqs, one
\* after the other, is an estimator.
LEMMA AckSampledType ==
    ASSUME NEW r \in EstimatorType, NEW n \in Nat, NEW seqs \in SUBSET (0 .. n),
           NEW times, \A q \in seqs : times[q] \in Nat
    PROVE  AckSampled(r, times, seqs) \in EstimatorType
<1> DEFINE Last(S) == CHOOSE q \in S : \A p \in S : p <= q
           Step(g, S) == IF S = {} THEN r
                         ELSE Sampled(g[S \ {Last(S)}], times[Last(S)])
           D(k) == {S \in SUBSET seqs : Cardinality(S) <= k}
           after == CHOOSE g : g = [S \in SUBSET seqs |-> Step(g, S)]
<1>1. \A S \in SUBSET seqs : IsFiniteSet(S) /\ Cardinality(S) \in Nat
  <2>1. IsFiniteSet(0 .. n)
    BY FS_Interval
  <2>2. ASSUME NEW S \in SUBSET seqs PROVE IsFiniteSet(S)
    BY <2>1, FS_Subset
  <2> QED
    BY <2>2, FS_CardinalityType
<1>2. ASSUME NEW S \in SUBSET seqs, S # {}
      PROVE  /\ Last(S) \in S /\ S \ {Last(S)} \in SUBSET seqs
             /\ Cardinality(S \ {Last(S)}) = Cardinality(S) - 1
  <2>1. S \in SUBSET Nat /\ \A x \in S : x <= n
    OBVIOUS
  <2>2. \E x \in S : \A y \in S : y <= x
    BY <1>2, <2>1, NatMax
  <2>3. Last(S) \in S
    BY <2>2
  <2> HIDE DEF Last
  <2> QED
    BY <1>1, <2>3, FS_RemoveElement
<1> HIDE DEF Last
<1>3. ASSUME NEW S \in SUBSET seqs, NEW g, S # {} => g[S \ {Last(S)}] \in EstimatorType
      PROVE  Step(g, S) \in EstimatorType
  <2>1. CASE S # {}
    <3>1. Last(S) \in S /\ times[Last(S)] \in Nat
      BY <1>2, <2>1
    <3> QED
      BY <1>3, <2>1, <3>1, SampledType
  <2> QED
    BY <2>1
<1> DEFINE Good(k) == \E g \in [D(k) -> EstimatorType] : \A S \in D(k) : g[S] = Step(g, S)
<1>4. ASSUME NEW k \in Nat, k # 0 => Good(k - 1)
      PROVE  Good(k)
  <2>1. PICK f : k # 0 => /\ f \in [D(k - 1) -> EstimatorType]
                          /\ \A S \in D(k - 1) : f[S] = Step(f, S)
    BY <1>4
  <2> DEFINE g == [S \in D(k) |-> Step(f, S)]
  <2>2. ASSUME NEW S \in D(k), S # {}
        PROVE  k # 0 /\ S \ {Last(S)} \in D(k - 1) /\ S \ {Last(S)} \in D(k)
    BY <1>1, <1>2, <2>2
  <2>3. g \in [D(k) -> EstimatorType]
    <3> SUFFICES ASSUME NEW S \in D(k) PROVE Step(f, S) \in EstimatorType
      OBVIOUS
    <3> HIDE DEF Step
    <3> QED
      BY <1>3, <2>1, <2>2
  <2>4. ASSUME NEW S \in D(k) PROVE g[S] = Step(g, S)
    <3>1. CASE S = {}
      BY <3>1
    <3>2. CASE S # {}
      <4> DEFINE T == S \ {Last(S)}
      <4>1. T \in D(k - 1) /\ T \in D(k) /\ k # 0
        BY <2>2, <3>2
      <4>2. g[T] = f[T]
        <5> HIDE DEF T
        <5>1. g[T] = Step(f, T)
          BY <4>1
        <5> QED
          BY <2>1, <4>1, <5>1
      <4> QED
        BY <3>2, <4>2
    <3> QED
      BY <3>1, <3>2
  <2> HIDE DEF g, Step
  <2> QED
    BY <2>3, <2>4
<1> HIDE DEF Step
<1>5. \A k \in Nat : Good(k)
  <2> SUFFICES ASSUME NEW b \in Nat, ~Good(b) PROVE FALSE
    OBVIOUS
  <2> HIDE DEF Good
  <2> DEFINE B == {k \in Nat : ~Good(k)}
  <2>1. B \in SUBSET Nat /\ B # {}
    OBVIOUS
  <2>2. PICK k \in B : \A j \in B : k <= j
    BY <2>1, NatMin
  <2>3. k # 0 => k - 1 \in Nat /\ ~(k <= k - 1)
    BY <2>1
  <2> QED
    BY <1>4, <2>2, <2>3
<1>6. after = [S \in SUBSET seqs |-> Step(after, S)]
  <2>1. seqs \in SUBSET seqs /\ Cardinality(seqs) \in Nat
    BY <1>1
  <2>2. D(Cardinality(seqs)) = SUBSET seqs
    BY <1>1, FS_Subset
  <2>3. PICK g \in [SUBSET seqs -> EstimatorType] :
            \A S \in SUBSET seqs : g[S] = Step(g, S)
    BY <1>5, <2>1, <2>2
  <2>4. g = [S \in SUBSET seqs |-> Step(g, S)]
    BY <2>3
  <2> QED
    BY <2>4, Zenon
<1>7. AckSampled(r, times, seqs) = after[seqs]
  BY DEF AckSampled, Step, Last
<1> HIDE DEF after
<1>8. \A S \in SUBSET seqs : after[S] \in EstimatorType
  <2> SUFFICES ASSUME NEW A \in SUBSET seqs, after[A] \notin EstimatorType
               PROVE  FALSE
    OBVIOUS
  <2> DEFINE B == {k \in Nat : \E S \in SUBSET seqs :
                     Cardinality(S) = k /\ after[S] \notin EstimatorType}
  <2>1. B \in SUBSET Nat /\ B # {}
    BY <1>1
  <2>2. PICK k \in B : \A j \in B : k <= j
    BY <2>1, NatMin
  <2>3. PICK S \in SUBSET seqs : Cardinality(S) = k /\ after[S] \notin EstimatorType
    BY <2>2
  <2>4. Step(after, S) \notin EstimatorType
    BY <1>6, <2>3
  <2>5. S # {} /\ after[S \ {Last(S)}] \notin EstimatorType
    BY <1>3, <2>4
  <2>6. /\ S \ {Last(S)} \in SUBSET seqs /\ Cardinality(S \ {Last(S)}) = k - 1
        /\ k \in Nat /\ k - 1 \in Nat
    BY <1>1, <1>2, <2>1, <2>3, <2>5
  <2>7. k - 1 \in B
    BY <2>5, <2>6
  <2> QED
    BY <2>2, <2>6, <2>7
<1> QED
  BY <1>7, <1>8
-----------------------------------------------------------------------------
(* The send side *)

\* A segment in flight has been taken off the queue.
LEMMA InFlightBefore ==
    ASSUME SegmentInv, IndInv, NEW e \in Endpoint
    PROVE  \A q \in DOMAIN snd[e].unacked : q \in Nat /\ q < snd[e].next_seq
<1>1. SenderInv(snd[e], ctl[e].state = "Failed", Extents(From(e)),
                Headers(From(Peer(e))), rcv[Peer(e)].expected_seq)
  BY DEF SegmentInv, DirectionInv
<1>2. SndType(snd[e])
  BY Local
<1>3. ASSUME NEW q \in DOMAIN snd[e].unacked
      PROVE  q \in Nat /\ q < snd[e].next_seq
  <2>1. /\ q \in Nat /\ snd[e].next_seq \in Nat
        /\ q + Len(snd[e].unacked[q].data) \in Nat
    BY <1>2, UnackedFacts
  <2> DEFINE a == <<q, q + Len(snd[e].unacked[q].data)>>
  <2>2. a \in Extents(From(e))
    BY <1>1 DEF SenderInv
  <2>3. a[1] < a[2] /\ a[2] <= snd[e].next_seq
    BY <1>1, <2>2 DEF SenderInv, CutInv
  <2> QED
    BY <2>1, <2>3
<1> QED
  BY <1>3

\* The oldest segment comes before every other.
LEMMA OldestFirst ==
    ASSUME NEW s, SndType(s), DOMAIN s.unacked # {}
    PROVE  /\ Oldest(s) \in DOMAIN s.unacked
           /\ \A p \in DOMAIN s.unacked : Oldest(s) <= p
<1>1. \E q \in DOMAIN s.unacked : \A p \in DOMAIN s.unacked : q <= p
  BY NatMin DEF SndType, IsMap
<1> QED
  BY <1>1 DEF Oldest

\* try_send_more touches no segment that is in flight, so that the oldest
\* one stays the oldest; with an empty queue it sends nothing.
LEMMA DrainAfter ==
    ASSUME NEW c \in CtlType, NEW s, NEW w \in Nat, SndType(s), SndInv(s, w),
           \A q \in DOMAIN s.unacked : q < s.next_seq
    PROVE  LET t == TrySendMore(c, s)
           IN  /\ SndType(t)
               /\ DOMAIN s.unacked \subseteq DOMAIN t.unacked
               /\ \A q \in DOMAIN t.unacked \ DOMAIN s.unacked : q >= s.next_seq
               /\ \A q \in DOMAIN s.unacked : t.unacked[q] = s.unacked[q]
               /\ DOMAIN s.unacked # {} => Oldest(t) = Oldest(s)
               /\ s.send_queue = << >> => DOMAIN t.unacked = DOMAIN s.unacked
<1> DEFINE t == TrySendMore(c, s)
           n == Admitted(c, s)
<1>1. n \in 0 .. Len(s.send_queue)
  BY AdmittedRange
<1>2. SndType(t)
  BY TrySendMoreOK
<1>3. s.next_seq \in Nat /\ Len(s.send_queue) \in Nat /\ n \in Nat
      /\ DOMAIN s.unacked \subseteq Nat
  BY <1>1 DEF SndType, IsMap
<1>4. t.unacked = [q \in DOMAIN s.unacked \cup Cuts(s, n) |->
                     IF q \in Cuts(s, n) THEN NewSegment(s, n, q)
                                         ELSE s.unacked[q]]
  BY DEF TrySendMore, SndType
<1>5. \A q \in Cuts(s, n) : q \in Nat /\ q >= s.next_seq
  BY <1>3 DEF Cuts
<1> HIDE DEF t, n
<1>6. \A q \in DOMAIN s.unacked : q \notin Cuts(s, n)
  BY <1>3, <1>5
<1>7. /\ DOMAIN t.unacked = DOMAIN s.unacked \cup Cuts(s, n)
      /\ \A q \in DOMAIN s.unacked : t.unacked[q] = s.unacked[q]
  BY <1>4, <1>6
<1>8. ASSUME DOMAIN s.unacked # {}
      PROVE  Oldest(t) = Oldest(s)
  <2>1. /\ Oldest(s) \in DOMAIN s.unacked
        /\ \A p \in DOMAIN s.unacked : Oldest(s) <= p
    BY <1>8, OldestFirst
  <2>2. /\ Oldest(t) \in DOMAIN t.unacked
        /\ \A p \in DOMAIN t.unacked : Oldest(t) <= p
    BY <1>2, <1>7, <1>8, OldestFirst
  <2>3. Oldest(t) <= Oldest(s) /\ Oldest(s) \in Nat /\ Oldest(s) < s.next_seq
    BY <1>3, <1>7, <2>1, <2>2
  <2>4. Oldest(t) \in Nat
    BY <1>3, <1>5, <1>7, <2>2
  <2>5. Oldest(t) \in DOMAIN s.unacked
    BY <1>3, <1>5, <1>7, <2>2, <2>3, <2>4
  <2>6. Oldest(s) <= Oldest(t)
    BY <2>1, <2>5
  <2> QED
    BY <2>3, <2>4, <2>6
<1>9. s.send_queue = << >> => Cuts(s, n) = {}
  <2> SUFFICES ASSUME s.send_queue = << >> PROVE Cuts(s, n) = {}
    OBVIOUS
  <2>1. n = 0
    BY <1>1 DEF n
  <2> QED
    BY <1>3, <2>1 DEF Cuts
<1> QED
  BY <1>2, <1>5, <1>7, <1>8, <1>9 DEF t

\* What apply_ack does to the counts: those of the segments it keeps stay,
\* but for a fast retransmission, which counts the oldest segment.
LEMMA AckCounts ==
    ASSUME NEW s, NEW h, SndType(s), h.ack \in Nat,
           NEW q \in DOMAIN AckSnd(s, h).unacked
    PROVE  /\ q \in DOMAIN s.unacked
           /\ s.unacked[q].retransmit_count # 0 =>
                AckSnd(s, h).unacked[q].retransmit_count # 0
           /\ FastRetransmits(s, h.ack) /\ q = Oldest(s) =>
                AckSnd(s, h).unacked[q].retransmit_count # 0
<1>1. ASSUME NEW t, SndType(t), NEW k
      PROVE  /\ DOMAIN MarkSacked(t, k).unacked = DOMAIN t.unacked
             /\ \A p \in DOMAIN t.unacked :
                   MarkSacked(t, k).unacked[p].retransmit_count
                     = t.unacked[p].retransmit_count
  <2> DEFINE In(p) == \E x \in k : x.start <= p /\ p <= x.end
             un == [p \in DOMAIN t.unacked |->
                      IF In(p) THEN [t.unacked[p] EXCEPT !.sacked = TRUE]
                               ELSE t.unacked[p]]
  <2>1. MarkSacked(t, k).unacked = un
    BY <1>1 DEF MarkSacked, SndType
  <2> HIDE DEF In
  <2>2. \A p \in DOMAIN t.unacked : t.unacked[p] \in Segment
    BY <1>1 DEF SndType, IsMap
  <2> QED
    BY <2>1, <2>2 DEF Segment
<1>2. s.send_base \in Nat /\ \A p \in DOMAIN s.unacked : s.unacked[p] \in Segment
  BY DEF SndType, IsMap
<1>3. CASE h.ack > s.send_base
  <2> DEFINE t == AckNew(s, h.ack)
  <2>1. SndType(t)
    BY <1>3, AckNewKeeps DEF Keeps
  <2>2. t.unacked = [p \in {x \in DOMAIN s.unacked : x >= h.ack} |-> s.unacked[p]]
    BY DEF AckNew, SndType
  <2>3. AckSnd(s, h) = MarkSacked(t, h.sack)
    BY <1>3 DEF AckSnd
  <2>4. ~FastRetransmits(s, h.ack)
    BY <1>2, <1>3 DEF FastRetransmits, IsDupAck
  <2> HIDE DEF t
  <2> QED
    BY <1>1, <2>1, <2>2, <2>3, <2>4
<1>4. CASE ~(h.ack > s.send_base) /\ FastRetransmits(s, h.ack)
  <2> DEFINE o == Oldest(s)
             un == [s.unacked EXCEPT ![o].retransmit_count = CountRetransmit(@)]
  <2>1. o \in DOMAIN s.unacked
    BY <1>4, OldestFirst DEF FastRetransmits, IsDupAck
  <2>2. AckSnd(s, h).unacked = un
    BY <1>4 DEF AckSnd, FastRetransmit, SndType
  <2>3. \A n \in Nat : CountRetransmit(n) # 0
    BY ConfigAssumption DEF CountRetransmit, Lesser
  <2>4. /\ DOMAIN un = DOMAIN s.unacked
        /\ \A p \in DOMAIN s.unacked :
              un[p] = IF p = o THEN [s.unacked[p] EXCEPT !.retransmit_count =
                                                           CountRetransmit(@)]
                               ELSE s.unacked[p]
    BY <2>1 DEF SndType, IsMap
  <2> HIDE DEF un, o
  <2>5. ASSUME NEW p \in DOMAIN s.unacked
        PROVE  [s.unacked[p] EXCEPT !.retransmit_count = CountRetransmit(@)]
                 .retransmit_count # 0
    BY <1>2, <2>3 DEF Segment
  <2>6. q \in DOMAIN s.unacked /\ q = o => un[q].retransmit_count # 0
    BY <2>4, <2>5
  <2> QED
    BY <2>2, <2>4, <2>6 DEF o
<1>5. CASE ~(h.ack > s.send_base) /\ ~FastRetransmits(s, h.ack)
  <2> DEFINE k == s.dup_ack_count + 1
             t == [s EXCEPT !.dup_ack_count = k]
  <2>1. k \in Nat
    BY DEF SndType
  <2>2. AckSnd(s, h) = MarkSacked(t, h.sack) \/ AckSnd(s, h) = MarkSacked(s, h.sack)
    BY <1>5 DEF AckSnd
  <2> HIDE DEF k
  <2>3. SndType(t) /\ t.unacked = s.unacked
    BY <2>1 DEF SndType
  <2> HIDE DEF t
  <2> QED
    BY <1>1, <1>5, <2>2, <2>3
<1> QED
  BY <1>3, <1>4, <1>5

\* A data timeout counts every segment that is not SACKed.
LEMMA TimeoutCounts ==
    ASSUME NEW s, SndType(s)
    PROVE  /\ SndType(DataTimeout(s))
           /\ DataTimeout(s).next_seq = s.next_seq
           /\ DataTimeout(s).send_queue = s.send_queue
           /\ DOMAIN DataTimeout(s).unacked = DOMAIN s.unacked
           /\ \A q \in DOMAIN s.unacked :
                 DataTimeout(s).unacked[q].retransmit_count =
                    IF q \in Unsacked(s)
                      THEN CountRetransmit(s.unacked[q].retransmit_count)
                      ELSE s.unacked[q].retransmit_count
           /\ DOMAIN s.unacked # {} => Oldest(DataTimeout(s)) = Oldest(s)
<1> DEFINE t == DataTimeout(s)
           un == [q \in DOMAIN s.unacked |->
                    IF q \in Unsacked(s)
                      THEN [s.unacked[q] EXCEPT
                              !.retransmit_count = CountRetransmit(@)]
                      ELSE s.unacked[q]]
<1>1. SndType(t) /\ t.next_seq = s.next_seq /\ t.send_queue = s.send_queue
  BY DataTimeoutKeeps DEF Keeps
<1>2. t.unacked = un
  BY DEF DataTimeout, SndType
<1>3. \A q \in DOMAIN s.unacked : s.unacked[q] \in Segment
  BY DEF SndType, IsMap
<1>4. \A q \in DOMAIN s.unacked :
        un[q].retransmit_count =
           IF q \in Unsacked(s)
             THEN CountRetransmit(s.unacked[q].retransmit_count)
             ELSE s.unacked[q].retransmit_count
  BY <1>3 DEF Segment
<1>5. DOMAIN un = DOMAIN s.unacked
  OBVIOUS
<1> HIDE DEF t, un
<1>6. DOMAIN t.unacked = DOMAIN s.unacked
  BY <1>2, <1>5
<1>7. Oldest(t) = Oldest(s)
  BY <1>6 DEF Oldest
<1> QED
  BY <1>1, <1>2, <1>4, <1>6, <1>7 DEF t
-----------------------------------------------------------------------------
(* A clocked step is a step of Transport *)

\* Whatever the timers decide, on_tick does one of the things that Transport
\* lets it do.
LEMMA TimedStep == [TimedNext]_timedVars => [Next]_vars
<1> SUFFICES ASSUME [TimedNext]_timedVars PROVE [Next]_vars
  OBVIOUS
<1>1. CASE UNCHANGED timedVars
  BY <1>1 DEF timedVars
<1>2. CASE Advance
  BY <1>2 DEF Advance
<1>3. ASSUME NEW e \in Endpoint, App(e) PROVE Next
  BY <1>3 DEF App, Next
<1>4. ASSUME NEW e \in Endpoint, TimedOnDatagram(e) PROVE Next
  BY <1>4 DEF TimedOnDatagram, TimedProcess, TimedOnSyn, OnDatagram, Next
<1>5. ASSUME NEW e \in Endpoint, TimedOnTick(e) PROVE [Next]_vars
  <2>1. CASE TickHandshake(e) \/ TickGiveUp(e)
    BY <2>1 DEF TickHandshake, TickGiveUp, OnTick, Next
  <2>2. CASE TickOpen(e)
    <3>1. PICK data \in BOOLEAN, fin \in BOOLEAN : Tick(e, data, fin)
      <4> DEFINE x == DataExpired(e)
                 r == IF x THEN TimedOut(est[e]) ELSE est[e]
                 f == ctl[e].fin_pending # 0 /\ Expired(age[e].fin, r)
      <4>1. x \in BOOLEAN /\ f \in BOOLEAN
        BY DEF DataExpired
      <4>2. Tick(e, x, f)
        BY <2>2 DEF TickOpen
      <4> HIDE DEF x, f
      <4> QED
        BY <4>1, <4>2
    <3> QED
      BY <3>1 DEF OnTick, Next
  <2>3. CASE TickIdle(e)
    BY <2>3 DEF TickIdle
  <2> QED
    BY <1>5, <2>1, <2>2, <2>3 DEF TimedOnTick
<1> QED
  BY <1>1, <1>2, <1>3, <1>4, <1>5 DEF TimedNext

\* The clocked connections are connections of Transport: all that is proved
\* of Transport holds of them.
THEOREM ClockedConnections == TimedSpec => Spec
<1>1. TimedInit => Init
  BY DEF TimedInit
<1> QED
  BY <1>1, TimedStep, PTL DEF TimedSpec, Spec

\* What the proofs below take over from Transport.
Base == IndInv /\ SegmentInv /\ QueueNeverStalls /\ OldestNeverSacked

LEMMA BaseHolds == TimedSpec => []Base
BY ClockedConnections, Invariance, SegmentInvariance, QueueNeverStallsHolds,
   OldestNeverSackedHolds, PTL DEF Base

-----------------------------------------------------------------------------
(* What a handler does to the attempts and the counts *)

\* A handler of e that sends `again' what is in `again' counts each segment
\* of it, leaves no segment without its count, and does nothing to the peer.
Counted(e, again) ==
    /\ again \in SUBSET (DOMAIN snd[e].unacked \cup {Opening})
    /\ AttemptsInv(ctl'[e])
    /\ \A d \in Endpoint \ {e} : ctl'[d] = ctl[d] /\ snd'[d] = snd[d]
    /\ \A q \in DOMAIN snd[e].unacked \cap DOMAIN snd'[e].unacked :
          snd[e].unacked[q].retransmit_count # 0 \/ q \in again
            => snd'[e].unacked[q].retransmit_count # 0
    /\ Opening \in resent[e] \cup again /\ ctl'[e].handshake = 1
         => ctl'[e].state = "SynReceived"

\* The control state after drain_and_maybe_fin.
LEMMA DrainAttempts ==
    ASSUME NEW c \in CtlType, NEW s
    PROVE  LET d == DrainCtl(c, s)
           IN  /\ d \in CtlType /\ d.handshake = c.handshake
               /\ c.state \notin Open => d.state = c.state
               /\ \/ d.fin_pending = c.fin_pending
                  \/ c.fin_pending = 0 /\ d.fin_pending = 1
               /\ AttemptsInv(c) => AttemptsInv(d)
<1> DEFINE t == TrySendMore(c, s)
           m == MaybeSendFin(c, t)
           d == DrainCtl(c, s)
<1>1. /\ m \in CtlType /\ m.handshake = c.handshake
      /\ c.state \notin Open => m.state = c.state
      /\ \/ m.fin_pending = c.fin_pending
         \/ c.fin_pending = 0 /\ m.fin_pending = 1
  <2> HIDE DEF t
  <2> QED
    BY DEF MaybeSendFin, FinReady, CtlType, State, Open
<1>2. d = CheckFullyClosed(m)
  BY DEF DrainCtl
<1> HIDE DEF m
<1>3. /\ d \in CtlType /\ d.handshake = m.handshake
      /\ m.state \notin Open => d.state = m.state
      /\ d.fin_pending = m.fin_pending
  BY <1>1, <1>2 DEF CheckFullyClosed, CtlType, State, Open
<1> HIDE DEF d
<1>4. AttemptsInv(c) => AttemptsInv(d)
  BY <1>1, <1>3, ConfigAssumption DEF AttemptsInv, Handshaking, Open
<1> QED
  BY <1>1, <1>3, <1>4 DEF d

\* What the invariant says of e, with the types it needs.
LEMMA TimedLocal ==
    ASSUME TimedInv, Base, NEW e \in Endpoint
    PROVE  /\ LocalInv(ctl[e], snd[e], est[e], age[e], resent[e], silence[e],
                       e \in ticked)
           /\ ctl[e] \in CtlType /\ ctl[e].handshake \in Nat
           /\ ctl[e].fin_pending \in Nat
           /\ SndType(snd[e]) /\ SndInv(snd[e], written[e]) /\ written[e] \in Nat
           /\ ctl = [ctl EXCEPT ![e] = ctl[e]]
           /\ snd = [snd EXCEPT ![e] = snd[e]]
           /\ DOMAIN ctl = Endpoint /\ DOMAIN snd = Endpoint
           /\ \A q \in DOMAIN snd[e].unacked :
                 /\ q \in Nat /\ q < snd[e].next_seq
                 /\ snd[e].unacked[q] \in Segment
                 /\ snd[e].unacked[q].retransmit_count \in Nat
<1>1. IndInv /\ SegmentInv
  BY DEF Base
<1>2. /\ ctl[e] \in CtlType /\ SndType(snd[e]) /\ SndInv(snd[e], written[e])
      /\ written[e] \in Nat
  BY <1>1, Local
<1>3. ctl[e].handshake \in Nat /\ ctl[e].fin_pending \in Nat
  BY <1>2 DEF CtlType
<1>4. ctl = [ctl EXCEPT ![e] = ctl[e]] /\ snd = [snd EXCEPT ![e] = snd[e]]
  BY <1>1 DEF IndInv, TypeOK
<1>5. DOMAIN ctl = Endpoint /\ DOMAIN snd = Endpoint
  BY <1>1 DEF IndInv, TypeOK
<1>6. \A q \in DOMAIN snd[e].unacked :
        q \in Nat /\ q < snd[e].next_seq /\ snd[e].unacked[q] \in Segment
  BY <1>1, <1>2, InFlightBefore, UnackedFacts
<1>7. \A x \in Segment : x.retransmit_count \in Nat
  BY DEF Segment
<1> QED
  BY <1>2, <1>3, <1>4, <1>5, <1>6, <1>7 DEF TimedInv

\* A handler of e brings its control state to c and its send side to s,
\* where it has counted what is in `again', and ends with
\* drain_and_maybe_fin.
DrainsFrom(e, c, s, again) ==
    /\ c \in CtlType /\ AttemptsInv(c)
    /\ c.handshake = 0 \/ (c.handshake = ctl[e].handshake /\ c.state = ctl[e].state)
    /\ SndType(s) /\ \E w \in Nat : SndInv(s, w)
    /\ s.next_seq = snd[e].next_seq
    /\ again \subseteq DOMAIN snd[e].unacked
    /\ DOMAIN s.unacked \subseteq DOMAIN snd[e].unacked
    /\ \A q \in DOMAIN s.unacked :
          snd[e].unacked[q].retransmit_count # 0 \/ q \in again
            => s.unacked[q].retransmit_count # 0
    /\ ctl' = [ctl EXCEPT ![e] = DrainCtl(c, s)]
    /\ snd' = [snd EXCEPT ![e] = TrySendMore(c, s)]

\* What it sends after that are new segments.
LEMMA DrainCounted ==
    ASSUME TimedInv, Base, NEW e \in Endpoint, NEW c, NEW s, NEW again,
           DrainsFrom(e, c, s, again)
    PROVE  Counted(e, again)
<1> DEFINE d == DrainCtl(c, s)
           t == TrySendMore(c, s)
<1>0. PICK w \in Nat : SndInv(s, w)
  BY DEF DrainsFrom
<1>1. /\ LocalInv(ctl[e], snd[e], est[e], age[e], resent[e], silence[e], e \in ticked)
      /\ DOMAIN ctl = Endpoint /\ DOMAIN snd = Endpoint
      /\ \A q \in DOMAIN snd[e].unacked : q \in Nat /\ q < snd[e].next_seq
      /\ snd[e].next_seq \in Nat
  BY TimedLocal DEF SndType
<1>2. /\ d.handshake = c.handshake /\ AttemptsInv(d)
      /\ c.state \notin Open => d.state = c.state
  BY DrainAttempts DEF DrainsFrom
<1>3. /\ \A q \in DOMAIN t.unacked \ DOMAIN s.unacked : q >= s.next_seq
      /\ \A q \in DOMAIN s.unacked : t.unacked[q] = s.unacked[q]
  BY <1>0, <1>1, DrainAfter DEF DrainsFrom
<1>4. ctl'[e] = d /\ snd'[e] = t
      /\ \A x \in Endpoint \ {e} : ctl'[x] = ctl[x] /\ snd'[x] = snd[x]
  BY <1>1 DEF DrainsFrom
<1> HIDE DEF d, t
<1>5. \A q \in DOMAIN snd[e].unacked \cap DOMAIN t.unacked :
        q \in DOMAIN s.unacked /\ t.unacked[q] = s.unacked[q]
  BY <1>1, <1>3 DEF DrainsFrom
<1>6. ASSUME Opening \in resent[e] \cup again, d.handshake = 1
      PROVE  d.state = "SynReceived"
  <2>1. Opening \notin DOMAIN snd[e].unacked
    BY <1>1 DEF Opening
  <2>2. Opening \in resent[e] /\ ctl[e].handshake = 1 /\ c.state = ctl[e].state
    BY <1>2, <1>6, <2>1 DEF DrainsFrom
  <2>3. c.state = "SynReceived"
    BY <1>1, <2>2 DEF LocalInv, ResentInv
  <2> QED
    BY <1>2, <2>3 DEF Open
<1> QED
  BY <1>2, <1>4, <1>5, <1>6 DEF Counted, DrainsFrom
\* A handler that leaves the segments of e and does not drain.
LEMMA StillCounted ==
    ASSUME TimedInv, Base, NEW e \in Endpoint, NEW d \in CtlType, NEW t,
           ctl' = [ctl EXCEPT ![e] = d], snd' = [snd EXCEPT ![e] = t],
           t.unacked = snd[e].unacked,
           NEW again \in SUBSET {Opening}, AttemptsInv(d),
           Opening \in resent[e] \cup again /\ d.handshake = 1
             => d.state = "SynReceived"
    PROVE  Counted(e, again)
<1>1. /\ DOMAIN ctl = Endpoint /\ DOMAIN snd = Endpoint
      /\ \A q \in DOMAIN snd[e].unacked : q \in Nat
  BY TimedLocal
<1>2. \A q \in DOMAIN snd[e].unacked : q \notin again
  BY <1>1 DEF Opening
<1>3. ctl'[e] = d /\ snd'[e] = t
      /\ \A x \in Endpoint \ {e} : ctl'[x] = ctl[x] /\ snd'[x] = snd[x]
  BY <1>1
<1>4. \A q \in DOMAIN snd[e].unacked \cap DOMAIN snd'[e].unacked :
          snd[e].unacked[q].retransmit_count # 0 \/ q \in again
            => snd'[e].unacked[q].retransmit_count # 0
  BY <1>2, <1>3
<1> QED
  BY <1>3, <1>4 DEF Counted

\* send(), close() and recv()
LEMMA AppCounted ==
    ASSUME TimedInv, Base, NEW e \in Endpoint,
           (\E n \in 1 .. MaxBytes[e] : Send(e, n)) \/ Close(e) \/ Recv(e)
    PROVE  Counted(e, {})
<1>1. /\ ctl[e] \in CtlType /\ SndType(snd[e]) /\ SndInv(snd[e], written[e])
      /\ written[e] \in Nat
      /\ ctl = [ctl EXCEPT ![e] = ctl[e]] /\ snd = [snd EXCEPT ![e] = snd[e]]
  BY TimedLocal
<1>2. AttemptsInv(ctl[e]) /\ ResentInv(ctl[e], snd[e], resent[e])
  BY TimedLocal DEF LocalInv
<1>3. ASSUME NEW n \in 1 .. MaxBytes[e], Send(e, n) PROVE Counted(e, {})
  <2> DEFINE s == [snd[e] EXCEPT !.send_queue = @ \o Bytes(written[e], n)]
             w == written[e] + n
  <2>1. n \in Nat /\ w \in Nat
    BY <1>1, WorkloadAssumption
  <2>2. /\ SndType(s) /\ SndInv(s, w) /\ s.next_seq = snd[e].next_seq
        /\ s.unacked = snd[e].unacked
    BY <2>1, SendQueue DEF Base
  <2>3. /\ ctl' = [ctl EXCEPT ![e] = DrainCtl(ctl[e], s)]
        /\ snd' = [snd EXCEPT ![e] = TrySendMore(ctl[e], s)]
    BY <1>3 DEF Send, DrainSnd
  <2> HIDE DEF s, w
  <2>4. DrainsFrom(e, ctl[e], s, {})
    BY <1>1, <1>2, <2>1, <2>2, <2>3 DEF DrainsFrom
  <2> QED
    BY <2>4, DrainCounted
<1>4. CASE Close(e)
  <2> DEFINE c == [ctl[e] EXCEPT !.close_requested = TRUE]
  <2>1. /\ c \in CtlType /\ c.handshake = ctl[e].handshake
        /\ c.state = ctl[e].state /\ c.fin_pending = ctl[e].fin_pending
    BY <1>1 DEF CtlType
  <2>2. /\ ctl' = [ctl EXCEPT ![e] = DrainCtl(c, snd[e])]
        /\ snd' = [snd EXCEPT ![e] = TrySendMore(c, snd[e])]
    BY <1>4 DEF Close, DrainSnd
  <2> HIDE DEF c
  <2>3. AttemptsInv(c)
    BY <1>2, <2>1 DEF AttemptsInv
  <2>4. DrainsFrom(e, c, snd[e], {})
    BY <1>1, <2>1, <2>2, <2>3 DEF DrainsFrom
  <2> QED
    BY <2>4, DrainCounted
<1>5. CASE Recv(e)
  <2>1. ctl' = [ctl EXCEPT ![e] = ctl[e]] /\ snd' = [snd EXCEPT ![e] = snd[e]]
    BY <1>1, <1>5 DEF Recv
  <2>2. {} \in SUBSET {Opening}
        /\ (Opening \in resent[e] \cup {} /\ ctl[e].handshake = 1
              => ctl[e].state = "SynReceived")
    BY <1>2 DEF ResentInv
  <2> QED
    BY <1>1, <1>2, <2>1, <2>2, StillCounted
<1> QED
  BY <1>3, <1>4, <1>5

\* on_datagram, when it adopts the window and no more, or answers a SYN
LEMMA QuietCounted ==
    ASSUME TimedInv, Base, NEW e \in Endpoint, NEW m
    PROVE  /\ ReAckFin(e, m) \/ Ignore(e, m) => Counted(e, {})
           /\ OnSyn(e, m) =>
                Counted(e, IF ctl[e].state = "SynReceived" THEN {Opening} ELSE {})
<1> DEFINE t == AdoptWindow(snd[e], m)
<1>1. /\ ctl[e] \in CtlType /\ SndType(snd[e])
      /\ ctl = [ctl EXCEPT ![e] = ctl[e]] /\ ctl[e].handshake \in Nat
      /\ DOMAIN ctl = Endpoint
  BY TimedLocal
<1>2. AttemptsInv(ctl[e]) /\ ResentInv(ctl[e], snd[e], resent[e])
  BY TimedLocal DEF LocalInv
<1>3. t.unacked = snd[e].unacked
  BY <1>1 DEF AdoptWindow, SndType
<1> HIDE DEF t
<1>4. ASSUME ReAckFin(e, m) \/ Ignore(e, m) PROVE Counted(e, {})
  <2>1. ctl' = [ctl EXCEPT ![e] = ctl[e]] /\ snd' = [snd EXCEPT ![e] = t]
    BY <1>1, <1>4 DEF ReAckFin, Ignore, t
  <2>2. {} \in SUBSET {Opening}
        /\ (Opening \in resent[e] \cup {} /\ ctl[e].handshake = 1
              => ctl[e].state = "SynReceived")
    BY <1>2 DEF ResentInv
  <2> QED
    BY <1>1, <1>2, <1>3, <2>1, <2>2, StillCounted
<1>5. ASSUME OnSyn(e, m)
      PROVE  Counted(e, IF ctl[e].state = "SynReceived" THEN {Opening} ELSE {})
  <2> DEFINE d == [ctl[e] EXCEPT !.state = "SynReceived", !.handshake = 1]
  <2>1. snd' = [snd EXCEPT ![e] = t]
    BY <1>5 DEF OnSyn, t
  <2>2. CASE ctl[e].state = "Listening"
    <3>1. ctl' = [ctl EXCEPT ![e] = d]
      BY <1>1, <1>5, <2>2 DEF OnSyn
    <3>2. d \in CtlType /\ d.state = "SynReceived" /\ d.handshake = 1
          /\ d.fin_pending = ctl[e].fin_pending
      BY <1>1 DEF CtlType, State
    <3> HIDE DEF d
    <3>3. AttemptsInv(d)
      BY <1>2, <3>2, ConfigAssumption DEF AttemptsInv, Handshaking
    <3>4. {} \in SUBSET {Opening}
      OBVIOUS
    <3>5. Counted(e, {})
      BY <1>3, <2>1, <3>1, <3>2, <3>3, <3>4, StillCounted
    <3> QED
      BY <2>2, <3>5
  <2>3. CASE ctl[e].state = "SynReceived"
    <3>1. ctl' = [ctl EXCEPT ![e] = ctl[e]]
      BY <1>1, <1>5, <2>3 DEF OnSyn
    <3>2. {Opening} \in SUBSET {Opening}
      OBVIOUS
    <3>3. Counted(e, {Opening})
      BY <1>1, <1>2, <1>3, <2>1, <2>3, <3>1, <3>2, StillCounted
    <3> QED
      BY <2>3, <3>3
  <2> QED
    BY <1>5, <2>2, <2>3 DEF OnSyn
<1> QED
  BY <1>4, <1>5

\* apply_ack and the end of the handshake
LEMMA AckAttempts ==
    ASSUME NEW c \in CtlType, AttemptsInv(c), NEW s, NEW h, NEW m
    PROVE  /\ AckCtl(c, s, h) \in CtlType
           /\ AckCtl(c, s, h).handshake = c.handshake
           /\ c.state \notin Open => AckCtl(c, s, h).state = c.state
           /\ AttemptsInv(AckCtl(c, s, h))
           /\ CompleteHandshake(c, m) \in CtlType
           /\ AttemptsInv(CompleteHandshake(c, m))
           /\ CompleteHandshake(c, m).state \in Open => CompleteHandshake(c, m).handshake = 0
<1> DEFINE a == [c EXCEPT !.fin_acked = TRUE, !.fin_pending = 0]
           b == CompleteHandshake(c, m)
<1>1. /\ a \in CtlType /\ a.handshake = c.handshake /\ a.state = c.state
      /\ a.fin_pending = 0
  BY DEF CtlType
<1>2. AckCtl(c, s, h) = CheckFullyClosed(a) \/ AckCtl(c, s, h) = c
  BY DEF AckCtl
<1> HIDE DEF a
<1>3. /\ CheckFullyClosed(a) \in CtlType
      /\ CheckFullyClosed(a).handshake = c.handshake
      /\ CheckFullyClosed(a).fin_pending = 0
      /\ c.state \notin Open => CheckFullyClosed(a).state = c.state
  BY <1>1 DEF CheckFullyClosed, CtlType, State, Open
<1>4. AttemptsInv(CheckFullyClosed(a))
  BY <1>3, ConfigAssumption DEF AttemptsInv, Handshaking, Open
<1>5. /\ b \in CtlType
      /\ b = c \/ (b.handshake = 0 /\ b.fin_pending = c.fin_pending)
  BY DEF CompleteHandshake, CtlType, State
<1> HIDE DEF b
<1>6. AttemptsInv(b) /\ (b.state \in Open => b.handshake = 0)
  BY <1>5, ConfigAssumption DEF AttemptsInv, Handshaking, Open
<1> QED
  BY <1>2, <1>3, <1>4, <1>5, <1>6 DEF b

\* on_datagram, the shared block
LEMMA ProcessCounted ==
    ASSUME TimedInv, Base, NEW e \in Endpoint, NEW m, Process(e, m)
    PROVE  Counted(e, FastRetransmitted(e, m))
<1> DEFINE c0  == CompleteHandshake(ctl[e], m)
           s0  == AdoptWindow(snd[e], m)
           ack == "ACK" \in m.flags
           fin == "FIN" \in m.flags
           c1  == IF ack THEN AckCtl(c0, s0, m.header) ELSE c0
           s1  == IF ack THEN AckSnd(s0, m.header) ELSE s0
           c2  == [c1 EXCEPT !.peer_fin_seen = @ \/ fin]
           again == FastRetransmitted(e, m)
<1>1. /\ Arrives(e, m) /\ c0.state \in Open
      /\ ctl' = [ctl EXCEPT ![e] = DrainCtl(c2, s1)]
      /\ snd' = [snd EXCEPT ![e] = TrySendMore(c2, s1)]
  BY DEF Process, DrainSnd, Open
<1>2. m.header.window \in 0 .. U32Max /\ m.header.ack \in Nat
  BY <1>1, ArrivesFacts DEF Base
<1>3. /\ ctl[e] \in CtlType /\ SndType(snd[e]) /\ SndInv(snd[e], written[e])
      /\ written[e] \in Nat
  BY TimedLocal
<1>4. AttemptsInv(ctl[e])
  BY TimedLocal DEF LocalInv
<1>5. c0 \in CtlType /\ AttemptsInv(c0) /\ c0.handshake = 0
  BY <1>1, <1>3, <1>4, AckAttempts
<1> HIDE DEF c0
<1>6. c1 \in CtlType /\ AttemptsInv(c1) /\ c1.handshake = 0
  BY <1>5, AckAttempts
<1> HIDE DEF c1
<1>7. c2 \in CtlType /\ AttemptsInv(c2) /\ c2.handshake = 0
  <2>1. fin \in BOOLEAN
    OBVIOUS
  <2> HIDE DEF fin
  <2>2. c2 \in CtlType /\ c2.handshake = c1.handshake /\ c2.state = c1.state
        /\ c2.fin_pending = c1.fin_pending
    BY <1>6, <2>1 DEF CtlType
  <2> QED
    BY <1>6, <2>2 DEF AttemptsInv
<1>8. /\ Keeps(snd[e], s0) /\ SndType(s0) /\ s0.unacked = snd[e].unacked
      /\ s0.send_base = snd[e].send_base /\ s0.dup_ack_count = snd[e].dup_ack_count
  BY <1>2, <1>3, AdoptWindowKeeps DEF Keeps, AdoptWindow, SndType
<1> HIDE DEF s0
<1>9. Oldest(s0) = Oldest(snd[e])
      /\ (FastRetransmits(s0, m.header.ack) <=> FastRetransmits(snd[e], m.header.ack))
  BY <1>8 DEF Oldest, FastRetransmits, IsDupAck
<1>10. Keeps(snd[e], s1)
  <2>1. Keeps(s0, s1)
    BY <1>2, <1>8, AckSndKeeps, KeepsSelf
  <2> QED
    BY <1>8, <2>1, KeepsTrans
<1>11. ASSUME NEW q \in DOMAIN s1.unacked,
              snd[e].unacked[q].retransmit_count # 0 \/ q \in again
       PROVE  s1.unacked[q].retransmit_count # 0
  <2>1. CASE ack
    <3>1. q \in again =>
            FastRetransmits(s0, m.header.ack) /\ q = Oldest(s0)
      BY <1>9 DEF FastRetransmitted
    <3> HIDE DEF again
    <3> QED
      BY <1>2, <1>8, <1>11, <2>1, <3>1, AckCounts
  <2>2. CASE ~ack
    BY <1>8, <1>11, <2>2 DEF FastRetransmitted
  <2> QED
    BY <2>1, <2>2
<1>12. again \in SUBSET (DOMAIN snd[e].unacked)
  BY <1>3, OldestFirst DEF FastRetransmitted, FastRetransmits, IsDupAck
<1>13. /\ SndType(s1) /\ SndInv(s1, written[e]) /\ s1.next_seq = snd[e].next_seq
       /\ DOMAIN s1.unacked \subseteq DOMAIN snd[e].unacked
  BY <1>3, <1>10, KeepsInv DEF Keeps
<1> HIDE DEF s1, c2, again
<1>14. DrainsFrom(e, c2, s1, again)
  BY <1>1, <1>3, <1>7, <1>11, <1>12, <1>13 DEF DrainsFrom
<1> QED
  BY <1>14, DrainCounted DEF again
\* on_tick in a handshake
LEMMA HandshakeCounted ==
    ASSUME TimedInv, Base, NEW e \in Endpoint, HandshakeTimeout(e)
    PROVE  /\ Counted(e, {Opening})
           /\ snd'[e] = snd[e] /\ ctl[e].state \in Handshaking
           /\ ctl[e].handshake # 0
           /\ \/ /\ ctl[e].handshake + 1 > MaxRetries
                 /\ ctl'[e].state = "Failed" /\ ctl'[e].handshake = 0
              \/ /\ ctl[e].handshake + 1 <= MaxRetries
                 /\ ctl'[e].state = ctl[e].state
                 /\ ctl'[e].handshake = ctl[e].handshake + 1
<1> DEFINE failed == [ctl[e] EXCEPT !.state = "Failed", !.handshake = 0]
           more   == [ctl[e] EXCEPT !.handshake = ctl[e].handshake + 1]
<1>1. /\ ctl[e] \in CtlType /\ ctl[e].handshake \in Nat
      /\ ctl[e].fin_pending \in Nat /\ DOMAIN ctl = Endpoint
      /\ snd = [snd EXCEPT ![e] = snd[e]]
  BY TimedLocal
<1>2. AttemptsInv(ctl[e])
  BY TimedLocal DEF LocalInv
<1>3. /\ failed \in CtlType /\ failed.state = "Failed" /\ failed.handshake = 0
      /\ failed.fin_pending = ctl[e].fin_pending
      /\ more \in CtlType /\ more.state = ctl[e].state
      /\ more.handshake = ctl[e].handshake + 1
      /\ more.fin_pending = ctl[e].fin_pending
  <2> DEFINE k == ctl[e].handshake + 1
  <2>1. k \in Nat
    BY <1>1
  <2> HIDE DEF k
  <2>2. [ctl[e] EXCEPT !.handshake = k] \in CtlType
        /\ [ctl[e] EXCEPT !.handshake = k].state = ctl[e].state
        /\ [ctl[e] EXCEPT !.handshake = k].handshake = k
        /\ [ctl[e] EXCEPT !.handshake = k].fin_pending = ctl[e].fin_pending
    BY <1>1, <2>1 DEF CtlType
  <2>3. failed \in CtlType /\ failed.state = "Failed" /\ failed.handshake = 0
        /\ failed.fin_pending = ctl[e].fin_pending
    BY <1>1 DEF CtlType, State
  <2> QED
    BY <2>2, <2>3 DEF k
<1>4. /\ ctl[e].state \in Handshaking /\ ctl[e].handshake # 0
      /\ snd' = [snd EXCEPT ![e] = snd[e]]
      /\ \/ /\ ctl[e].handshake + 1 > MaxRetries
            /\ ctl' = [ctl EXCEPT ![e] = failed]
         \/ /\ ctl[e].handshake + 1 <= MaxRetries
            /\ ctl' = [ctl EXCEPT ![e] = more]
  BY <1>1 DEF HandshakeTimeout, Handshaking
<1> HIDE DEF failed, more
<1>5. PICK d \in {failed, more} :
        /\ ctl' = [ctl EXCEPT ![e] = d]
        /\ \/ d = failed /\ ctl[e].handshake + 1 > MaxRetries
           \/ d = more /\ ctl[e].handshake + 1 <= MaxRetries
  BY <1>4
<1>6. AttemptsInv(d) /\ d.handshake # 1 /\ d \in CtlType
  BY <1>1, <1>2, <1>3, <1>4, <1>5, ConfigAssumption DEF AttemptsInv
<1>7. {Opening} \in SUBSET {Opening}
  OBVIOUS
<1>8. Counted(e, {Opening})
  BY <1>4, <1>5, <1>6, <1>7, StillCounted
<1>9. ctl'[e] = d /\ snd'[e] = snd[e]
  BY <1>1, <1>4, <1>5
<1> QED
  BY <1>3, <1>4, <1>5, <1>8, <1>9

\* on_tick, when the data timer gives up
LEMMA GiveUpCounted ==
    ASSUME TimedInv, Base, NEW e \in Endpoint, GiveUpData(e)
    PROVE  Counted(e, Unsacked(snd[e])) /\ ctl'[e].state = "Failed"
<1> DEFINE c == [ctl[e] EXCEPT !.state = "Failed"]
           s == [DataTimeout(snd[e]) EXCEPT !.unacked = << >>]
<1>1. /\ ctl[e] \in CtlType /\ SndType(snd[e]) /\ DOMAIN ctl = Endpoint
      /\ DOMAIN snd = Endpoint
  BY TimedLocal
<1>2. AttemptsInv(ctl[e])
  BY TimedLocal DEF LocalInv
<1>3. /\ ctl' = [ctl EXCEPT ![e] = c] /\ snd' = [snd EXCEPT ![e] = s]
      /\ ctl[e].state \in Open
  BY <1>1 DEF GiveUpData, Open
<1>4. /\ c.state = "Failed" /\ c.handshake = ctl[e].handshake
      /\ c.fin_pending = ctl[e].fin_pending
  BY <1>1 DEF CtlType
<1>5. DOMAIN s.unacked = {}
  <2>1. SndType(DataTimeout(snd[e]))
    BY <1>1, TimeoutCounts
  <2> QED
    BY <2>1 DEF SndType
<1>6. ctl[e].handshake = 0
  BY <1>2, <1>3 DEF AttemptsInv, Open, Handshaking
<1> HIDE DEF c, s
<1>7. ctl'[e] = c /\ snd'[e] = s
      /\ \A x \in Endpoint \ {e} : ctl'[x] = ctl[x] /\ snd'[x] = snd[x]
  BY <1>1, <1>3
<1>8. AttemptsInv(c)
  BY <1>2, <1>4, <1>6 DEF AttemptsInv
<1>9. Unsacked(snd[e]) \subseteq DOMAIN snd[e].unacked
  BY DEF Unsacked
<1> QED
  BY <1>4, <1>5, <1>6, <1>7, <1>8, <1>9 DEF Counted

\* on_tick in an open connection: the data timer, then that of the FIN.
LEMMA TickParts ==
    ASSUME TimedInv, Base, NEW e \in Endpoint, NEW x \in BOOLEAN,
           NEW f \in BOOLEAN, Tick(e, x, f)
    PROVE  LET s == IF x THEN DataTimeout(snd[e]) ELSE snd[e]
               p == IF f THEN ctl[e].fin_pending + 1 ELSE ctl[e].fin_pending
               c == [ctl[e] EXCEPT !.fin_pending = p]
               again == IF x THEN Unsacked(snd[e]) ELSE {}
           IN  /\ ctl[e].state \in Open
               /\ x => DOMAIN snd[e].unacked # {} /\ ~Exhausted(snd[e])
               /\ f => ctl[e].fin_pending # 0
               /\ Counted(e, again)
               /\ \/ ctl'[e].state = "Failed"
                  \/ (f => p <= MaxRetries) /\ DrainsFrom(e, c, s, again)
<1> DEFINE s == IF x THEN DataTimeout(snd[e]) ELSE snd[e]
           p == IF f THEN ctl[e].fin_pending + 1 ELSE ctl[e].fin_pending
           c == [ctl[e] EXCEPT !.fin_pending = p]
           again == IF x THEN Unsacked(snd[e]) ELSE {}
           failed == [ctl[e] EXCEPT !.state = "Failed", !.fin_pending = 0]
<1>1. /\ ctl[e] \in CtlType /\ ctl[e].fin_pending \in Nat
      /\ SndType(snd[e]) /\ SndInv(snd[e], written[e]) /\ written[e] \in Nat
      /\ DOMAIN ctl = Endpoint /\ DOMAIN snd = Endpoint
      /\ \A q \in DOMAIN snd[e].unacked :
            snd[e].unacked[q].retransmit_count \in Nat
  BY TimedLocal
<1>2. AttemptsInv(ctl[e])
  BY TimedLocal DEF LocalInv
<1>3. /\ ctl[e].state \in Open
      /\ x => DOMAIN snd[e].unacked # {} /\ ~Exhausted(snd[e])
      /\ f => ctl[e].fin_pending # 0
      /\ \/ /\ f /\ p > MaxRetries
            /\ ctl' = [ctl EXCEPT ![e] = failed] /\ snd' = [snd EXCEPT ![e] = s]
         \/ /\ ~(f /\ p > MaxRetries)
            /\ ctl' = [ctl EXCEPT ![e] = DrainCtl(c, s)]
            /\ snd' = [snd EXCEPT ![e] = TrySendMore(c, s)]
  <2>1. [ctl EXCEPT ![e].state = "Failed", ![e].fin_pending = 0]
          = [ctl EXCEPT ![e] = failed]
    BY <1>1
  <2>2. c = [ctl[e] EXCEPT !.fin_pending = IF f THEN @ + 1 ELSE @]
        /\ c.fin_pending = p
    BY <1>1 DEF CtlType
  <2> HIDE DEF failed
  <2> QED
    BY <2>1, <2>2 DEF Tick, DrainSnd, Open
<1>4. ctl[e].handshake = 0
  BY <1>2, <1>3 DEF AttemptsInv, Open, Handshaking
<1>5. /\ failed.state = "Failed" /\ failed.handshake = 0 /\ failed.fin_pending = 0
  BY <1>1, <1>4 DEF CtlType
<1>6. c \in CtlType /\ c.handshake = 0 /\ c.fin_pending = p /\ p \in Nat
  <2>1. p \in Nat
    BY <1>1
  <2> HIDE DEF p
  <2> QED
    BY <1>1, <1>4, <2>1 DEF CtlType
<1>7. again \subseteq DOMAIN snd[e].unacked
  BY DEF Unsacked
<1>8. /\ SndType(s) /\ SndInv(s, written[e]) /\ s.next_seq = snd[e].next_seq
      /\ DOMAIN s.unacked = DOMAIN snd[e].unacked
  BY <1>1, TimeoutCounts, DataTimeoutKeeps, KeepsInv
<1>9. \A q \in DOMAIN s.unacked :
          snd[e].unacked[q].retransmit_count # 0 \/ q \in again
            => s.unacked[q].retransmit_count # 0
  <2>1. \A n \in Nat : CountRetransmit(n) # 0
    BY ConfigAssumption DEF CountRetransmit, Lesser
  <2> QED
    BY <1>1, <2>1, TimeoutCounts
<1> HIDE DEF s, c, again, failed
<1>10. CASE /\ f /\ p > MaxRetries
            /\ ctl' = [ctl EXCEPT ![e] = failed] /\ snd' = [snd EXCEPT ![e] = s]
  <2>1. ctl'[e] = failed /\ snd'[e] = s
        /\ \A d \in Endpoint \ {e} : ctl'[d] = ctl[d] /\ snd'[d] = snd[d]
    BY <1>1, <1>10
  <2>2. AttemptsInv(failed)
    BY <1>5, ConfigAssumption DEF AttemptsInv
  <2>3. Counted(e, again)
    BY <1>5, <1>7, <1>8, <1>9, <2>1, <2>2 DEF Counted
  <2> QED
    BY <1>3, <1>5, <2>1, <2>3 DEF again
<1>11. CASE /\ ~(f /\ p > MaxRetries)
            /\ ctl' = [ctl EXCEPT ![e] = DrainCtl(c, s)]
            /\ snd' = [snd EXCEPT ![e] = TrySendMore(c, s)]
  <2>1. f => p <= MaxRetries
    BY <1>6, <1>11, ConfigAssumption
  <2>2. AttemptsInv(c)
    <3>1. p <= MaxRetries + 1
      BY <1>2, <1>6, <2>1, ConfigAssumption DEF AttemptsInv
    <3> QED
      BY <1>6, <3>1, ConfigAssumption DEF AttemptsInv
  <2>3. DrainsFrom(e, c, s, again)
    BY <1>1, <1>6, <1>7, <1>8, <1>9, <1>11, <2>2 DEF DrainsFrom
  <2>4. Counted(e, again)
    BY <2>3, DrainCounted
  <2> QED
    BY <1>3, <2>1, <2>3, <2>4 DEF s, c, again
<1> QED
  BY <1>3, <1>10, <1>11
-----------------------------------------------------------------------------
(* What a handler does to the timers *)

\* The ages, what was sent again and the estimator after a handler of e.
LEMMA ClockedLocal ==
    ASSUME TimedInv, Base, Base', NEW e \in Endpoint, NEW r, NEW again,
           Counted(e, again), Clocked(e, r, again)
    PROVE  /\ est'[e] = r /\ age'[e] = AgeAfter(e, again)
           /\ AgeType(age'[e], snd'[e])
           /\ ResentInv(ctl'[e], snd'[e], resent'[e])
           /\ IsFamily(est)' /\ IsFamily(age)' /\ IsFamily(resent)'
           /\ \A d \in Endpoint \ {e} :
                 est'[d] = est[d] /\ age'[d] = age[d] /\ resent'[d] = resent[d]
<1>1. DOMAIN est = Endpoint /\ DOMAIN age = Endpoint /\ DOMAIN resent = Endpoint
  BY DEF TimedInv, IsFamily
<1> DEFINE kept == (resent[e] \cup again) \cap
                     (DOMAIN snd'[e].unacked
                        \cup IF ctl'[e].handshake # 0 THEN {Opening} ELSE {})
<1>2. /\ est' = [est EXCEPT ![e] = r]
      /\ age' = [age EXCEPT ![e] = AgeAfter(e, again)]
      /\ resent' = [resent EXCEPT ![e] = kept]
  BY DEF Clocked
<1> HIDE DEF kept
<1>3. /\ est'[e] = r /\ age'[e] = AgeAfter(e, again) /\ resent'[e] = kept
      /\ \A d \in Endpoint \ {e} :
            est'[d] = est[d] /\ age'[d] = age[d] /\ resent'[d] = resent[d]
  BY <1>1, <1>2
<1>4. IsFamily(est)' /\ IsFamily(age)' /\ IsFamily(resent)'
  BY <1>1, <1>2 DEF IsFamily
<1>5. /\ AgeType(age[e], snd[e]) /\ ResentInv(ctl[e], snd[e], resent[e])
      /\ \A q \in DOMAIN snd[e].unacked : q \in Nat
  BY TimedLocal DEF LocalInv
<1>6. AgeType(AgeAfter(e, again), snd'[e])
  BY <1>5 DEF AgeAfter, AgeType, Restarted
<1>7. ResentInv(ctl'[e], snd'[e], kept)
  <2>1. kept \subseteq DOMAIN snd'[e].unacked
                         \cup (IF ctl'[e].handshake # 0 THEN {Opening} ELSE {})
    BY DEF kept
  <2>2. ASSUME NEW q \in kept \ {Opening}
        PROVE  snd'[e].unacked[q].retransmit_count # 0
    <3>1. q \in DOMAIN snd'[e].unacked /\ q # Opening
      BY <2>1
    <3>2. q \in resent[e] \/ q \in again
      BY <2>2 DEF kept
    <3>3. q \in DOMAIN snd[e].unacked
          /\ (snd[e].unacked[q].retransmit_count # 0 \/ q \in again)
      BY <1>5, <3>1, <3>2 DEF ResentInv, Counted
    <3> QED
      BY <3>1, <3>3 DEF Counted
  <2>3. Opening \in kept /\ ctl'[e].handshake = 1 => ctl'[e].state = "SynReceived"
    BY DEF kept, Counted
  <2> QED
    BY <2>1, <2>2, <2>3 DEF ResentInv
<1> QED
  BY <1>3, <1>4, <1>6, <1>7

\* The invariant after a handler of e, from what it says of e.
LEMMA HandlerTimed ==
    ASSUME TimedInv, Base, Base', NEW e \in Endpoint, NEW r \in EstimatorType,
           NEW again, Counted(e, again), Clocked(e, r, again),
           ticked' \subseteq Endpoint, IsFamily(silence)', silence'[e] \in Nat,
           \A d \in Endpoint \ {e} : /\ silence'[d] = silence[d]
                                     /\ d \in ticked' <=> d \in ticked,
           PatienceInv(ctl'[e], snd'[e], age'[e], silence'[e], e \in ticked')
    PROVE  TimedInv'
<1>1. /\ est'[e] = r /\ AgeType(age'[e], snd'[e])
      /\ ResentInv(ctl'[e], snd'[e], resent'[e])
      /\ IsFamily(est)' /\ IsFamily(age)' /\ IsFamily(resent)'
      /\ \A d \in Endpoint \ {e} :
            est'[d] = est[d] /\ age'[d] = age[d] /\ resent'[d] = resent[d]
  BY ClockedLocal
<1>2. AttemptsInv(ctl'[e])
      /\ \A d \in Endpoint \ {e} : ctl'[d] = ctl[d] /\ snd'[d] = snd[d]
  BY DEF Counted
<1>3. LocalInv(ctl'[e], snd'[e], est'[e], age'[e], resent'[e], silence'[e],
               e \in ticked')
  BY <1>1, <1>2 DEF LocalInv
<1>4. ASSUME NEW d \in Endpoint \ {e}
      PROVE  LocalInv(ctl'[d], snd'[d], est'[d], age'[d], resent'[d], silence'[d],
                      d \in ticked')
  <2>1. LocalInv(ctl[d], snd[d], est[d], age[d], resent[d], silence[d], d \in ticked)
    BY DEF TimedInv
  <2>2. (d \in ticked') = (d \in ticked)
    OBVIOUS
  <2> QED
    BY <1>1, <1>2, <2>1, <2>2
<1>5. \A d \in Endpoint : LocalInv(ctl'[d], snd'[d], est'[d], age'[d], resent'[d],
                                   silence'[d], d \in ticked')
  BY <1>3, <1>4
<1> QED
  BY <1>1, <1>5 DEF TimedInv

\* When e has just been called, nothing has been waited for in silence.
LEMMA NoSilence ==
    ASSUME NEW c \in CtlType, NEW s, SndType(s), NEW a, AgeType(a, s), NEW done,
           AttemptsInv(c)
    PROVE  PatienceInv(c, s, a, 0, done)
<1>1. ASSUME NEW n \in Nat, NEW x \in Nat PROVE Within(0, n, x, done)
  <2>1. /\ Spell(n) \in Nat /\ Spell(n + 1) = Spell(n) + MaxRto
        /\ MaxRto \in Nat \ {0}
    BY SpellFacts
  <2> QED
    BY <2>1 DEF Within
<1>2. c.handshake \in Nat /\ c.fin_pending \in Nat
  BY DEF CtlType
<1>3. c.handshake # 0 => Within(0, c.handshake - 1, a.handshake, done)
  BY <1>1, <1>2 DEF AgeType
<1>4. c.fin_pending # 0 => Within(0, c.fin_pending - 1, a.fin, done)
  BY <1>1, <1>2 DEF AgeType
<1>5. DOMAIN s.unacked # {} => Within(0, Retries(s), a.segment[Oldest(s)], done)
  <2> SUFFICES ASSUME DOMAIN s.unacked # {}
               PROVE  Within(0, Retries(s), a.segment[Oldest(s)], done)
    OBVIOUS
  <2>1. Oldest(s) \in DOMAIN s.unacked
    BY OldestFirst
  <2>2. s.unacked[Oldest(s)] \in Segment
    BY <2>1, UnackedFacts
  <2>3. s.unacked[Oldest(s)].retransmit_count \in Nat
    BY <2>2 DEF Segment
  <2>4. Retries(s) \in Nat
    BY <2>3, ConfigAssumption DEF Retries, Lesser
  <2> QED
    BY <1>1, <2>1, <2>4 DEF AgeType
<1>6. 0 <= Spell(MaxRetries + 1)
  BY SpellFacts, ConfigAssumption
<1> QED
  BY <1>3, <1>4, <1>5, <1>6 DEF PatienceInv

\* A call by the application or the network.
LEMMA CalledTimed ==
    ASSUME TimedInv, Base, Base', NEW e \in Endpoint, NEW r \in EstimatorType,
           NEW again, Counted(e, again), Called(e, r, again)
    PROVE  TimedInv'
<1>1. Clocked(e, r, again) /\ ticked' = ticked
      /\ silence' = [silence EXCEPT ![e] = 0]
  BY DEF Called
<1>2. ticked \subseteq Endpoint /\ DOMAIN silence = Endpoint
  BY DEF TimedInv, IsFamily
<1>3. /\ silence'[e] = 0 /\ IsFamily(silence)'
      /\ \A d \in Endpoint \ {e} : silence'[d] = silence[d]
  BY <1>1, <1>2 DEF IsFamily
<1>4. AgeType(age'[e], snd'[e])
  BY <1>1, ClockedLocal
<1>5. ctl'[e] \in CtlType /\ SndType(snd'[e]) /\ AttemptsInv(ctl'[e])
  BY DEF Base, IndInv, TypeOK, Counted
<1>6. PatienceInv(ctl'[e], snd'[e], age'[e], 0, e \in ticked')
  BY <1>4, <1>5, NoSilence
<1> QED
  BY <1>1, <1>2, <1>3, <1>6, HandlerTimed

-----------------------------------------------------------------------------
(* Calls *)

\* The application
LEMMA AppTimed ==
    ASSUME TimedInv, Base, Base', NEW e \in Endpoint, App(e)
    PROVE  TimedInv'
<1>1. Counted(e, {})
  BY AppCounted DEF App
<1>2. est[e] \in EstimatorType
  BY TimedLocal DEF LocalInv
<1>3. Called(e, est[e], {})
  BY DEF App
<1> QED
  BY <1>1, <1>2, <1>3, CalledTimed

\* The network
LEMMA DatagramTimed ==
    ASSUME TimedInv, Base, Base', NEW e \in Endpoint, TimedOnDatagram(e)
    PROVE  TimedInv'
<1>1. /\ est[e] \in EstimatorType /\ AgeType(age[e], snd[e])
      /\ \A q \in DOMAIN snd[e].unacked : q \in Nat
  BY TimedLocal DEF LocalInv
<1>2. PICK m \in net : \/ TimedProcess(e, m)
                       \/ TimedOnSyn(e, m)
                       \/ (ReAckFin(e, m) \/ Ignore(e, m)) /\ Called(e, est[e], {})
  BY DEF TimedOnDatagram
<1>3. CASE (ReAckFin(e, m) \/ Ignore(e, m)) /\ Called(e, est[e], {})
  <2>1. Counted(e, {})
    BY <1>3, QuietCounted
  <2> QED
    BY <1>1, <1>3, <2>1, CalledTimed
<1>4. CASE TimedOnSyn(e, m)
  <2> DEFINE again == IF ctl[e].state = "SynReceived" THEN {Opening} ELSE {}
  <2>1. Counted(e, again) /\ Called(e, est[e], again)
    BY <1>4, QuietCounted DEF TimedOnSyn
  <2> HIDE DEF again
  <2> QED
    BY <1>1, <2>1, CalledTimed
<1>5. CASE TimedProcess(e, m)
  <2> DEFINE again == FastRetransmitted(e, m)
             ack == m.header.ack
             seqs == Measured(snd[e], ack)
             h == HandshakeSampled(e, m)
             r == IF "ACK" \in m.flags /\ ack > snd[e].send_base
                    THEN AckSampled(h, age[e].segment, seqs)
                    ELSE h
  <2>1. Process(e, m) /\ Called(e, r, again)
    BY <1>5 DEF TimedProcess
  <2>2. Counted(e, again)
    BY <2>1, ProcessCounted
  <2>3. ack \in Nat
    <3>1. Arrives(e, m)
      BY <2>1 DEF Process
    <3> QED
      BY <3>1, ArrivesFacts DEF Base
  <2>4. h \in EstimatorType
    <3>1. age[e].handshake \in Nat
      BY <1>1 DEF AgeType
    <3> QED
      BY <1>1, <3>1, SampledType DEF HandshakeSampled
  <2>5. seqs \in SUBSET (0 .. ack) /\ \A q \in seqs : age[e].segment[q] \in Nat
    BY <1>1, <2>3 DEF Measured, AgeType
  <2> HIDE DEF again, ack, seqs, h
  <2>6. AckSampled(h, age[e].segment, seqs) \in EstimatorType
    BY <2>3, <2>4, <2>5, AckSampledType
  <2>7. r \in EstimatorType
    BY <2>4, <2>6
  <2> HIDE DEF r
  <2> QED
    BY <2>1, <2>2, <2>7, CalledTimed
<1> QED
  BY <1>2, <1>3, <1>4, <1>5
-----------------------------------------------------------------------------
(* Ticks *)

\* A timer pays for the silence: when it runs out it is counted, when it has
\* not it is younger than max_rto, and a tick makes it older.
LEMMA TimerPays ==
    ASSUME NEW t \in Nat, NEW n \in Nat, NEW a \in Nat, NEW done,
           Within(t, n, a, done)
    PROVE  /\ Within(t, n + 1, 0, TRUE)
           /\ a < MaxRto => Within(t, n, a, TRUE)
           /\ done => Within(t + 1, n, a + 1, FALSE)
           /\ n <= MaxRetries => t <= Spell(MaxRetries + 1)
<1>1. /\ Spell(n) \in Nat /\ Spell(n + 1) \in Nat /\ MaxRto \in Nat \ {0}
      /\ Spell(n + 1) = Spell(n) + MaxRto
      /\ Spell(n + 1 + 1) \in Nat /\ Spell(n + 1 + 1) = Spell(n + 1) + MaxRto
  BY SpellFacts
<1>2. t <= Spell(n) + a /\ t <= Spell(n + 1) /\ (done => t < Spell(n + 1))
  BY DEF Within
<1>3. Within(t, n + 1, 0, TRUE)
  BY <1>1, <1>2 DEF Within
<1>4. a < MaxRto => Within(t, n, a, TRUE)
  BY <1>1, <1>2 DEF Within
<1>5. done => Within(t + 1, n, a + 1, FALSE)
  BY <1>1, <1>2 DEF Within
<1>6. n <= MaxRetries => t <= Spell(MaxRetries + 1)
  <2> SUFFICES ASSUME n <= MaxRetries PROVE t <= Spell(MaxRetries + 1)
    OBVIOUS
  <2>1. n + 1 \in Nat /\ MaxRetries + 1 \in Nat /\ n + 1 <= MaxRetries + 1
    BY ConfigAssumption
  <2>2. Spell(n + 1) <= Spell(MaxRetries + 1)
    BY <2>1, SpellMonotone
  <2>3. Spell(MaxRetries + 1) \in Nat
    BY SpellFacts, ConfigAssumption
  <2> QED
    BY <1>1, <1>2, <2>2, <2>3
<1> QED
  BY <1>3, <1>4, <1>5, <1>6

\* No timer has run out: on_tick does nothing.
LEMMA IdleTimed ==
    ASSUME TimedInv, Base, NEW e \in Endpoint, TickIdle(e),
           ticked' = ticked \cup {e}, UNCHANGED silence
    PROVE  TimedInv'
<1>1. /\ LocalInv(ctl[e], snd[e], est[e], age[e], resent[e], silence[e], e \in ticked)
      /\ ctl[e].handshake \in Nat
  BY TimedLocal
<1>2. /\ ctl' = ctl /\ snd' = snd /\ est' = est /\ age' = age /\ resent' = resent
      /\ silence' = silence /\ ctl[e].state \notin Open
      /\ ctl[e].state \in Handshaking /\ ctl[e].handshake # 0
           => ~Expired(age[e].handshake, est[e])
  BY DEF TickIdle, vars, Open, Handshaking
<1>3. ASSUME ctl[e].handshake # 0
      PROVE  Within(silence[e], ctl[e].handshake - 1, age[e].handshake, TRUE)
  <2>1. ~Expired(age[e].handshake, est[e])
    BY <1>1, <1>2, <1>3 DEF LocalInv, AttemptsInv
  <2>2. /\ age[e].handshake \in Nat /\ silence[e] \in Nat /\ est[e] \in EstimatorType
        /\ Within(silence[e], ctl[e].handshake - 1, age[e].handshake, e \in ticked)
    BY <1>1, <1>3 DEF LocalInv, AgeType, PatienceInv
  <2>3. age[e].handshake < MaxRto
    BY <2>1, <2>2, CurrentRange, EstimatorAssumption DEF Expired
  <2>4. ctl[e].handshake - 1 \in Nat
    BY <1>1, <1>3
  <2> QED
    BY <2>2, <2>3, <2>4, TimerPays
<1>4. PatienceInv(ctl[e], snd[e], age[e], silence[e], TRUE)
  BY <1>1, <1>2, <1>3 DEF LocalInv, PatienceInv
<1>5. LocalInv(ctl[e], snd[e], est[e], age[e], resent[e], silence[e], TRUE)
  BY <1>1, <1>4 DEF LocalInv
<1>6. ASSUME NEW d \in Endpoint
      PROVE  LocalInv(ctl[d], snd[d], est[d], age[d], resent[d], silence[d],
                      d \in ticked')
  <2>1. CASE d = e
    <3>1. (d \in ticked') = TRUE
      BY <2>1
    <3> QED
      BY <1>5, <2>1, <3>1
  <2>2. CASE d # e
    <3>1. (d \in ticked') = (d \in ticked)
      BY <2>2
    <3> QED
      BY <3>1 DEF TimedInv
  <2> QED
    BY <2>1, <2>2
<1>7. ticked' \subseteq Endpoint
  BY DEF TimedInv
<1> QED
  BY <1>2, <1>6, <1>7 DEF TimedInv, IsFamily

\* A timer of e has run out, or on_tick has looked at an open connection.
LEMMA TickTimed ==
    ASSUME TimedInv, Base, Base', NEW e \in Endpoint, NEW r \in EstimatorType,
           NEW again, Counted(e, again), Clocked(e, r, again),
           ticked' = ticked \cup {e}, UNCHANGED silence,
           PatienceInv(ctl'[e], snd'[e], age'[e], silence[e], TRUE)
    PROVE  TimedInv'
<1>1. ticked' \subseteq Endpoint /\ IsFamily(silence)'
  BY DEF TimedInv, IsFamily
<1>2. silence[e] \in Nat
  BY TimedLocal DEF LocalInv
<1>3. (e \in ticked') = TRUE
  OBVIOUS
<1>4. PatienceInv(ctl'[e], snd'[e], age'[e], silence'[e], e \in ticked')
  BY <1>3
<1>5. \A d \in Endpoint \ {e} : /\ silence'[d] = silence[d]
                                /\ d \in ticked' <=> d \in ticked
  OBVIOUS
<1> QED
  BY <1>1, <1>2, <1>4, <1>5, HandlerTimed

\* The handshake timer
LEMMA HandshakeTimed ==
    ASSUME TimedInv, Base, Base', NEW e \in Endpoint, TickHandshake(e),
           ticked' = ticked \cup {e}, UNCHANGED silence
    PROVE  TimedInv'
<1> DEFINE r == IF ctl'[e].state = "Failed" THEN est[e] ELSE TimedOut(est[e])
           t == silence[e]
           h == ctl[e].handshake
<1>1. /\ LocalInv(ctl[e], snd[e], est[e], age[e], resent[e], silence[e], e \in ticked)
      /\ h \in Nat
  BY TimedLocal
<1>2. HandshakeTimeout(e) /\ Clocked(e, r, {Opening})
  BY DEF TickHandshake
<1>3. r \in EstimatorType
  BY <1>1, TimedOutType DEF LocalInv
<1>4. /\ Counted(e, {Opening}) /\ ctl[e].state \in Handshaking /\ h # 0
      /\ \/ ctl'[e].state = "Failed"
         \/ ctl'[e].state = ctl[e].state /\ ctl'[e].handshake = h + 1
  BY <1>2, HandshakeCounted
<1>5. /\ t \in Nat /\ age[e].handshake \in Nat /\ t <= Spell(MaxRetries + 1)
      /\ Within(t, h - 1, age[e].handshake, e \in ticked)
  BY <1>1, <1>4 DEF LocalInv, AgeType, PatienceInv
<1>6. CASE ctl'[e].state = "Failed"
  <2>1. ctl'[e].state \in {"Closed", "Failed"} /\ AttemptsInv(ctl'[e])
    BY <1>4, <1>6 DEF Counted
  <2>2. PatienceInv(ctl'[e], snd'[e], age'[e], t, TRUE)
    BY <1>5, <2>1 DEF PatienceInv, AttemptsInv, Handshaking, Open
  <2> HIDE DEF r
  <2> QED
    BY <1>2, <1>3, <1>4, <2>2, TickTimed
<1>7. CASE ctl'[e].state = ctl[e].state /\ ctl'[e].handshake = h + 1
  <2>1. age'[e].handshake = 0
    <3>1. age'[e] = AgeAfter(e, {Opening})
      BY <1>2, <1>4, ClockedLocal
    <3> QED
      BY <1>1, <1>7, <3>1 DEF AgeAfter, Restarted
  <2>2. h - 1 \in Nat /\ (h - 1) + 1 = h /\ h + 1 - 1 = h /\ h + 1 # 0
    BY <1>1, <1>4
  <2>3. Within(t, (h - 1) + 1, 0, TRUE)
    BY <1>5, <2>2, TimerPays
  <2>4. Within(t, ctl'[e].handshake - 1, age'[e].handshake, TRUE)
    <3>1. ctl'[e].handshake - 1 = h
      BY <1>7, <2>2
    <3>2. Within(t, h, 0, TRUE)
      BY <2>2, <2>3
    <3> QED
      BY <2>1, <3>1, <3>2
  <2>5. PatienceInv(ctl'[e], snd'[e], age'[e], t, TRUE)
    BY <1>4, <1>5, <1>7, <2>2, <2>4 DEF PatienceInv, Handshaking, Open
  <2> HIDE DEF r
  <2> QED
    BY <1>2, <1>3, <1>4, <2>5, TickTimed
<1> QED
  BY <1>4, <1>6, <1>7

\* The data timer, for the last time
LEMMA GiveUpTimed ==
    ASSUME TimedInv, Base, Base', NEW e \in Endpoint, TickGiveUp(e),
           ticked' = ticked \cup {e}, UNCHANGED silence
    PROVE  TimedInv'
<1>1. GiveUpData(e) /\ Clocked(e, TimedOut(est[e]), Unsacked(snd[e]))
  BY DEF TickGiveUp
<1>2. /\ TimedOut(est[e]) \in EstimatorType /\ silence[e] \in Nat
      /\ silence[e] <= Spell(MaxRetries + 1)
  BY TimedLocal, TimedOutType DEF LocalInv, PatienceInv
<1>3. Counted(e, Unsacked(snd[e])) /\ ctl'[e].state = "Failed"
  BY <1>1, GiveUpCounted
<1>4. ctl'[e].state \in {"Closed", "Failed"} /\ AttemptsInv(ctl'[e])
  BY <1>3 DEF Counted
<1>5. PatienceInv(ctl'[e], snd'[e], age'[e], silence[e], TRUE)
  BY <1>2, <1>4 DEF PatienceInv, AttemptsInv, Handshaking, Open
<1> QED
  BY <1>1, <1>2, <1>3, <1>5, TickTimed
\* on_tick in an open connection
LEMMA OpenTimed ==
    ASSUME TimedInv, Base, Base', NEW e \in Endpoint, TickOpen(e),
           ticked' = ticked \cup {e}, UNCHANGED silence
    PROVE  TimedInv'
<1> DEFINE x == DataExpired(e)
           rto == IF x THEN TimedOut(est[e]) ELSE est[e]
           f == ctl[e].fin_pending # 0 /\ Expired(age[e].fin, rto)
           r == IF f /\ ctl'[e].state # "Failed" THEN TimedOut(rto) ELSE rto
           again == IF x THEN Unsacked(snd[e]) ELSE {}
           s == IF x THEN DataTimeout(snd[e]) ELSE snd[e]
           fp == ctl[e].fin_pending
           p == IF f THEN fp + 1 ELSE fp
           c == [ctl[e] EXCEPT !.fin_pending = p]
           t == silence[e]
<1>1. /\ LocalInv(ctl[e], snd[e], est[e], age[e], resent[e], silence[e], e \in ticked)
      /\ fp \in Nat /\ ctl[e] \in CtlType /\ SndType(snd[e])
      /\ \A q \in DOMAIN snd[e].unacked :
            /\ q \in Nat /\ q < snd[e].next_seq
            /\ snd[e].unacked[q].retransmit_count \in Nat
  BY TimedLocal
<1>2. Tick(e, x, f) /\ Clocked(e, r, again)
  BY DEF TickOpen
<1>3. rto \in EstimatorType /\ r \in EstimatorType /\ est[e] \in EstimatorType
  BY <1>1, TimedOutType DEF LocalInv
<1>4. x \in BOOLEAN /\ f \in BOOLEAN
  BY DEF DataExpired
<1>5. /\ t \in Nat /\ t <= Spell(MaxRetries + 1) /\ AgeType(age[e], snd[e])
      /\ PatienceInv(ctl[e], snd[e], age[e], t, e \in ticked)
  BY <1>1 DEF LocalInv, PatienceInv
<1>6. /\ x => DOMAIN snd[e].unacked # {}
      /\ ~x /\ DOMAIN snd[e].unacked # {} =>
            age[e].segment[Oldest(snd[e])] < MaxRto
      /\ fp # 0 /\ ~f => age[e].fin < MaxRto
  <2>1. Current(est[e]) \in Nat /\ Current(est[e]) <= MaxRto
        /\ Current(rto) \in Nat /\ Current(rto) <= MaxRto /\ MaxRto \in Nat
    BY <1>3, CurrentRange, EstimatorAssumption
  <2>2. DOMAIN snd[e].unacked # {} => age[e].segment[Oldest(snd[e])] \in Nat
    BY <1>1, <1>5, OldestFirst DEF AgeType
  <2>3. age[e].fin \in Nat
    BY <1>5 DEF AgeType
  <2> HIDE DEF rto
  <2> QED
    BY <2>1, <2>2, <2>3 DEF DataExpired, Expired
<1> HIDE DEF x, f, rto, r
<1>7. /\ ctl[e].state \in Open
      /\ x => DOMAIN snd[e].unacked # {} /\ ~Exhausted(snd[e])
      /\ f => fp # 0
      /\ Counted(e, again)
      /\ ctl'[e].state = "Failed" \/ DrainsFrom(e, c, s, again)
  BY <1>2, <1>4, TickParts
<1>8. CASE ctl'[e].state = "Failed"
  <2>1. ctl'[e].state \in {"Closed", "Failed"} /\ AttemptsInv(ctl'[e])
    BY <1>7, <1>8 DEF Counted
  <2>2. PatienceInv(ctl'[e], snd'[e], age'[e], t, TRUE)
    BY <1>5, <2>1 DEF PatienceInv, AttemptsInv, Handshaking, Open
  <2> HIDE DEF again
  <2> QED
    BY <1>2, <1>3, <1>7, <2>2, TickTimed
<1>9. CASE DrainsFrom(e, c, s, again)
  <2> DEFINE o == Oldest(snd[e])
             k == snd[e].unacked[o].retransmit_count
             a == age[e].segment[o]
  <2>1. age'[e] = AgeAfter(e, again) /\ AgeType(age'[e], snd'[e])
    BY <1>2, <1>7, ClockedLocal
  <2>2. /\ ctl'[e] = DrainCtl(c, s) /\ snd'[e] = TrySendMore(c, s)
        /\ c \in CtlType /\ SndType(s) /\ s.next_seq = snd[e].next_seq
        /\ DOMAIN s.unacked \subseteq DOMAIN snd[e].unacked
    BY <1>9, TimedLocal DEF DrainsFrom
  <2>3. PICK w \in Nat : SndInv(s, w)
    BY <1>9 DEF DrainsFrom
  <2>4. /\ \A q \in DOMAIN s.unacked : /\ q \in DOMAIN snd'[e].unacked
                                       /\ snd'[e].unacked[q] = s.unacked[q]
        /\ DOMAIN s.unacked # {} => Oldest(snd'[e]) = Oldest(s)
        /\ s.send_queue = << >> => DOMAIN snd'[e].unacked = DOMAIN s.unacked
    BY <1>1, <2>2, <2>3, DrainAfter
  <2>5. /\ DOMAIN s.unacked = DOMAIN snd[e].unacked
        /\ s.send_queue = snd[e].send_queue
        /\ DOMAIN snd[e].unacked # {} => Oldest(s) = o
        /\ x => \A q \in DOMAIN snd[e].unacked :
                   s.unacked[q].retransmit_count =
                      IF q \in Unsacked(snd[e])
                        THEN CountRetransmit(snd[e].unacked[q].retransmit_count)
                        ELSE snd[e].unacked[q].retransmit_count
    BY <1>1, TimeoutCounts
  <2>6. /\ ctl'[e].handshake = 0 /\ AttemptsInv(ctl'[e]) /\ ctl'[e] \in CtlType
        /\ SndType(snd'[e])
        /\ \/ ctl'[e].fin_pending = p
           \/ p = 0 /\ ctl'[e].fin_pending = 1
        /\ ctl'[e].state \in Open \cup {"Closed"}
    <3>1. c.fin_pending = p /\ c.handshake = ctl[e].handshake
          /\ c.state = ctl[e].state
      <4>1. p \in Nat
        BY <1>1
      <4> HIDE DEF p
      <4> QED
        BY <1>1, <4>1 DEF CtlType
    <3>2. ctl[e].handshake = 0
      BY <1>1, <1>7 DEF LocalInv, AttemptsInv, Open, Handshaking
    <3> HIDE DEF c, p, s
    <3>3. DrainCtl(c, s).state \in Open \cup {"Closed"}
      BY <1>7, <2>2, <3>1 DEF DrainCtl, MaybeSendFin, CheckFullyClosed, CtlType, Open
    <3>4. AttemptsInv(ctl'[e]) /\ SndType(snd'[e])
      BY <1>7 DEF Counted, Base, IndInv, TypeOK
    <3> QED
      BY <2>2, <3>1, <3>2, <3>3, <3>4, DrainAttempts
  <2>7. CASE DOMAIN snd[e].unacked # {}
    <3>1. /\ o \in DOMAIN snd[e].unacked /\ k \in Nat /\ a \in Nat
          /\ Within(t, Retries(snd[e]), a, e \in ticked)
          /\ Retries(snd[e]) = Lesser(k, MaxRetries)
      BY <1>1, <1>5, <1>7, <2>7, OldestFirst DEF PatienceInv, AgeType, Retries
    <3>2. /\ Oldest(snd'[e]) = o /\ o \in DOMAIN snd'[e].unacked
          /\ snd'[e].unacked[o] = s.unacked[o]
      BY <2>4, <2>5, <2>7, <3>1
    <3>3. age'[e].segment[o] = IF o \in again THEN 0 ELSE a
      BY <2>1, <3>1, <3>2 DEF AgeAfter
    <3>4. CASE x
      <4>1. o \in Unsacked(snd[e])
        BY <2>7, <3>1 DEF Base, OldestNeverSacked, Unsacked
      <4>2. k + 1 <= MaxRetries
        BY <1>7, <3>1, <3>4, <4>1, ConfigAssumption DEF Exhausted
      <4>3. snd'[e].unacked[o].retransmit_count = k + 1
        BY <2>5, <3>1, <3>2, <3>4, <4>1, <4>2, ConfigAssumption
           DEF CountRetransmit, Lesser
      <4>4. Retries(snd'[e]) = k + 1 /\ Retries(snd[e]) = k
        BY <3>1, <3>2, <4>2, <4>3, ConfigAssumption DEF Retries, Lesser
      <4>5. age'[e].segment[Oldest(snd'[e])] = 0
        BY <3>2, <3>3, <3>4, <4>1
      <4>6. Within(t, k + 1, 0, TRUE)
        BY <1>5, <3>1, <4>4, TimerPays
      <4>7. PatienceInv(ctl'[e], snd'[e], age'[e], t, TRUE)
        BY <1>5, <2>6, <3>2, <4>4, <4>5, <4>6
           DEF PatienceInv, Handshaking, Open
      <4> HIDE DEF again
      <4> QED
        BY <1>2, <1>3, <1>7, <4>7, TickTimed
    <3>5. CASE ~x
      <4>1. snd'[e].unacked[o] = snd[e].unacked[o] /\ a < MaxRto
        BY <1>6, <2>7, <3>2, <3>5
      <4>2. Retries(snd'[e]) = Retries(snd[e]) /\ Retries(snd[e]) \in Nat
        BY <3>1, <3>2, <4>1, ConfigAssumption DEF Retries, Lesser
      <4>3. age'[e].segment[Oldest(snd'[e])] = a
        BY <3>2, <3>3, <3>5
      <4>4. Within(t, Retries(snd[e]), a, TRUE)
        BY <1>5, <3>1, <4>1, <4>2, TimerPays
      <4>5. PatienceInv(ctl'[e], snd'[e], age'[e], t, TRUE)
        BY <1>5, <2>6, <3>2, <4>2, <4>3, <4>4
           DEF PatienceInv, Handshaking, Open
      <4> HIDE DEF again
      <4> QED
        BY <1>2, <1>3, <1>7, <4>5, TickTimed
    <3> QED
      BY <3>4, <3>5
  <2>8. CASE DOMAIN snd[e].unacked = {}
    <3>1. DOMAIN snd'[e].unacked = {}
      BY <1>7, <2>4, <2>5, <2>8 DEF Base, QueueNeverStalls, Open
    <3>2. CASE fp = 0
      <4>1. t = 0
        BY <1>5, <1>7, <2>8, <3>2 DEF PatienceInv
      <4>2. PatienceInv(ctl'[e], snd'[e], age'[e], 0, TRUE)
        BY <2>1, <2>6, NoSilence
      <4>3. PatienceInv(ctl'[e], snd'[e], age'[e], t, TRUE)
        BY <4>1, <4>2
      <4> HIDE DEF again
      <4> QED
        BY <1>2, <1>3, <1>7, <4>3, TickTimed
    <3>3. CASE fp # 0
      <4>1. /\ Within(t, fp - 1, age[e].fin, e \in ticked)
            /\ age[e].fin \in Nat /\ fp - 1 \in Nat /\ (fp - 1) + 1 = fp
        BY <1>1, <1>5, <1>7, <2>8, <3>3 DEF PatienceInv, AgeType
      <4>2. ctl'[e].fin_pending = p
        BY <1>1, <2>6, <3>3
      <4>3. Within(t, ctl'[e].fin_pending - 1, age'[e].fin, TRUE)
        <5>1. CASE f
          <6>1. ctl'[e].fin_pending - 1 = fp /\ ctl'[e].fin_pending # fp
            BY <1>1, <4>2, <5>1
          <6>2. age'[e].fin = 0
            BY <2>1, <6>1 DEF AgeAfter, Restarted
          <6>3. Within(t, (fp - 1) + 1, 0, TRUE)
            BY <1>5, <4>1, TimerPays
          <6>4. Within(t, fp, 0, TRUE)
            BY <4>1, <6>3
          <6> QED
            BY <6>1, <6>2, <6>4
        <5>2. CASE ~f
          <6>1. ctl'[e].fin_pending = fp /\ age[e].fin < MaxRto
            BY <1>6, <3>3, <4>2, <5>2
          <6>2. age'[e].fin = age[e].fin
            BY <2>1, <6>1 DEF AgeAfter, Restarted
          <6>3. Within(t, fp - 1, age[e].fin, TRUE)
            BY <1>5, <4>1, <6>1, TimerPays
          <6> QED
            BY <6>1, <6>2, <6>3
        <5> QED
          BY <5>1, <5>2
      <4>4. p # 0
        BY <1>1, <3>3
      <4>5. PatienceInv(ctl'[e], snd'[e], age'[e], t, TRUE)
        BY <1>5, <2>6, <3>1, <4>2, <4>3, <4>4
           DEF PatienceInv, Handshaking, Open
      <4> HIDE DEF again
      <4> QED
        BY <1>2, <1>3, <1>7, <4>5, TickTimed
    <3> QED
      BY <3>2, <3>3
  <2> QED
    BY <2>7, <2>8
<1> QED
  BY <1>7, <1>8, <1>9
\* The next tick
LEMMA AdvanceTimed ==
    ASSUME TimedInv, Base, Advance
    PROVE  TimedInv'
<1>1. /\ ctl' = ctl /\ snd' = snd /\ est' = est /\ resent' = resent
      /\ ticked = Endpoint /\ ticked' = {}
      /\ age' = [e \in Endpoint |->
                   IF ctl[e].state \in {"Closed", "Failed"} THEN age[e]
                                                           ELSE Older(e)]
      /\ silence' = [e \in Endpoint |->
                       IF Waits(e) THEN silence[e] + 1 ELSE 0]
  BY DEF Advance, vars
<1>2. ASSUME NEW e \in Endpoint
      PROVE  LocalInv(ctl[e], snd[e], est[e], age'[e], resent[e], silence'[e], FALSE)
  <2>1. /\ LocalInv(ctl[e], snd[e], est[e], age[e], resent[e], silence[e], e \in ticked)
        /\ ctl[e] \in CtlType /\ ctl[e].handshake \in Nat
        /\ ctl[e].fin_pending \in Nat /\ SndType(snd[e])
    BY TimedLocal
  <2>2. /\ silence[e] \in Nat /\ AgeType(age[e], snd[e]) /\ AttemptsInv(ctl[e])
        /\ PatienceInv(ctl[e], snd[e], age[e], silence[e], TRUE)
    <3>1. (e \in ticked) = TRUE
      BY <1>1
    <3> QED
      BY <2>1, <3>1 DEF LocalInv
  <2>3. CASE ~Waits(e)
    <3>1. silence'[e] = 0
      BY <1>1, <2>3
    <3>2. AgeType(age'[e], snd[e])
      BY <1>1, <2>1, <2>2 DEF Older, AgeType
    <3>3. PatienceInv(ctl[e], snd[e], age'[e], 0, FALSE)
      BY <2>1, <2>2, <3>2, NoSilence
    <3>4. PatienceInv(ctl[e], snd[e], age'[e], silence'[e], FALSE)
      BY <3>1, <3>3, Zenon
    <3>5. est[e] \in EstimatorType /\ ResentInv(ctl[e], snd[e], resent[e])
      BY <2>1 DEF LocalInv
    <3>6. silence'[e] \in Nat
      BY <3>1
    <3> QED
      BY <2>2, <3>2, <3>4, <3>5, <3>6, Zenon DEF LocalInv
  <2>4. CASE Waits(e)
    <3> DEFINE c == ctl[e]
               s == snd[e]
               a == age[e]
               b == age'[e]
               t == silence[e]
    <3>1. silence'[e] = t + 1
      BY <1>1, <2>4
    <3>2. c.state \in Handshaking \cup Open
      BY <2>2, <2>4 DEF Waits, AttemptsInv, Open
    <3>3. b = Older(e)
      BY <1>1, <3>2 DEF Handshaking, Open
    <3>4. /\ AgeType(b, s)
          /\ c.handshake # 0 => b.handshake = a.handshake + 1
          /\ c.fin_pending # 0 => b.fin = a.fin + 1
          /\ \A q \in DOMAIN s.unacked : b.segment[q] = a.segment[q] + 1
      BY <2>1, <2>2, <3>3 DEF Older, AgeType
    <3> HIDE DEF b
    <3>5. ASSUME NEW n \in Nat, NEW y \in Nat, Within(t, n, y, TRUE), n <= MaxRetries
          PROVE  Within(t + 1, n, y + 1, FALSE) /\ t + 1 <= Spell(MaxRetries + 1)
      <4>1. Within(t + 1, n, y + 1, FALSE)
        BY <2>2, <3>5, TimerPays
      <4>2. t + 1 \in Nat /\ y + 1 \in Nat
        BY <2>2
      <4>3. t + 1 <= Spell(MaxRetries + 1)
        BY <3>5, <4>1, <4>2, TimerPays
      <4> QED
        BY <4>1, <4>3
    <3>6. ASSUME c.handshake # 0
          PROVE  /\ Within(t + 1, c.handshake - 1, b.handshake, FALSE)
                 /\ t + 1 <= Spell(MaxRetries + 1) /\ c.state \notin Open
      <4>1. c.handshake - 1 \in Nat /\ c.handshake - 1 <= MaxRetries
            /\ c.state \notin Open
        BY <2>1, <2>2, <3>6, ConfigAssumption DEF AttemptsInv, Handshaking, Open
      <4>2. /\ Within(t, c.handshake - 1, a.handshake, TRUE)
            /\ a.handshake \in Nat
        BY <2>2, <3>6 DEF PatienceInv, AgeType
      <4> QED
        BY <3>4, <3>5, <3>6, <4>1, <4>2
    <3>7. ASSUME c.state \in Open, DOMAIN s.unacked # {}
          PROVE  /\ Within(t + 1, Retries(s), b.segment[Oldest(s)], FALSE)
                 /\ t + 1 <= Spell(MaxRetries + 1)
      <4>1. /\ Oldest(s) \in DOMAIN s.unacked
            /\ s.unacked[Oldest(s)].retransmit_count \in Nat
        BY <2>1, <3>7, OldestFirst, TimedLocal
      <4>2. Retries(s) \in Nat /\ Retries(s) <= MaxRetries
        BY <4>1, ConfigAssumption DEF Retries, Lesser
      <4>3. /\ Within(t, Retries(s), a.segment[Oldest(s)], TRUE)
            /\ a.segment[Oldest(s)] \in Nat
        BY <2>2, <3>7, <4>1 DEF PatienceInv, AgeType
      <4> QED
        BY <3>4, <3>5, <4>1, <4>2, <4>3
    <3>8. ASSUME c.state \in Open, DOMAIN s.unacked = {}, c.fin_pending # 0
          PROVE  /\ Within(t + 1, c.fin_pending - 1, b.fin, FALSE)
                 /\ t + 1 <= Spell(MaxRetries + 1)
      <4>1. c.fin_pending - 1 \in Nat /\ c.fin_pending - 1 <= MaxRetries
        BY <2>1, <2>2, <3>8, ConfigAssumption DEF AttemptsInv
      <4>2. Within(t, c.fin_pending - 1, a.fin, TRUE) /\ a.fin \in Nat
        BY <2>2, <3>8 DEF PatienceInv, AgeType
      <4> QED
        BY <3>4, <3>5, <3>8, <4>1, <4>2
    <3>9. c.handshake = 0 => c.state \in Open /\ (c.fin_pending # 0 \/ DOMAIN s.unacked # {})
      BY <2>4 DEF Waits, Open
    <3>10. PatienceInv(c, s, b, t + 1, FALSE)
      BY <3>6, <3>7, <3>8, <3>9 DEF PatienceInv, Handshaking, Open
    <3>11. t + 1 \in Nat
      BY <2>2
    <3> QED
      BY <2>1, <3>1, <3>4, <3>10, <3>11 DEF LocalInv, b
  <2> QED
    BY <2>3, <2>4
<1>3. \A e \in Endpoint : LocalInv(ctl'[e], snd'[e], est'[e], age'[e], resent'[e],
                                   silence'[e], e \in ticked')
  <2> SUFFICES ASSUME NEW e \in Endpoint
               PROVE  LocalInv(ctl'[e], snd'[e], est'[e], age'[e], resent'[e],
                               silence'[e], e \in ticked')
    OBVIOUS
  <2>1. (e \in ticked') = FALSE
    BY <1>1
  <2> QED
    BY <1>1, <1>2, <2>1
<1>4. ticked' \subseteq Endpoint /\ IsFamily(est)' /\ IsFamily(resent)'
      /\ IsFamily(age)' /\ IsFamily(silence)'
  BY <1>1 DEF TimedInv, IsFamily
<1> QED
  BY <1>3, <1>4 DEF TimedInv

-----------------------------------------------------------------------------
(* The theorems *)

LEMMA TimedInitOK == TimedInit => TimedInv
<1> SUFFICES ASSUME TimedInit PROVE TimedInv
  OBVIOUS
<1>1. IndInv
  BY InitOK DEF TimedInit
<1> DEFINE zero == [handshake |-> 0, fin |-> 0, segment |-> << >>]
<1>2. /\ est = [e \in Endpoint |-> NewEstimator] /\ age = [e \in Endpoint |-> zero]
      /\ ticked = {} /\ resent = [e \in Endpoint |-> {}]
      /\ silence = [e \in Endpoint |-> 0]
  BY DEF TimedInit
<1>3. ASSUME NEW e \in Endpoint
      PROVE  LocalInv(ctl[e], snd[e], est[e], age[e], resent[e], silence[e],
                      e \in ticked)
  <2>1. ctl[e] \in CtlType /\ SndType(snd[e])
    BY <1>1, Local
  <2>2. DOMAIN snd[e].unacked = {}
    BY DEF TimedInit, Init, BlankSnd
  <2>3. /\ ctl[e].fin_pending = 0
        /\ \/ ctl[e].handshake = 0
           \/ ctl[e].handshake = 1 /\ ctl[e].state = "SynSent"
    BY DEF TimedInit, Init, ConnectCtl, BlankCtl
  <2>4. AttemptsInv(ctl[e])
    BY <2>3, ConfigAssumption DEF AttemptsInv, Handshaking
  <2>5. AgeType(age[e], snd[e])
    BY <1>2, <2>2 DEF AgeType
  <2>6. est[e] \in EstimatorType
    <3>1. 1 \in 1 .. MaxBackoff
      BY EstimatorAssumption
    <3> QED
      BY <1>2, <3>1 DEF NewEstimator, EstimatorType
  <2>7. ResentInv(ctl[e], snd[e], resent[e])
    BY <1>2 DEF ResentInv
  <2>8. PatienceInv(ctl[e], snd[e], age[e], 0, e \in ticked)
    BY <2>1, <2>4, <2>5, NoSilence
  <2> QED
    BY <1>2, <2>4, <2>5, <2>6, <2>7, <2>8 DEF LocalInv
<1> QED
  BY <1>2, <1>3 DEF TimedInv, IsFamily

LEMMA TimedNextOK == TimedInv /\ Base /\ Base' /\ [TimedNext]_timedVars => TimedInv'
<1> SUFFICES ASSUME TimedInv, Base, Base', [TimedNext]_timedVars PROVE TimedInv'
  OBVIOUS
<1>1. CASE UNCHANGED timedVars
  <2>1. /\ ctl' = ctl /\ snd' = snd /\ est' = est /\ age' = age
        /\ ticked' = ticked /\ resent' = resent /\ silence' = silence
    BY <1>1 DEF timedVars, vars, clock
  <2> QED
    BY <2>1 DEF TimedInv, IsFamily
<1>2. ASSUME NEW e \in Endpoint, TimedOnTick(e) PROVE TimedInv'
  BY <1>2, HandshakeTimed, GiveUpTimed, OpenTimed, IdleTimed DEF TimedOnTick
<1> QED
  BY <1>1, <1>2, AppTimed, DatagramTimed, AdvanceTimed DEF TimedNext

\* The inductive invariant of the clocked connections.
THEOREM TimedInvariance == TimedSpec => []TimedInv
BY TimedInitOK, TimedNextOK, BaseHolds, PTL DEF TimedSpec

\* Karn's rule: what apply_ack or the end of the handshake measures was sent
\* once, by whatever path a segment was repeated; the exception is the
\* SYN-ACK that on_datagram repeats for a repeated SYN.
THEOREM KarnsRuleHolds == TimedSpec => []KarnsRule
<1>1. TimedInv => KarnsRule
  BY DEF TimedInv, LocalInv, ResentInv, KarnsRule
<1> QED
  BY <1>1, TimedInvariance, PTL

\* Under silence a connection that waits for anything ends, by an answer of
\* its own or by failing, within (max_retries + 1) * max_rto ticks, for every
\* configuration and from every state it can be in when the silence begins.
THEOREM PromptFailureHolds == TimedSpec => []PromptFailure
<1>1. TimedInv => PromptFailure
  BY DEF TimedInv, LocalInv, PatienceInv, PromptFailure, Spell
<1> QED
  BY <1>1, TimedInvariance, PTL
=============================================================================
