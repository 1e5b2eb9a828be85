----------------------------- MODULE Connection -----------------------------
(***************************************************************************)
(* The methods of one transport connection (crates/transport, struct       *)
(* Connection), as operators on its state.  The struct is kept as three    *)
(* records:                                                                *)
(*   ctl   state, handshake, close_requested, fin_pending, fin_acked,      *)
(*         peer_fin_seen                                                   *)
(*   snd   the send side: send_queue, next_seq, send_base, unacked,        *)
(*         peer_window, cwnd, ssthresh, dup_ack_count                      *)
(*   rcv   the receive side: expected_seq, recv_buffer, delivered          *)
(* An Option<PendingControl> is its number of attempts, 0 being None.      *)
(* A BTreeMap keyed by sequence number is a function on a finite set of    *)
(* offsets.  Bytes are numbers; Transport writes the number i as the i-th  *)
(* byte of a stream, so that every byte is told from every other.          *)
(* The clock and the RTO estimator are left out: whether a timer has run   *)
(* out is an input of OnTick.                                              *)
(***************************************************************************)
EXTENDS Integers, Sequences, FiniteSets

CONSTANTS
    SegmentSize,           \* Config::segment_size
    RecvWindowCapacity,    \* Config::recv_window_capacity
    MaxRetries,            \* Config::max_retries
    FastRetransmitDupAcks, \* Config::fast_retransmit_dup_acks
    MaxSackRanges,         \* segment.rs MAX_SACK_RANGES
    U32Max                 \* u32::MAX, where the windows saturate

ASSUME ConfigAssumption ==
    /\ SegmentSize \in Nat \ {0}
    /\ RecvWindowCapacity \in Nat
    /\ MaxRetries \in Nat
    /\ FastRetransmitDupAcks \in Nat \ {0}
    /\ MaxSackRanges \in Nat
    /\ U32Max \in Nat
    /\ 2 * SegmentSize <= U32Max
    /\ RecvWindowCapacity <= U32Max

Endpoint == {"client", "server"}

Peer(e) == IF e = "client" THEN "server" ELSE "client"

State == {"Listening", "SynSent", "SynReceived", "Established", "Closing",
          "Closed", "Failed"}

Flag == {"SYN", "ACK", "FIN"}

Lesser(a, b) == IF a <= b THEN a ELSE b

Greater(a, b) == IF a >= b THEN a ELSE b

\* u32::saturating_sub and u32::saturating_add.
SaturatingSub(a, b) == IF a >= b THEN a - b ELSE 0

SaturatingAdd(a, b) == Lesser(a + b, U32Max)

\* Mutation: a retransmission is not counted.
CountRetransmit_Forgotten(n) == n

\* A retransmission count, counted up to the first value that is over the
\* limit: the code only asks of it "is it 0" and "is it > max_retries".
CountRetransmit(n) == Lesser(n + 1, MaxRetries + 1)

-----------------------------------------------------------------------------
(* The state of a fresh connection *)

BlankCtl(state) ==
    [state |-> state, handshake |-> 0, close_requested |-> FALSE,
     fin_pending |-> 0, fin_acked |-> FALSE, peer_fin_seen |-> FALSE]

BlankSnd ==
    [send_queue |-> << >>, next_seq |-> 0, send_base |-> 0,
     unacked |-> << >>, peer_window |-> SegmentSize,
     cwnd |-> 2 * SegmentSize, ssthresh |-> U32Max, dup_ack_count |-> 0]

BlankRcv == [expected_seq |-> 0, recv_buffer |-> << >>, delivered |-> << >>]

\* Connection::connect: the SYN is the first attempt of the handshake.
ConnectCtl == [BlankCtl("SynSent") EXCEPT !.handshake = 1]

-----------------------------------------------------------------------------
(* Windows *)

\* The bytes held in a map from offset to data, one pair per byte.
BytesOf(data) ==
    UNION {{q} \X (1 .. Len(data[q])) : q \in DOMAIN data}

SegmentData(unacked) == [q \in DOMAIN unacked |-> unacked[q].data]

InFlightBytes(s) == Cardinality(BytesOf(SegmentData(s.unacked)))

EffectiveWindow(s) == Lesser(s.peer_window, s.cwnd)

HeldBytes(r) == Cardinality(BytesOf(r.recv_buffer)) + Len(r.delivered)

\* Mutation: plain subtraction of unsigned numbers.
AdvertisedWindow_Wraps(r) == RecvWindowCapacity - HeldBytes(r)

AdvertisedWindow(r) == SaturatingSub(RecvWindowCapacity, HeldBytes(r))

-----------------------------------------------------------------------------
(* Runs of adjacent entries in the receive buffer *)

EndOf(buf, q) == q + Len(buf[q])

\* The keys met by starting at offset `from' and stepping from the end of an
\* entry to the entry that starts there, as long as there is one: the least
\* set of keys closed under that step.
Run(buf, from) ==
    {q \in DOMAIN buf :
        \A S \in SUBSET DOMAIN buf :
            (\A j \in {from} \cup {EndOf(buf, i) : i \in S} :
                j \in DOMAIN buf => j \in S)
            => q \in S}

\* Where that walk stops.
RunEnd(buf, from) ==
    CHOOSE p \in {from} \cup {EndOf(buf, q) : q \in Run(buf, from)} :
        p \notin DOMAIN buf

\* The merged ranges of the receive buffer, lowest first, at most
\* MaxSackRanges of them.
CurrentSackRanges(r) ==
    LET buf    == r.recv_buffer
        Starts == {q \in DOMAIN buf : \A p \in DOMAIN buf : EndOf(buf, p) # q}
    IN  {[start |-> q, end |-> RunEnd(buf, q) - 1] :
            q \in {x \in Starts :
                     Cardinality({y \in Starts : y < x}) < MaxSackRanges}}

-----------------------------------------------------------------------------
(* Datagrams *)

Header(r, fin_ack) ==
    [ack |-> r.expected_seq, fin_ack |-> fin_ack,
     window |-> AdvertisedWindow(r), sack |-> CurrentSackRanges(r)]

Datagram(e, flags, seq, header, data) ==
    [src |-> e, flags |-> flags, seq |-> seq, header |-> header,
     data |-> data]

Syn(e, r) == Datagram(e, {"SYN"}, 0, Header(r, FALSE), << >>)

SynAck(e, r) == Datagram(e, {"SYN", "ACK"}, 0, Header(r, FALSE), << >>)

HandshakeAck(e, r) == Datagram(e, {"ACK"}, 0, Header(r, FALSE), << >>)

Fin(e, s, r) ==
    Datagram(e, {"FIN", "ACK"}, s.send_base, Header(r, FALSE), << >>)

PureAck(e, s, r, fin_ack) ==
    Datagram(e, {"ACK"}, s.send_base, Header(r, fin_ack), << >>)

DataFrame(e, q, s, r) ==
    Datagram(e, {"ACK"}, q, Header(r, FALSE), s.unacked[q].data)

-----------------------------------------------------------------------------
(* Sending *)

\* Mutations: no probe of a closed window; a probe although data is in
\* flight; the bytes in flight not taken off the window.
Admitted_NoProbe(c, s) ==
    IF c.state \in {"Established", "Closing"}
      THEN Lesser(Len(s.send_queue),
                  SaturatingSub(EffectiveWindow(s), InFlightBytes(s)))
      ELSE 0

Admitted_AlwaysProbe(c, s) ==
    IF c.state \in {"Established", "Closing"}
      THEN Lesser(Len(s.send_queue),
                  Greater(1, SaturatingSub(EffectiveWindow(s), InFlightBytes(s))))
      ELSE 0

Admitted_IgnoresInFlight(c, s) ==
    IF c.state \in {"Established", "Closing"}
      THEN Lesser(Len(s.send_queue), Greater(1, EffectiveWindow(s)))
      ELSE 0

\* How many bytes of the queue try_send_more lets out.  Its loop recomputes
\* the room before every segment; the bytes it sends in all are the room at
\* the start, at least one byte when nothing is in flight.
Admitted(c, s) ==
    LET in_flight == InFlightBytes(s)
        available == SaturatingSub(EffectiveWindow(s), in_flight)
        cap       == IF in_flight = 0 THEN Greater(available, 1) ELSE available
    IN  IF c.state \in {"Established", "Closing"}
          THEN Lesser(Len(s.send_queue), cap)
          ELSE 0

\* The sequence numbers at which the admitted bytes are cut into segments.
Cuts(s, n) ==
    {q \in s.next_seq .. (s.next_seq + n - 1) :
        (q - s.next_seq) % SegmentSize = 0}

NewSegment(s, n, q) ==
    [data |-> SubSeq(s.send_queue, q - s.next_seq + 1,
                     Lesser(q - s.next_seq + SegmentSize, n)),
     retransmit_count |-> 0,
     sacked |-> FALSE]

TrySendMore(c, s) ==
    LET n == Admitted(c, s)
    IN  [s EXCEPT
           !.send_queue = SubSeq(@, n + 1, Len(@)),
           !.next_seq = @ + n,
           !.unacked = [q \in (DOMAIN @) \cup Cuts(s, n) |->
                          IF q \in Cuts(s, n) THEN NewSegment(s, n, q)
                                              ELSE s.unacked[q]]]

\* Mutation: the FIN does not wait for the data in flight.
FinReady_BeforeData(c, s) ==
    /\ c.close_requested /\ c.fin_pending = 0 /\ ~c.fin_acked
    /\ c.state = "Established" /\ s.send_queue = << >>

\* The guard of maybe_send_fin.
FinReady(c, s) ==
    /\ c.close_requested
    /\ c.fin_pending = 0
    /\ ~c.fin_acked
    /\ c.state = "Established"
    /\ s.send_queue = << >>
    /\ DOMAIN s.unacked = {}

\* Mutation: the FIN has no timer.
MaybeSendFin_NoTimer(c, s) ==
    IF FinReady(c, s) THEN [c EXCEPT !.state = "Closing"] ELSE c

MaybeSendFin(c, s) ==
    IF FinReady(c, s) THEN [c EXCEPT !.state = "Closing", !.fin_pending = 1]
                      ELSE c

\* Mutation: Closed without the peer's FIN.
CheckFullyClosed_HalfClosed(c) ==
    IF c.state = "Closing" /\ c.fin_acked
      THEN [c EXCEPT !.state = "Closed"]
      ELSE c

CheckFullyClosed(c) ==
    IF c.state = "Closing" /\ c.fin_acked /\ c.peer_fin_seen
      THEN [c EXCEPT !.state = "Closed"]
      ELSE c

\* drain_and_maybe_fin: the control and the send state it leaves, and the
\* datagrams it returns.
DrainSnd(c, s) == TrySendMore(c, s)

DrainCtl(c, s) == CheckFullyClosed(MaybeSendFin(c, TrySendMore(c, s)))

DrainOut(e, c, s, r) ==
    LET s1 == TrySendMore(c, s)
    IN  {DataFrame(e, q, s1, r) : q \in Cuts(s, Admitted(c, s))}
          \cup (IF FinReady(c, s1) THEN {Fin(e, s1, r)} ELSE {})

-----------------------------------------------------------------------------
(* Receiving *)

\* The congestion window after an ack of new data: slow start below
\* ssthresh, else about one segment per round trip.
Grow(s, acked) ==
    IF s.cwnd < s.ssthresh
      THEN SaturatingAdd(s.cwnd, acked)
      ELSE SaturatingAdd(s.cwnd,
             Greater((SegmentSize * SegmentSize) \div Greater(s.cwnd, 1), 1))

\* ssthresh after a loss, found by duplicate acks or by the timer.
Halved(s) == Greater(s.cwnd \div 2, 2 * SegmentSize)

\* Mutation: an ack also removes the segment that starts at it.
AckNew_Inclusive(s, ack) ==
    [s EXCEPT !.unacked = [q \in {x \in DOMAIN @ : x > ack} |-> @[q]],
              !.send_base = ack,
              !.dup_ack_count = 0,
              !.cwnd = Grow(s, ack - s.send_base)]

\* apply_ack when the cumulative ack is new.
AckNew(s, ack) ==
    [s EXCEPT !.unacked = [q \in {x \in DOMAIN @ : x >= ack} |-> @[q]],
              !.send_base = ack,
              !.dup_ack_count = 0,
              !.cwnd = Grow(s, ack - s.send_base)]

IsDupAck(s, ack) == ack = s.send_base /\ DOMAIN s.unacked # {}

\* This duplicate ack is the one that triggers a fast retransmit.
FastRetransmits(s, ack) ==
    IsDupAck(s, ack) /\ s.dup_ack_count + 1 = FastRetransmitDupAcks

Oldest(s) == CHOOSE q \in DOMAIN s.unacked : \A p \in DOMAIN s.unacked : q <= p

\* Mutation: a fast retransmission is not counted as one.
FastRetransmit_Uncounted(s) ==
    [s EXCEPT !.dup_ack_count = 0,
              !.ssthresh = Halved(s),
              !.cwnd = Halved(s)]

FastRetransmit(s) ==
    [s EXCEPT !.dup_ack_count = 0,
              !.ssthresh = Halved(s),
              !.cwnd = Halved(s),
              !.unacked[Oldest(s)].retransmit_count = CountRetransmit(@)]

MarkSacked(s, sack) ==
    [s EXCEPT !.unacked =
        [q \in DOMAIN @ |->
            IF \E x \in sack : x.start <= q /\ q <= x.end
              THEN [@[q] EXCEPT !.sacked = TRUE]
              ELSE @[q]]]

\* apply_ack: a fast retransmit returns before the SACK ranges and the
\* fin_ack flag of the header are looked at.
AckSnd(s, h) ==
    IF h.ack > s.send_base THEN MarkSacked(AckNew(s, h.ack), h.sack)
    ELSE IF FastRetransmits(s, h.ack) THEN FastRetransmit(s)
    ELSE IF IsDupAck(s, h.ack)
      THEN MarkSacked([s EXCEPT !.dup_ack_count = @ + 1], h.sack)
    ELSE MarkSacked(s, h.sack)

AckCtl(c, s, h) ==
    IF h.fin_ack /\ ~FastRetransmits(s, h.ack)
      THEN CheckFullyClosed([c EXCEPT !.fin_acked = TRUE, !.fin_pending = 0])
      ELSE c

AckOut(e, s, r, h) ==
    IF FastRetransmits(s, h.ack) THEN {DataFrame(e, Oldest(s), s, r)} ELSE {}

\* The bytes of the entries `keys' of a buffer, for the offsets from..to-1.
Gather(buf, keys, from, to) ==
    [i \in 1 .. (to - from) |->
        LET q == CHOOSE k \in keys : k < from + i /\ from + i <= EndOf(buf, k)
        IN  buf[q][from + i - q]]

\* Mutation: the buffer is not drained.
DeliverInOrder_NoDrain(r, seq, data) ==
    [expected_seq |-> seq + Len(data),
     recv_buffer |-> r.recv_buffer,
     delivered |-> r.delivered
                     \o SubSeq(data, r.expected_seq - seq + 1, Len(data))]

DeliverInOrder(r, seq, data) ==
    LET end  == seq + Len(data)
        keys == Run(r.recv_buffer, end)
        to   == RunEnd(r.recv_buffer, end)
    IN  [expected_seq |-> to,
         recv_buffer |-> [q \in DOMAIN r.recv_buffer \ keys |->
                            r.recv_buffer[q]],
         delivered |-> (r.delivered
                          \o SubSeq(data, r.expected_seq - seq + 1, Len(data)))
                          \o Gather(r.recv_buffer, keys, end, to)]

\* Mutations: the check for old data is missing; old data is buffered.
DeliverData_Again(r, seq, data) ==
    IF data = << >> THEN r
    ELSE IF seq <= r.expected_seq THEN DeliverInOrder(r, seq, data)
    ELSE [r EXCEPT !.recv_buffer =
            [q \in (DOMAIN @) \cup {seq} |-> IF q = seq THEN data ELSE @[q]]]

DeliverData_BuffersOld(r, seq, data) ==
    IF data = << >> THEN r
    ELSE IF seq = r.expected_seq THEN DeliverInOrder(r, seq, data)
    ELSE [r EXCEPT !.recv_buffer =
            [q \in (DOMAIN @) \cup {seq} |-> IF q = seq THEN data ELSE @[q]]]

DeliverData(r, seq, data) ==
    IF seq + Len(data) <= r.expected_seq \/ data = << >> THEN r
    ELSE IF seq <= r.expected_seq THEN DeliverInOrder(r, seq, data)
    ELSE [r EXCEPT !.recv_buffer =
            [q \in (DOMAIN @) \cup {seq} |-> IF q = seq THEN data ELSE @[q]]]

-----------------------------------------------------------------------------
(* Timers *)

\* The segments that a timeout sends again: all but the SACKed ones.
Unsacked(s) == {q \in DOMAIN s.unacked : ~s.unacked[q].sacked}

DataTimeout(s) ==
    [s EXCEPT !.ssthresh = Halved(s),
              !.cwnd = SegmentSize,
              !.dup_ack_count = 0,
              !.unacked = [q \in DOMAIN s.unacked |->
                 IF q \in Unsacked(s)
                   THEN [s.unacked[q] EXCEPT
                           !.retransmit_count = CountRetransmit(@)]
                   ELSE s.unacked[q]]]

\* A segment has now been retransmitted more than max_retries times.
Exhausted(s) ==
    \E q \in Unsacked(s) : s.unacked[q].retransmit_count + 1 > MaxRetries
=============================================================================
