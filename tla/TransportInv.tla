---------------------------- MODULE TransportInv ----------------------------
(***************************************************************************)
(* The inductive invariant from which TransportProof derives TypeOK and    *)
(* PrefixDelivery.  It follows a byte along its way: queued, in an unacked *)
(* segment, on the wire, in the receive buffer, delivered, received; at    *)
(* each place the bytes found at an offset are the bytes written there.    *)
(* On top of it, for the streams: SegmentInv (NothingForgotten,            *)
(* OldestNeverSacked, NoStrandedEntry), WindowInv (InFlightWithinCapacity) *)
(* and CloseInv (GracefulClose and the refinement of ReliableStream).      *)
(***************************************************************************)
EXTENDS Transport

\* data is the part of a stream that starts at offset q.
IsPart(data, q) == \A i \in 1 .. Len(data) : data[i] = q + i

\* ... and it lies within the first n bytes.
IsPartWithin(data, q, n) == IsPart(data, q) /\ q + Len(data) <= n

\* The send side of a stream of w bytes.
SndInv(s, w) ==
    /\ s.next_seq + Len(s.send_queue) = w
    /\ IsPart(s.send_queue, s.next_seq)
    /\ \A q \in DOMAIN s.unacked :
          IsPartWithin(s.unacked[q].data, q, s.next_seq)

\* The receive side, when n bytes have been sent and `got' returned by recv.
RcvInv(r, got, n) ==
    /\ Len(got) + Len(r.delivered) = r.expected_seq
    /\ IsPart(got, 0)
    /\ IsPart(r.delivered, Len(got))
    /\ r.expected_seq <= n
    /\ \A q \in DOMAIN r.recv_buffer :
          /\ Len(r.recv_buffer[q]) > 0
          /\ IsPartWithin(r.recv_buffer[q], q, n)

\* A datagram from an endpoint that has sent n bytes.
NetInv(m, n) == m.data # << >> => IsPartWithin(m.data, m.seq, n)

StreamInv ==
    /\ \A e \in Endpoint : SndInv(snd[e], written[e])
    /\ \A e \in Endpoint : RcvInv(rcv[e], received[e], snd[Peer(e)].next_seq)
    /\ \A m \in net : NetInv(m, snd[m.src].next_seq)

\* Each byte is the same byte wherever it is on its way, and no datagram
\* carries bytes beyond what its sender has taken off its queue.
IndInv == TypeOK /\ StreamInv

-----------------------------------------------------------------------------
(* Segments.  A stream is cut into segments once and for all: what is sent *)
(* again, SACKed and acknowledged are always the same pieces.              *)

\* The datagrams e has sent.
From(e) == {m \in net : m.src = e}

\* Where the segments among the datagrams M start and end.
Extents(M) ==
    {<<m.seq, m.seq + Len(m.data)>> : m \in {x \in M : x.data # << >>}}

Headers(M) == {m.header : m \in M}

\* No two segments of C share a byte; no segment of C contains a byte on
\* both sides of offset p.
Apart(C) == \A a, b \in C : a = b \/ a[2] <= b[1] \/ b[2] <= a[1]

Aligned(C, p) == \A a \in C : p <= a[1] \/ a[2] <= p

\* The header h reports offset o as received out of order.
InSack(h, o) == \E x \in h.sack : x.start <= o /\ o <= x.end

\* The receiver has the byte at offset o, in order or not.
Holds(r, o) ==
    \/ o < r.expected_seq
    \/ \E q \in DOMAIN r.recv_buffer : q <= o /\ o < EndOf(r.recv_buffer, q)

\* The segments C of the stream of s.
CutInv(s, C) ==
    /\ \A a \in C : a[1] \in Nat /\ a[2] \in Nat /\ a[1] < a[2] /\ a[2] <= s.next_seq
    /\ Apart(C)

\* Every byte from send_base on is in an unacked segment.
Covered(s) ==
    \A o \in s.send_base .. s.next_seq - 1 : \E q \in DOMAIN s.unacked :
        q <= o /\ o < q + Len(s.unacked[q].data)

\* The send side of one direction: C are the segments it has sent, H the
\* headers it may get, and x is the receiver's expected_seq.
SenderInv(s, failed, C, H, x) ==
    /\ CutInv(s, C)
    /\ \A q \in DOMAIN s.unacked :
          /\ q >= s.send_base
          /\ <<q, q + Len(s.unacked[q].data)>> \in C
          /\ s.unacked[q].sacked => \E h \in H : InSack(h, q)
    /\ Covered(s) \/ (failed /\ DOMAIN s.unacked = {})
    /\ s.send_base <= x
    /\ s.send_base = 0 \/ \E h \in H : h.ack = s.send_base

\* The receive side: the buffer holds whole segments beyond expected_seq.
ReceiverInv(r, C) ==
    /\ Aligned(C, r.expected_seq)
    /\ \A q \in DOMAIN r.recv_buffer :
          q > r.expected_seq /\ <<q, EndOf(r.recv_buffer, q)>> \in C

\* The headers H that the receiver has sent: what was SACKed is still held,
\* and no ack, old or new, asks for a byte that any header SACKs.
HeadersInv(r, C, H) ==
    /\ \A h \in H : /\ h.ack <= r.expected_seq
                    /\ Aligned(C, h.ack)
                    /\ h.window <= RecvWindowCapacity
                    /\ \A x \in h.sack : /\ x.start \in Nat \ {0} /\ x.end \in Int
                                         /\ \A o \in x.start .. x.end : Holds(r, o)
    /\ \A g, h \in H : ~ InSack(h, g.ack)

\* One direction: the sender s, the receiver r, the segments C on the way
\* and the headers H on the way back.
DirectionInv(s, failed, r, C, H) ==
    /\ SenderInv(s, failed, C, H, r.expected_seq)
    /\ ReceiverInv(r, C)
    /\ HeadersInv(r, C, H)

SegmentInv ==
    \A e \in Endpoint :
        DirectionInv(snd[e], ctl[e].state = "Failed", rcv[Peer(e)],
                     Extents(From(e)), Headers(From(Peer(e))))

\* From the handshake on, the window in use is one the peer advertised.
WindowInv ==
    /\ \A e \in Endpoint : ctl[e].state \in {"Established", "Closing"} =>
          snd[e].peer_window <= RecvWindowCapacity
    /\ InFlightWithinCapacity

-----------------------------------------------------------------------------
(* Closing *)

\* There is a FIN among the datagrams M.
FinIn(M) == \E m \in M : "FIN" \in m.flags

\* The control state c of a connection that was given w bytes, k of them
\* before close(), of which the peer has x: F says that it has sent a FIN,
\* P that the peer has, Q that the peer has seen this one's.
\* A FIN is sent when all is delivered, and taken for acknowledged only if
\* the peer has seen it.
ControlInv(c, k, w, x, F, P, Q) ==
    /\ c.close_requested => k <= w
    /\ F \/ c.state \in {"Closing", "Closed"} \/ c.fin_pending # 0 =>
          /\ c.close_requested /\ k <= x
          /\ c.state \in {"Closing", "Closed", "Failed"}
    /\ c.peer_fin_seen => P
    /\ c.fin_acked => Q
    /\ c.state = "Closed" => c.fin_acked /\ c.peer_fin_seen

\* What the datagrams M of a connection say about closing, when it has seen
\* the peer's FIN or not.
ClosingSent(M, seen) ==
    \A m \in M : /\ m.header.fin_ack => seen
                 /\ "FIN" \in m.flags => m.data = << >>

CloseInv ==
    \A e \in Endpoint :
        /\ ControlInv(ctl[e], closedAt[e], written[e], rcv[Peer(e)].expected_seq,
                      FinIn(From(e)), FinIn(From(Peer(e))),
                      ctl[Peer(e)].peer_fin_seen)
        /\ ClosingSent(From(e), ctl[e].peer_fin_seen)
=============================================================================
