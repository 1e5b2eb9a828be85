------------------------------ MODULE Transport ------------------------------
(***************************************************************************)
(* Two connections (module Connection), a client made by connect() and a   *)
(* server made by listen(), and the network between them.                  *)
(*                                                                         *)
(* net is the set of all datagrams ever sent.  OnDatagram may hand any of  *)
(* them to its receiver, at any time, any number of times, or never: the   *)
(* loss, duplication, delay and reordering of crates/channel.  A datagram  *)
(* that was corrupted or truncated on the way fails frame::decode and is   *)
(* dropped by on_datagram (connection.rs 450), so it is a lost one.        *)
(*                                                                         *)
(* written, closedAt and received are history: how many bytes the          *)
(* application has given to send(), how many it had given when it called   *)
(* close(), and what recv() has returned to it.                            *)
(***************************************************************************)
EXTENDS Connection

CONSTANTS
    MaxBytes,   \* how many bytes each application writes at most (a bound)
    Closers     \* the endpoints whose application may call close()

ASSUME WorkloadAssumption ==
    /\ MaxBytes \in [Endpoint -> Nat]
    /\ Closers \subseteq Endpoint

VARIABLES ctl, snd, rcv, net, written, closedAt, received

vars == <<ctl, snd, rcv, net, written, closedAt, received>>

Init ==
    /\ ctl = [e \in Endpoint |-> IF e = "client" THEN ConnectCtl
                                                 ELSE BlankCtl("Listening")]
    /\ snd = [e \in Endpoint |-> BlankSnd]
    /\ rcv = [e \in Endpoint |-> BlankRcv]
    /\ net = {Syn("client", BlankRcv)}
    /\ written = [e \in Endpoint |-> 0]
    /\ closedAt = [e \in Endpoint |-> 0]
    /\ received = [e \in Endpoint |-> << >>]

-----------------------------------------------------------------------------
(* Calls by the application *)

\* The n bytes that follow the first w bytes of a stream.
Bytes(w, n) == [i \in 1 .. n |-> w + i]

Send(e, n) ==
    LET s == [snd[e] EXCEPT !.send_queue = @ \o Bytes(written[e], n)]
    IN  /\ written[e] + n <= MaxBytes[e]
        /\ written' = [written EXCEPT ![e] = @ + n]
        /\ ctl' = [ctl EXCEPT ![e] = DrainCtl(@, s)]
        /\ snd' = [snd EXCEPT ![e] = DrainSnd(ctl[e], s)]
        /\ net' = net \cup DrainOut(e, ctl[e], s, rcv[e])
        /\ UNCHANGED <<rcv, closedAt, received>>

Close(e) ==
    LET c == [ctl[e] EXCEPT !.close_requested = TRUE]
    IN  /\ e \in Closers
        /\ closedAt' = [closedAt EXCEPT
                          ![e] = IF ctl[e].close_requested THEN @
                                                           ELSE written[e]]
        /\ ctl' = [ctl EXCEPT ![e] = DrainCtl(c, snd[e])]
        /\ snd' = [snd EXCEPT ![e] = DrainSnd(c, @)]
        /\ net' = net \cup DrainOut(e, c, snd[e], rcv[e])
        /\ UNCHANGED <<rcv, written, received>>

Recv(e) ==
    /\ received' = [received EXCEPT ![e] = @ \o rcv[e].delivered]
    /\ rcv' = [rcv EXCEPT ![e].delivered = << >>]
    /\ UNCHANGED <<ctl, snd, net, written, closedAt>>

-----------------------------------------------------------------------------
(* on_datagram, one action for each way it can go *)

\* Every decoded segment's window is adopted, whatever the state.
AdoptWindow(s, m) == [s EXCEPT !.peer_window = m.header.window]

\* Arrives(e, m): e's on_datagram is called with m.
Arrives(e, m) == m \in net /\ m.src = Peer(e)

\* A closed connection answers a FIN with another fin_ack.
ReAckFin(e, m) ==
    /\ Arrives(e, m)
    /\ ctl[e].state = "Closed" /\ "FIN" \in m.flags
    /\ snd' = [snd EXCEPT ![e] = AdoptWindow(@, m)]
    /\ net' = net \cup {PureAck(e, snd[e], rcv[e], TRUE)}
    /\ UNCHANGED <<ctl, rcv, written, closedAt, received>>

\* A SYN opens a listening connection; a repeated one has the SYN-ACK sent
\* again, without counting an attempt.
OnSyn(e, m) ==
    /\ Arrives(e, m)
    /\ "SYN" \in m.flags /\ "ACK" \notin m.flags
    /\ \/ /\ ctl[e].state = "Listening"
          /\ ctl' = [ctl EXCEPT ![e].state = "SynReceived", ![e].handshake = 1]
       \/ /\ ctl[e].state = "SynReceived"
          /\ UNCHANGED ctl
    /\ snd' = [snd EXCEPT ![e] = AdoptWindow(@, m)]
    /\ net' = net \cup {SynAck(e, rcv[e])}
    /\ UNCHANGED <<rcv, written, closedAt, received>>

\* The two arms that complete the handshake and fall through.
CompleteHandshake(c, m) ==
    IF \/ c.state = "SynSent" /\ {"SYN", "ACK"} \subseteq m.flags
       \/ c.state = "SynReceived" /\ "ACK" \in m.flags /\ "SYN" \notin m.flags
      THEN [c EXCEPT !.state = "Established", !.handshake = 0]
      ELSE c

\* A segment that reaches the shared Established/Closing block: the ack is
\* applied, then the payload, then the FIN; payload and FIN are answered by
\* an ack; last, whatever has become sendable is sent.
Process(e, m) ==
    LET c0  == CompleteHandshake(ctl[e], m)
        s0  == AdoptWindow(snd[e], m)
        ack == "ACK" \in m.flags
        fin == "FIN" \in m.flags
        c1  == IF ack THEN AckCtl(c0, s0, m.header) ELSE c0
        s1  == IF ack THEN AckSnd(s0, m.header) ELSE s0
        r1  == DeliverData(rcv[e], m.seq, m.data)
        c2  == [c1 EXCEPT !.peer_fin_seen = @ \/ fin]
    IN  /\ Arrives(e, m)
        /\ c0.state \in {"Established", "Closing"}
        /\ ctl' = [ctl EXCEPT ![e] = DrainCtl(c2, s1)]
        /\ snd' = [snd EXCEPT ![e] = DrainSnd(c2, s1)]
        /\ rcv' = [rcv EXCEPT ![e] = r1]
        /\ net' = net \cup (IF {"SYN", "ACK"} \subseteq m.flags
                              THEN {HandshakeAck(e, rcv[e])} ELSE {})
                      \cup (IF ack THEN AckOut(e, s0, rcv[e], m.header)
                                   ELSE {})
                      \cup (IF m.data # << >> \/ fin
                              THEN {PureAck(e, s1, r1, fin)} ELSE {})
                      \cup DrainOut(e, c2, s1, r1)
        /\ UNCHANGED <<written, closedAt, received>>

\* Everything else only updates the peer's window.
Ignore(e, m) ==
    /\ Arrives(e, m)
    /\ CompleteHandshake(ctl[e], m).state \notin {"Established", "Closing"}
    /\ ~(ctl[e].state = "Closed" /\ "FIN" \in m.flags)
    /\ ~(/\ ctl[e].state \in {"Listening", "SynReceived"}
         /\ "SYN" \in m.flags /\ "ACK" \notin m.flags)
    /\ snd' = [snd EXCEPT ![e] = AdoptWindow(@, m)]
    /\ UNCHANGED <<ctl, rcv, net, written, closedAt, received>>

OnDatagram(e) ==
    \E m \in net :
        ReAckFin(e, m) \/ OnSyn(e, m) \/ Process(e, m) \/ Ignore(e, m)

-----------------------------------------------------------------------------
(* on_tick *)

\* The handshake timer has run out.
HandshakeTimeout(e) ==
    LET attempts == ctl[e].handshake + 1
    IN  /\ ctl[e].state \in {"SynSent", "SynReceived"}
        /\ ctl[e].handshake # 0
        /\ \/ /\ attempts > MaxRetries
              /\ ctl' = [ctl EXCEPT ![e].state = "Failed", ![e].handshake = 0]
              /\ UNCHANGED net
           \/ /\ attempts <= MaxRetries
              /\ ctl' = [ctl EXCEPT ![e].handshake = attempts]
              /\ net' = net \cup {IF ctl[e].state = "SynSent"
                                    THEN Syn(e, rcv[e])
                                    ELSE SynAck(e, rcv[e])}
        /\ UNCHANGED <<snd, rcv, written, closedAt, received>>

\* The retransmission timer has run out for the last time: the segments are
\* sent once more, but the connection has failed and forgets them.
GiveUpData(e) ==
    /\ ctl[e].state \in {"Established", "Closing"}
    /\ DOMAIN snd[e].unacked # {}
    /\ Exhausted(snd[e])
    /\ ctl' = [ctl EXCEPT ![e].state = "Failed"]
    /\ snd' = [snd EXCEPT ![e] = [DataTimeout(@) EXCEPT !.unacked = << >>]]
    /\ net' = net \cup {DataFrame(e, q, snd[e], rcv[e]) : q \in Unsacked(snd[e])}
    /\ UNCHANGED <<rcv, written, closedAt, received>>

\* The rest of on_tick: the data timer may have run out (with retries left),
\* then the FIN's timer, which may fail the connection in its turn.
Tick(e, dataExpired, finExpired) ==
    LET s   == IF dataExpired THEN DataTimeout(snd[e]) ELSE snd[e]
        out == IF dataExpired
                 THEN {DataFrame(e, q, snd[e], rcv[e]) : q \in Unsacked(snd[e])}
                 ELSE {}
        c   == [ctl[e] EXCEPT !.fin_pending = IF finExpired THEN @ + 1 ELSE @]
    IN  /\ ctl[e].state \in {"Established", "Closing"}
        /\ dataExpired => DOMAIN snd[e].unacked # {} /\ ~Exhausted(snd[e])
        /\ finExpired => ctl[e].fin_pending # 0
        /\ \/ /\ finExpired /\ c.fin_pending > MaxRetries
              /\ ctl' = [ctl EXCEPT ![e].state = "Failed", ![e].fin_pending = 0]
              /\ snd' = [snd EXCEPT ![e] = s]
              /\ net' = net \cup out
           \/ /\ ~(finExpired /\ c.fin_pending > MaxRetries)
              /\ ctl' = [ctl EXCEPT ![e] = DrainCtl(c, s)]
              /\ snd' = [snd EXCEPT ![e] = DrainSnd(c, s)]
              /\ net' = net \cup out
                            \cup (IF finExpired THEN {Fin(e, s, rcv[e])} ELSE {})
                            \cup DrainOut(e, c, s, rcv[e])
        /\ UNCHANGED <<rcv, written, closedAt, received>>

OnTick(e) ==
    \/ HandshakeTimeout(e)
    \/ GiveUpData(e)
    \/ \E dataExpired, finExpired \in BOOLEAN : Tick(e, dataExpired, finExpired)

-----------------------------------------------------------------------------

Next ==
    \E e \in Endpoint :
        \/ \E n \in 1 .. MaxBytes[e] : Send(e, n)
        \/ Close(e)
        \/ Recv(e)
        \/ OnDatagram(e)
        \/ OnTick(e)

Spec == Init /\ [][Next]_vars

\* The data timer of e runs out; the timer of its FIN does.
DataTimer(e) ==
    GiveUpData(e) \/ \E finExpired \in BOOLEAN : Tick(e, TRUE, finExpired)

FinTimer(e) == \E dataExpired \in BOOLEAN : Tick(e, dataExpired, TRUE)

\* on_tick is called again and again with a clock that advances, and the RTO
\* is at most max_rto, so a timer that stays armed runs out.  Of the network
\* nothing is assumed: it need not deliver anything, ever.
FairSpec ==
    /\ Spec
    /\ \A e \in Endpoint : /\ WF_vars(HandshakeTimeout(e))
                           /\ WF_vars(DataTimer(e))
                           /\ WF_vars(FinTimer(e))

-----------------------------------------------------------------------------
(* Types *)

Segment == [data : Seq(Nat), retransmit_count : Nat, sacked : BOOLEAN]

CtlType == [state : State, handshake : Nat, close_requested : BOOLEAN,
            fin_pending : Nat, fin_acked : BOOLEAN, peer_fin_seen : BOOLEAN]

\* A map from offsets to values of S.
IsMap(f, S) == f \in [DOMAIN f -> S] /\ DOMAIN f \subseteq Nat

SndType(s) ==
    /\ s \in [send_queue : Seq(Nat), next_seq : Nat, send_base : Nat,
              unacked : {s.unacked}, peer_window : 0 .. U32Max,
              cwnd : 0 .. U32Max, ssthresh : 0 .. U32Max, dup_ack_count : Nat]
    /\ IsMap(s.unacked, Segment)

RcvType(r) ==
    /\ r \in [expected_seq : Nat, recv_buffer : {r.recv_buffer},
              delivered : Seq(Nat)]
    /\ IsMap(r.recv_buffer, Seq(Nat))

\* A datagram on the wire.
DatagramType(m) ==
    /\ m.src \in Endpoint
    /\ m.flags \subseteq Flag
    /\ m.seq \in Nat
    /\ m.data \in Seq(Nat)
    /\ m.header.ack \in Nat
    /\ m.header.fin_ack \in BOOLEAN
    /\ m.header.window \in 0 .. U32Max

\* Every part of the state, and every datagram, has the shape the structs of
\* connection.rs and segment.rs give it; the windows stay within u32.
TypeOK ==
    /\ ctl \in [Endpoint -> CtlType]
    /\ snd = [e \in Endpoint |-> snd[e]] /\ \A e \in Endpoint : SndType(snd[e])
    /\ rcv = [e \in Endpoint |-> rcv[e]] /\ \A e \in Endpoint : RcvType(rcv[e])
    /\ \A m \in net : DatagramType(m)
    /\ written \in [Endpoint -> Nat]
    /\ closedAt \in [Endpoint -> Nat]
    /\ received \in [Endpoint -> Seq(Nat)]

-----------------------------------------------------------------------------
(* Safety *)

\* What e's application has got, or will get from its next recv().
Stream(e) == received[e] \o rcv[e].delivered

\* WIRE.md, "exactly once, in order": what deliver_data has handed up is
\* the first expected_seq bytes the peer wrote, each once and in order,
\* however datagrams were lost, repeated and reordered.
PrefixDelivery ==
    \A e \in Endpoint :
        /\ Len(Stream(e)) = rcv[e].expected_seq
        /\ \A i \in 1 .. Len(Stream(e)) : Stream(e)[i] = i
        /\ rcv[e].expected_seq <= written[Peer(e)]

\* apply_ack never forgets a byte the peer has not got in order: the bytes
\* from send_base to next_seq are exactly those of unacked, each in one
\* segment, and everything below send_base has been delivered.
NothingForgotten ==
    \A e \in Endpoint :
        /\ snd[e].send_base <= rcv[Peer(e)].expected_seq
        /\ ctl[e].state # "Failed" =>
             \A o \in snd[e].send_base .. snd[e].next_seq - 1 :
                Cardinality({q \in DOMAIN snd[e].unacked :
                    q <= o /\ o < q + Len(snd[e].unacked[q].data)}) = 1

\* The oldest outstanding segment, the one whose timer on_tick watches, is
\* never marked as SACKed: if it were, on_tick would skip it at every
\* timeout, neither resending it nor ever counting up to a failure.
OldestNeverSacked ==
    \A e \in Endpoint :
        DOMAIN snd[e].unacked # {} => ~snd[e].unacked[Oldest(snd[e])].sacked

\* The drain loop of deliver_data leaves nothing behind: every entry of
\* recv_buffer lies wholly beyond expected_seq, after a gap, and no two
\* entries share a byte.  An entry left behind would take up window for the
\* rest of the connection.
NoStrandedEntry ==
    \A e \in Endpoint :
        LET buf == rcv[e].recv_buffer
        IN  /\ \A q \in DOMAIN buf : q > rcv[e].expected_seq
            /\ \A p, q \in DOMAIN buf : p < q => EndOf(buf, p) <= q

\* Config::recv_window_capacity: the peer never has more than this much of
\* its data unacknowledged (the one byte is the probe of try_send_more).
InFlightWithinCapacity ==
    \A e \in Endpoint : InFlightBytes(snd[e]) <= Greater(RecvWindowCapacity, 1)

\* A step that lets new data out leaves no more in flight than the window.
AdmitsWithinWindow ==
    \A e \in Endpoint :
        snd'[e].next_seq > snd[e].next_seq =>
            InFlightBytes(snd[e])' <= Greater(EffectiveWindow(snd[e])', 1)

\* A handler that lets new data out leaves no more in flight than the
\* window that handler ends with, except for the one-byte probe: cwnd and
\* peer_window are brought up to date before try_send_more, never after.
AdmissionWithinWindow == [][AdmitsWithinWindow]_vars

\* Queued data never waits for a datagram that need not come: after every
\* handler an open connection with bytes in its queue has a segment in
\* flight, whose timer wakes it up.  recv() sends no window update, so
\* without the one-byte probe of try_send_more a closed window would stay
\* closed for good.
QueueNeverStalls ==
    \A e \in Endpoint :
        ctl[e].state \in {"Established", "Closing"} /\ snd[e].send_queue # << >>
            => DOMAIN snd[e].unacked # {}

\* close(): a connection that reaches Closed has delivered all it was given
\* before close(), and has itself got all that the peer was given before it
\* closed; the peer is at least past its own FIN.
GracefulClose ==
    \A e \in Endpoint :
        ctl[e].state = "Closed" =>
            /\ rcv[Peer(e)].expected_seq >= closedAt[e]
            /\ rcv[e].expected_seq >= closedAt[Peer(e)]
            /\ ctl[Peer(e)].peer_fin_seen
            /\ ctl[Peer(e)].state \in {"Closing", "Closed", "Failed"}

-----------------------------------------------------------------------------
(* Liveness: a connection gets on or reports failure; it does not hang *)

\* The handshake ends, in Established or in Failed, whatever is lost.
HandshakeResolves(e) ==
    ctl[e].state \in {"SynSent", "SynReceived"}
        ~> ctl[e].state \in {"Established", "Closing", "Closed", "Failed"}

\* Every byte sent is acknowledged in the end, or the connection fails.
\* (Bytes given to send() after close() may be dropped by Closed.)
OutstandingResolves(e) ==
    \A o \in 0 .. MaxBytes[e] - 1 :
        snd[e].send_base <= o /\ o < snd[e].next_seq
            ~> snd[e].send_base > o \/ ctl[e].state \in {"Closed", "Failed"}

\* A FIN is acknowledged in the end, or the connection fails.
FinResolves(e) ==
    ctl[e].state = "Closing"
        ~> ctl[e].fin_acked \/ ctl[e].state = "Failed"

\* A connection never hangs on a handshake, on data or on a FIN of its own,
\* although the network need not deliver anything.
NeverHangs ==
    \A e \in Endpoint :
        HandshakeResolves(e) /\ OutstandingResolves(e) /\ FinResolves(e)

-----------------------------------------------------------------------------
(* What the documents and the tests say, and the code does not do *)

\* ADR-004: with the advertised window "a sender never overruns what the
\* peer can actually buffer", which Config::recv_window_capacity gives.
HeldWithinCapacity ==
    \A e \in Endpoint : HeldBytes(rcv[e]) <= RecvWindowCapacity

\* WIRE.md: under total, permanent loss "the connection reports failure
\* within a bounded number of ticks rather than hanging".  Here: when the
\* peer has given up, nothing will come from it any more, and a connection
\* that is closing reports one end or the other.
ClosingResolves ==
    \A e \in Endpoint :
        ctl[e].state = "Closing" /\ ctl[Peer(e)].state = "Failed"
            ~> ctl[e].state \in {"Closed", "Failed"}

-----------------------------------------------------------------------------
(* The abstract specification *)

RS == INSTANCE ReliableStream WITH
        closed  <- [e \in Endpoint |-> ctl[e].close_requested],
        final   <- closedAt,
        arrived <- [e \in Endpoint |-> rcv[e].expected_seq],
        read    <- received,
        eof     <- [e \in Endpoint |-> ctl[e].peer_fin_seen]

\* Two connections over a lossy, duplicating, reordering network are a pair
\* of reliable byte streams.
IsReliableStream == RS!Spec
=============================================================================
