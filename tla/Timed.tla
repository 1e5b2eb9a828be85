------------------------------- MODULE Timed -------------------------------
(***************************************************************************)
(* The connections of module Transport with the clock they run by and the  *)
(* RTO estimators they keep (module Estimator).  A step is a step of       *)
(* Transport together with what it does to the timers; on_tick finds out   *)
(* for itself which of them have run out.                                  *)
(*                                                                         *)
(* A sent_at is kept as the ticks that have passed since.  The clock goes  *)
(* on by one tick when on_tick has been called on both sides, as the loops *)
(* of the tests and of run_chaos do; a datagram may come before or after   *)
(* it.                                                                     *)
(***************************************************************************)
EXTENDS Transport, Estimator

CONSTANT MaxRequests  \* how many bytes are written and close() calls made
                      \* at most, on both sides together (a bound)

ASSUME RequestsAssumption == MaxRequests \in Nat

VARIABLES
    est,       \* est[e]: Connection::rto
    age,       \* age[e]: since when handshake, fin_pending and each segment
               \* of unacked have been waiting
    ticked,    \* the endpoints on which on_tick has been called at this tick
    resent,    \* history: what e waits for and has sent more than once, by
               \* sequence number, the SYN or SYN-ACK as Opening
    silence    \* history: the ticks since anything happened to e but on_tick

clock == <<est, age, ticked, resent, silence>>
timedVars == <<vars, clock>>

Opening == -1

TimedInit ==
    /\ Init
    /\ est = [e \in Endpoint |-> NewEstimator]
    /\ age = [e \in Endpoint |-> [handshake |-> 0, fin |-> 0, segment |-> << >>]]
    /\ ticked = {}
    /\ resent = [e \in Endpoint |-> {}]
    /\ silence = [e \in Endpoint |-> 0]

-----------------------------------------------------------------------------
(* What a step of e does to its timers *)

\* Mutation: whatever happens to a connection restarts its timers.
Restarted_Always(old, new, t) == 0

\* A timer is restarted when its attempts have changed, or stopped.
Restarted(old, new, t) == IF new # old THEN 0 ELSE t

\* The segments in `again' are sent again; those that are new are sent now.
AgeAfter(e, again) ==
    LET c == ctl[e]
        d == ctl'[e]
    IN  [handshake |-> Restarted(c.handshake, d.handshake, age[e].handshake),
         fin |-> Restarted(c.fin_pending, d.fin_pending, age[e].fin),
         segment |-> [q \in DOMAIN snd'[e].unacked |->
                        IF q \in DOMAIN snd[e].unacked \ again
                          THEN age[e].segment[q] ELSE 0]]

Clocked(e, rto, again) ==
    /\ est' = [est EXCEPT ![e] = rto]
    /\ age' = [age EXCEPT ![e] = AgeAfter(e, again)]
    /\ resent' = [resent EXCEPT ![e] =
                    (@ \cup again) \cap
                      (DOMAIN snd'[e].unacked
                         \cup IF ctl'[e].handshake # 0 THEN {Opening} ELSE {})]

\* e is called by its application or by the network.
Called(e, rto, again) ==
    /\ Clocked(e, rto, again)
    /\ silence' = [silence EXCEPT ![e] = 0]
    /\ UNCHANGED ticked

Requests ==
    written["client"] + written["server"]
      + Cardinality({e \in Endpoint : ctl[e].close_requested})

App(e) ==
    /\ (\E n \in 1 .. MaxBytes[e] : Send(e, n)) \/ Close(e) \/ Recv(e)
    /\ Requests' <= MaxRequests
    /\ Called(e, est[e], {})

-----------------------------------------------------------------------------
(* on_datagram *)

\* The handshake that m completes is measured, unless it was repeated.
HandshakeSampled(e, m) ==
    IF CompleteHandshake(ctl[e], m) # ctl[e] /\ ctl[e].handshake = 1
      THEN Sampled(est[e], age[e].handshake)
      ELSE est[e]

\* The segments that an ack newly covers and that were never retransmitted:
\* the ones that are measured.
Measured(s, ack) ==
    {q \in DOMAIN s.unacked : q < ack /\ s.unacked[q].retransmit_count = 0}

\* apply_ack measures them in the order of their sequence numbers.
AckSampled(r, times, seqs) ==
    LET after[S \in SUBSET seqs] ==
          IF S = {} THEN r
          ELSE LET last == CHOOSE q \in S : \A p \in S : p <= q
               IN  Sampled(after[S \ {last}], times[last])
    IN  after[seqs]

\* m makes e repeat its oldest segment.
FastRetransmitted(e, m) ==
    IF "ACK" \in m.flags /\ FastRetransmits(snd[e], m.header.ack)
      THEN {Oldest(snd[e])} ELSE {}

TimedProcess(e, m) ==
    /\ Process(e, m)
    /\ Called(e,
              IF "ACK" \in m.flags /\ m.header.ack > snd[e].send_base
                THEN AckSampled(HandshakeSampled(e, m), age[e].segment,
                                Measured(snd[e], m.header.ack))
                ELSE HandshakeSampled(e, m),
              FastRetransmitted(e, m))

\* A repeated SYN has the SYN-ACK sent again.
TimedOnSyn(e, m) ==
    /\ OnSyn(e, m)
    /\ Called(e, est[e],
              IF ctl[e].state = "SynReceived" THEN {Opening} ELSE {})

TimedOnDatagram(e) ==
    \E m \in net :
        \/ TimedProcess(e, m)
        \/ TimedOnSyn(e, m)
        \/ (ReAckFin(e, m) \/ Ignore(e, m)) /\ Called(e, est[e], {})

-----------------------------------------------------------------------------
(* on_tick *)

\* A timer that is t old has run out.
Expired(t, r) == t >= Current(r)

TickHandshake(e) ==
    /\ ctl[e].state \in {"SynSent", "SynReceived"} /\ ctl[e].handshake # 0
    /\ Expired(age[e].handshake, est[e])
    /\ HandshakeTimeout(e)
    /\ Clocked(e, IF ctl'[e].state = "Failed" THEN est[e] ELSE TimedOut(est[e]),
               {Opening})

\* The data timer is that of the oldest segment.
DataExpired(e) ==
    /\ DOMAIN snd[e].unacked # {}
    /\ Expired(age[e].segment[Oldest(snd[e])], est[e])

TickGiveUp(e) ==
    /\ DataExpired(e)
    /\ GiveUpData(e)
    /\ Clocked(e, TimedOut(est[e]), Unsacked(snd[e]))

\* The FIN's timer is compared with an RTO that the data timer has backed
\* off already.
TickOpen(e) ==
    LET data == DataExpired(e)
        rto  == IF data THEN TimedOut(est[e]) ELSE est[e]
        fin  == ctl[e].fin_pending # 0 /\ Expired(age[e].fin, rto)
    IN  /\ Tick(e, data, fin)
        /\ Clocked(e, IF fin /\ ctl'[e].state # "Failed" THEN TimedOut(rto)
                                                         ELSE rto,
                   IF data THEN Unsacked(snd[e]) ELSE {})

\* No timer has run out, or there is none.
TickIdle(e) ==
    /\ ctl[e].state \notin {"Established", "Closing"}
    /\ ctl[e].state \in {"SynSent", "SynReceived"} /\ ctl[e].handshake # 0
         => ~Expired(age[e].handshake, est[e])
    /\ UNCHANGED <<vars, est, age, resent>>

TimedOnTick(e) ==
    /\ e \notin ticked
    /\ TickHandshake(e) \/ TickGiveUp(e) \/ TickOpen(e) \/ TickIdle(e)
    /\ ticked' = ticked \cup {e}
    /\ UNCHANGED silence

\* e waits for something that its timers watch.
Waits(e) ==
    \/ ctl[e].handshake # 0
    \/ /\ ctl[e].state \in {"Established", "Closing"}
       /\ ctl[e].fin_pending # 0 \/ DOMAIN snd[e].unacked # {}

\* Everything that a timer of e watches is one tick older.
Older(e) ==
    LET a == age[e]
        c == ctl[e]
    IN  [handshake |-> a.handshake + (IF c.handshake # 0 THEN 1 ELSE 0),
         fin |-> a.fin + (IF c.fin_pending # 0 THEN 1 ELSE 0),
         segment |-> [q \in DOMAIN a.segment |-> a.segment[q] + 1]]

\* The next tick comes.  In Closed and Failed no timer is looked at again.
Advance ==
    /\ ticked = Endpoint
    /\ ticked' = {}
    /\ age' = [e \in Endpoint |->
                 IF ctl[e].state \in {"Closed", "Failed"} THEN age[e]
                                                         ELSE Older(e)]
    /\ silence' = [e \in Endpoint |->
                     IF Waits(e) THEN silence[e] + 1 ELSE 0]
    /\ UNCHANGED <<vars, est, resent>>

-----------------------------------------------------------------------------

TimedNext ==
    \/ \E e \in Endpoint : App(e) \/ TimedOnDatagram(e) \/ TimedOnTick(e)
    \/ Advance

\* A duplicate ack, and not a tick, has started the count anew.
FastRetransmission ==
    /\ ticked' = ticked
    /\ \E e \in Endpoint :
          /\ snd[e].dup_ack_count + 1 = FastRetransmitDupAcks
          /\ snd'[e].dup_ack_count = 0
          /\ snd'[e].send_base = snd[e].send_base

\* The clock goes on and on_tick is called at every tick.  The network need
\* deliver nothing; but it delivers no datagram for ever (a channel makes at
\* most two copies), so that fast retransmissions, each of which restarts
\* the data timer, come to an end.
TimedSpec ==
    /\ TimedInit /\ [][TimedNext]_timedVars
    /\ []<>(ticked = {}) /\ []<>(ticked = Endpoint)
    /\ <>[][~FastRetransmission]_timedVars

-----------------------------------------------------------------------------

\* Karn's rule, rto.rs: never measure "a segment that was retransmitted,
\* since an ACK for it is ambiguous".  What apply_ack or the end of the
\* handshake would measure was sent once, by the timer or by a fast
\* retransmission never again.  The one exception is the server's SYN-ACK,
\* which is repeated for a repeated SYN without being counted.
KarnsRule ==
    \A e \in Endpoint :
        /\ \A q \in resent[e] \ {Opening} :
              snd[e].unacked[q].retransmit_count # 0
        /\ Opening \in resent[e] /\ ctl[e].handshake = 1
              => ctl[e].state = "SynReceived"

\* WIRE.md, transport: "Under total, permanent loss, the connection reports
\* failure within a bounded number of ticks".  The bound: when nothing
\* comes, whatever a connection's timers watch is over after max_retries + 1
\* times max_rto, wherever its timers and its backoff stood before.
PromptFailure ==
    \A e \in Endpoint : silence[e] <= (MaxRetries + 1) * MaxRto

\* The fairness that Transport assumes of its timers is what the clock and
\* on_tick give: a timer that stays armed runs out.
TimersAreFair == FairSpec
=============================================================================
