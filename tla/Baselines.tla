----------------------------- MODULE Baselines -----------------------------
(***************************************************************************)
(* The two textbook protocols of crates/workload, baselines.rs, that the   *)
(* transport is compared with: run_stop_and_wait and run_go_back_n.  Each  *)
(* is one loop that plays the sender, the receiver and the clock.          *)
(*                                                                         *)
(* An iteration is one tick: any number of ReceiveData (fwd.advance), then *)
(* any number of ReceiveAck (back.advance), then one Step, the rest of the *)
(* loop's body.  fwd and back are all the frames ever sent, data frames    *)
(* and acks as their sequence numbers; any of them may arrive, again and   *)
(* again or never.  A frame that does not decode is a lost one.  A Tick    *)
(* kept by the code is its age here.                                       *)
(***************************************************************************)
EXTENDS Integers, Sequences

CONSTANTS
    Chunks,      \* data.chunks(segment_size): how many there are
    Window,      \* the window of go-back-N
    Rto,         \* ArqConfig::rto
    MaxRetries,  \* ArqConfig::max_retries
    MaxTicks     \* max_ticks

ASSUME BaselinesAssumption ==
    /\ Chunks \in Nat /\ Window \in Nat \ {0}
    /\ Rto \in Nat \ {0} /\ MaxRetries \in Nat
    /\ MaxTicks \in Nat

None == -1

VARIABLES
    scheme,     \* which of the two functions runs
    unacked,    \* stop-and-wait: the number of the chunk in flight, or None
    base,       \* go-back-N: the oldest chunk that is not acknowledged
    age,        \* how long ago unacked was sent, or oldest_sent_at; or None
    next_seq, retries, expected, delivered,
    fwd, back,  \* the frames sent in each direction
    tick,
    sweep,      \* which of the two loops over datagrams is running
    result      \* "running", and how the function has returned

sender == <<unacked, base, age, next_seq, retries>>
receiver == <<expected, delivered>>
vars == <<scheme, sender, receiver, fwd, back, tick, sweep, result>>

Init ==
    /\ scheme \in {"stop_and_wait", "go_back_n"}
    /\ unacked = None /\ base = 0 /\ age = None
    /\ next_seq = 0 /\ retries = 0
    /\ expected = 0 /\ delivered = << >>
    /\ fwd = {} /\ back = {}
    /\ tick = 1 /\ sweep = "fwd" /\ result = "running"

-----------------------------------------------------------------------------
(* The loops over the datagrams that have arrived *)

\* Mutation: the receiver takes a chunk from beyond a gap.
InOrder_Beyond(seq) == seq >= expected

\* The receiver takes only the chunk it expects.
InOrder(seq) == seq = expected

\* Whatever arrived, the receiver acknowledges all that it has.
ReceiveData(seq) ==
    /\ result = "running" /\ sweep = "fwd"
    /\ seq \in fwd
    /\ \/ /\ InOrder(seq)
          /\ delivered' = Append(delivered, seq)
          /\ expected' = expected + 1
       \/ ~InOrder(seq) /\ UNCHANGED receiver
    /\ back' = back \cup {expected'}
    /\ UNCHANGED <<scheme, sender, fwd, tick, sweep, result>>

\* Mutation: any ack will do.
Acknowledges_Any(seq) ==
    IF scheme = "stop_and_wait" THEN unacked # None ELSE seq > base

\* An ack that is news to the sender.
Acknowledges(seq) ==
    IF scheme = "stop_and_wait" THEN unacked # None /\ seq = unacked + 1
                                ELSE seq > base

\* Mutation: the timer is stopped although more is in flight.
Rearmed_Stopped(seq) == None

\* go-back-N restarts its timer for what is still in flight.
Rearmed(seq) == IF seq < next_seq THEN 0 ELSE None

AckSender(seq) ==
    /\ retries' = 0
    /\ \/ /\ scheme = "stop_and_wait"
          /\ unacked' = None /\ age' = None
          /\ UNCHANGED <<base, next_seq>>
       \/ /\ scheme = "go_back_n"
          /\ base' = seq
          /\ age' = Rearmed(seq)
          /\ UNCHANGED <<unacked, next_seq>>

ReceiveAck(seq) ==
    /\ result = "running"
    /\ seq \in back
    /\ sweep' = "back"
    /\ \/ Acknowledges(seq) /\ AckSender(seq)
       \/ ~Acknowledges(seq) /\ UNCHANGED sender
    /\ UNCHANGED <<scheme, receiver, fwd, back, tick, result>>

-----------------------------------------------------------------------------
(* The rest of an iteration *)

\* The end of the loop's body: the function returns, or the next tick comes.
Loop(done) ==
    \/ /\ done \/ tick >= MaxTicks
       /\ result' = IF done THEN "completed" ELSE "out_of_ticks"
       /\ UNCHANGED <<tick, sweep>>
    \/ /\ ~(done \/ tick >= MaxTicks)
       /\ tick' = tick + 1 /\ sweep' = "fwd"
       /\ UNCHANGED result

\* An age that is t now is one more at the next tick.
Aged(t) == IF t = None \/ result' # "running" THEN t ELSE t + 1

GiveUp ==
    /\ retries + 1 > MaxRetries
    /\ retries' = retries + 1
    /\ result' = "gave_up"
    /\ UNCHANGED <<unacked, base, age, next_seq, fwd, tick, sweep>>

\* Mutation: a retransmission is not counted.
Counted_Forgotten(n) == n

Counted(n) == n + 1

\* The chunk in flight is acknowledged, and the next one is sent.
SawSend ==
    /\ unacked = None /\ next_seq < Chunks
    /\ fwd' = fwd \cup {next_seq}
    /\ unacked' = next_seq
    /\ next_seq' = next_seq + 1
    /\ Loop(FALSE)
    /\ age' = Aged(0)
    /\ UNCHANGED <<base, retries>>

\* The chunk in flight is sent again, or given up.
SawTimeout ==
    /\ unacked # None /\ age >= Rto
    /\ \/ GiveUp
       \/ /\ retries + 1 <= MaxRetries
          /\ retries' = Counted(retries)
          /\ Loop(FALSE)
          /\ age' = Aged(0)
          /\ UNCHANGED <<unacked, base, next_seq, fwd>>

SawWait ==
    /\ unacked = None => next_seq = Chunks
    /\ unacked # None => age < Rto
    /\ Loop(unacked = None)
    /\ age' = Aged(age)
    /\ UNCHANGED <<unacked, base, next_seq, retries, fwd>>

Lesser(a, b) == IF a <= b THEN a ELSE b

\* next_seq and the timer after the loop that fills the window.
Filled == IF next_seq < Lesser(base + Window, Chunks)
            THEN Lesser(base + Window, Chunks) ELSE next_seq

ArmedAt == IF Filled > next_seq /\ age = None THEN 0 ELSE age

\* The window is filled; then, if the timer of the oldest chunk has run
\* out, the whole window is sent again, or given up.
GbnStep ==
    LET expired == ArmedAt # None /\ ArmedAt >= Rto
    IN  /\ next_seq' = Filled
        /\ fwd' = fwd \cup next_seq .. Filled - 1
        /\ \/ /\ expired /\ retries + 1 > MaxRetries
              /\ retries' = retries + 1
              /\ result' = "gave_up"
              /\ age' = ArmedAt
              /\ UNCHANGED <<tick, sweep>>
           \/ /\ ~(expired /\ retries + 1 > MaxRetries)
              /\ retries' = IF expired THEN Counted(retries) ELSE retries
              /\ Loop(base = Chunks)
              /\ age' = Aged(IF expired THEN 0 ELSE ArmedAt)
        /\ UNCHANGED <<unacked, base>>

Step ==
    /\ result = "running"
    /\ \/ scheme = "stop_and_wait" /\ (SawSend \/ SawTimeout \/ SawWait)
       \/ scheme = "go_back_n" /\ GbnStep
    /\ UNCHANGED <<scheme, receiver, back>>

-----------------------------------------------------------------------------

Next ==
    \/ \E seq \in fwd : ReceiveData(seq)
    \/ \E seq \in back : ReceiveAck(seq)
    \/ Step

Spec == Init /\ [][Next]_vars

-----------------------------------------------------------------------------

\* The chunks the sender has stopped to care for: those before it.
Settled ==
    IF scheme = "go_back_n" THEN base
    ELSE IF unacked = None THEN next_seq ELSE unacked

\* The sender never moves on from a chunk that the receiver has not got,
\* although acks come late, repeated and out of order, and the receiver is
\* never ahead of what was sent.
SettledMeansDelivered ==
    Settled <= expected /\ expected <= next_seq /\ Len(delivered) = expected

\* completed == true is said only when every chunk was delivered, once and
\* in order; whatever else happens a prefix was.
CompletedMeansDelivered ==
    /\ \A i \in 1 .. Len(delivered) : delivered[i] = i - 1
    /\ result = "completed" => Len(delivered) = Chunks

\* The timer runs exactly while something is in flight.  A chunk in flight
\* without a timer would leave both sides waiting until max_ticks.
TimerWatchesFlight ==
    result = "running" => (age # None <=> Settled < next_seq)

\* The longest that either function can take, whatever max_ticks is: every
\* chunk may cost max_retries + 1 timeouts.
Cost == 1 + Chunks * (MaxRetries + 1) * Rto

\* The functions end by themselves, completing or giving up, within Cost
\* ticks, and are cut off by max_ticks only if that is less.  Callers do pass
\* less: goodput_comparison.rs gives 500,000 ticks where Cost is 572,791, and
\* the test of go-back-N in baselines.rs 5,000 where it is 19,531; they rely
\* on fewer losses than the worst case has.
EndsByItself ==
    /\ tick <= Cost
    /\ result = "out_of_ticks" => MaxTicks < Cost
=============================================================================
