--------------------------- MODULE BaselinesProof ---------------------------
(***************************************************************************)
(* Proofs about Baselines, for every number of chunks, window, timeout and *)
(* number of retries: what a sender has settled was delivered, the timer   *)
(* runs exactly while something is in flight, and the functions end by     *)
(* themselves within Cost ticks, whatever max_ticks is.                    *)
(***************************************************************************)
EXTENDS Baselines, TLAPS

-----------------------------------------------------------------------------
(* The inductive invariant *)

TypeOK ==
    /\ scheme \in {"stop_and_wait", "go_back_n"}
    /\ unacked \in Nat \cup {None} /\ base \in Nat /\ age \in Nat \cup {None}
    /\ next_seq \in Nat /\ retries \in Nat
    /\ expected \in Nat /\ delivered \in Seq(Nat)
    /\ fwd \subseteq Nat /\ back \subseteq Nat
    /\ tick \in Nat \ {0}
    /\ result \in {"running", "completed", "gave_up", "out_of_ticks"}

\* Acks of what was delivered, and frames of what was cut, are all there is.
FlightInv ==
    /\ next_seq <= Chunks
    /\ \A seq \in fwd : seq < next_seq
    /\ \A seq \in back : seq <= expected
    /\ scheme = "stop_and_wait" /\ unacked # None => next_seq = unacked + 1
    /\ SettledMeansDelivered
    /\ CompletedMeansDelivered
    /\ TimerWatchesFlight

\* How many ticks one chunk may cost.
ChunkTicks == (MaxRetries + 1) * Rto

\* How long the timer has been running.
Running == IF age = None THEN 0 ELSE age

\* What is settled has cost ChunkTicks at most for each chunk, and the oldest
\* chunk in flight its timeouts and the time since.
TimeInv ==
    /\ result = "running" =>
          /\ retries <= MaxRetries /\ Running <= Rto
          /\ tick - 1 <= Settled * ChunkTicks + (retries * Rto + Running)
    /\ EndsByItself

Inv == TypeOK /\ FlightInv /\ TimeInv

-----------------------------------------------------------------------------
(* Arithmetic *)

LEMMA Products ==
    ASSUME NEW a \in Nat, NEW b \in Nat, NEW k \in Nat
    PROVE  /\ a * k \in Nat /\ (a + 1) * k = a * k + k
           /\ a <= b => a * k <= b * k
<1>1. a * k \in Nat /\ (a + 1) * k = a * k + k
  OBVIOUS
<1>2. ASSUME a <= b PROVE a * k <= b * k
  <2>1. PICK d \in Nat : b = a + d
    <3>1. b - a \in Nat /\ b = a + (b - a)
      BY <1>2
    <3> QED
      BY <3>1
  <2>2. b * k = a * k + d * k /\ d * k \in Nat
    BY <2>1
  <2> QED
    BY <1>1, <2>2
<1> QED
  BY <1>1, <1>2

LEMMA Constants ==
    /\ ChunkTicks \in Nat /\ ChunkTicks = MaxRetries * Rto + Rto
    /\ Chunks * ChunkTicks \in Nat /\ MaxRetries * Rto \in Nat
    /\ Cost = 1 + Chunks * ChunkTicks /\ Cost \in Nat /\ MaxTicks \in Nat
    /\ Rto \in Nat \ {0} /\ MaxRetries \in Nat /\ Chunks \in Nat
    /\ Window \in Nat \ {0}
<1>1. /\ Rto \in Nat \ {0} /\ MaxRetries \in Nat /\ Chunks \in Nat
      /\ Window \in Nat \ {0} /\ MaxTicks \in Nat
  BY BaselinesAssumption
<1>2. ChunkTicks \in Nat /\ ChunkTicks = MaxRetries * Rto + Rto /\ MaxRetries * Rto \in Nat
  BY <1>1, Products DEF ChunkTicks
<1>3. Chunks * (MaxRetries + 1) * Rto = Chunks * ChunkTicks
  BY <1>1 DEF ChunkTicks
<1>4. Chunks * ChunkTicks \in Nat
  BY <1>1, <1>2, Products
<1>5. Cost = 1 + Chunks * ChunkTicks /\ Cost \in Nat
  BY <1>3, <1>4 DEF Cost
<1> QED
  BY <1>1, <1>2, <1>4, <1>5

\* Before its last timeout a chunk leaves ticks for itself, and afterwards
\* for the next one.
LEMMA Budget ==
    ASSUME NEW s \in Nat, NEW t \in Nat, s < t,
           NEW n \in Nat, n <= MaxRetries, NEW a \in Nat, a <= Rto
    PROVE  /\ s * ChunkTicks \in Nat /\ n * Rto \in Nat /\ t * ChunkTicks \in Nat
           /\ s * ChunkTicks + (n * Rto + a) <= t * ChunkTicks
           /\ a < Rto => s * ChunkTicks + (n * Rto + a) < t * ChunkTicks
<1> DEFINE K == ChunkTicks
<1>1. K \in Nat /\ K = MaxRetries * Rto + Rto /\ MaxRetries * Rto \in Nat /\ Rto \in Nat
      /\ MaxRetries \in Nat
  BY Constants
<1>2. n * Rto \in Nat /\ n * Rto <= MaxRetries * Rto
  BY <1>1, Products
<1> HIDE DEF K
<1>3. /\ s * K \in Nat /\ (s + 1) * K = s * K + K /\ (s + 1) * K <= t * K
      /\ t * K \in Nat
  BY <1>1, Products
<1> DEFINE x == n * Rto
           y == MaxRetries * Rto
           u == s * K
           v == t * K
<1>4. /\ x \in Nat /\ y \in Nat /\ u \in Nat /\ v \in Nat
      /\ x <= y /\ u + K <= v /\ K = y + Rto
  BY <1>1, <1>2, <1>3
<1> HIDE DEF x, y, u, v
<1>5. u + (x + a) <= v /\ (a < Rto => u + (x + a) < v)
  BY <1>1, <1>4
<1> QED
  BY <1>4, <1>5 DEF x, u, v, K
-----------------------------------------------------------------------------
(* The initial states and the steps that receive *)

LEMMA InitInv == Init => Inv
<1> SUFFICES ASSUME Init PROVE Inv
  OBVIOUS
<1>1. TypeOK
  BY DEF Init, TypeOK, None
<1>2. delivered = << >> /\ Len(delivered) = 0
  BY DEF Init
<1>3. Settled = 0
  BY DEF Init, Settled, None
<1>4. FlightInv
  BY <1>2, <1>3, Constants
     DEF Init, FlightInv, SettledMeansDelivered, CompletedMeansDelivered,
         TimerWatchesFlight, None
<1>5. 0 * ChunkTicks = 0 /\ 0 * Rto = 0
  BY Constants
<1>6. TimeInv
  BY <1>3, <1>5, Constants DEF Init, TimeInv, EndsByItself, Running, None
<1> QED
  BY <1>1, <1>4, <1>6 DEF Inv

\* What only the receiver or the frames change leaves the time as it was.
LEMMA SameTime ==
    ASSUME TimeInv, UNCHANGED <<scheme, sender, tick, result>>
    PROVE  TimeInv'
BY DEF TimeInv, EndsByItself, Running, Settled, sender

LEMMA DataKeepsInv ==
    ASSUME Inv, NEW seq \in fwd, ReceiveData(seq)
    PROVE  Inv'
<1>1. TimeInv'
  BY SameTime DEF Inv, ReceiveData
<1>2. Settled' = Settled
  BY DEF ReceiveData, Settled, sender
<1>3. /\ seq \in Nat /\ seq < next_seq /\ expected \in Nat /\ next_seq \in Nat
      /\ Len(delivered) = expected /\ delivered \in Seq(Nat)
      /\ Settled <= expected /\ expected <= next_seq
  BY DEF Inv, TypeOK, FlightInv, SettledMeansDelivered
<1>4. Settled \in Nat
  BY DEF Inv, TypeOK, Settled
<1>5. /\ delivered' \in Seq(Nat) /\ expected' \in Nat /\ Len(delivered') = expected'
      /\ expected <= expected' /\ expected' <= next_seq
      /\ \A i \in 1 .. Len(delivered') : delivered'[i] = i - 1
  <2>1. \A i \in 1 .. Len(delivered) : delivered[i] = i - 1
    BY DEF Inv, FlightInv, CompletedMeansDelivered
  <2>2. CASE InOrder(seq) /\ delivered' = Append(delivered, seq) /\ expected' = expected + 1
    <3>1. seq = expected
      BY <2>2 DEF InOrder
    <3>2. \A i \in 1 .. Len(delivered') : delivered'[i] = i - 1
      BY <1>3, <2>1, <2>2, <3>1
    <3> QED
      BY <1>3, <2>2, <3>1, <3>2
  <2>3. CASE UNCHANGED receiver
    BY <1>3, <2>1, <2>3 DEF receiver
  <2> QED
    BY <2>2, <2>3 DEF ReceiveData
<1>6. TypeOK'
  <2>1. back' \subseteq Nat
    BY <1>5 DEF Inv, TypeOK, ReceiveData
  <2> QED
    BY <1>5, <2>1 DEF Inv, TypeOK, ReceiveData, sender
<1>7. SettledMeansDelivered'
  BY <1>2, <1>3, <1>4, <1>5 DEF SettledMeansDelivered, ReceiveData, sender
<1>8. CompletedMeansDelivered'
  BY <1>5 DEF CompletedMeansDelivered, ReceiveData
<1>9. TimerWatchesFlight'
  BY <1>2 DEF Inv, FlightInv, TimerWatchesFlight, ReceiveData, sender
<1>10. \A s \in back' : s <= expected'
  <2>1. TAKE s \in back'
  <2>2. s \in back \/ s = expected'
    BY <2>1 DEF ReceiveData
  <2>3. back \subseteq Nat /\ (s \in back => s <= expected)
    BY DEF Inv, TypeOK, FlightInv
  <2>4. expected \in Nat /\ expected' \in Nat /\ expected <= expected'
    BY <1>3, <1>5
  <2> HIDE <1>3, <1>5
  <2>5. CASE s \in back
    <3>1. s \in Nat /\ s <= expected
      BY <2>3, <2>5
    <3> QED
      BY <2>4, <3>1
  <2>6. CASE s = expected'
    BY <2>4, <2>6
  <2> QED
    BY <2>2, <2>5, <2>6
<1>11. FlightInv'
  BY <1>7, <1>8, <1>9, <1>10 DEF Inv, FlightInv, ReceiveData, sender
<1> QED
  BY <1>1, <1>6, <1>11 DEF Inv

\* An ack that is news settles more, and nothing that was not delivered.
LEMMA AckSettles ==
    ASSUME Inv, NEW seq \in back, ReceiveAck(seq), result = "running",
           Acknowledges(seq), AckSender(seq)
    PROVE  /\ unacked' \in Nat \cup {None} /\ base' \in Nat /\ age' \in {0, None}
           /\ next_seq' = next_seq /\ retries' = 0
           /\ Settled \in Nat /\ Settled' \in Nat
           /\ Settled < Settled' /\ Settled' <= expected
           /\ age' # None <=> Settled' < next_seq
           /\ scheme = "stop_and_wait" /\ unacked' # None => next_seq = unacked' + 1
<1>1. /\ seq \in Nat /\ seq <= expected /\ expected \in Nat /\ next_seq \in Nat
      /\ expected <= next_seq /\ scheme \in {"stop_and_wait", "go_back_n"}
      /\ unacked \in Nat \cup {None} /\ base \in Nat
      /\ scheme = "stop_and_wait" /\ unacked # None => next_seq = unacked + 1
      /\ scheme' = scheme
  BY DEF Inv, TypeOK, FlightInv, SettledMeansDelivered, ReceiveAck
<1>2. CASE scheme = "stop_and_wait"
  <2>1. /\ unacked \in Nat /\ seq = unacked + 1 /\ next_seq = unacked + 1
        /\ unacked' = None /\ age' = None /\ base' = base /\ next_seq' = next_seq
        /\ retries' = 0
    BY <1>1, <1>2 DEF Acknowledges, AckSender
  <2>2. Settled = unacked /\ Settled' = next_seq
    BY <1>1, <1>2, <2>1 DEF Settled, None
  <2> QED
    BY <1>1, <2>1, <2>2 DEF None
<1>3. CASE scheme = "go_back_n"
  <2>1. /\ seq > base /\ base' = seq /\ unacked' = unacked /\ next_seq' = next_seq
        /\ retries' = 0 /\ age' = IF seq < next_seq THEN 0 ELSE None
    BY <1>1, <1>3 DEF Acknowledges, AckSender, Rearmed
  <2>2. Settled = base /\ Settled' = seq
    BY <1>1, <1>3, <2>1 DEF Settled
  <2> QED
    BY <1>1, <1>3, <2>1, <2>2 DEF None
<1> QED
  BY <1>1, <1>2, <1>3

LEMMA AckKeepsInv ==
    ASSUME Inv, NEW seq \in back, ReceiveAck(seq)
    PROVE  Inv'
<1>1. /\ result = "running" /\ result' = result /\ scheme' = scheme /\ expected' = expected
      /\ delivered' = delivered /\ fwd' = fwd /\ back' = back /\ tick' = tick
  BY DEF ReceiveAck, receiver
<1>2. CASE Acknowledges(seq) /\ AckSender(seq)
  <2>1. /\ unacked' \in Nat \cup {None} /\ base' \in Nat /\ age' \in {0, None}
        /\ next_seq' = next_seq /\ retries' = 0
        /\ Settled \in Nat /\ Settled' \in Nat
        /\ Settled < Settled' /\ Settled' <= expected
        /\ age' # None <=> Settled' < next_seq
        /\ scheme = "stop_and_wait" /\ unacked' # None => next_seq = unacked' + 1
    BY <1>1, <1>2, AckSettles
  <2>2. TypeOK'
    BY <1>1, <2>1 DEF Inv, TypeOK, None
  <2>3. SettledMeansDelivered' /\ CompletedMeansDelivered' /\ TimerWatchesFlight'
    BY <1>1, <2>1
       DEF Inv, FlightInv, SettledMeansDelivered, CompletedMeansDelivered, TimerWatchesFlight
  <2>4. FlightInv'
    BY <1>1, <2>1, <2>3 DEF Inv, FlightInv
  <2>5. Running' = 0
    BY <2>1 DEF Running, None
  <2>6. /\ retries \in Nat /\ retries <= MaxRetries /\ Running \in Nat /\ Running <= Rto
        /\ tick \in Nat /\ tick - 1 <= Settled * ChunkTicks + (retries * Rto + Running)
    BY <1>1 DEF Inv, TypeOK, TimeInv, Running
  <2>7. /\ Settled * ChunkTicks \in Nat /\ retries * Rto \in Nat
        /\ Settled' * ChunkTicks \in Nat
        /\ Settled * ChunkTicks + (retries * Rto + Running) <= Settled' * ChunkTicks
    BY <2>1, <2>6, Budget
  <2>8. 0 * Rto = 0 /\ 0 <= MaxRetries /\ 0 <= Rto
    BY Constants
  <2>9. tick' - 1 <= Settled' * ChunkTicks + (retries' * Rto + Running')
    <3> DEFINE a == Settled * ChunkTicks + (retries * Rto + Running)
               b == Settled' * ChunkTicks
    <3>1. a \in Nat /\ b \in Nat /\ a <= b /\ tick - 1 <= a /\ tick \in Nat
      BY <2>6, <2>7
    <3> HIDE DEF a, b
    <3>2. tick - 1 <= b + (0 + 0)
      BY <3>1
    <3> QED
      BY <1>1, <2>1, <2>5, <2>8, <3>2 DEF b
  <2>10. EndsByItself'
    BY <1>1 DEF Inv, TimeInv, EndsByItself
  <2>11. TimeInv'
    BY <1>1, <2>1, <2>5, <2>8, <2>9, <2>10 DEF TimeInv
  <2> QED
    BY <2>2, <2>4, <2>11 DEF Inv
<1>3. CASE UNCHANGED sender
  <2>1. Settled' = Settled
    BY <1>1, <1>3 DEF Settled, sender
  <2>2. TypeOK'
    BY <1>1, <1>3 DEF Inv, TypeOK, sender
  <2>3. SettledMeansDelivered' /\ CompletedMeansDelivered' /\ TimerWatchesFlight'
    BY <1>1, <1>3, <2>1
       DEF Inv, FlightInv, SettledMeansDelivered, CompletedMeansDelivered,
           TimerWatchesFlight, sender
  <2>4. FlightInv'
    BY <1>1, <1>3, <2>3 DEF Inv, FlightInv, sender
  <2>5. TimeInv'
    BY <1>1, <1>3, SameTime DEF Inv
  <2> QED
    BY <2>2, <2>4, <2>5 DEF Inv
<1> QED
  BY <1>2, <1>3 DEF ReceiveAck
-----------------------------------------------------------------------------
(* The end of an iteration *)

\* While the sender waits for a chunk that is not settled, and its timer is
\* short of rto, a tick is left, and the next one is paid for.
LEMMA TickLeft ==
    ASSUME Inv, NEW s \in Nat, s < Chunks, NEW n \in Nat, n <= MaxRetries,
           NEW a \in Nat, a < Rto,
           tick - 1 <= s * ChunkTicks + (n * Rto + a)
    PROVE  /\ tick < Cost
           /\ (tick + 1) - 1 <= s * ChunkTicks + (n * Rto + (a + 1))
<1>1. tick \in Nat
  BY DEF Inv, TypeOK
<1>2. Chunks \in Nat /\ Rto \in Nat /\ Cost \in Nat /\ Cost = 1 + Chunks * ChunkTicks
  BY Constants
<1>3. /\ s * ChunkTicks \in Nat /\ n * Rto \in Nat /\ Chunks * ChunkTicks \in Nat
      /\ s * ChunkTicks + (n * Rto + a) < Chunks * ChunkTicks
  <2>1. a <= Rto
    BY <1>2
  <2> QED
    BY <1>2, <2>1, Budget, Zenon
<1> DEFINE u == s * ChunkTicks
           v == n * Rto
           w == Chunks * ChunkTicks
<1>4. /\ u \in Nat /\ v \in Nat /\ w \in Nat /\ u + (v + a) < w
      /\ tick - 1 <= u + (v + a) /\ Cost = 1 + w
  BY <1>2, <1>3
<1> HIDE DEF u, v, w
<1>5. tick < Cost /\ (tick + 1) - 1 <= u + (v + (a + 1))
  BY <1>1, <1>2, <1>4
<1> QED
  BY <1>5 DEF u, v

\* An iteration that is not done goes on, with the timer one further, or is
\* cut off by max_ticks before Cost.
LEMMA LoopGoesOn ==
    ASSUME Inv, result = "running", NEW done \in BOOLEAN, ~done, Loop(done),
           NEW s \in Nat, s < Chunks, NEW n \in Nat, n <= MaxRetries,
           NEW a \in Nat, a < Rto, age' = Aged(a),
           tick - 1 <= s * ChunkTicks + (n * Rto + a)
    PROVE  /\ tick' \in Nat \ {0} /\ tick' <= Cost /\ age' \in Nat /\ age' # None
           /\ \/ /\ result' = "running" /\ age' <= Rto
                 /\ tick' - 1 <= s * ChunkTicks + (n * Rto + age')
              \/ result' = "out_of_ticks" /\ MaxTicks < Cost
<1>1. /\ tick \in Nat \ {0} /\ MaxTicks \in Nat /\ Cost \in Nat /\ Rto \in Nat
      /\ a # None /\ a + 1 # None
  BY Constants DEF Inv, TypeOK, None
<1>2. tick < Cost /\ (tick + 1) - 1 <= s * ChunkTicks + (n * Rto + (a + 1))
  BY TickLeft, Zenon
<1>3. CASE tick >= MaxTicks
  <2>1. result' = "out_of_ticks" /\ tick' = tick
    BY <1>3 DEF Loop
  <2>2. age' = a
    BY <2>1 DEF Aged
  <2>3. MaxTicks < Cost
    BY <1>1, <1>2, <1>3
  <2>4. tick' <= Cost
    BY <1>1, <1>2, <2>1
  <2> QED
    BY <1>1, <2>1, <2>2, <2>3, <2>4
<1>4. CASE ~(tick >= MaxTicks)
  <2>1. result' = "running" /\ tick' = tick + 1
    BY <1>4 DEF Loop
  <2>2. age' = a + 1
    BY <1>1, <2>1 DEF Aged
  <2>3. tick' \in Nat \ {0} /\ tick' <= Cost /\ age' <= Rto
    BY <1>1, <1>2, <2>1, <2>2
  <2>4. tick' - 1 <= s * ChunkTicks + (n * Rto + age')
    BY <1>2, <2>1, <2>2
  <2> QED
    BY <1>1, <2>1, <2>2, <2>3, <2>4
<1> QED
  BY <1>3, <1>4

LEMMA LoopCompletes ==
    ASSUME NEW done \in BOOLEAN, done, Loop(done)
    PROVE  result' = "completed" /\ tick' = tick
BY DEF Loop

\* The invariant after an iteration that goes on with n retries counted and
\* the timer at a, or that has ended.
LEMMA IterationKeepsInv ==
    ASSUME Inv, result = "running",
           UNCHANGED <<scheme, receiver, back, base>>,
           unacked' \in Nat \cup {None}, age' \in Nat \cup {None},
           next_seq' \in Nat, next_seq <= next_seq', next_seq' <= Chunks,
           retries' \in Nat, tick' \in Nat \ {0}, tick' <= Cost,
           fwd' \subseteq Nat, \A seq \in fwd' : seq < next_seq',
           scheme = "stop_and_wait" /\ unacked' # None => next_seq' = unacked' + 1,
           Settled' = Settled,
           \/ /\ result' = "running"
              /\ age' # None /\ Settled < next_seq'
              /\ retries' <= MaxRetries /\ age' <= Rto
              /\ tick' - 1 <= Settled * ChunkTicks + (retries' * Rto + age')
           \/ result' = "gave_up"
           \/ result' = "completed" /\ Settled = Chunks
           \/ result' = "out_of_ticks" /\ MaxTicks < Cost
    PROVE  Inv'
<1>1. /\ expected' = expected /\ delivered' = delivered /\ back' = back /\ base' = base
      /\ scheme' = scheme
  BY DEF receiver
<1>2. /\ expected \in Nat /\ next_seq \in Nat /\ Settled <= expected /\ expected <= next_seq
      /\ Len(delivered) = expected /\ Chunks \in Nat /\ Settled \in Nat
  BY Constants DEF Inv, TypeOK, FlightInv, SettledMeansDelivered, Settled
<1>3. TypeOK'
  BY <1>1 DEF Inv, TypeOK
<1>4. SettledMeansDelivered'
  BY <1>1, <1>2 DEF SettledMeansDelivered
<1>5. CompletedMeansDelivered'
  <2>1. \A i \in 1 .. Len(delivered) : delivered[i] = i - 1
    BY DEF Inv, FlightInv, CompletedMeansDelivered
  <2>2. Settled = Chunks => Len(delivered) = Chunks
    BY <1>2
  <2> QED
    BY <1>1, <2>1, <2>2 DEF CompletedMeansDelivered
<1>6. TimerWatchesFlight'
  BY DEF TimerWatchesFlight
<1>7. \A seq \in back' : seq <= expected'
  BY <1>1 DEF Inv, FlightInv
<1>8. FlightInv'
  BY <1>1, <1>4, <1>5, <1>6, <1>7 DEF FlightInv
<1>9. TimeInv'
  <2>1. age' # None => Running' = age'
    BY DEF Running
  <2> QED
    BY <2>1 DEF TimeInv, EndsByItself
<1> QED
  BY <1>3, <1>8, <1>9 DEF Inv
-----------------------------------------------------------------------------
(* The steps of the sender *)

\* What the invariant says of a sender that is running.
LEMMA WhileRunning ==
    ASSUME Inv, result = "running"
    PROVE  /\ Settled \in Nat /\ next_seq \in Nat /\ retries \in Nat /\ base \in Nat
           /\ age \in Nat \cup {None} /\ unacked \in Nat \cup {None}
           /\ Settled <= next_seq /\ next_seq <= Chunks
           /\ age # None <=> Settled < next_seq
           /\ retries <= MaxRetries /\ tick \in Nat \ {0} /\ tick <= Cost
           /\ age = None => tick - 1 <= Settled * ChunkTicks + (retries * Rto + 0)
           /\ age # None => /\ age <= Rto
                            /\ tick - 1 <= Settled * ChunkTicks + (retries * Rto + age)
           /\ fwd \subseteq Nat /\ \A seq \in fwd : seq < next_seq
           /\ scheme = "stop_and_wait" /\ unacked # None => next_seq = unacked + 1
<1>1. Settled \in Nat
  BY DEF Inv, TypeOK, Settled
<1>2. Settled <= next_seq
  <2>1. Settled <= expected /\ expected <= next_seq /\ expected \in Nat /\ next_seq \in Nat
    BY DEF Inv, TypeOK, FlightInv, SettledMeansDelivered
  <2> QED
    BY <1>1, <2>1
<1>3. age # None <=> Settled < next_seq
  BY DEF Inv, FlightInv, TimerWatchesFlight
<1>4. /\ retries <= MaxRetries
      /\ age = None => tick - 1 <= Settled * ChunkTicks + (retries * Rto + 0)
      /\ age # None => /\ age <= Rto
                       /\ tick - 1 <= Settled * ChunkTicks + (retries * Rto + age)
  BY DEF Inv, TimeInv, Running
<1>5. tick <= Cost
  BY DEF Inv, TimeInv, EndsByItself
<1> QED
  BY <1>1, <1>2, <1>3, <1>4, <1>5 DEF Inv, TypeOK, FlightInv

\* A timeout that is counted: what the timer had run for is now a retry.
LEMMA TimeoutCounted ==
    ASSUME NEW n \in Nat
    PROVE  n * Rto + Rto = (n + 1) * Rto + 0
BY Constants, Products

LEMMA SendKeepsInv ==
    ASSUME Inv, result = "running", scheme = "stop_and_wait", SawSend,
           UNCHANGED <<scheme, receiver, back>>
    PROVE  Inv'
<1>1. /\ unacked = None /\ next_seq < Chunks /\ fwd' = fwd \cup {next_seq}
      /\ unacked' = next_seq /\ next_seq' = next_seq + 1 /\ Loop(FALSE)
      /\ age' = Aged(0) /\ base' = base /\ retries' = retries /\ scheme' = scheme
  BY DEF SawSend
<1>2. Settled = next_seq
  BY <1>1 DEF Settled
<1>3. /\ next_seq \in Nat /\ retries \in Nat /\ retries <= MaxRetries /\ tick \in Nat \ {0}
      /\ Chunks \in Nat /\ Rto \in Nat \ {0}
      /\ fwd \subseteq Nat /\ \A seq \in fwd : seq < next_seq
  BY WhileRunning, Constants
<1>4. tick - 1 <= Settled * ChunkTicks + (retries * Rto + 0)
  <2>1. age = None
    BY <1>2, <1>3, WhileRunning
  <2> QED
    BY <2>1, WhileRunning
<1>5. /\ tick' \in Nat \ {0} /\ tick' <= Cost /\ age' \in Nat /\ age' # None
      /\ \/ /\ result' = "running" /\ age' <= Rto
            /\ tick' - 1 <= Settled * ChunkTicks + (retries * Rto + age')
         \/ result' = "out_of_ticks" /\ MaxTicks < Cost
  <2>1. Settled \in Nat /\ Settled < Chunks /\ 0 \in Nat /\ 0 < Rto
    BY <1>1, <1>2, <1>3
  <2> QED
    BY <1>1, <1>3, <1>4, <2>1, LoopGoesOn, Zenon
<1>6. Settled' = Settled
  BY <1>1, <1>2, <1>3 DEF Settled, None
<1>7. fwd' \subseteq Nat /\ \A seq \in fwd' : seq < next_seq'
  BY <1>1, <1>3
<1>8. /\ next_seq' \in Nat /\ next_seq <= next_seq' /\ next_seq' <= Chunks
      /\ unacked' \in Nat /\ next_seq' = unacked' + 1 /\ Settled < next_seq'
  BY <1>1, <1>2, <1>3
<1> QED
  BY <1>1, <1>3, <1>5, <1>6, <1>7, <1>8, IterationKeepsInv

LEMMA TimeoutKeepsInv ==
    ASSUME Inv, result = "running", scheme = "stop_and_wait", SawTimeout,
           UNCHANGED <<scheme, receiver, back>>
    PROVE  Inv'
<1>1. /\ unacked # None /\ age >= Rto
      /\ unacked' = unacked /\ base' = base /\ next_seq' = next_seq /\ fwd' = fwd
      /\ scheme' = scheme
  BY DEF SawTimeout, GiveUp
<1>2. /\ unacked \in Nat /\ next_seq = unacked + 1 /\ next_seq \in Nat /\ next_seq <= Chunks
      /\ retries \in Nat /\ tick \in Nat \ {0} /\ age \in Nat \cup {None}
      /\ Chunks \in Nat /\ Rto \in Nat \ {0} /\ MaxRetries \in Nat
      /\ fwd \subseteq Nat /\ \A seq \in fwd : seq < next_seq
  BY <1>1, WhileRunning, Constants
<1>3. Settled = unacked /\ Settled' = Settled
  BY <1>1 DEF Settled
<1>4. age # None /\ age = Rto
  <2>1. age # None /\ age <= Rto
    BY <1>2, <1>3, WhileRunning
  <2> QED
    BY <1>1, <1>2, <2>1
<1>5. tick - 1 <= Settled * ChunkTicks + (retries * Rto + Rto)
  BY <1>4, WhileRunning
<1>6. CASE GiveUp
  <2>1. /\ retries' = retries + 1 /\ result' = "gave_up" /\ tick' = tick /\ age' = age
        /\ tick <= Cost
    BY <1>6, WhileRunning DEF GiveUp
  <2> QED
    BY <1>1, <1>2, <1>3, <2>1, IterationKeepsInv
<1>7. CASE retries + 1 <= MaxRetries /\ retries' = Counted(retries) /\ Loop(FALSE)
           /\ age' = Aged(0)
  <2>1. retries' = retries + 1 /\ retries' \in Nat /\ retries' <= MaxRetries
    BY <1>2, <1>7 DEF Counted
  <2>2. tick - 1 <= Settled * ChunkTicks + (retries' * Rto + 0)
    BY <1>2, <1>5, <2>1, TimeoutCounted
  <2>3. Settled \in Nat /\ Settled < Chunks /\ Settled < next_seq'
    BY <1>1, <1>2, <1>3
  <2>4. /\ tick' \in Nat \ {0} /\ tick' <= Cost /\ age' \in Nat /\ age' # None
        /\ \/ /\ result' = "running" /\ age' <= Rto
              /\ tick' - 1 <= Settled * ChunkTicks + (retries' * Rto + age')
           \/ result' = "out_of_ticks" /\ MaxTicks < Cost
    <3>1. 0 \in Nat /\ 0 < Rto
      BY <1>2
    <3> QED
      BY <1>7, <2>1, <2>2, <2>3, <3>1, LoopGoesOn, Zenon
  <2> QED
    BY <1>1, <1>2, <1>3, <2>1, <2>3, <2>4, IterationKeepsInv
<1> QED
  BY <1>6, <1>7 DEF SawTimeout

LEMMA WaitKeepsInv ==
    ASSUME Inv, result = "running", scheme = "stop_and_wait", SawWait,
           UNCHANGED <<scheme, receiver, back>>
    PROVE  Inv'
<1>1. /\ unacked' = unacked /\ base' = base /\ next_seq' = next_seq /\ fwd' = fwd
      /\ retries' = retries /\ scheme' = scheme /\ age' = Aged(age)
      /\ Loop(unacked = None)
      /\ unacked = None => next_seq = Chunks
      /\ unacked # None => age < Rto
  BY DEF SawWait
<1>2. /\ next_seq \in Nat /\ next_seq <= Chunks /\ unacked \in Nat \cup {None}
      /\ retries \in Nat /\ tick \in Nat \ {0} /\ age \in Nat \cup {None}
      /\ Chunks \in Nat /\ Rto \in Nat \ {0} /\ retries <= MaxRetries
      /\ fwd \subseteq Nat /\ \A seq \in fwd : seq < next_seq
      /\ unacked # None => next_seq = unacked + 1
  BY <1>1, WhileRunning, Constants
<1>3. Settled' = Settled
  BY <1>1 DEF Settled
<1>4. CASE unacked = None
  <2>1. Settled = Chunks
    BY <1>1, <1>4 DEF Settled
  <2>2. result' = "completed" /\ tick' = tick /\ tick <= Cost
    BY <1>1, <1>4, LoopCompletes, WhileRunning
  <2>3. age' = age
    BY <1>1, <2>2 DEF Aged
  <2> QED
    BY <1>1, <1>2, <1>3, <1>4, <2>1, <2>2, <2>3, IterationKeepsInv
<1>5. CASE unacked # None
  <2>1. Settled = unacked /\ Settled \in Nat /\ Settled < Chunks /\ Settled < next_seq
    BY <1>2, <1>5 DEF Settled
  <2>2. age # None /\ age \in Nat /\ age < Rto
    BY <1>1, <1>2, <1>5, <2>1, WhileRunning
  <2>3. tick - 1 <= Settled * ChunkTicks + (retries * Rto + age)
    BY <2>2, WhileRunning
  <2>4. /\ tick' \in Nat \ {0} /\ tick' <= Cost /\ age' \in Nat /\ age' # None
        /\ \/ /\ result' = "running" /\ age' <= Rto
              /\ tick' - 1 <= Settled * ChunkTicks + (retries * Rto + age')
           \/ result' = "out_of_ticks" /\ MaxTicks < Cost
    BY <1>1, <1>2, <1>5, <2>1, <2>2, <2>3, LoopGoesOn
  <2> QED
    BY <1>1, <1>2, <1>3, <2>1, <2>4, IterationKeepsInv
<1> QED
  BY <1>4, <1>5
\* The window that go-back-N fills reaches beyond base, unless all is settled.
LEMMA FilledFacts ==
    ASSUME NEW b \in Nat, b = base, next_seq \in Nat, base <= next_seq, next_seq <= Chunks
    PROVE  /\ Filled \in Nat /\ next_seq <= Filled /\ Filled <= Chunks
           /\ base < Chunks => base < Filled
<1>1. Chunks \in Nat /\ Window \in Nat \ {0}
  BY Constants
<1> DEFINE top == Lesser(base + Window, Chunks)
<1>2. top \in Nat /\ top <= Chunks /\ (base < Chunks => base < top)
  BY <1>1 DEF Lesser
<1> HIDE DEF top
<1>3. Filled = IF next_seq < top THEN top ELSE next_seq
  BY DEF Filled, top
<1> QED
  BY <1>1, <1>2, <1>3

LEMMA GbnKeepsInv ==
    ASSUME Inv, result = "running", scheme = "go_back_n", GbnStep,
           UNCHANGED <<scheme, receiver, back>>
    PROVE  Inv'
<1> DEFINE expired == ArmedAt # None /\ ArmedAt >= Rto
<1>1. /\ next_seq' = Filled /\ fwd' = fwd \cup next_seq .. Filled - 1
      /\ unacked' = unacked /\ base' = base /\ scheme' = scheme
  BY DEF GbnStep
<1>2. /\ next_seq \in Nat /\ next_seq <= Chunks /\ unacked \in Nat \cup {None}
      /\ retries \in Nat /\ tick \in Nat \ {0} /\ age \in Nat \cup {None} /\ base \in Nat
      /\ Chunks \in Nat /\ Rto \in Nat \ {0} /\ retries <= MaxRetries /\ MaxRetries \in Nat
      /\ fwd \subseteq Nat /\ \A seq \in fwd : seq < next_seq
  BY WhileRunning, Constants
<1>3. Settled = base /\ Settled' = Settled /\ scheme # "stop_and_wait"
  BY <1>1 DEF Settled
<1>4. base <= next_seq /\ (age # None <=> base < next_seq)
  BY <1>3, WhileRunning
<1>5. /\ Filled \in Nat /\ next_seq <= Filled /\ Filled <= Chunks
      /\ base < Chunks => base < Filled
  BY <1>2, <1>4, FilledFacts
<1>6. fwd' \subseteq Nat /\ \A seq \in fwd' : seq < next_seq'
  <2>1. \A seq \in next_seq .. Filled - 1 : seq \in Nat /\ seq < Filled
    BY <1>2, <1>5
  <2>2. \A seq \in fwd : seq \in Nat /\ seq < Filled
    BY <1>2, <1>5
  <2> QED
    BY <1>1, <2>1, <2>2
<1>7. /\ ArmedAt \in Nat \cup {None}
      /\ base < Chunks => ArmedAt \in Nat /\ ArmedAt # None
      /\ ArmedAt # None => ArmedAt <= Rto
                           /\ tick - 1 <= Settled * ChunkTicks + (retries * Rto + ArmedAt)
  <2>1. /\ age = None => tick - 1 <= Settled * ChunkTicks + (retries * Rto + 0)
        /\ age # None => /\ age <= Rto
                         /\ tick - 1 <= Settled * ChunkTicks + (retries * Rto + age)
    BY WhileRunning
  <2>2. CASE Filled > next_seq /\ age = None
    <3>1. ArmedAt = 0
      BY <2>2 DEF ArmedAt
    <3>2. 0 <= Rto /\ 0 # None
      BY <1>2 DEF None
    <3> QED
      BY <2>1, <2>2, <3>1, <3>2
  <2>3. CASE ~(Filled > next_seq /\ age = None)
    <3>1. ArmedAt = age
      BY <2>3 DEF ArmedAt
    <3>2. base < Chunks => age # None
      <4> SUFFICES ASSUME base < Chunks, age = None PROVE FALSE
        OBVIOUS
      <4>1. ~(Filled > next_seq) /\ base < Filled /\ ~(base < next_seq)
        BY <1>4, <1>5, <2>3
      <4> QED
        BY <1>2, <1>4, <1>5, <4>1
    <3> QED
      BY <1>2, <2>1, <3>1, <3>2
  <2> QED
    BY <2>2, <2>3
<1>8. CASE /\ expired /\ retries + 1 > MaxRetries
           /\ retries' = retries + 1 /\ result' = "gave_up" /\ age' = ArmedAt
           /\ UNCHANGED <<tick, sweep>>
  <2>1. /\ retries' \in Nat /\ result' = "gave_up" /\ tick' = tick /\ tick <= Cost
        /\ age' \in Nat \cup {None}
    BY <1>2, <1>7, <1>8, WhileRunning
  <2> QED
    BY <1>1, <1>2, <1>3, <1>5, <1>6, <2>1, IterationKeepsInv
<1>9. CASE /\ ~(expired /\ retries + 1 > MaxRetries)
           /\ retries' = IF expired THEN Counted(retries) ELSE retries
           /\ Loop(base = Chunks)
           /\ age' = Aged(IF expired THEN 0 ELSE ArmedAt)
  <2> DEFINE a == IF expired THEN 0 ELSE ArmedAt
  <2>1. retries' \in Nat /\ retries' <= MaxRetries
    BY <1>2, <1>9 DEF Counted
  <2>2. a \in Nat \cup {None}
    BY <1>7
  <2>3. CASE base = Chunks
    <3>1. result' = "completed" /\ tick' = tick /\ tick <= Cost
      BY <1>9, <2>3, LoopCompletes, WhileRunning
    <3>2. age' = a
      BY <1>9, <3>1 DEF Aged
    <3> QED
      BY <1>1, <1>2, <1>3, <1>5, <1>6, <2>1, <2>2, <2>3, <3>1, <3>2, IterationKeepsInv
  <2>4. CASE base # Chunks
    <3>1. base < Chunks /\ base < Filled
      BY <1>2, <1>4, <1>5, <2>4
    <3>2. /\ ArmedAt \in Nat /\ ArmedAt # None /\ ArmedAt <= Rto
          /\ tick - 1 <= Settled * ChunkTicks + (retries * Rto + ArmedAt)
      BY <1>7, <3>1
    <3>3. a \in Nat /\ a < Rto /\ tick - 1 <= Settled * ChunkTicks + (retries' * Rto + a)
      <4>1. CASE expired
        <5>1. ArmedAt = Rto /\ a = 0 /\ retries' = retries + 1 /\ 0 < Rto
          BY <1>2, <1>9, <3>2, <4>1 DEF Counted
        <5>2. tick - 1 <= Settled * ChunkTicks + (retries' * Rto + 0)
          BY <1>2, <3>2, <5>1, TimeoutCounted
        <5> QED
          BY <5>1, <5>2
      <4>2. CASE ~expired
        BY <1>2, <1>9, <3>2, <4>2
      <4> QED
        BY <4>1, <4>2
    <3> HIDE DEF a
    <3>4. Settled \in Nat /\ Settled < Chunks
      BY <1>2, <1>3, <3>1
    <3>5. age' = Aged(a) /\ Loop(base = Chunks)
      BY <1>9 DEF a
    <3>6. /\ tick' \in Nat \ {0} /\ tick' <= Cost /\ age' \in Nat /\ age' # None
          /\ \/ /\ result' = "running" /\ age' <= Rto
                /\ tick' - 1 <= Settled * ChunkTicks + (retries' * Rto + age')
             \/ result' = "out_of_ticks" /\ MaxTicks < Cost
      BY <2>1, <2>4, <3>3, <3>4, <3>5, LoopGoesOn, Zenon
    <3>7. Settled < next_seq'
      BY <1>1, <1>3, <3>1
    <3> QED
      BY <1>1, <1>2, <1>3, <1>5, <1>6, <2>1, <3>6, <3>7, IterationKeepsInv
  <2> QED
    BY <2>3, <2>4
<1> QED
  BY <1>8, <1>9 DEF GbnStep

-----------------------------------------------------------------------------

LEMMA InvInductive == Inv /\ [Next]_vars => Inv'
<1> SUFFICES ASSUME Inv, [Next]_vars PROVE Inv'
  OBVIOUS
<1>1. CASE \E seq \in fwd : ReceiveData(seq)
  BY <1>1, DataKeepsInv
<1>2. CASE \E seq \in back : ReceiveAck(seq)
  BY <1>2, AckKeepsInv
<1>3. CASE Step
  BY <1>3, SendKeepsInv, TimeoutKeepsInv, WaitKeepsInv, GbnKeepsInv DEF Step
<1>4. CASE UNCHANGED vars
  BY <1>4
     DEF vars, sender, receiver, Inv, TypeOK, FlightInv, TimeInv, SettledMeansDelivered,
         CompletedMeansDelivered, TimerWatchesFlight, EndsByItself, Settled, Running
<1> QED
  BY <1>1, <1>2, <1>3, <1>4 DEF Next

\* Both loops keep Inv, for any number of chunks, window and retries.
THEOREM Invariance == Spec => []Inv
<1>1. Init => Inv
  BY InitInv
<1>2. Inv /\ [Next]_vars => Inv'
  BY InvInductive
<1> QED
  BY <1>1, <1>2, PTL DEF Spec

\* The senders of run_stop_and_wait and run_go_back_n never move on from a
\* chunk that the receiver has not got.
THEOREM SettledMeansDeliveredHolds == Spec => []SettledMeansDelivered
<1>1. Inv => SettledMeansDelivered
  BY DEF Inv, FlightInv
<1> QED
  BY <1>1, Invariance, PTL

\* They say completed only when every chunk was delivered, once and in order.
THEOREM CompletedMeansDeliveredHolds == Spec => []CompletedMeansDelivered
<1>1. Inv => CompletedMeansDelivered
  BY DEF Inv, FlightInv
<1> QED
  BY <1>1, Invariance, PTL

\* Their timer runs exactly while something is in flight.
THEOREM TimerWatchesFlightHolds == Spec => []TimerWatchesFlight
<1>1. Inv => TimerWatchesFlight
  BY DEF Inv, FlightInv
<1> QED
  BY <1>1, Invariance, PTL

\* Whatever max_ticks is, they take no more than (max_retries + 1) * rto ticks
\* for every chunk, and run out of ticks only if they are given less.
THEOREM EndsByItselfHolds == Spec => []EndsByItself
<1>1. Inv => EndsByItself
  BY DEF Inv, TimeInv
<1> QED
  BY <1>1, Invariance, PTL
=============================================================================
