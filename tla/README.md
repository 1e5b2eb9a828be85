# A TLA+ verification of distrans

distrans is a small network stack, built on a simulated datagram channel that
loses, repeats, delays and damages what it carries: frames with a checksum, a
reliable transport with selective acknowledgement, flow and congestion
control, and idempotent RPC, exercised by a key-value workload. This project
models the stack in TLA+, checks the models with TLC and proves nearly all of
the safety properties, for every value of the constants, with TLAPS.

## The system

| Component (crate, file) | State | Operations | Hard behaviour | What makes it correct |
|---|---|---|---|---|
| Hostile channel (`channel`) | clock, heap of datagrams in flight, script, profile, counters | `send`, `advance`, `deliver_ready` | loss, duplication, reordering, damage; replaced in mid-run | copies accounted for, bounded reordering, scripts obeyed |
| Frame and CRC (`frame`) | none | `encode`, `decode` | damaged and truncated input | never a wrong frame |
| Segment header (`transport/segment.rs`) | none | `encode`, `decode` | short input | round trip |
| Connection (`transport/connection.rs`) | state, handshake, send queue, unacked segments, windows, receive buffer, FIN state | `connect`, `listen`, `send`, `close`, `recv`, `on_datagram`, `on_tick` | every interleaving of two endpoints, a hostile network and timers | exactly-once in-order prefix; no forgotten byte; no stall; graceful close; ends or fails |
| RTO estimator (`transport/rto.rs`) | srtt, rttvar, backoff | `on_sample`, `on_timeout`, `current` | integer rounding, backoff | timer in range |
| Framing (`rpc/framing.rs`) | buffer | `frame`, `feed`, `drain_frames` | a stream cut anywhere | messages intact |
| RPC client (`rpc/client.rs`) | pending calls, completed, failed | `call`, `on_datagram`, `on_tick`, `poll_*` | retries racing late answers | one outcome per call |
| RPC server (`rpc/server.rs`) | dedup table | `on_datagram`, `on_tick` | repeated requests | at most one execution, its own answer |
| Key-value service (`workload/kv.rs`, `server.rs`) | shared map, reference list | `apply` (twice) | several connections, one store | linearizable, equal to the reference |
| RPC messages (`rpc/message.rs`, `workload/kv.rs`) | none | `encode`, `decode` | keys and values at the edge of a length | round trip |
| Chaos harness (`workload/chaos.rs`) | links, schedule, log, clock | `run_chaos` | lost links, profile switches, the last tick | drains in time, true summary, differential check |
| Baselines (`workload/baselines.rs`) | one chunk or a window in flight, a timer, a receiver | `run_stop_and_wait`, `run_go_back_n` | late and repeated acks, one timer for a window | completed means delivered; ends by itself |

A connection is a passive object: its owner passes in datagrams and ticks and
sends what it returns. There are no threads; concurrency is that of two
endpoints whose events come in any order. An RPC client or server owns a
connection and puts framed messages into its byte stream. `run_chaos` owns
everything and steps a virtual clock.

## Modules

| Module | What it is |
|---|---|
| `Connection` | The methods of one `Connection`, as operators on its fields. The struct is three records, `ctl`, `snd` and `rcv`; an `Option<PendingControl>` is its number of attempts. |
| `Transport` | Two connections and the network. One action per public method; `on_datagram` and `on_tick` are one action for each way they can go. Safety, liveness and the refinement mapping. |
| `ReliableStream` | The abstract specification: two byte streams. |
| `TransportInv` | The inductive invariants of the transport. |
| `TransportProof` | The proofs about `Transport` and `Timed`: types and prefix; flow control, segments, closing and the refinement of `ReliableStream`; then `Timed` implements `Transport`, Karn's rule and prompt failure. |
| `MCTransport` | Workloads for TLC. |
| `Estimator` | The RTO estimator as a record and operators on it, in the code's integer arithmetic. |
| `EstimatorProof` | What the operators of `Estimator` return: lemmas for the next two. |
| `Rto`, `RtoProof` | An estimator under every sequence of samples and timeouts, and the proofs. |
| `Timed`, `MCTimed` | `Transport` with `Estimator` and a clock. Each action is one of `Transport` together with what it does to the timers; `on_tick` finds out for itself which timer has run out. A `sent_at` is kept as its age. |
| `KvStore` | `apply` and `ReferenceStore::apply`. |
| `Rpc` | Clients, servers, the shared store and the differential replay. The connection is what `ReliableStream` and `Framing` make of it: a queue of whole messages that may stop at any point. |
| `RpcInv`, `RpcProof` | The inductive invariants and the proofs about `Rpc` and `Chaos`: outcomes, orders, the two stores; then `Chaos` implements `Rpc`, drains in time, and its summary is true. |
| `Chaos`, `MCChaos` | `run_chaos`: the loop that drives the clients and servers of `Rpc` by a clock, with the schedule, the order of a tick's phases, the end of the run and the summary. |
| `Messages` | The bytes of requests, responses and key-value operations. |
| `Framing`, `MCFraming` | One direction of an RPC connection: encode, `frame`, a stream cut anywhere, `feed`, `drain_frames`, decode. |
| `FramingProof` | The bytes of `Messages` are read back as they were written; every cut of the stream gives the same messages. |
| `Wire`, `MCWire` | A datagram at its real size: the frame, the CRC-32C bit by bit, the segment header; damaged as `emit_one` does, then decoded as `on_datagram` does. |
| `WireProof` | `decode` undoes `encode`; a changed byte and a cut are found, and named; a segment is read as it was written. |
| `Channel`, `MCChannel` | One direction of the simulated link as `run_chaos` drives it. |
| `ChannelProof` | The copies of a datagram, from `send` to `deliver_ready`. |
| `Baselines`, `BaselinesProof` | Stop-and-wait and go-back-N: the two loops over datagrams and the rest of the loop's body; and the proofs. |

How they fit together: `Wire` shows that a damaged datagram is a lost one,
which `Transport` and `Baselines` take for granted. `Channel` shows what the
simulated link does; the network of `Transport` allows more. `Timed` shows
that clock and estimator give the timers the fairness that `Transport` assumes
(`TimersAreFair`). `Transport` implements `ReliableStream`; `Framing` makes
message queues of such a stream; `Rpc` works on the queues; `Chaos` drives
`Rpc`, and gives the deadlines the fairness that `Rpc` assumes
(`DrivesRpcFairly`).

Definitions named `X_Something`, marked as mutations, are variants of `X` with
a plausible bug. `PROJECT.json` pairs each with the property that finds it.

### Choices in the models

* The network of `Transport` is the set of all datagrams ever sent. Any of them
  may be delivered at any time, any number of times, or never. This is weaker
  than `Channel` (whose reordering is bounded) and covers it; a damaged
  datagram is a lost one, because `on_datagram` drops what does not decode.
* Bytes are numbers: the i-th byte of a stream is i, so every byte is told
  from every other, and "right byte at the right place" can be stated.
* Time is left out of `Transport` and `Rpc`. Whether a timer has run out is a
  choice, which covers every timing the clock could produce. Attempt counts
  are kept. `Timed` and `Chaos` add the clock, as ages.
* In `Timed` both sides have `on_tick` called once at every tick, in either
  order, with datagrams arriving before, between and after, as in the loops of
  the tests and of `run_chaos`.
* In `Chaos` a link delivers whole messages, or nothing, during its turn of a
  tick. The servers' half of a turn comes first in the code; the two halves
  touch different ends of the queues, so every order is allowed.
* `Wire` writes a `u32` as the number of the same bits in two's complement,
  because TLC's integers have 32 bits; the code compares these numbers with
  `==` only. The checksum is a set of bit positions.
* In `Messages` and `Framing` a byte has `Base` values and the integers have
  a width given by a constant, so that the greatest length is within reach.
* The server's answers to bytes that are no request or no operation are left
  out of `Rpc`: `MessagesIntact` says that no such bytes arrive.
* A draw of the seeded generator in `Channel` is a choice among the values it
  can give; probabilities are never, maybe, always.
* Sequence numbers are unbounded. The code's `u32` offsets overflow after
  2^32 bytes; the windows, which saturate, keep their width (`U32Max`).
* `retransmit_count` is counted up to `MaxRetries + 1`: the code only compares
  it with 0 and with `max_retries`.
* `written`, `closedAt`, `received`, `issued`, `answered`, `gaveUp`, `log`
  (as a record with client and id) and the like are history: no guard of the
  code's actions reads them, apart from the bounds on the workload.

## Runs

| Run | States | Question |
|---|---|---|
| `MCTransfer` | 121,000 | Four bytes in two-byte segments into a buffer of three, one retry, SACK and fast retransmit within reach: is what arrives a prefix, is nothing forgotten, is the oldest segment never SACKed, does new data respect the window, does a closed window wrap, stall or overflow anything? |
| `MCClose` | 100,000 | Either side or both close around data: is the end of stream true, does Closed mean delivered, and is the pair a `ReliableStream`? |
| `MCTimed` | 49,000 | With clock and estimator, one byte or one close on either side: is a repeated segment never measured (Karn's rule), does silence lead to failure within `(max_retries + 1) * max_rto` ticks, do the handshake, the FIN and every sent byte end in success or in `Failed`, and is the timers' fairness what `Transport` assumes? |
| `MCRpcPipeline` | 1,962,000 | Three outstanding calls of a client, retried in any order: one outcome, program order, and a map that agrees with the reference? |
| `MCChaos` | 120,000 | Two links, two calls, two attempts: at most once, the right answer, one linearizable store, every call ends, the run drains before `max_ticks`, the summary is true, and is the loop a fair way of driving `Rpc`? |
| `MCFraming` | 57,000 | Five requests or responses cut in every way: the same messages? |
| `MCWire` | 177,000 | Eight frames, with every bit flipped, every two bits of the short ones, cut at every length, and flipped then cut: is a wrong frame ever accepted, is the error the right one, is the segment that comes out the one that went in? |
| `MCRto` | 345,000 | Every sequence of samples up to 12 ticks and timeouts: timer in range, estimate among the samples? |
| `MCChannel` | 459,000 | Three profiles, three scripts, a switch: copies accounted for, reordering bounded, nothing late or before its base delay, scripts obeyed? |
| `MCBaselines` | 24,000 | Six chunks, a window of four: is a chunk left behind, is `completed` true, is the window always watched by the timer, does the loop end by itself within `Cost` ticks? |

Two runs show a disagreement between a document and the code; each
is a finding in `PROJECT.json` with the quoted line:

| Run | What it shows |
|---|---|
| `MCOverBuffer` | A receiver may hold more than `recv_window_capacity`: a window from an overtaken segment is adopted, and a probe is buffered. `MCTransfer` shows that this does not make the advertised window wrap. |
| `MCClosing` | A connection whose FIN was acknowledged has no timer, and waits in Closing for ever if the peer fails first. |

Smaller disagreements, for which no run is kept: `reliability.rs` 287 asserts
that the server is Closed when the client is, while the server fails if every
last fin_ack is lost; a SYN-ACK repeated for a duplicate SYN (connection.rs
495-501) is not counted as an attempt, so its round trip is measured although
rto.rs 2-4 excludes retransmitted segments (`KarnsRule` names this exception);
bytes given to `send()` after `close()` may arrive after the peer's
`peer_closed()` has become true, or be dropped; the comment on
`in_flight_bytes` (connection.rs 229) says that it never exceeds
`effective_window()`, which is true only at the moment of admission, as WIRE.md
and `AdmissionWithinWindow` have it; the comment on `on_timeout` (rto.rs 69)
says that the backoff is capped by `max_rto`, while the code caps the factor at
64, which with the default configuration and no sample stops the timer at 128
of 500 ticks; fault.rs 26 says that `base_delay` applies to every datagram, but
a profile switch (chaos.rs 173) makes channels whose clock is at zero, and what
they are given before their first advance arrives at once (`OnTime`
names this exception and shows that there is no other); and `Script` (fault.rs
75) says that datagrams it does not name pass without faults, while `send`
draws from the random profile for them.

### Bounds

The bounds are the smallest at which the interesting case happens. With
segments of two bytes and four bytes written there are segments of one and two
bytes, a hole in front of buffered data, a SACK range, and a retransmission
that overlaps what was delivered. A capacity of three bytes against four
written closes the window. `FastRetransmitDupAcks = 2` (3 in the code) and
`MaxSackRanges = 1` (4 in the code) make a fast retransmit and a truncated SACK
list reachable with few segments. `MaxRetries` of 1 or 2 lets a connection
fail. Three calls with two attempts can be repeated in an order other than the
order in which they were made, and are what it takes to write, delete and read
a key. Two clients are what it takes to mix up dedup tables, and for one
connection's executions to fall between another's `call()` and its answer, or
between an execution and its repeat: `MCChaos` has them. `MCTimed` has one
request in all, a byte or a close, on either side: that gives the handshake,
data and FIN timers, fast retransmissions and a timeout racing a late ack. The
FIN's timer next to the data's takes two requests of one side, since a FIN is
sent when nothing is in flight, and only a `send()` after `close()` puts data
beside it. With the clock that case is not model-checked; `PromptFailureHolds`
proves the bound for it too, and `MCClose` has closes around data without the
clock. In `MCTimed` `MinRto = 1` and `MaxRto = 2` let the backoff reach its
bound, and `silence` shows that the bound of `PromptFailure` counts ticks, not
attempts. In `MCChaos` `MaxTicks` is the least value that `ChaosAssumption`
allows, so that one tick too many would be seen. In `MCBaselines` it is more
than `Cost`, 55, so that a loop that took longer than `Cost` would be seen too.
(With the code's constants, 25 ticks, 60 attempts and gaps of at most 4, the
assumption asks for 1741 ticks for 60 calls, and `max_ticks` is 60,000.) In
`MCFraming` bytes of four values, a prefix of two bytes and a key length of one
make the longest key three bytes long, and a frame longer than one byte can
count. `MCWire` has nothing scaled down except the number of frames; two flips
are tried on frames of up to `ShortFrame` bytes, since `emit_one` makes one.
Deadlock is not checked where the system may stop: bounded workloads end, and a
failed connection does nothing.

### Fairness

`Timed!TimedSpec` says that the clock goes on and that `on_tick` is called on
both sides at every tick, which is what the owner of a connection does. It says
too that fast retransmissions come to an end. (A fast retransmit restarts the
data timer. It resends the oldest segment, whose arrival produces an ack of new
data and never a duplicate one; the channel delivers a datagram at most twice;
so between two timeouts there are only finitely many duplicate acks, and
finitely many restarts. The network of `Transport`, which repeats for ever, is
not bound by that.) `Transport!FairSpec` has weak fairness of three timers:
handshake, data, FIN; `MCTimed` shows that `TimedSpec` implies it, and
`RtoProof` proves for all constants that a timer is armed with at most
`max_rto` ticks. `Rpc!FairSpec` has the same for the deadline of a call;
`Chaos!ChaosSpec` only says that the loop goes on, and `MCChaos` shows that
this implies it. No fairness is assumed of the network: the liveness properties
say "success or reported failure".

## Proofs

All results hold for arbitrary values of the constants, under the named
assumptions of the modules: sizes and counts are natural numbers; a segment has
at least one byte, and two segments and the receive buffer fit into `u32`;
`min_rto` is positive and not above `max_rto`; `Empty` is not a value. The
assumptions on what is encoded are the widths of the code's types:
`OperationsFit` and `AnswersFit` (`Framing`) say that a key can be counted by a
`u16`, a message by the `u32` of its prefix and the calls by the `u64` of an
id, that the method is one of the three, and that only a put has a value;
`WireAssumption` says the same of the fields of frames and segment headers, and
that a payload is shorter than 2^31 bytes, since `Wire` counts with signed
numbers. (`encode` cuts a longer key's length with `as u16`; the callers in the
repository use keys of two or three bytes, and the datagrams of the transport
have some hundred.) One assumption asks for time, and only the theorems about
time use that: `ChaosAssumption` wants `max_ticks` to be at least `1 + MaxGap *
Calls + MaxAttempts * RetryDeadline`. The baselines are given any `max_ticks`.
TLC has checked each inductive invariant on the constants of a run. Every proof
about a step has one case for each action.

### The transport

* **`TransportProof!ExactlyOnceInOrder`**, `Spec => []PrefixDelivery`, and
  **`TypeCorrect`**. `PrefixDelivery` is about what was delivered and says
  nothing of segments that will be delivered, so it is not inductive.
  `TransportInv!IndInv` follows a byte along its way: the queue, an unacked
  segment, a datagram, the receive buffer, the delivered and the received
  bytes all hold, at an offset, the byte written at that offset, and nothing
  beyond what has been taken off the queue is ever on the wire. There
  is a lemma for each helper of `Connection` (what `TrySendMore`,
  `AckSnd`, `DeliverData`, `Gather` preserve). The drain
  loop of `deliver_data` is not recursive in the model: the entries it takes
  are the least set closed under stepping from the end of one entry to the
  start of the next, and the lemmas on `Run` and `RunEnd` use that.
* **`TransportProof!QueueNeverStallsHolds`** and the action property
  **`AdmissionHolds`**. Every handler that touches the send side ends in
  `try_send_more`, or leaves a connection that is not open. The lemmas say what
  `try_send_more` leaves behind: an empty queue or a segment in flight; and no
  more in flight than the window, or one byte.
* **`NothingForgottenHolds`**, **`OldestNeverSackedHolds`** and
  **`NoStrandedEntryHolds`** need `SegmentInv`. The stream is cut into segments
  once and for all: any two segments on the wire are the same or share no byte,
  and `expected_seq` and every `ack` ever sent lie between segments. What any
  header has ever SACKed, the receiver still holds; and no ack, old or
  new, asks for a byte that any header, old or new, SACKs. This last part
  relates all pairs of datagrams, since the network may deliver them in any
  order: an ack that is older than a SACK processed before it must still
  not leave a SACKed segment as the oldest.
* **`InFlightWithinCapacityHolds`** needs `WindowInv`: every window on the wire
  is at most the capacity, hence so is the one in use.
* **`GracefulCloseHolds`** needs `CloseInv`: a FIN is sent only when all that
  was given to the connection before `close()` has been delivered, `fin_ack`
  only by one who has seen the FIN, and both remain true of
  datagrams repeated later.
* **`ImplementsReliableStream`**, `Spec => IsReliableStream`: with the two
  invariants, each action of `Transport` maps to a write, an arrival, a
  read, a close, the end of a stream or a stutter of `ReliableStream`. It has no fairness, so
  this is the whole of the property that `MCClose` checks.

### Time

* **`TransportProof!ClockedConnections`**, `TimedSpec => Spec`: what `on_tick` does
  when it finds out for itself which timers have run out is one of the steps of
  `Transport`, so that everything above holds of `Timed`.
* **`KarnsRuleHolds`** and **`PromptFailureHolds`**, from `TimedInv`. Its parts
  are: ages are kept for exactly the segments in flight; attempt counts stay
  within `max_retries + 1`; what was sent twice has been counted; and the
  silence of a connection is paid for, by at most `max_rto` ticks for each
  timeout counted by the timer that will end it, and its present age. That
  timer changes (from the handshake's to the oldest segment's to the FIN's), so
  the invariant has a case for each.
* **`RtoProof!TimerBounded`**, **`EstimatorTypeCorrect`**,
  **`EstimateBounded`** and the action property **`BackoffMonotone`**: the
  timer is between `min_rto` and `max_rto`, no unsigned subtraction goes below
  zero, rounding never carries the estimate outside the samples, and a timeout
  never shortens the timer. The estimate needs `SampleInv`, which bounds `srtt`
  before it is scaled down.

### RPC and the harness

* **`RpcProof!AtMostOnceHolds`** and **`AnswersHold`**. `RpcInv!IndInv` says
  that the dedup tables and the execution log contain each other, and that
  every response, in a table, on its way, completed or polled, is that of a
  logged execution of its own id on its own connection.
* **`OneOutcomeHolds`**, from `OutcomeInv`: a call that was made is pending or
  has ended, and what has ended is no longer pending. A repeated response finds
  nothing pending.
* **`ProgramOrderHolds`**, from `OrderInv`. The log
  says nothing of calls that will be executed; the invariant looks into the
  queue: what was called before a queued request has been executed or has a
  copy ahead of it. Hence repeats may be sent in any order, and an execution
  finds its predecessors executed.
* **`DifferentialHolds`**, from `StoresAgree`: the reference list has one entry
  for each key of the map, with its value.
* **`LinearizableHolds`**: every answer is the one that a sequential store, the
  reference, gives at that call's place in the log, and the place lies between
  `call()` and the answer. It joins three facts: the answer is that of an
  execution of the call (`AnswersHold`); an execution comes after whatever had
  been executed for any client when the call was made (`ExecutedAfterCall`, a
  part of `OrderInv`); and the reference answered that execution in the same
  way.
* **`RpcProof!DrivesRpc`**, `ChaosSpec => Spec`: the loop is a way of driving
  `Rpc`, so the results above are results about `run_chaos`.
* **`DrainsInTimeHolds`**, from `ClockInv`: each tick so far is paid for by the
  gaps of the schedule, by a pending call's earlier attempts, and by the age of
  its last copy, which is below the deadline on the links that have
  had their turn.
* **`SummaryTrueHolds`**, from `CountInv`: `fired` and `calls_failed` are the
  sizes of the sets of calls made and given up. With `OutcomeInv` the
  difference that `run_chaos` computes is the number of answers.
  **`NoMismatchHolds`**: the replay never fails.

### The baselines

* **`BaselinesProof!SettledMeansDeliveredHolds`**,
  **`CompletedMeansDeliveredHolds`**, **`TimerWatchesFlightHolds`** and
  **`EndsByItselfHolds`**, from one invariant: acks on the way are of delivered
  chunks and frames on the way are of chunks cut (`FlightInv`); and each tick
  is paid for by settled chunks or by the timeouts of the oldest one in flight
  (`TimeInv`). `EndsByItself` says that both functions end within
  `Cost = 1 + Chunks * (MaxRetries + 1) * Rto` ticks, and that `max_ticks` cuts
  them off only if it is less. The code does not see to that:
  `goodput_comparison.rs` gives 500,000 ticks to 313 chunks with an `rto` of 30
  and 60 retries, for which `Cost` is 572,791, and the test of go-back-N in
  `baselines.rs` gives 5,000 ticks where `Cost` is 19,531. Those callers rely on
  fewer losses than the worst case has.

### The channel

* **`ChannelProof!CopiesAccountedHolds`**, **`OnTimeHolds`** and
  **`PinnedFateHolds`**, from `Inv`. Its parts: each copy is numbered below
  `next_seq`, was sent at or before `now`, and arrives no earlier than its base
  delay and no later than `MaxExtra` after that (`CopyInv`); its fate is the one
  the rules for its index ask for (`Pinned`), and a copy the script doubles has a
  twin (`Paired`); the numbers are in the order of sending, and no number is
  given twice (`NumberedInOrder`); what was delivered is in the order of the
  heap, was due, and would be popped before anything in flight (`HeapInv`);
  nothing due was left behind (`NotLate`); and the books (`CopiesAccounted`).
  `NotEarly` needs to know how far behind the harness the channel's clock can be
  (`ClockInv`): a tick, or any time on a fresh channel not yet advanced.
* **`BoundedReorderingHolds`** follows from `HeapInv`, `CopyInv` and
  `NumberedInOrder` (`DeliveredPair`): a copy overtaken by a later one had a
  delay longer by what the later was sent after it, so by `MaxExtra` at most.
  `HeapInv` is the hard part. The batch an `advance` hands back is written in
  the model as the arrangement of a finite set in heap order; the lemmas say that
  such an arrangement has each element once, and that a batch goes behind all
  earlier ones because what was due then is gone.

### Messages and framing

* **`FramingProof!MessagesIntactHolds`** and **`NothingHeldBackHolds`**. The
  invariant says that the bytes in the reader's buffer and the bytes still in
  the stream are, together, exactly the frames of the messages not yet
  decoded, and that the buffer holds no whole frame. A cut moves bytes from one
  to the other; the lemmas about `drain_frames` say that it takes off whole
  frames from the front, in order, and stops at the first that is not whole.
* Below it are the lemmas that a message is read back as it was written:
  `FromLeBytes` undoes `ToLeBytes` for numbers that fit, at every base and
  width; the end of the key is found; and the id, the method and the payload
  are told apart.

### Frames and segment headers

* **`WireProof!ErrorNamesTheDamageHolds`**: for all frames and segments, every
  flipped bit and every cut is found by `decode`, with the right error.
* **`BurstFound`** and **`OddDamageFound`** are two of the guarantees that
  WIRE.md and `crc32c.rs` give for the polynomial: `decode` rejects a datagram
  that differs from an encoded frame in any number of bits within 32 bits of
  each other, or in an odd number of bits anywhere. They are theorems about
  `decode`, for frames of every length and for all such changes, and go beyond
  the one or two flips that `Wire` makes.
* **`BurstOrCutFound`**: as long as the wrong bits are one such burst, or a cut
  leaves the length field alone, `NeverAWrongFrame` holds. This is a condition
  on the state, and it is the part of `NeverAWrongFrame` that is true of frames
  of every length.
* **`SegmentReadBack`**: where `NeverAWrongFrame` holds, `SegmentSurvives`
  does. With `BurstOrCutFound`, what a connection reads of a datagram is the
  segment that its peer sent.
* The argument about single changes: one step of the inner loop is one-to-one on
  the registers (the bit that falls out is the one that the polynomial's top
  bit shows), so the outer loop is one-to-one in the register for each byte,
  and in the byte for each register. Data that differ in one byte lead to
  different registers after that byte, and to different ones ever after. A flip
  in the trailer leaves the sum alone and changes what it is compared with; one
  in the length field is found before the sum is looked at, since four bytes
  are read as another number when one of them changes. Apart from that the
  invariant is small (`Inv`, `FewChanges`): what arrives is a beginning of
  what was sent, with at most as many bytes changed as bits were flipped.
* The argument about bursts goes backwards. A datagram that is accepted is a
  codeword (`Codeword`): its last 32 bits are those of its register,
  complemented. Of two codewords that differ within 32 bits, the registers
  therefore agree wherever the trailers do. Each step of the inner loop that is
  undone (`ShiftBack`) moves the interval in which two registers differ up by
  one, as long as it does not reach the top; at the first byte of the burst the
  registers are equal in front of it, and the interval is so placed that the
  bytes must be equal as well (`FirstByte`). So the codewords are the same
  (`BurstWord`).
* The argument about odd numbers is one of parity. `Poly` has 17 elements,
  and the bit that falls out makes 18, so a step of the inner loop
  keeps the number of ones in the register even or odd (`ShiftCount`), and a
  byte changes it by the ones of the byte. A codeword has therefore an even
  number of ones (`WordCount`), and so has the difference of two.

### Recursive functions

`FromLeBytes`, `drain_frames` and `crc32c` are written as recursive functions on
an interval of naturals. Their definitions only say "choose such a function";
that there is one is proved first (`UptoExists` in `WireProof` and its like in
`FramingProof`), by induction on the length. The induction itself is taken from
the well-foundedness of `<`, in the form "a set that has 0 and with n also n + 1
is all of `Nat`" (`NatSet`), so that no theorem with an operator as parameter is
needed.

### Only model-checked

* Liveness, and everything under fairness: `NeverHangs`, `CallsResolve`,
  and `TimersAreFair` and `DrivesRpcFairly`, whose safety parts
  are `ClockedConnections` and `DrivesRpc`. The proof system does not handle
  `ENABLED`, on which fairness rests.
* `NeverAWrongFrame` where two bits more than 32 apart were changed, or the
  length field was and the frame was cut as well: the first is a fact about the
  order of the polynomial, which holds up to a certain length only, and of
  the second there are exceptions among all frames (about one in 2^32). TLC
  tries them all for the frames of `MCWire`. `SegmentSurvives` is proved
  where `NeverAWrongFrame` holds.

## Not modelled

* The strength of CRC-32C against an even number of wrong bits that are far
  apart, but for two of them in the frames of `MCWire`.
* `Stats`, and the channel's counters of reordered, corrupted and truncated
  datagrams: nothing reads them but tests.
* Wrap-around of `u32` sequence numbers, and eviction from the dedup table,
  which the code does not have.
* `profiles.rs`, the generators and the command line: tables of constants,
  draws (choices in the models) and argument parsing.
* That two runs of `run_chaos` with one seed are the same: `on_tick` of the
  RPC client iterates a `HashMap`, and the models allow every order.

## Status

All components are modelled and checked. Every safety invariant and action
property of the runs is proved for all constants, but for `NeverAWrongFrame`,
of which `BurstOrCutFound` is a part, and `SegmentSurvives`, which is proved
to follow from it. What is left is out of the proof system's reach: liveness
and fairness, and the strength of the CRC against two wrong bits far apart.
