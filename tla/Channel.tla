------------------------------ MODULE Channel ------------------------------
(***************************************************************************)
(* One direction of the simulated link (crates/channel, Channel), driven   *)
(* the way run_chaos drives it: a harness clock steps, the channel may be  *)
(* replaced by one with another fault profile, calls are sent, the channel *)
(* is advanced to the clock, and answers are sent.  A draw of the seeded   *)
(* generator is a choice among the values it can take.  A payload is its   *)
(* length, and the offset of the byte a bit was flipped in (0 for none).   *)
(***************************************************************************)
EXTENDS Integers, Sequences, FiniteSetsExt, SequencesExt

CONSTANTS
    Profiles,    \* the fault profiles a channel may be given
    Scripts,     \* the scripts the first channel may be given
    Sizes,       \* the lengths of the payloads sent
    MaxSends,    \* bound on the datagrams sent on one channel
    MaxTick,     \* bound on the harness clock
    MaxSwitches  \* bound on the changes of profile

Chance == {"never", "maybe", "always"}

Fault == {"Drop", "Duplicate", "Delay", "Corrupt", "Truncate"}

ASSUME ChannelAssumption ==
    /\ \A p \in Profiles :
          /\ {p.loss, p.duplication, p.corruption, p.truncation} \subseteq Chance
          /\ p.reorder_max_delay \in Nat /\ p.base_delay \in Nat
    /\ Scripts \subseteq Seq([index : Nat, fault : Fault, arg : Nat])
    /\ Sizes \subseteq Nat
    /\ {MaxSends, MaxTick, MaxSwitches} \subseteq Nat

VARIABLES
    profile, script, now, in_flight, next_datagram_index, next_seq, stats,
    clock,      \* the tick of the harness
    phase,      \* how far the harness is in that tick: new, calls, advanced
    switched,   \* the number of changes of profile
    delivered   \* history: the copies handed back by this channel, in order

channel == <<profile, script, now, in_flight, next_datagram_index, next_seq,
             stats, delivered>>
vars == <<channel, clock, phase, switched>>

NoStats == [sent |-> 0, delivered |-> 0, dropped |-> 0, duplicated |-> 0]

\* Channel::new and with_script: time starts at zero on every channel.
Fresh(p, s) ==
    /\ profile' = p /\ script' = s
    /\ now' = 0 /\ in_flight' = {} /\ next_datagram_index' = 0
    /\ next_seq' = 0 /\ stats' = NoStats /\ delivered' = << >>

Init ==
    /\ profile \in Profiles /\ script \in Scripts
    /\ now = 0 /\ in_flight = {} /\ next_datagram_index = 0
    /\ next_seq = 0 /\ stats = NoStats /\ delivered = << >>
    /\ clock = 0 /\ phase = "advanced" /\ switched = 0

-----------------------------------------------------------------------------
(* Sending *)

Draw(p) == CASE p = "never" -> {FALSE} [] p = "maybe" -> BOOLEAN
             [] p = "always" -> {TRUE}

\* The rules for a datagram, by their places in the script.
Rules(index) == {i \in DOMAIN script : script[i].index = index}

Has(rules, fault) == \E i \in rules : script[i].fault = fault

\* The argument of the first rule of that kind.
Arg(rules, fault) ==
    script[Min({i \in rules : script[i].fault = fault})].arg

\* A scripted fault happens, any other one is drawn.
Faulted(rules, fault, p) == IF Has(rules, fault) THEN {TRUE} ELSE Draw(p)

\* Mutation: the scripted delay is ignored.
ExtraDelays_Random(rules) == 0 .. profile.reorder_max_delay

ExtraDelays(rules) ==
    IF Has(rules, "Delay") THEN {Arg(rules, "Delay")}
                           ELSE 0 .. profile.reorder_max_delay

\* The offset flipped by emit_one in a payload of that size, 0 for none.
Flips(rules, size) ==
    UNION {CASE ~hit \/ size = 0 -> {0}
             [] OTHER -> IF Has(rules, "Corrupt")
                           THEN {(Arg(rules, "Corrupt") % size) + 1}
                           ELSE 1 .. size :
           hit \in Faulted(rules, "Corrupt", profile.corruption)}

\* The lengths emit_one may leave of a payload of that size.
Lengths(rules, size) ==
    UNION {CASE ~hit \/ size = 0 -> {size}
             [] OTHER -> IF Has(rules, "Truncate")
                           THEN {Min({Arg(rules, "Truncate"), size})}
                           ELSE 0 .. size - 1 :
           hit \in Faulted(rules, "Truncate", profile.truncation)}

\* Mutation: base_delay is left out.
EmitOne_NoBase(rules, index, size) ==
    {[seq |-> 0, index |-> index, size |-> size, sent |-> now,
      arrives |-> now + d, flipped |-> f, len |-> n] :
        d \in ExtraDelays(rules), f \in Flips(rules, size),
        n \in Lengths(rules, size)}

\* The copies emit_one may build; seq is filled in by enqueue.  size and sent
\* are history: the length of the payload and the channel's time when it was
\* sent.
EmitOne(rules, index, size) ==
    {[seq |-> 0, index |-> index, size |-> size, sent |-> now,
      arrives |-> now + profile.base_delay + d, flipped |-> f, len |-> n] :
        d \in ExtraDelays(rules), f \in Flips(rules, size),
        n \in Lengths(rules, size)}

WithSeq(copy, n) == [copy EXCEPT !.seq = n]

\* Mutation: a duplicate is not counted.
Counted_NoDuplicates(st, copies) == [st EXCEPT !.sent = @ + 1]

\* What a send that made that many copies adds to the counters.
Counted(st, copies) ==
    [st EXCEPT !.sent = @ + 1,
               !.dropped = @ + IF copies = 0 THEN 1 ELSE 0,
               !.duplicated = @ + IF copies = 2 THEN 1 ELSE 0]

Enqueue(copies) ==
    /\ in_flight' = in_flight \cup
                      {WithSeq(copies[i], next_seq + i - 1) : i \in DOMAIN copies}
    /\ next_seq' = next_seq + Len(copies)
    /\ next_datagram_index' = next_datagram_index + 1
    /\ stats' = Counted(stats, Len(copies))

Send(size) ==
    LET index == next_datagram_index
        rules == Rules(index)
        Copy  == EmitOne(rules, index, size)
    IN  /\ index < MaxSends
        /\ \E lost \in Faulted(rules, "Drop", profile.loss),
              twice \in Faulted(rules, "Duplicate", profile.duplication) :
              \/ lost /\ Enqueue(<< >>)
              \/ ~lost /\ ~twice /\ \E c \in Copy : Enqueue(<<c>>)
              \/ ~lost /\ twice /\ \E c, d \in Copy : Enqueue(<<c, d>>)
        /\ phase' = IF phase = "new" THEN "calls" ELSE phase
        /\ UNCHANGED <<profile, script, now, delivered, clock, switched>>

-----------------------------------------------------------------------------
(* Time *)

Ready(t) == {c \in in_flight : c.arrives <= t}

\* Mutation: the heap is a max-heap (the Reverse is missing).
PoppedBefore_MaxHeap(a, b) ==
    a.arrives > b.arrives \/ (a.arrives = b.arrives /\ a.seq > b.seq)

\* The order of the heap: by arrival, then by insertion.
PoppedBefore(a, b) ==
    a.arrives < b.arrives \/ (a.arrives = b.arrives /\ a.seq < b.seq)

InHeapOrder(s) ==
    \A i, j \in DOMAIN s : i < j => PoppedBefore(s[i], s[j])

\* advance(clock) and the deliver_ready it ends with.
Advance ==
    /\ phase # "advanced"
    /\ phase' = "advanced"
    /\ now' = IF clock > now THEN clock ELSE now
    /\ \E popped \in SetToSeqs(Ready(now')) :
          /\ InHeapOrder(popped)
          /\ delivered' = delivered \o popped
    /\ in_flight' = in_flight \ Ready(now')
    /\ stats' = [stats EXCEPT !.delivered = @ + Cardinality(Ready(now'))]
    /\ UNCHANGED <<profile, script, next_datagram_index, next_seq, clock,
                   switched>>

\* The top of the loop of run_chaos.
NewTick ==
    /\ phase = "advanced" /\ clock < MaxTick
    /\ clock' = clock + 1
    /\ phase' = "new"
    /\ UNCHANGED <<channel, switched>>

\* A profile switch: a new channel takes the place of the old one, and what
\* was in flight on it is gone.
Switch ==
    /\ phase = "new" /\ switched < MaxSwitches
    /\ switched' = switched + 1
    /\ \E p \in Profiles : Fresh(p, << >>)
    /\ UNCHANGED <<clock, phase>>

Next == (\E n \in Sizes : Send(n)) \/ Advance \/ NewTick \/ Switch

Spec == Init /\ [][Next]_vars

-----------------------------------------------------------------------------
(* Properties *)

Copies == in_flight \cup Range(delivered)

Named(fault) == {c \in Copies : Has(Rules(c.index), fault)}

\* Every copy made is in flight or was delivered, exactly once, and the
\* counters of FaultStats agree with that at every moment.
CopiesAccounted ==
    /\ Cardinality(in_flight) + stats.delivered
          = stats.sent - stats.dropped + stats.duplicated
    /\ Cardinality(Copies) = next_seq
    /\ Cardinality(in_flight) + Len(delivered) = next_seq

\* The longest extra delay this channel may add.
MaxExtra ==
    Max({profile.reorder_max_delay} \cup
        {script[i].arg : i \in {j \in DOMAIN script : script[j].fault = "Delay"}})

\* A datagram overtakes another only if the other was sent no more than the
\* longest extra delay earlier, and without extra delays the channel is
\* FIFO: duplicates, the heap's order and batched delivery reorder nothing
\* by themselves.
BoundedReordering ==
    \A i, j \in DOMAIN delivered :
        i < j => /\ delivered[i].sent <= delivered[j].sent + MaxExtra
                 /\ MaxExtra = 0 => delivered[i].index <= delivered[j].index

\* Once the channel has been advanced, only what was sent since can be due.
NotLate ==
    phase = "advanced" =>
        \A c \in in_flight : c.arrives > now \/ c.sent = now

\* A datagram takes at least base_delay ticks of the harness, counted from
\* the last advance.
NotEarly ==
    \A c \in in_flight :
        c.sent = now => c.arrives >= clock - 1 + profile.base_delay

\* What a profile switch has put in place and nobody has advanced: its clock
\* is at zero, wherever that of the harness stands.
AtZero == switched # 0 /\ now = 0

\* advance leaves nothing behind that is due, and base_delay is "applied to
\* every datagram that isn't dropped" (fault.rs 26-27), the clock of the
\* channel being at most a tick behind that of the harness.  The one
\* exception is what is sent on a fresh channel before its first advance.
OnTime == NotLate /\ (AtZero \/ NotEarly)

\* lib.rs 62-65: a script pins the fate of a datagram exactly, both copies
\* of a duplicate included, whatever the profile draws.
PinnedFate ==
    /\ Named("Drop") = {}
    /\ \A c \in Named("Duplicate") :
          \E d \in Copies : d.index = c.index /\ d.seq # c.seq
    /\ \A c \in Named("Delay") :
          c.arrives = c.sent + profile.base_delay
                        + Arg(Rules(c.index), "Delay")
    /\ \A c \in Named("Corrupt") : c.size > 0 => c.flipped # 0
    /\ \A c \in Named("Truncate") :
          c.len <= Arg(Rules(c.index), "Truncate")
=============================================================================
