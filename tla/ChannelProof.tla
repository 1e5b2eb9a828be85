---------------------------- MODULE ChannelProof ----------------------------
(***************************************************************************)
(* Proofs about Channel, for every set of profiles and scripts and any     *)
(* number of sends, ticks and switches: the books of the channel are right *)
(* at every moment, reordering is bounded by the longest extra delay, the  *)
(* clock leaves nothing behind that is due and hands nothing over early,   *)
(* and scripts are obeyed.                                                 *)
(***************************************************************************)
EXTENDS Channel, FiniteSetTheorems, NaturalsInduction, WellFoundedInduction,
        TLAPS

-----------------------------------------------------------------------------
(* The inductive invariant *)

RuleType == [index : Nat, fault : Fault, arg : Nat]

CopyType ==
    [seq : Nat, index : Nat, size : Nat, sent : Nat, arrives : Nat,
     flipped : Nat, len : Nat]

TypeOK ==
    /\ profile \in Profiles /\ script \in Seq(RuleType)
    /\ now \in Nat /\ clock \in Nat
    /\ next_datagram_index \in Nat /\ next_seq \in Nat
    /\ in_flight \subseteq CopyType /\ IsFiniteSet(in_flight)
    /\ delivered \in Seq(CopyType)
    /\ stats \in [sent : Nat, delivered : Nat, dropped : Nat, duplicated : Nat]

\* What is known of every copy made: the extra delay is within bounds.
CopyInv(c) ==
    /\ c.seq < next_seq /\ c.index < next_datagram_index /\ c.sent <= now
    /\ c.sent + profile.base_delay <= c.arrives
    /\ c.arrives <= c.sent + profile.base_delay + MaxExtra

\* Copies are numbered in the order in which they were sent.
NumberedInOrder(C) ==
    \A c, d \in C : /\ c.seq < d.seq => c.sent <= d.sent /\ c.index <= d.index
                    /\ c.seq = d.seq => c = d

\* All that was delivered came off the heap before anything in flight will.
HeapInv ==
    /\ InHeapOrder(delivered)
    /\ \A i \in DOMAIN delivered :
          /\ delivered[i].arrives <= now
          /\ \A c \in in_flight : PoppedBefore(delivered[i], c)

\* What a script asks of a copy alone.
Pinned(c) ==
    LET rules == Rules(c.index)
    IN  /\ ~Has(rules, "Drop")
        /\ Has(rules, "Delay") =>
              c.arrives = c.sent + profile.base_delay + Arg(rules, "Delay")
        /\ Has(rules, "Corrupt") /\ c.size > 0 => c.flipped # 0
        /\ Has(rules, "Truncate") => c.len <= Arg(rules, "Truncate")

\* A copy that the script doubles is one of two.
Paired(c) ==
    Has(Rules(c.index), "Duplicate") =>
        \E d \in Copies : d.index = c.index /\ d.seq # c.seq

Inv ==
    /\ TypeOK
    /\ \A c \in Copies : CopyInv(c) /\ Pinned(c) /\ Paired(c)
    /\ NumberedInOrder(Copies)
    /\ HeapInv
    /\ NotLate
    /\ CopiesAccounted

-----------------------------------------------------------------------------
(* The least and the greatest *)

\* A nonempty set of naturals has a least element.
LEMMA NatMin ==
    ASSUME NEW T \in SUBSET Nat, T # {}
    PROVE  \E x \in T : \A y \in T : x <= y
<1> DEFINE R == OpToRel(<, Nat)
<1>1. IsWellFoundedOn(R, Nat)
  BY NatLessThanWellFounded
<1>2. \A x, y \in Nat : <<y, x>> \in R <=> y < x
  BY DEF OpToRel
<1> HIDE DEF R
<1>3. PICK x \in T : \A y \in T : ~(<<y, x>> \in R)
  BY <1>1, WFMin, Zenon
<1>4. ASSUME NEW y \in T
      PROVE  x <= y
  <2>1. x \in Nat /\ y \in Nat
    OBVIOUS
  <2>2. ~(y < x)
    BY <1>2, <1>3, <2>1
  <2> QED
    BY <2>1, <2>2
<1> QED
  BY <1>4

LEMMA MinFacts ==
    ASSUME NEW T \in SUBSET Nat, T # {}
    PROVE  Min(T) \in T
<1>1. \E x \in T : \A y \in T : x =< y
  BY NatMin
<1> QED
  BY <1>1 DEF Min

\* The arguments of a script, and any number, have a greatest one.
LEMMA MaxFacts ==
    ASSUME NEW T \in SUBSET Nat, T # {}, NEW b \in Nat, \A x \in T : x <= b
    PROVE  Max(T) \in T /\ \A x \in T : x <= Max(T)
<1> DEFINE B == {n \in Nat : \A x \in T : x <= n}
<1>1. PICK m \in B : \A n \in B : m <= n
  <2>1. b \in B /\ B \in SUBSET Nat
    OBVIOUS
  <2> QED
    BY <2>1, NatMin
<1>2. m \in T
  <2> SUFFICES ASSUME m \notin T PROVE FALSE
    OBVIOUS
  <2>1. PICK y \in T : TRUE
    OBVIOUS
  <2>2. \A x \in T : x <= m /\ x # m /\ x \in Nat
    BY <1>1
  <2>3. m - 1 \in Nat /\ \A x \in T : x <= m - 1
    BY <2>1, <2>2, <1>1
  <2>4. m - 1 \in B
    BY <2>3
  <2> QED
    BY <1>1, <2>4, <2>3
<1>3. \E x \in T : \A y \in T : x >= y
  BY <1>1, <1>2
<1>4. Max(T) \in T /\ \A y \in T : Max(T) >= y
  BY <1>3 DEF Max
<1> QED
  BY <1>4

\* Finitely many numbers are bounded.
LEMMA FamilyBounded ==
    ASSUME NEW l \in Nat, NEW f \in [1 .. l -> Nat]
    PROVE  \E b \in Nat : \A i \in 1 .. l : f[i] <= b
<1> DEFINE Bound(n, b) == \A i \in 1 .. l : i <= n => f[i] <= b
           Good(n) == \E b \in Nat : Bound(n, b)
           Bad == {n \in Nat : ~Good(n)}
<1>1. \A i \in 1 .. l : f[i] \in Nat
  OBVIOUS
<1>2. ASSUME NEW n \in Nat, n # 0, Good(n - 1)
      PROVE  Good(n)
  <2>1. PICK b \in Nat : Bound(n - 1, b)
    BY <1>2
  <2>2. CASE n \in 1 .. l
    <3> DEFINE m == b + f[n]
    <3>1. f[n] \in Nat /\ m \in Nat
      BY <1>1, <2>2
    <3>2. ASSUME NEW i \in 1 .. l, i <= n
          PROVE  f[i] <= m
      <4>1. i = n \/ i <= n - 1
        BY <3>2
      <4>2. i = n => f[i] <= m
        BY <3>1
      <4>3. i <= n - 1 => f[i] <= b /\ f[i] \in Nat
        BY <1>1, <2>1
      <4> QED
        BY <3>1, <4>1, <4>2, <4>3
    <3> QED
      BY <3>1, <3>2
  <2>3. CASE n \notin 1 .. l
    <3>1. \A i \in 1 .. l : i <= n => i <= n - 1
      BY <1>2, <2>3
    <3>2. Bound(n, b)
      BY <2>1, <3>1
    <3> QED
      BY <3>2
  <2> QED
    BY <2>2, <2>3
<1>3. Good(0)
  <2>1. Bound(0, 0)
    OBVIOUS
  <2> QED
    BY <2>1
<1> HIDE DEF Good
<1>4. ASSUME Bad # {} PROVE FALSE
  <2>1. PICK n \in Bad : \A k \in Bad : n <= k
    BY <1>4, NatMin
  <2>2. n \in Nat /\ n # 0 /\ n - 1 \in Nat
    BY <1>3, <2>1
  <2>3. Good(n - 1)
    BY <2>1, <2>2
  <2> QED
    BY <1>2, <2>1, <2>2, <2>3
<1>5. Good(l)
  BY <1>4
<1> QED
  BY <1>5 DEF Good

\* What the rules of a script look like.
LEMMA RuleFacts ==
    ASSUME script \in Seq(RuleType)
    PROVE  /\ DOMAIN script \in SUBSET Nat
           /\ \A i \in DOMAIN script : script[i].arg \in Nat
<1>1. Len(script) \in Nat /\ DOMAIN script = 1 .. Len(script)
  OBVIOUS
<1>2. \A i \in DOMAIN script : script[i] \in RuleType
  BY <1>1
<1>3. \A r \in RuleType : r.arg \in Nat
  BY DEF RuleType
<1> QED
  BY <1>1, <1>2, <1>3

\* MaxExtra is a number, at least as great as every extra delay.
LEMMA MaxExtraFacts ==
    ASSUME script \in Seq(RuleType), profile.reorder_max_delay \in Nat
    PROVE  /\ MaxExtra \in Nat
           /\ profile.reorder_max_delay <= MaxExtra
           /\ \A i \in DOMAIN script :
                 script[i].fault = "Delay" => script[i].arg <= MaxExtra
<1> DEFINE D == {j \in DOMAIN script : script[j].fault = "Delay"}
           T == {profile.reorder_max_delay} \cup {script[i].arg : i \in D}
           l == Len(script)
           f == [i \in 1 .. l |-> script[i].arg]
<1>1. l \in Nat /\ DOMAIN script = 1 .. l
  OBVIOUS
<1>2. f \in [1 .. l -> Nat]
  BY <1>1, RuleFacts
<1>3. PICK b \in Nat : \A i \in 1 .. l : f[i] <= b
  BY <1>1, <1>2, FamilyBounded
<1>4. \A i \in DOMAIN script : script[i].arg <= b /\ script[i].arg \in Nat
  BY <1>1, <1>3, RuleFacts
<1>5. PICK m \in Nat : b <= m /\ profile.reorder_max_delay <= m
  OBVIOUS
<1>6. T \in SUBSET Nat /\ T # {} /\ \A x \in T : x <= m
  BY <1>4, <1>5
<1>7. Max(T) \in T /\ \A x \in T : x <= Max(T)
  BY <1>6, MaxFacts
<1>8. MaxExtra = Max(T)
  BY DEF MaxExtra
<1> QED
  BY <1>6, <1>7, <1>8
-----------------------------------------------------------------------------
(* Sending *)

LEMMA ProfileFacts ==
    ASSUME profile \in Profiles
    PROVE  /\ profile.base_delay \in Nat /\ profile.reorder_max_delay \in Nat
           /\ profile.loss \in Chance /\ profile.duplication \in Chance
           /\ profile.corruption \in Chance /\ profile.truncation \in Chance
BY ChannelAssumption

\* A draw is true or false.
LEMMA DrawFacts ==
    ASSUME NEW p \in Chance
    PROVE  Draw(p) \subseteq BOOLEAN
BY DEF Chance, Draw

\* The argument of a rule is that of one of the rules.
LEMMA ArgFacts ==
    ASSUME script \in Seq(RuleType), NEW rules \in SUBSET DOMAIN script,
           NEW fault, Has(rules, fault)
    PROVE  /\ Arg(rules, fault) \in Nat
           /\ \E i \in rules : /\ script[i].fault = fault
                               /\ script[i].arg = Arg(rules, fault)
<1> DEFINE T == {i \in rules : script[i].fault = fault}
<1>1. T \in SUBSET Nat /\ T # {}
  BY RuleFacts DEF Has
<1>2. Min(T) \in T
  BY <1>1, MinFacts
<1>3. Arg(rules, fault) = script[Min(T)].arg
  BY DEF Arg
<1> QED
  BY <1>2, <1>3, RuleFacts

\* An extra delay is within bounds.
LEMMA DelayFacts ==
    ASSUME TypeOK, NEW rules \in SUBSET DOMAIN script,
           NEW d \in ExtraDelays(rules)
    PROVE  /\ d \in Nat /\ d <= MaxExtra /\ MaxExtra \in Nat
           /\ Has(rules, "Delay") => d = Arg(rules, "Delay")
<1>1. script \in Seq(RuleType) /\ profile.reorder_max_delay \in Nat
  BY ProfileFacts DEF TypeOK
<1>2. /\ MaxExtra \in Nat /\ profile.reorder_max_delay <= MaxExtra
      /\ \A i \in DOMAIN script :
            script[i].fault = "Delay" => script[i].arg <= MaxExtra
  BY <1>1, MaxExtraFacts
<1>3. CASE Has(rules, "Delay")
  <2>1. PICK i \in rules : /\ script[i].fault = "Delay"
                           /\ script[i].arg = Arg(rules, "Delay")
                           /\ Arg(rules, "Delay") \in Nat
    BY <1>1, <1>3, ArgFacts
  <2>2. d = Arg(rules, "Delay")
    BY <1>3 DEF ExtraDelays
  <2> QED
    BY <1>2, <2>1, <2>2
<1>4. CASE ~Has(rules, "Delay")
  <2>1. d \in 0 .. profile.reorder_max_delay
    BY <1>4 DEF ExtraDelays
  <2> QED
    BY <1>1, <1>2, <1>4, <2>1
<1> QED
  BY <1>3, <1>4

\* Where a bit is flipped.
LEMMA FlipFacts ==
    ASSUME TypeOK, NEW rules \in SUBSET DOMAIN script, NEW size \in Nat,
           NEW f \in Flips(rules, size)
    PROVE  /\ f \in Nat
           /\ Has(rules, "Corrupt") /\ size > 0 => f # 0
<1>1. script \in Seq(RuleType)
  BY DEF TypeOK
<1>2. PICK hit \in Faulted(rules, "Corrupt", profile.corruption) :
         f \in CASE ~hit \/ size = 0 -> {0}
                 [] OTHER -> IF Has(rules, "Corrupt")
                               THEN {(Arg(rules, "Corrupt") % size) + 1}
                               ELSE 1 .. size
  BY DEF Flips
<1>3. hit \in BOOLEAN /\ (Has(rules, "Corrupt") => hit)
  BY ProfileFacts, DrawFacts DEF Faulted, TypeOK
<1>4. CASE ~hit \/ size = 0
  <2>1. f \in {0}
    BY <1>2, <1>4
  <2> QED
    BY <1>3, <1>4, <2>1
<1>5. CASE ~(~hit \/ size = 0) /\ Has(rules, "Corrupt")
  <2>1. f = (Arg(rules, "Corrupt") % size) + 1
    BY <1>2, <1>5
  <2>2. Arg(rules, "Corrupt") \in Nat
    BY <1>1, <1>5, ArgFacts
  <2> QED
    BY <1>5, <2>1, <2>2
<1>6. CASE ~(~hit \/ size = 0) /\ ~Has(rules, "Corrupt")
  <2>1. f \in 1 .. size
    BY <1>2, <1>6
  <2> QED
    BY <1>6, <2>1
<1> QED
  BY <1>4, <1>5, <1>6

\* What is left of a payload.
LEMMA LengthFacts ==
    ASSUME TypeOK, NEW rules \in SUBSET DOMAIN script, NEW size \in Nat,
           NEW n \in Lengths(rules, size)
    PROVE  /\ n \in Nat
           /\ Has(rules, "Truncate") => n <= Arg(rules, "Truncate")
<1> DEFINE a == Arg(rules, "Truncate")
<1>1. script \in Seq(RuleType)
  BY DEF TypeOK
<1>2. Has(rules, "Truncate") => a \in Nat
  BY <1>1, ArgFacts
<1>3. PICK hit \in Faulted(rules, "Truncate", profile.truncation) :
         n \in CASE ~hit \/ size = 0 -> {size}
                 [] OTHER -> IF Has(rules, "Truncate")
                               THEN {Min({a, size})}
                               ELSE 0 .. size - 1
  BY DEF Lengths
<1>4. hit \in BOOLEAN /\ (Has(rules, "Truncate") => hit)
  BY ProfileFacts, DrawFacts DEF Faulted, TypeOK
<1> HIDE DEF a
<1>5. CASE ~hit \/ size = 0
  <2>1. n \in {size}
    BY <1>3, <1>5
  <2> QED
    BY <1>2, <1>4, <1>5, <2>1 DEF a
<1>6. CASE ~(~hit \/ size = 0) /\ Has(rules, "Truncate")
  <2>1. n = Min({a, size})
    BY <1>3, <1>6
  <2>2. {a, size} \in SUBSET Nat /\ {a, size} # {}
    BY <1>2, <1>6
  <2>3. \E x \in {a, size} : \A y \in {a, size} : x =< y
    BY <2>2, NatMin
  <2>4. n \in {a, size} /\ n <= a
    BY <2>1, <2>3 DEF Min
  <2> QED
    BY <2>2, <2>4 DEF a
<1>7. CASE ~(~hit \/ size = 0) /\ ~Has(rules, "Truncate")
  <2>1. n \in 0 .. size - 1
    BY <1>3, <1>7
  <2> QED
    BY <1>7, <2>1
<1> QED
  BY <1>5, <1>6, <1>7

\* The copies that emit_one builds.
LEMMA EmitFacts ==
    ASSUME TypeOK, NEW index \in Nat, NEW size \in Nat,
           NEW c \in EmitOne(Rules(index), index, size)
    PROVE  /\ c \in CopyType
           /\ c.index = index /\ c.sent = now
           /\ c.sent + profile.base_delay <= c.arrives
           /\ c.arrives <= c.sent + profile.base_delay + MaxExtra
           /\ ~Has(Rules(index), "Drop") => Pinned(c)
<1> DEFINE rules == Rules(index)
<1>1. rules \in SUBSET DOMAIN script
  BY DEF Rules
<1>2. PICK d \in ExtraDelays(rules), f \in Flips(rules, size),
           n \in Lengths(rules, size) :
         c = [seq |-> 0, index |-> index, size |-> size, sent |-> now,
              arrives |-> now + profile.base_delay + d, flipped |-> f, len |-> n]
  BY DEF EmitOne
<1> HIDE DEF rules
<1>3. /\ d \in Nat /\ d <= MaxExtra /\ MaxExtra \in Nat
      /\ Has(rules, "Delay") => d = Arg(rules, "Delay")
  BY <1>1, DelayFacts
<1>4. f \in Nat /\ (Has(rules, "Corrupt") /\ size > 0 => f # 0)
  BY <1>1, FlipFacts
<1>5. n \in Nat /\ (Has(rules, "Truncate") => n <= Arg(rules, "Truncate"))
  BY <1>1, LengthFacts
<1>6. now \in Nat /\ profile.base_delay \in Nat
  BY ProfileFacts DEF TypeOK
<1>7. c \in CopyType
  BY <1>2, <1>3, <1>4, <1>5, <1>6 DEF CopyType
<1>8. /\ c.index = index /\ c.sent = now /\ c.size = size
      /\ c.arrives = now + profile.base_delay + d
      /\ c.flipped = f /\ c.len = n
  BY <1>2
<1>9. Rules(c.index) = rules
  BY <1>8 DEF rules
<1>10. ~Has(rules, "Drop") => Pinned(c)
  BY <1>3, <1>4, <1>5, <1>8, <1>9 DEF Pinned
<1> QED
  BY <1>3, <1>6, <1>7, <1>8, <1>10 DEF rules
\* What is true of a copy when it is queued, k copies being made at once.
NewCopy(c, k) ==
    /\ c \in CopyType
    /\ c.seq \in next_seq .. next_seq + k - 1
    /\ c.index = next_datagram_index /\ c.sent = now
    /\ c.sent + profile.base_delay <= c.arrives
    /\ c.arrives <= c.sent + profile.base_delay + MaxExtra
    /\ Pinned(c)

LEMMA NumberedCopy ==
    ASSUME TypeOK, NEW size \in Nat, NEW k \in 1 .. 2, NEW i \in 1 .. k,
           NEW c \in EmitOne(Rules(next_datagram_index), next_datagram_index, size),
           ~Has(Rules(next_datagram_index), "Drop")
    PROVE  /\ NewCopy(WithSeq(c, next_seq + i - 1), k)
           /\ WithSeq(c, next_seq + i - 1).seq = next_seq + i - 1
<1> DEFINE n == next_seq + i - 1
           w == WithSeq(c, n)
<1>1. next_datagram_index \in Nat /\ next_seq \in Nat
  BY DEF TypeOK
<1>2. /\ c \in CopyType /\ c.index = next_datagram_index /\ c.sent = now
      /\ c.sent + profile.base_delay <= c.arrives
      /\ c.arrives <= c.sent + profile.base_delay + MaxExtra
      /\ Pinned(c)
  BY <1>1, EmitFacts
<1>3. n \in Nat /\ n \in next_seq .. next_seq + k - 1
  BY <1>1
<1> HIDE DEF n
<1>4. /\ w \in CopyType
      /\ w.seq = n /\ w.index = c.index /\ w.size = c.size /\ w.sent = c.sent
      /\ w.arrives = c.arrives /\ w.flipped = c.flipped /\ w.len = c.len
  BY <1>2, <1>3 DEF WithSeq, CopyType
<1> HIDE DEF w
<1>5. Pinned(w)
  BY <1>2, <1>4 DEF Pinned
<1>6. NewCopy(w, k) /\ w.seq = n
  BY <1>2, <1>3, <1>4, <1>5 DEF NewCopy
<1> QED
  BY <1>6 DEF w, n

\* The k copies N are queued.
Queued(N, k) ==
    /\ in_flight' = in_flight \cup N
    /\ next_seq' = next_seq + k
    /\ next_datagram_index' = next_datagram_index + 1
    /\ stats' = Counted(stats, k)
    /\ phase' = "advanced" => phase = "advanced"
    /\ UNCHANGED <<profile, script, now, delivered, clock, switched>>

\* A send that makes the k copies N.
Sent(N, k) ==
    /\ Queued(N, k)
    /\ IsFiniteSet(N) /\ Cardinality(N) = k
    /\ \A c \in N : NewCopy(c, k)
    /\ \A c, d \in N : c.seq = d.seq => c = d
    /\ \A c \in N : Has(Rules(c.index), "Duplicate") =>
          \E d \in N : d.index = c.index /\ d.seq # c.seq

\* What send does: at most two copies are queued, as the script says.
LEMMA SendShape ==
    ASSUME TypeOK, NEW size \in Nat, Send(size)
    PROVE  \E k \in 0 .. 2 : \E N : Sent(N, k)
<1> DEFINE index == next_datagram_index
           rules == Rules(index)
           Copy  == EmitOne(rules, index, size)
<1>1. /\ phase' = "advanced" => phase = "advanced"
      /\ UNCHANGED <<profile, script, now, delivered, clock, switched>>
  BY DEF Send
<1>2. PICK lost \in Faulted(rules, "Drop", profile.loss),
           twice \in Faulted(rules, "Duplicate", profile.duplication) :
         \/ lost /\ Enqueue(<< >>)
         \/ ~lost /\ ~twice /\ \E c \in Copy : Enqueue(<<c>>)
         \/ ~lost /\ twice /\ \E c, d \in Copy : Enqueue(<<c, d>>)
  BY DEF Send
<1>3. /\ Has(rules, "Drop") => lost
      /\ Has(rules, "Duplicate") => twice
  BY DEF Faulted
<1>4. next_seq \in Nat /\ index \in Nat
  BY DEF TypeOK
<1>5. CASE lost /\ Enqueue(<< >>)
  <2>1. Queued({}, 0)
    BY <1>1, <1>4, <1>5 DEF Enqueue, Queued
  <2>2. IsFiniteSet({}) /\ Cardinality({}) = 0
    BY FS_EmptySet
  <2> QED
    BY <2>1, <2>2 DEF Sent
<1>6. ASSUME ~lost, ~twice, NEW c \in Copy, Enqueue(<<c>>)
      PROVE  \E k \in 0 .. 2 : \E N : Sent(N, k)
  <2> DEFINE x == WithSeq(c, next_seq)
  <2>1. NewCopy(x, 1)
    <3>1. NewCopy(WithSeq(c, next_seq + 1 - 1), 1)
      BY <1>3, <1>6, NumberedCopy
    <3>2. next_seq + 1 - 1 = next_seq
      BY <1>4
    <3> QED
      BY <3>1, <3>2
  <2>2. {WithSeq(<<c>>[i], next_seq + i - 1) : i \in DOMAIN <<c>>} = {x}
    <3>1. DOMAIN <<c>> = {1} /\ <<c>>[1] = c /\ next_seq + 1 - 1 = next_seq
      BY <1>4
    <3> QED
      BY <3>1
  <2>3. Queued({x}, 1)
    <3>1. Len(<<c>>) = 1
      OBVIOUS
    <3> QED
      BY <1>1, <1>6, <2>2, <3>1 DEF Enqueue, Queued
  <2>4. IsFiniteSet({x}) /\ Cardinality({x}) = 1
    BY FS_Singleton
  <2>5. ~Has(Rules(x.index), "Duplicate")
    BY <1>3, <1>6, <2>1 DEF NewCopy
  <2> HIDE DEF x
  <2> QED
    BY <2>1, <2>3, <2>4, <2>5 DEF Sent
<1>7. ASSUME ~lost, twice, NEW c \in Copy, NEW d \in Copy, Enqueue(<<c, d>>)
      PROVE  \E k \in 0 .. 2 : \E N : Sent(N, k)
  <2> DEFINE x == WithSeq(c, next_seq)
             y == WithSeq(d, next_seq + 1)
  <2>1. /\ NewCopy(x, 2) /\ x.seq = next_seq
        /\ NewCopy(y, 2) /\ y.seq = next_seq + 1
    <3>1. /\ NewCopy(WithSeq(c, next_seq + 1 - 1), 2)
          /\ WithSeq(c, next_seq + 1 - 1).seq = next_seq + 1 - 1
          /\ NewCopy(WithSeq(d, next_seq + 2 - 1), 2)
          /\ WithSeq(d, next_seq + 2 - 1).seq = next_seq + 2 - 1
      BY <1>3, <1>7, NumberedCopy
    <3>2. next_seq + 1 - 1 = next_seq /\ next_seq + 2 - 1 = next_seq + 1
      BY <1>4
    <3> QED
      BY <3>1, <3>2
  <2>2. {WithSeq(<<c, d>>[i], next_seq + i - 1) : i \in DOMAIN <<c, d>>} = {x, y}
    <3>1. /\ DOMAIN <<c, d>> = {1, 2} /\ <<c, d>>[1] = c /\ <<c, d>>[2] = d
          /\ next_seq + 1 - 1 = next_seq /\ next_seq + 2 - 1 = next_seq + 1
      BY <1>4
    <3> QED
      BY <3>1
  <2>3. Queued({x, y}, 2)
    <3>1. Len(<<c, d>>) = 2
      OBVIOUS
    <3> QED
      BY <1>1, <1>7, <2>2, <3>1 DEF Enqueue, Queued
  <2> HIDE DEF x, y
  <2>4. x # y /\ x.seq # y.seq /\ x.index = y.index
    BY <1>4, <2>1 DEF NewCopy
  <2>5. IsFiniteSet({x, y}) /\ Cardinality({x, y}) = 2
    <3>1. IsFiniteSet({x}) /\ Cardinality({x}) = 1
      BY FS_Singleton
    <3>2. /\ IsFiniteSet({x} \cup {y})
          /\ Cardinality({x} \cup {y}) = Cardinality({x}) + 1
      BY <2>4, <3>1, FS_AddElement
    <3>3. {x} \cup {y} = {x, y}
      OBVIOUS
    <3> QED
      BY <3>1, <3>2, <3>3
  <2> QED
    BY <2>1, <2>3, <2>4, <2>5 DEF Sent
<1> QED
  BY <1>2, <1>5, <1>6, <1>7
-----------------------------------------------------------------------------
(* Sending preserves the invariant *)

\* The copies there are, and what the channel was given, after a send.
LEMMA SentFrame ==
    ASSUME TypeOK, NEW N, NEW k \in 0 .. 2, Sent(N, k)
    PROVE  /\ Copies' = Copies \cup N
           /\ profile' = profile /\ script' = script /\ now' = now
           /\ MaxExtra' = MaxExtra
           /\ in_flight' = in_flight \cup N /\ delivered' = delivered
BY DEF Sent, Queued, Copies, MaxExtra

\* What a send adds to the counters.
LEMMA StatsFacts ==
    ASSUME TypeOK, NEW k \in 0 .. 2
    PROVE  /\ Counted(stats, k) \in
                [sent : Nat, delivered : Nat, dropped : Nat, duplicated : Nat]
           /\ Counted(stats, k).sent = stats.sent + 1
           /\ Counted(stats, k).delivered = stats.delivered
           /\ Counted(stats, k).dropped = stats.dropped + (IF k = 0 THEN 1 ELSE 0)
           /\ Counted(stats, k).duplicated
                 = stats.duplicated + (IF k = 2 THEN 1 ELSE 0)
           /\ stats.sent \in Nat /\ stats.delivered \in Nat
           /\ stats.dropped \in Nat /\ stats.duplicated \in Nat
<1>1. stats \in [sent : Nat, delivered : Nat, dropped : Nat, duplicated : Nat]
  BY DEF TypeOK
<1>2. PICK a \in Nat, b \in Nat :
         /\ a = (IF k = 0 THEN 1 ELSE 0) /\ b = (IF k = 2 THEN 1 ELSE 0)
  OBVIOUS
<1>3. Counted(stats, k) = [stats EXCEPT !.sent = @ + 1, !.dropped = @ + a,
                                        !.duplicated = @ + b]
  BY <1>2 DEF Counted
<1> DEFINE s == Counted(stats, k)
<1>4. /\ stats.sent \in Nat /\ stats.delivered \in Nat
      /\ stats.dropped \in Nat /\ stats.duplicated \in Nat
  BY <1>1
<1>5. s = [sent |-> stats.sent + 1, delivered |-> stats.delivered,
           dropped |-> stats.dropped + a, duplicated |-> stats.duplicated + b]
  BY <1>1, <1>3
<1> HIDE DEF s
<1>6. /\ s.sent = stats.sent + 1 /\ s.delivered = stats.delivered
      /\ s.dropped = stats.dropped + a /\ s.duplicated = stats.duplicated + b
  BY <1>5
<1>7. s \in [sent : Nat, delivered : Nat, dropped : Nat, duplicated : Nat]
  BY <1>4, <1>5
<1> QED
  BY <1>2, <1>4, <1>6, <1>7 DEF s

LEMMA SentType ==
    ASSUME TypeOK, NEW N, NEW k \in 0 .. 2, Sent(N, k)
    PROVE  TypeOK'
<1>1. N \subseteq CopyType /\ IsFiniteSet(N)
  BY DEF Sent, NewCopy
<1>2. IsFiniteSet(in_flight \cup N)
  BY <1>1, FS_Union DEF TypeOK
<1>3. /\ profile' \in Profiles /\ script' \in Seq(RuleType)
      /\ now' \in Nat /\ clock' \in Nat
      /\ delivered' \in Seq(CopyType)
  BY DEF Sent, Queued, TypeOK
<1>4. /\ next_datagram_index' \in Nat /\ next_seq' \in Nat
      /\ in_flight' \subseteq CopyType /\ IsFiniteSet(in_flight')
  BY <1>1, <1>2 DEF Sent, Queued, TypeOK
<1>5. stats' \in [sent : Nat, delivered : Nat, dropped : Nat, duplicated : Nat]
  <2>1. stats' = Counted(stats, k)
    BY DEF Sent, Queued
  <2> QED
    BY <2>1, StatsFacts
<1> QED
  BY <1>3, <1>4, <1>5 DEF TypeOK

\* All copies are records of the right kind.
LEMMA CopiesType ==
    ASSUME TypeOK
    PROVE  /\ Copies \subseteq CopyType
           /\ \A c \in CopyType : /\ c.seq \in Nat /\ c.index \in Nat
                                  /\ c.sent \in Nat /\ c.arrives \in Nat
                                  /\ c.size \in Nat /\ c.len \in Nat
<1>1. Range(delivered) \subseteq CopyType
  BY DEF TypeOK, Range
<1> QED
  BY <1>1 DEF Copies, CopyType, TypeOK

LEMMA SentCopyInv ==
    ASSUME Inv, NEW N, NEW k \in 0 .. 2, Sent(N, k), NEW c \in Copies'
    PROVE  CopyInv(c)' /\ Pinned(c)' /\ Paired(c)'
<1>1. TypeOK
  BY DEF Inv
<1>2. /\ Copies' = Copies \cup N
      /\ profile' = profile /\ script' = script /\ now' = now
      /\ MaxExtra' = MaxExtra
  BY <1>1, SentFrame
<1>3. /\ next_seq \in Nat /\ next_seq' = next_seq + k
      /\ next_datagram_index \in Nat
      /\ next_datagram_index' = next_datagram_index + 1
      /\ now \in Nat
  BY <1>1 DEF Sent, Queued, TypeOK
<1>4. c.seq \in Nat /\ c.index \in Nat /\ c.sent \in Nat
  BY <1>1, <1>2, CopiesType DEF Sent, NewCopy
<1>5. CASE c \in Copies
  <2>1. CopyInv(c) /\ Pinned(c) /\ Paired(c)
    BY <1>5 DEF Inv
  <2>2. CopyInv(c)'
    BY <2>1, <1>2, <1>3, <1>4 DEF CopyInv
  <2>3. Pinned(c)' /\ Paired(c)'
    BY <2>1, <1>2 DEF Pinned, Paired, Rules, Has, Arg
  <2> QED
    BY <2>2, <2>3
<1>6. CASE c \in N
  <2>1. NewCopy(c, k) /\ Pinned(c)
    BY <1>6 DEF Sent, NewCopy
  <2>2. CopyInv(c)'
    BY <2>1, <1>2, <1>3, <1>4 DEF CopyInv, NewCopy
  <2>3. Pinned(c)'
    BY <2>1, <1>2 DEF Pinned, Rules, Has, Arg
  <2>4. Has(Rules(c.index), "Duplicate") =>
            \E d \in N : d.index = c.index /\ d.seq # c.seq
    BY <1>6 DEF Sent
  <2>5. Paired(c)'
    BY <2>4, <1>2 DEF Paired, Rules, Has
  <2> QED
    BY <2>2, <2>3, <2>5
<1> QED
  BY <1>2, <1>5, <1>6

LEMMA SentNumbered ==
    ASSUME Inv, NEW N, NEW k \in 0 .. 2, Sent(N, k)
    PROVE  NumberedInOrder(Copies)'
<1>1. TypeOK
  BY DEF Inv
<1>2. Copies' = Copies \cup N
  BY <1>1, SentFrame
<1>3. next_seq \in Nat /\ now \in Nat /\ next_datagram_index \in Nat
  BY <1>1 DEF TypeOK
<1>4. \A c \in Copies : /\ c.seq \in Nat /\ c.index \in Nat /\ c.sent \in Nat
                        /\ c.seq < next_seq /\ c.index < next_datagram_index
                        /\ c.sent <= now
  BY <1>1, CopiesType DEF Inv, CopyInv
<1>5. \A c \in N : /\ c.seq \in Nat /\ c.seq >= next_seq
                   /\ c.index = next_datagram_index /\ c.sent = now
  BY <1>1, <1>3, CopiesType DEF Sent, NewCopy
<1>6. NumberedInOrder(Copies) /\ \A c, d \in N : c.seq = d.seq => c = d
  BY DEF Inv, Sent
<1>7. NumberedInOrder(Copies \cup N)
  BY <1>3, <1>4, <1>5, <1>6 DEF NumberedInOrder
<1> QED
  BY <1>2, <1>7 DEF NumberedInOrder

LEMMA SentHeap ==
    ASSUME Inv, NEW N, NEW k \in 0 .. 2, Sent(N, k)
    PROVE  HeapInv' /\ NotLate'
<1>1. TypeOK
  BY DEF Inv
<1>2. /\ now' = now /\ in_flight' = in_flight \cup N
      /\ delivered' = delivered
  BY <1>1, SentFrame
<1>3. next_seq \in Nat /\ now \in Nat /\ profile.base_delay \in Nat
  BY <1>1, ProfileFacts DEF TypeOK
<1>4. \A c \in N : /\ c.seq \in Nat /\ c.seq >= next_seq
                   /\ c.arrives \in Nat /\ c.sent = now /\ c.arrives >= now
  <2> SUFFICES ASSUME NEW c \in N
               PROVE  /\ c.seq \in Nat /\ c.seq >= next_seq
                      /\ c.arrives \in Nat /\ c.sent = now /\ c.arrives >= now
    OBVIOUS
  <2>1. NewCopy(c, k)
    BY DEF Sent
  <2>2. c \in CopyType
    BY <2>1 DEF NewCopy
  <2>3. c.seq \in Nat /\ c.arrives \in Nat
    BY <2>2, <1>1, CopiesType
  <2> QED
    BY <2>1, <2>3, <1>3 DEF NewCopy
<1>5. \A i \in DOMAIN delivered :
         /\ delivered[i].arrives \in Nat /\ delivered[i].seq \in Nat
         /\ delivered[i].arrives <= now /\ delivered[i].seq < next_seq
  <2> SUFFICES ASSUME NEW i \in DOMAIN delivered
               PROVE  /\ delivered[i].arrives \in Nat /\ delivered[i].seq \in Nat
                      /\ delivered[i].arrives <= now /\ delivered[i].seq < next_seq
    OBVIOUS
  <2>1. delivered[i] \in Copies
    BY DEF Copies, Range
  <2> QED
    BY <2>1, <1>1, CopiesType DEF Inv, CopyInv, HeapInv
<1>6. \A i \in DOMAIN delivered : \A c \in in_flight \cup N :
         PoppedBefore(delivered[i], c)
  <2>1. \A i \in DOMAIN delivered : \A c \in in_flight :
           PoppedBefore(delivered[i], c)
    BY DEF Inv, HeapInv
  <2>2. \A i \in DOMAIN delivered : \A c \in N : PoppedBefore(delivered[i], c)
    BY <1>3, <1>4, <1>5 DEF PoppedBefore
  <2> QED
    BY <2>1, <2>2
<1>7. HeapInv'
  <2>1. HeapInv
    BY DEF Inv
  <2> QED
    BY <2>1, <1>2, <1>6 DEF HeapInv, InHeapOrder, PoppedBefore
<1>8. NotLate'
  <2>1. NotLate /\ (phase' = "advanced" => phase = "advanced")
    BY DEF Inv, Sent, Queued
  <2> QED
    BY <2>1, <1>2, <1>4 DEF NotLate
<1> QED
  BY <1>7, <1>8

\* What a channel has delivered is finite.
LEMMA CopiesFinite ==
    ASSUME TypeOK
    PROVE  IsFiniteSet(Copies)
<1> DEFINE l == Len(delivered)
           T == Range(delivered)
<1>1. l \in Nat /\ DOMAIN delivered = 1 .. l
  BY DEF TypeOK
<1>2. IsFiniteSet(1 .. l)
  BY <1>1, FS_Interval
<1>3. delivered \in Surjection(1 .. l, T)
  BY <1>1 DEF Surjection, Range, TypeOK
<1>4. IsFiniteSet(T)
  BY <1>2, <1>3, FS_Surjection
<1>5. IsFiniteSet(in_flight)
  BY DEF TypeOK
<1> QED
  BY <1>3, <1>4, <1>5, FS_Union DEF Copies

\* Cardinalities of disjoint sets add up.
LEMMA DisjointUnion ==
    ASSUME NEW S, NEW T, IsFiniteSet(S), IsFiniteSet(T), S \cap T = {}
    PROVE  /\ IsFiniteSet(S \cup T)
           /\ Cardinality(S \cup T) = Cardinality(S) + Cardinality(T)
           /\ Cardinality(S) \in Nat /\ Cardinality(T) \in Nat
<1>1. Cardinality(S \cap T) = 0
  BY FS_EmptySet
<1>2. Cardinality(S) \in Nat /\ Cardinality(T) \in Nat
  BY FS_CardinalityType
<1>3. /\ IsFiniteSet(S \cup T)
      /\ Cardinality(S \cup T)
            = Cardinality(S) + Cardinality(T) - Cardinality(S \cap T)
  BY FS_Union
<1> QED
  BY <1>1, <1>2, <1>3

\* The books stay balanced when k copies are queued.
LEMMA Balance ==
    ASSUME NEW f \in Nat, NEW d \in Nat, NEW s \in Nat, NEW l \in Nat,
           NEW u \in Nat, NEW k \in 0 .. 2, f + d = s - l + u
    PROVE  f + k + d = (s + 1) - (l + (IF k = 0 THEN 1 ELSE 0))
                                + (u + (IF k = 2 THEN 1 ELSE 0))
<1>1. CASE k = 0
  BY <1>1
<1>2. CASE k = 1
  BY <1>2
<1>3. CASE k = 2
  BY <1>3
<1> QED
  BY <1>1, <1>2, <1>3

LEMMA SentAccounted ==
    ASSUME Inv, NEW N, NEW k \in 0 .. 2, Sent(N, k)
    PROVE  CopiesAccounted'
<1>1. TypeOK /\ CopiesAccounted
  BY DEF Inv
<1>2. /\ Copies' = Copies \cup N
      /\ in_flight' = in_flight \cup N /\ delivered' = delivered
  BY <1>1, SentFrame
<1>3. IsFiniteSet(N) /\ Cardinality(N) = k
  BY DEF Sent
<1>4. Copies \cap N = {}
  <2>1. \A c \in Copies : c.seq \in Nat /\ c.seq < next_seq
    BY <1>1, CopiesType DEF Inv, CopyInv
  <2>2. \A c \in N : c.seq \in Nat /\ c.seq >= next_seq
    BY <1>1, CopiesType DEF Sent, NewCopy, TypeOK
  <2>3. next_seq \in Nat
    BY <1>1 DEF TypeOK
  <2> QED
    BY <2>1, <2>2, <2>3
<1>5. in_flight \cap N = {}
  BY <1>4 DEF Copies
<1>7. /\ Cardinality(Copies \cup N) = Cardinality(Copies) + k
      /\ Cardinality(Copies) \in Nat
  BY <1>1, <1>3, <1>4, CopiesFinite, DisjointUnion
<1>8. /\ Cardinality(in_flight \cup N) = Cardinality(in_flight) + k
      /\ Cardinality(in_flight) \in Nat
  <2>1. IsFiniteSet(in_flight)
    BY <1>1 DEF TypeOK
  <2> QED
    BY <1>3, <1>5, <2>1, DisjointUnion
<1>9. /\ stats.sent \in Nat /\ stats.delivered \in Nat
      /\ stats.dropped \in Nat /\ stats.duplicated \in Nat
  BY <1>1 DEF TypeOK
<1>10. /\ stats'.sent = stats.sent + 1 /\ stats'.delivered = stats.delivered
       /\ stats'.dropped = stats.dropped + (IF k = 0 THEN 1 ELSE 0)
       /\ stats'.duplicated = stats.duplicated + (IF k = 2 THEN 1 ELSE 0)
  <2>1. stats' = Counted(stats, k)
    BY DEF Sent, Queued
  <2> QED
    BY <1>1, <2>1, StatsFacts
<1>11. /\ next_seq \in Nat /\ next_seq' = next_seq + k
       /\ Len(delivered) \in Nat
  BY <1>1 DEF Sent, Queued, TypeOK
<1>12. /\ Cardinality(in_flight) + stats.delivered
            = stats.sent - stats.dropped + stats.duplicated
       /\ Cardinality(Copies) = next_seq
       /\ Cardinality(in_flight) + Len(delivered) = next_seq
  BY <1>1 DEF CopiesAccounted
<1>13. /\ Cardinality(in_flight') + stats'.delivered
            = stats'.sent - stats'.dropped + stats'.duplicated
       /\ Cardinality(Copies') = next_seq'
       /\ Cardinality(in_flight') + Len(delivered') = next_seq'
  <2>1. /\ Cardinality(Copies') = next_seq'
        /\ Cardinality(in_flight') + Len(delivered') = next_seq'
    BY <1>2, <1>7, <1>8, <1>11, <1>12
  <2>2. Cardinality(in_flight') = Cardinality(in_flight) + k
    BY <1>2, <1>8
  <2>4. Cardinality(in_flight') + stats'.delivered
            = stats'.sent - stats'.dropped + stats'.duplicated
    <3>1. Cardinality(in_flight) + k + stats.delivered
            = (stats.sent + 1) - (stats.dropped + (IF k = 0 THEN 1 ELSE 0))
                + (stats.duplicated + (IF k = 2 THEN 1 ELSE 0))
      <4>1. PICK f \in Nat, d \in Nat, s \in Nat, l \in Nat, u \in Nat :
               /\ f = Cardinality(in_flight) /\ d = stats.delivered
               /\ s = stats.sent /\ l = stats.dropped /\ u = stats.duplicated
        BY <1>8, <1>9
      <4>2. f + d = s - l + u
        BY <1>12, <4>1
      <4>3. f + k + d = (s + 1) - (l + (IF k = 0 THEN 1 ELSE 0))
                                + (u + (IF k = 2 THEN 1 ELSE 0))
        BY <4>2, Balance
      <4> QED
        BY <4>1, <4>3
    <3> QED
      BY <1>10, <2>2, <3>1, Zenon
  <2> QED
    BY <2>1, <2>4
<1> QED
  BY <1>13 DEF CopiesAccounted

LEMMA SendOK ==
    ASSUME Inv, NEW size \in Sizes, Send(size)
    PROVE  Inv'
<1>1. TypeOK /\ size \in Nat
  BY ChannelAssumption DEF Inv
<1>k. PICK k \in 0 .. 2 : \E N : Sent(N, k)
  BY <1>1, SendShape
<1>2. PICK N : Sent(N, k)
  BY <1>k
<1>3. TypeOK'
  BY <1>1, <1>2, SentType
<1>4. \A c \in Copies' : CopyInv(c)' /\ Pinned(c)' /\ Paired(c)'
  BY <1>2, SentCopyInv
<1>5. NumberedInOrder(Copies)' /\ HeapInv' /\ NotLate' /\ CopiesAccounted'
  BY <1>2, SentNumbered, SentHeap, SentAccounted
<1> QED
  BY <1>3, <1>4, <1>5 DEF Inv
-----------------------------------------------------------------------------
(* Advancing the clock preserves the invariant *)

\* What advance does: the copies P that are due leave the heap in the order s.
Delivers(P, s, n) ==
    /\ P \subseteq in_flight /\ IsFiniteSet(P)
    /\ P = {c \in in_flight : c.arrives <= now'}
    /\ n = Cardinality(P) /\ n \in Nat
    /\ s \in [1 .. n -> P] /\ \A c \in P : \E i \in 1 .. n : s[i] = c
    /\ InHeapOrder(s)
    /\ now' \in Nat /\ now <= now'
    /\ in_flight' = in_flight \ P
    /\ delivered' = delivered \o s
    /\ stats' = [stats EXCEPT !.delivered = @ + n]
    /\ UNCHANGED <<profile, script, next_datagram_index, next_seq, clock,
                   switched>>

LEMMA AdvanceShape ==
    ASSUME TypeOK, Advance
    PROVE  \E P, s, n : Delivers(P, s, n)
<1> DEFINE P == Ready(now')
           n == Cardinality(P)
<1>1. PICK s \in SetToSeqs(P) : InHeapOrder(s) /\ delivered' = delivered \o s
  BY DEF Advance
<1>2. now \in Nat /\ clock \in Nat /\ IsFiniteSet(in_flight)
  BY DEF TypeOK
<1>3. now' \in Nat /\ now <= now'
  BY <1>2 DEF Advance
<1>4. P \subseteq in_flight /\ P = {c \in in_flight : c.arrives <= now'}
  BY DEF Ready
<1>5. /\ in_flight' = in_flight \ P
      /\ stats' = [stats EXCEPT !.delivered = @ + n]
      /\ UNCHANGED <<profile, script, next_datagram_index, next_seq, clock,
                     switched>>
  BY DEF Advance
<1> HIDE DEF P
<1>6. IsFiniteSet(P)
  BY <1>2, <1>4, FS_Subset
<1>7. n \in Nat
  BY <1>6, FS_CardinalityType
<1>8. s \in [1 .. n -> P] /\ \A i, j \in 1 .. n : i # j => s[i] # s[j]
  BY DEF SetToSeqs
<1> HIDE DEF n
<1>9. s \in Injection(1 .. n, P)
  BY <1>8 DEF Injection, IsInjective
<1>10. Cardinality(1 .. n) = Cardinality(P)
  <2>1. Cardinality(1 .. n) = n
    BY <1>7, FS_Interval
  <2> QED
    BY <2>1 DEF n
<1>11. s \in Surjection(1 .. n, P)
  BY <1>6, <1>9, <1>10, FS_Injection
<1>12. \A c \in P : \E i \in 1 .. n : s[i] = c
  BY <1>11 DEF Surjection
<1>13. n = Cardinality(P)
  BY DEF n
<1> QED
  BY <1>1, <1>3, <1>4, <1>5, <1>6, <1>7, <1>8, <1>12, <1>13 DEF Delivers

\* Two sequences one after the other.
LEMMA ConcatFacts ==
    ASSUME NEW T, NEW a \in Seq(T), NEW n \in Nat, NEW b \in [1 .. n -> T]
    PROVE  /\ b \in Seq(T) /\ Len(b) = n /\ DOMAIN b = 1 .. n
           /\ a \o b \in Seq(T) /\ Len(a \o b) = Len(a) + n
           /\ DOMAIN (a \o b) = 1 .. Len(a) + n
           /\ Len(a) \in Nat /\ DOMAIN a = 1 .. Len(a)
           /\ \A i \in 1 .. Len(a) : (a \o b)[i] = a[i]
           /\ \A i \in 1 .. n : (a \o b)[Len(a) + i] = b[i]
           /\ \A i \in DOMAIN (a \o b) :
                 \/ i \in 1 .. Len(a)
                 \/ i - Len(a) \in 1 .. n /\ i = Len(a) + (i - Len(a))
<1>1. b \in Seq(T)
  OBVIOUS
<1>2. Len(b) = n /\ DOMAIN b = 1 .. n
  BY <1>1
<1>3. /\ a \o b \in Seq(T) /\ Len(a \o b) = Len(a) + n
      /\ Len(a) \in Nat /\ DOMAIN a = 1 .. Len(a)
  BY <1>1, <1>2
<1>4. DOMAIN (a \o b) = 1 .. Len(a) + n
  BY <1>3
<1>5. \A i \in 1 .. Len(a) : (a \o b)[i] = a[i]
  BY <1>1, <1>2, <1>3
<1>6. \A i \in 1 .. n : (a \o b)[Len(a) + i] = b[i]
  BY <1>1, <1>2, <1>3
<1>7. \A i \in DOMAIN (a \o b) :
         \/ i \in 1 .. Len(a)
         \/ i - Len(a) \in 1 .. n /\ i = Len(a) + (i - Len(a))
  BY <1>3, <1>4
<1> QED
  BY <1>1, <1>2, <1>3, <1>4, <1>5, <1>6, <1>7

LEMMA ConcatRange ==
    ASSUME NEW T, NEW a \in Seq(T), NEW n \in Nat, NEW b \in [1 .. n -> T]
    PROVE  Range(a \o b) = Range(a) \cup Range(b)
<1>1. /\ b \in Seq(T) /\ Len(b) = n /\ DOMAIN b = 1 .. n
      /\ a \o b \in Seq(T) /\ Len(a \o b) = Len(a) + n
      /\ DOMAIN (a \o b) = 1 .. Len(a) + n
      /\ Len(a) \in Nat /\ DOMAIN a = 1 .. Len(a)
      /\ \A i \in 1 .. Len(a) : (a \o b)[i] = a[i]
      /\ \A i \in 1 .. n : (a \o b)[Len(a) + i] = b[i]
      /\ \A i \in DOMAIN (a \o b) :
            \/ i \in 1 .. Len(a)
            \/ i - Len(a) \in 1 .. n /\ i = Len(a) + (i - Len(a))
  BY ConcatFacts, SMTT(30)
<1> DEFINE s == a \o b
           l == Len(a)
           P == Range(b)
<1>2. /\ DOMAIN s = 1 .. l + n /\ l \in Nat /\ DOMAIN a = 1 .. l
      /\ \A i \in 1 .. l : s[i] = a[i]
      /\ \A i \in 1 .. n : s[l + i] = b[i]
      /\ \A i \in DOMAIN s : \/ i \in 1 .. l
                             \/ i - l \in 1 .. n /\ i = l + (i - l)
  BY Zenon, <1>1
<1> HIDE DEF s, l
<1>3. ASSUME NEW i \in DOMAIN s
      PROVE  s[i] \in Range(a) \cup P
  <2>1. CASE i \in 1 .. l
    BY <1>2, <2>1 DEF Range
  <2>2. CASE i - l \in 1 .. n /\ i = l + (i - l)
    <3>1. s[i] = b[i - l]
      BY <1>2, <2>2
    <3> QED
      BY <2>2, <3>1 DEF Range
  <2> QED
    BY <1>2, <2>1, <2>2
<1>4. ASSUME NEW i \in DOMAIN a
      PROVE  a[i] \in Range(s)
  <2>1. i \in DOMAIN s /\ s[i] = a[i]
    BY <1>2
  <2> QED
    BY <2>1 DEF Range
<1>5. ASSUME NEW c \in P
      PROVE  c \in Range(s)
  <2>1. PICK i \in 1 .. n : b[i] = c
    BY DEF Range
  <2>2. l + i \in DOMAIN s /\ s[l + i] = c
    BY <1>2, <2>1
  <2> QED
    BY <2>2 DEF Range
<1>6. Range(s) = Range(a) \cup P
  BY <1>3, <1>4, <1>5 DEF Range
<1> QED
  BY <1>6 DEF s

\* What is known of the heap's history and of the copies after an advance.
LEMMA DeliversFrame ==
    ASSUME TypeOK, NEW P, NEW s, NEW n, Delivers(P, s, n)
    PROVE  /\ TypeOK' /\ Copies' = Copies /\ MaxExtra' = MaxExtra
           /\ P \subseteq CopyType
<1>1. P \subseteq CopyType /\ P \subseteq in_flight
  BY DEF Delivers, TypeOK
<1>2. s \in [1 .. n -> CopyType] /\ n \in Nat
  BY <1>1 DEF Delivers
<1>3. delivered \in Seq(CopyType) /\ delivered' = delivered \o s
  BY DEF Delivers, TypeOK
<1>4. delivered' \in Seq(CopyType)
  BY <1>2, <1>3, ConcatFacts
<1>5. IsFiniteSet(in_flight \ P)
  BY FS_Difference DEF TypeOK
<1>6. stats' \in [sent : Nat, delivered : Nat, dropped : Nat, duplicated : Nat]
  <2>1. stats' = [stats EXCEPT !.delivered = @ + n]
    BY DEF Delivers
  <2>2. stats \in [sent : Nat, delivered : Nat, dropped : Nat, duplicated : Nat]
    BY DEF TypeOK
  <2>3. stats.delivered + n \in Nat
    BY <1>2, <2>2
  <2> QED
    BY <2>1, <2>2, <2>3
<1>7. TypeOK'
  BY <1>4, <1>5, <1>6 DEF TypeOK, Delivers
<1>8. Range(delivered') = Range(delivered) \cup P
  <2>1. s \in [1 .. n -> P] /\ \A c \in P : \E i \in 1 .. n : s[i] = c
    BY DEF Delivers
  <2>2. Range(s) = P
    BY <2>1 DEF Range
  <2> QED
    BY <1>2, <1>3, <2>2, ConcatRange
<1>9. Copies' = Copies
  BY <1>1, <1>8 DEF Copies, Delivers
<1>10. MaxExtra' = MaxExtra
  BY DEF MaxExtra, Delivers
<1> QED
  BY <1>1, <1>7, <1>9, <1>10

LEMMA DeliversCopies ==
    ASSUME Inv, NEW P, NEW s, NEW n, Delivers(P, s, n), NEW c \in Copies'
    PROVE  CopyInv(c)' /\ Pinned(c)' /\ Paired(c)'
<1>1. TypeOK
  BY DEF Inv
<1>2. Copies' = Copies /\ MaxExtra' = MaxExtra
  BY <1>1, DeliversFrame
<1>3. /\ profile' = profile /\ script' = script /\ now <= now' /\ now' \in Nat
      /\ next_seq' = next_seq /\ next_datagram_index' = next_datagram_index
  BY DEF Delivers
<1>4. CopyInv(c) /\ Pinned(c) /\ Paired(c)
  BY <1>2 DEF Inv
<1>5. c.sent \in Nat /\ now \in Nat
  BY <1>1, <1>2, CopiesType DEF TypeOK
<1>6. CopyInv(c)'
  BY <1>2, <1>3, <1>4, <1>5 DEF CopyInv
<1>7. Pinned(c)' /\ Paired(c)'
  BY <1>2, <1>3, <1>4 DEF Pinned, Paired, Rules, Has, Arg
<1> QED
  BY <1>6, <1>7

LEMMA DeliversHeap ==
    ASSUME Inv, NEW P, NEW s, NEW n, Delivers(P, s, n)
    PROVE  HeapInv' /\ NotLate'
<1>1. TypeOK /\ HeapInv
  BY DEF Inv
<1> DEFINE l == Len(delivered)
<1>2. P \subseteq CopyType /\ in_flight \subseteq CopyType
  BY <1>1, DeliversFrame DEF TypeOK
<1>3. s \in [1 .. n -> CopyType] /\ n \in Nat /\ delivered \in Seq(CopyType)
  BY <1>1, <1>2 DEF Delivers, TypeOK
<1>4. delivered' = delivered \o s
  BY DEF Delivers
<1>5. /\ DOMAIN delivered' = 1 .. l + n /\ l \in Nat /\ DOMAIN delivered = 1 .. l
      /\ DOMAIN s = 1 .. n
      /\ \A i \in 1 .. l : delivered'[i] = delivered[i]
      /\ \A i \in 1 .. n : delivered'[l + i] = s[i]
      /\ \A i \in DOMAIN delivered' :
            \/ i \in 1 .. l
            \/ i - l \in 1 .. n /\ i = l + (i - l)
  BY <1>3, <1>4, ConcatFacts
<1>6. now \in Nat /\ now' \in Nat /\ now <= now'
  BY <1>1 DEF TypeOK, Delivers
<1> HIDE DEF l
<1>7. \A i \in DOMAIN delivered' :
         \/ i \in 1 .. l /\ delivered'[i] = delivered[i]
         \/ i - l \in 1 .. n /\ delivered'[i] = s[i - l]
  BY <1>5
<1>8. \A i \in 1 .. n : s[i] \in P /\ s[i] \in in_flight /\ s[i].arrives <= now'
  BY DEF Delivers
<1>9. \A c \in in_flight' : /\ c \in in_flight /\ c.arrives \in Nat
                            /\ c.arrives > now'
  <2>1. \A c \in in_flight' : c \in in_flight /\ ~(c.arrives <= now')
    BY DEF Delivers
  <2>2. \A c \in in_flight : c.arrives \in Nat
    BY <1>1, <1>2, CopiesType
  <2> QED
    BY <1>6, <2>1, <2>2
<1>10. ASSUME NEW i \in DOMAIN delivered', NEW j \in DOMAIN delivered', i < j
       PROVE  PoppedBefore(delivered'[i], delivered'[j])
  <2>1. i \in Nat /\ j \in Nat
    BY <1>3, <1>5
  <2>2. CASE i \in 1 .. l /\ j \in 1 .. l
    <3>1. delivered'[i] = delivered[i] /\ delivered'[j] = delivered[j]
      BY <1>5, <2>2
    <3> QED
      BY <1>1, <1>5, <1>10, <2>2, <3>1 DEF HeapInv, InHeapOrder
  <2>3. CASE i \in 1 .. l /\ j \notin 1 .. l
    <3>1. delivered'[i] = delivered[i] /\ i \in DOMAIN delivered
      BY <1>5, <2>3
    <3>2. delivered'[j] \in in_flight
      BY <1>7, <1>8, <2>3
    <3> QED
      BY <1>1, <3>1, <3>2 DEF HeapInv
  <2>4. CASE i \notin 1 .. l
    <3>1. i - l \in 1 .. n /\ delivered'[i] = s[i - l] /\ i > l
      BY <1>5, <1>7, <2>4, <2>1
    <3>2. j \notin 1 .. l
      BY <1>5, <1>10, <2>1, <3>1
    <3>3. j - l \in 1 .. n /\ delivered'[j] = s[j - l]
      BY <1>7, <3>2
    <3>4. i - l < j - l
      BY <1>5, <1>10, <2>1
    <3>5. \A a, b \in 1 .. n : a < b => PoppedBefore(s[a], s[b])
      BY <1>5 DEF Delivers, InHeapOrder
    <3>6. PoppedBefore(s[i - l], s[j - l])
      BY <3>1, <3>3, <3>4, <3>5
    <3> QED
      BY <3>1, <3>3, <3>6
  <2> QED
    BY <2>2, <2>3, <2>4
<1>11. ASSUME NEW i \in DOMAIN delivered'
       PROVE  /\ delivered'[i].arrives \in Nat
              /\ delivered'[i].arrives <= now'
  <2>1. CASE i \in 1 .. l /\ delivered'[i] = delivered[i]
    <3>1. i \in DOMAIN delivered /\ delivered[i] \in CopyType
      BY <1>3, <1>5, <2>1
    <3>2. delivered[i].arrives \in Nat
      BY <1>1, <3>1, CopiesType
    <3>3. delivered[i].arrives <= now
      BY <1>1, <3>1 DEF HeapInv
    <3> QED
      BY <1>6, <2>1, <3>2, <3>3
  <2>2. CASE i - l \in 1 .. n /\ delivered'[i] = s[i - l]
    <3>1. s[i - l] \in CopyType /\ s[i - l].arrives <= now'
      BY <1>2, <1>8, <2>2
    <3> QED
      BY <1>1, <2>2, <3>1, CopiesType
  <2> QED
    BY <1>7, <2>1, <2>2
<1>12. \A i \in DOMAIN delivered' : \A c \in in_flight' :
          PoppedBefore(delivered'[i], c)
  BY <1>6, <1>9, <1>11 DEF PoppedBefore
<1>13. HeapInv'
  BY <1>10, <1>11, <1>12 DEF HeapInv, InHeapOrder, PoppedBefore
<1>14. NotLate'
  BY <1>9 DEF NotLate
<1> QED
  BY <1>13, <1>14

LEMMA DeliversAccounted ==
    ASSUME Inv, NEW P, NEW s, NEW n, Delivers(P, s, n)
    PROVE  CopiesAccounted'
<1>1. TypeOK /\ CopiesAccounted
  BY DEF Inv
<1>2. Copies' = Copies /\ P \subseteq CopyType /\ TypeOK'
  BY <1>1, DeliversFrame
<1>3. n \in Nat /\ Len(delivered') = Len(delivered) + n /\ Len(delivered) \in Nat
  <2>1. /\ s \in [1 .. n -> CopyType] /\ n \in Nat
        /\ delivered \in Seq(CopyType) /\ delivered' = delivered \o s
    BY <1>1, <1>2 DEF Delivers, TypeOK
  <2> QED
    BY <2>1, ConcatFacts
<1>4. /\ Cardinality(in_flight) = Cardinality(in_flight') + n
      /\ Cardinality(in_flight') \in Nat
  <2>1. /\ IsFiniteSet(in_flight') /\ IsFiniteSet(P) /\ Cardinality(P) = n
        /\ in_flight' \cap P = {} /\ in_flight' \cup P = in_flight
    BY <1>2 DEF Delivers, TypeOK
  <2> QED
    BY <2>1, DisjointUnion
<1>5. stats \in [sent : Nat, delivered : Nat, dropped : Nat, duplicated : Nat]
  BY <1>1 DEF TypeOK
<1>6. /\ stats.sent \in Nat /\ stats.delivered \in Nat
      /\ stats.dropped \in Nat /\ stats.duplicated \in Nat
  BY <1>5
<1>7. /\ stats'.sent = stats.sent /\ stats'.delivered = stats.delivered + n
      /\ stats'.dropped = stats.dropped /\ stats'.duplicated = stats.duplicated
  BY <1>5 DEF Delivers
<1>8. next_seq' = next_seq /\ next_seq \in Nat
  BY <1>1 DEF Delivers, TypeOK
<1>9. /\ Cardinality(in_flight) + stats.delivered
           = stats.sent - stats.dropped + stats.duplicated
      /\ Cardinality(Copies) = next_seq
      /\ Cardinality(in_flight) + Len(delivered) = next_seq
  BY <1>1 DEF CopiesAccounted
<1>10. Cardinality(in_flight') + stats'.delivered
           = stats'.sent - stats'.dropped + stats'.duplicated
  <2>1. Cardinality(in_flight') + stats'.delivered
          = Cardinality(in_flight) + stats.delivered
    <3>1. PICK f \in Nat, d \in Nat :
             f = Cardinality(in_flight') /\ d = stats.delivered
      BY <1>4, <1>6
    <3>2. f + (d + n) = (f + n) + d
      BY <1>3
    <3> QED
      BY <1>4, <1>7, <3>1, <3>2
  <2> QED
    BY <1>7, <1>9, <2>1
<1>11. /\ Cardinality(Copies') = next_seq'
       /\ Cardinality(in_flight') + Len(delivered') = next_seq'
  BY <1>2, <1>3, <1>4, <1>8, <1>9
<1> QED
  BY <1>10, <1>11 DEF CopiesAccounted

LEMMA AdvanceOK ==
    ASSUME Inv, Advance
    PROVE  Inv'
<1>1. TypeOK
  BY DEF Inv
<1>2. PICK P, s, n : Delivers(P, s, n)
  BY <1>1, AdvanceShape
<1>3. TypeOK' /\ Copies' = Copies
  BY <1>1, <1>2, DeliversFrame
<1>4. \A c \in Copies' : CopyInv(c)' /\ Pinned(c)' /\ Paired(c)'
  BY <1>2, DeliversCopies
<1>5. NumberedInOrder(Copies)'
  BY <1>3 DEF Inv, NumberedInOrder
<1>6. HeapInv' /\ NotLate' /\ CopiesAccounted'
  BY <1>2, DeliversHeap, DeliversAccounted
<1> QED
  BY <1>3, <1>4, <1>5, <1>6 DEF Inv
-----------------------------------------------------------------------------
(* The theorems *)

\* A channel that was just made.
LEMMA FreshFacts ==
    ASSUME NEW p \in Profiles, NEW s \in Seq(RuleType),
           profile = p, script = s, now = 0, in_flight = {},
           next_datagram_index = 0, next_seq = 0, stats = NoStats,
           delivered = << >>, clock \in Nat
    PROVE  Inv
<1>1. IsFiniteSet({}) /\ Cardinality({}) = 0
  BY FS_EmptySet
<1>2. /\ delivered \in Seq(CopyType) /\ Len(delivered) = 0
      /\ DOMAIN delivered = {}
  OBVIOUS
<1>3. /\ stats \in [sent : Nat, delivered : Nat, dropped : Nat, duplicated : Nat]
      /\ stats.sent = 0 /\ stats.delivered = 0
      /\ stats.dropped = 0 /\ stats.duplicated = 0
  BY DEF NoStats
<1>4. Copies = {}
  BY <1>2 DEF Copies, Range
<1>5. TypeOK
  BY <1>1, <1>2, <1>3 DEF TypeOK
<1>6. HeapInv /\ NotLate /\ NumberedInOrder(Copies)
  BY <1>2, <1>4 DEF HeapInv, InHeapOrder, NotLate, NumberedInOrder
<1>7. CopiesAccounted
  BY <1>1, <1>2, <1>3, <1>4 DEF CopiesAccounted
<1> QED
  BY <1>4, <1>5, <1>6, <1>7 DEF Inv

LEMMA InitOK ==
    ASSUME Init
    PROVE  Inv
<1>1. script \in Seq(RuleType)
  BY ChannelAssumption DEF Init, RuleType
<1> QED
  BY <1>1, FreshFacts DEF Init

LEMMA SwitchOK ==
    ASSUME Inv, Switch
    PROVE  Inv'
<1>1. PICK p \in Profiles : Fresh(p, << >>)
  BY DEF Switch
<1>2. /\ profile' = p /\ script' = << >> /\ now' = 0 /\ in_flight' = {}
      /\ next_datagram_index' = 0 /\ next_seq' = 0 /\ stats' = NoStats
      /\ delivered' = << >>
  BY <1>1 DEF Fresh
<1>3. clock' \in Nat /\ << >> \in Seq(RuleType)
  BY DEF Switch, Inv, TypeOK
<1>4. IsFiniteSet({}) /\ Cardinality({}) = 0
  BY FS_EmptySet
<1>5. /\ delivered' \in Seq(CopyType) /\ Len(delivered') = 0
      /\ DOMAIN delivered' = {}
  BY <1>2
<1>6. /\ stats' \in [sent : Nat, delivered : Nat, dropped : Nat, duplicated : Nat]
      /\ stats'.sent = 0 /\ stats'.delivered = 0
      /\ stats'.dropped = 0 /\ stats'.duplicated = 0
  BY <1>2 DEF NoStats
<1>7. Copies' = {}
  BY <1>2, <1>5 DEF Copies, Range
<1>8. TypeOK'
  BY <1>2, <1>3, <1>4, <1>5, <1>6 DEF TypeOK
<1>9. HeapInv' /\ NotLate' /\ NumberedInOrder(Copies)'
  BY <1>2, <1>5, <1>7 DEF HeapInv, InHeapOrder, NotLate, NumberedInOrder
<1>10. CopiesAccounted'
  BY <1>2, <1>4, <1>5, <1>6, <1>7 DEF CopiesAccounted
<1> QED
  BY <1>7, <1>8, <1>9, <1>10 DEF Inv

\* A step that leaves the channel alone, and does not claim it was advanced.
LEMMA ChannelUnchanged ==
    ASSUME Inv, UNCHANGED channel, clock' \in Nat,
           phase' = "advanced" => phase = "advanced"
    PROVE  Inv'
<1>1. /\ profile' = profile /\ script' = script /\ now' = now
      /\ in_flight' = in_flight /\ next_datagram_index' = next_datagram_index
      /\ next_seq' = next_seq /\ stats' = stats /\ delivered' = delivered
  BY DEF channel
<1>2. Copies' = Copies /\ MaxExtra' = MaxExtra
  BY <1>1 DEF Copies, MaxExtra
<1>3. TypeOK'
  BY <1>1 DEF Inv, TypeOK
<1>4. \A c \in Copies' : CopyInv(c)' /\ Pinned(c)' /\ Paired(c)'
  <2> SUFFICES ASSUME NEW c \in Copies
               PROVE  CopyInv(c)' /\ Pinned(c)' /\ Paired(c)'
    BY <1>2
  <2>1. CopyInv(c) /\ Pinned(c) /\ Paired(c)
    BY DEF Inv
  <2> QED
    BY <1>1, <1>2, <2>1 DEF CopyInv, Pinned, Paired, Rules, Has, Arg
<1>5. NumberedInOrder(Copies)' /\ HeapInv'
  BY <1>1, <1>2 DEF Inv, NumberedInOrder, HeapInv, InHeapOrder, PoppedBefore
<1>6. NotLate' /\ CopiesAccounted'
  BY <1>1, <1>2 DEF Inv, NotLate, CopiesAccounted
<1> QED
  BY <1>3, <1>4, <1>5, <1>6 DEF Inv

LEMMA NextOK ==
    ASSUME Inv, [Next]_vars
    PROVE  Inv'
<1>1. clock \in Nat
  BY DEF Inv, TypeOK
<1>2. ASSUME NEW n \in Sizes, Send(n)
      PROVE  Inv'
  BY <1>2, SendOK
<1>3. CASE Advance
  BY <1>3, AdvanceOK
<1>4. CASE NewTick
  <2>1. UNCHANGED channel /\ clock' \in Nat /\ phase' = "new"
    BY <1>1, <1>4 DEF NewTick
  <2> QED
    BY <2>1, ChannelUnchanged
<1>5. CASE Switch
  BY <1>5, SwitchOK
<1>6. CASE UNCHANGED vars
  <2>1. UNCHANGED channel /\ clock' \in Nat /\ phase' = phase
    BY <1>1, <1>6 DEF vars
  <2> QED
    BY <2>1, ChannelUnchanged
<1> QED
  BY <1>2, <1>3, <1>4, <1>5, <1>6 DEF Next

\* The inductive invariant holds of every channel run_chaos drives.
THEOREM Invariance == Spec => []Inv
<1>1. Init => Inv
  BY InitOK
<1>2. Inv /\ [Next]_vars => Inv'
  BY NextOK
<1> QED
  BY <1>1, <1>2, PTL DEF Spec

\* The books of the channel: in_flight, deliver_ready and the counters of
\* FaultStats agree at every moment, and no copy is lost, made twice or
\* delivered twice.
THEOREM CopiesAccountedHolds == Spec => []CopiesAccounted
<1>1. Inv => CopiesAccounted
  BY DEF Inv
<1> QED
  BY <1>1, Invariance, PTL

\* Where the clock of the channel stands when that of the harness is at
\* `clock': there, a tick behind before the advance, or at zero.
ClockInv ==
    /\ clock \in Nat /\ switched \in Nat
    /\ phase = "advanced" => now = clock
    /\ phase # "advanced" => now = clock - 1 \/ AtZero

LEMMA ClockInvariance == Spec => []ClockInv
<1>1. Init => ClockInv
  BY DEF Init, ClockInv
<1>2. ASSUME ClockInv, [Next]_vars
      PROVE  ClockInv'
  <2>1. ASSUME NEW n \in Sizes, Send(n)
        PROVE  ClockInv'
    <3>1. /\ UNCHANGED <<now, clock, switched>>
          /\ phase' = IF phase = "new" THEN "calls" ELSE phase
      BY <2>1 DEF Send
    <3> QED
      BY <1>2, <3>1 DEF ClockInv, AtZero
  <2>2. CASE Advance
    <3>1. /\ UNCHANGED <<clock, switched>>
          /\ phase # "advanced" /\ phase' = "advanced"
          /\ now' = IF clock > now THEN clock ELSE now
      BY <2>2 DEF Advance
    <3> QED
      BY <1>2, <3>1 DEF ClockInv, AtZero
  <2>3. CASE NewTick
    BY <1>2, <2>3 DEF NewTick, ClockInv, AtZero, channel
  <2>4. CASE Switch
    BY <1>2, <2>4 DEF Switch, Fresh, ClockInv, AtZero
  <2>5. CASE UNCHANGED vars
    BY <1>2, <2>5 DEF vars, channel, ClockInv, AtZero
  <2> QED
    BY <1>2, <2>1, <2>2, <2>3, <2>4, <2>5 DEF Next
<1> QED
  BY <1>1, <1>2, PTL DEF Spec

\* advance leaves nothing in the heap that was due, except what is sent
\* after it in the same tick; and emit_one adds base_delay to a clock that
\* is at most a tick behind that of run_chaos, except between a profile
\* switch and the first advance.
THEOREM OnTimeHolds == Spec => []OnTime
<1>1. ASSUME Inv, ClockInv
      PROVE  OnTime
  <2>1. NotLate
    BY <1>1 DEF Inv
  <2>2. ASSUME ~AtZero, NEW c \in in_flight, c.sent = now
        PROVE  c.arrives >= clock - 1 + profile.base_delay
    <3>1. TypeOK /\ CopyInv(c)
      BY <1>1, <2>2 DEF Inv, Copies
    <3>2. c.arrives \in Nat /\ profile.base_delay \in Nat /\ now \in Nat
      BY <2>2, <3>1, CopiesType, ProfileFacts DEF TypeOK
    <3>3. now >= clock - 1 /\ clock \in Nat
      BY <1>1, <2>2, <3>2 DEF ClockInv
    <3> QED
      BY <2>2, <3>1, <3>2, <3>3 DEF CopyInv
  <2> QED
    BY <2>1, <2>2 DEF OnTime, NotEarly
<1> QED
  BY <1>1, Invariance, ClockInvariance, PTL

\* The script pins the fate of a datagram: send and emit_one obey every
\* ScriptedFault, whatever the profile draws.
THEOREM PinnedFateHolds == Spec => []PinnedFate
<1>1. ASSUME Inv
      PROVE  PinnedFate
  <2>1. \A c \in Copies : Pinned(c) /\ Paired(c)
    BY <1>1 DEF Inv
  <2>2. Named("Drop") = {}
    BY <2>1 DEF Named, Pinned
  <2>3. \A c \in Named("Duplicate") :
           \E d \in Copies : d.index = c.index /\ d.seq # c.seq
    BY <2>1 DEF Named, Paired
  <2>4. /\ \A c \in Named("Delay") :
              c.arrives = c.sent + profile.base_delay
                            + Arg(Rules(c.index), "Delay")
        /\ \A c \in Named("Corrupt") : c.size > 0 => c.flipped # 0
        /\ \A c \in Named("Truncate") :
              c.len <= Arg(Rules(c.index), "Truncate")
    BY <2>1 DEF Named, Pinned
  <2> QED
    BY <2>2, <2>3, <2>4 DEF PinnedFate
<1> QED
  BY <1>1, Invariance, PTL

\* Two copies delivered one after the other.
LEMMA DeliveredPair ==
    ASSUME Inv, NEW i \in DOMAIN delivered, NEW j \in DOMAIN delivered, i < j
    PROVE  /\ delivered[i].sent <= delivered[j].sent + MaxExtra
           /\ MaxExtra = 0 => delivered[i].index <= delivered[j].index
<1> DEFINE a == delivered[i]
           b == delivered[j]
<1>1. TypeOK
  BY DEF Inv
<1>2. a \in Copies /\ b \in Copies
  BY DEF Copies, Range
<1>3. PoppedBefore(a, b)
  BY DEF Inv, HeapInv, InHeapOrder
<1> HIDE DEF a, b
<1>4. /\ a.seq \in Nat /\ a.index \in Nat /\ a.sent \in Nat /\ a.arrives \in Nat
      /\ b.seq \in Nat /\ b.index \in Nat /\ b.sent \in Nat /\ b.arrives \in Nat
  BY <1>1, <1>2, CopiesType
<1>5. MaxExtra \in Nat /\ profile.base_delay \in Nat
  BY <1>1, ProfileFacts, MaxExtraFacts DEF TypeOK
<1>6. CopyInv(a) /\ CopyInv(b) /\ NumberedInOrder(Copies)
  BY <1>2 DEF Inv
<1>7. /\ a.sent + profile.base_delay <= a.arrives
      /\ b.arrives <= b.sent + profile.base_delay + MaxExtra
      /\ a.arrives <= a.sent + profile.base_delay + MaxExtra
      /\ b.sent + profile.base_delay <= b.arrives
  BY <1>6 DEF CopyInv
<1>8. a.arrives <= b.arrives /\ (a.arrives = b.arrives => a.seq < b.seq)
  BY <1>3, <1>4 DEF PoppedBefore
<1>9. a.sent <= b.sent + MaxExtra
  BY <1>4, <1>5, <1>7, <1>8
<1>10. ASSUME MaxExtra = 0
       PROVE  a.index <= b.index
  <2>1. a.seq < b.seq => a.index <= b.index
    BY <1>2, <1>6 DEF NumberedInOrder
  <2>2. b.seq < a.seq => b.sent <= a.sent
    BY <1>2, <1>6 DEF NumberedInOrder
  <2>3. a.seq = b.seq => a = b
    BY <1>2, <1>6 DEF NumberedInOrder
  <2>4. a.arrives = a.sent + profile.base_delay
    BY <1>4, <1>5, <1>7, <1>10
  <2>5. b.arrives = b.sent + profile.base_delay
    BY <1>4, <1>5, <1>7, <1>10
  <2>6. b.seq < a.seq => FALSE
    BY <1>4, <1>5, <1>8, <2>2, <2>4, <2>5
  <2> QED
    BY <1>4, <2>1, <2>3, <2>6
<1> QED
  BY <1>9, <1>10 DEF a, b

\* Reordering is bounded: the heap, duplicates, batched deliveries and late
\* advances let a datagram overtake only those sent at most MaxExtra earlier,
\* and the channel is FIFO when no extra delay is configured or scripted.
THEOREM BoundedReorderingHolds == Spec => []BoundedReordering
<1>1. ASSUME Inv
      PROVE  BoundedReordering
  BY <1>1, DeliveredPair DEF BoundedReordering
<1> QED
  BY <1>1, Invariance, PTL
=============================================================================
