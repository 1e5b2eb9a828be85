----------------------------- MODULE RpcProof -------------------------------
(***************************************************************************)
(* Proofs about Rpc, for any number of clients, calls, attempts, keys and  *)
(* values, and about Chaos, for any number of links and any deadline.      *)
(*                                                                         *)
(* Rpc: the types, at most one execution of a call and its own answer to   *)
(* it; then that a call ends once, that a client's calls are executed in   *)
(* program order and after they were made, and that the shared store       *)
(* answers as the reference store does.                                    *)
(*                                                                         *)
(* Chaos, in the second part: run_chaos drives the clients and servers as  *)
(* Rpc allows, so that what is proved of Rpc holds of it; it drains before *)
(* max_ticks; and its summary is true.                                     *)
(***************************************************************************)
EXTENDS Chaos, RpcInv, FiniteSetTheorems, SequenceTheorems,
        NaturalsInduction, WellFoundedInduction, TLAPS

-----------------------------------------------------------------------------
(* The helpers *)

\* Adding to a map, and taking away from it.
LEMMA MapFacts ==
    ASSUME NEW f, NEW S, IsMap(f, S)
    PROVE  /\ \A x \in Nat, y \in S : IsMap(With(f, x, y), S)
           /\ \A T : IsMap(Without(f, T), S)
<1>1. ASSUME NEW x \in Nat, NEW y \in S
      PROVE  IsMap(With(f, x, y), S)
  <2>1. DOMAIN With(f, x, y) \subseteq Nat
    BY DEF With, IsMap
  <2>2. \A k \in DOMAIN With(f, x, y) : With(f, x, y)[k] \in S
    BY DEF With, IsMap
  <2>3. With(f, x, y) \in [DOMAIN With(f, x, y) -> S]
    BY <2>2 DEF With
  <2> QED
    BY <2>1, <2>3 DEF IsMap
<1>2. ASSUME NEW T
      PROVE  IsMap(Without(f, T), S)
  BY DEF Without, IsMap
<1> QED
  BY <1>1, <1>2

\* kv::apply keeps the store well formed and answers with a result.
LEMMA ApplyOK ==
    ASSUME NEW st, st \in [DOMAIN st -> Values], DOMAIN st \subseteq Keys,
           NEW op \in Op
    PROVE  /\ ApplyResult(st, op) \in ResultType
           /\ ApplyStore(st, op) \in [DOMAIN ApplyStore(st, op) -> Values]
           /\ DOMAIN ApplyStore(st, op) \subseteq Keys
<1>1. /\ op.key \in Keys
      /\ op.method \in {"Get", "Put", "Delete"}
      /\ op.method = "Put" => op.value \in Values
  BY DEF Op
<1>2. ApplyResult(st, op) \in ResultType
  BY <1>1 DEF ApplyResult, Result, ResultType
<1>3. CASE op.method = "Put"
  <2> DEFINE new == [k \in DOMAIN st \cup {op.key} |->
                       IF k = op.key THEN op.value ELSE st[k]]
  <2>1. ApplyStore(st, op) = new
    BY <1>3 DEF ApplyStore
  <2>2. new \in [DOMAIN new -> Values] /\ DOMAIN new \subseteq Keys
    BY <1>1, <1>3
  <2> QED
    BY <1>2, <2>1, <2>2
<1>4. CASE op.method = "Delete"
  <2> DEFINE new == [k \in DOMAIN st \ {op.key} |-> st[k]]
  <2>1. ApplyStore(st, op) = new
    BY <1>4 DEF ApplyStore
  <2>2. new \in [DOMAIN new -> Values] /\ DOMAIN new \subseteq Keys
    OBVIOUS
  <2> QED
    BY <1>2, <2>1, <2>2
<1>5. CASE op.method = "Get"
  <2>1. ApplyStore(st, op) = st
    BY <1>5 DEF ApplyStore
  <2> QED
    BY <1>2, <2>1
<1> QED
  BY <1>1, <1>3, <1>4, <1>5

\* A log that has grown still justifies what it justified.
LEMMA LogGrows ==
    ASSUME NEW l \in Seq(Execution), NEW x \in Execution
    PROVE  /\ \A c, r : LoggedIn(l, c, r) => LoggedIn(Append(l, x), c, r)
           /\ \A c, s : AllLoggedIn(l, c, s) => AllLoggedIn(Append(l, x), c, s)
           /\ LoggedIn(Append(l, x), x.client, Response(x.id, x.result))
<1> DEFINE m == Append(l, x)
<1>1. /\ Len(l) \in Nat /\ Len(m) = Len(l) + 1 /\ m[Len(l) + 1] = x
      /\ \A i \in 1 .. Len(l) : m[i] = l[i] /\ i \in 1 .. Len(m)
      /\ Len(l) + 1 \in 1 .. Len(m)
  OBVIOUS
<1> HIDE DEF m
<1>2. \A c, r : LoggedIn(l, c, r) => LoggedIn(m, c, r)
  BY <1>1 DEF LoggedIn
<1>3. \A c, s : AllLoggedIn(l, c, s) => AllLoggedIn(m, c, s)
  BY <1>2 DEF AllLoggedIn
<1>4. LoggedIn(m, x.client, Response(x.id, x.result))
  BY <1>1 DEF LoggedIn, Response
<1> QED
  BY <1>2, <1>3, <1>4 DEF m

\* Taking, adding and joining logged responses.
LEMMA AllLoggedOps ==
    ASSUME NEW l, NEW c, NEW s \in Seq(ResponseType), AllLoggedIn(l, c, s)
    PROVE  /\ s # << >> => LoggedIn(l, c, Head(s)) /\ AllLoggedIn(l, c, Tail(s))
           /\ \A r \in ResponseType :
                 LoggedIn(l, c, r) => AllLoggedIn(l, c, Append(s, r))
           /\ \A t \in Seq(ResponseType) :
                 AllLoggedIn(l, c, t) => AllLoggedIn(l, c, s \o t)
<1>1. ASSUME s # << >>
      PROVE  LoggedIn(l, c, Head(s)) /\ AllLoggedIn(l, c, Tail(s))
  <2>1. /\ Len(s) \in Nat /\ Len(s) > 0 /\ Head(s) = s[1]
        /\ Len(Tail(s)) = Len(s) - 1
        /\ \A n \in 1 .. Len(s) - 1 : Tail(s)[n] = s[n + 1]
    BY <1>1
  <2> QED
    BY <2>1 DEF AllLoggedIn
<1>2. ASSUME NEW r \in ResponseType, LoggedIn(l, c, r)
      PROVE  AllLoggedIn(l, c, Append(s, r))
  <2>1. /\ Len(s) \in Nat /\ Len(Append(s, r)) = Len(s) + 1
        /\ \A n \in 1 .. Len(s) : Append(s, r)[n] = s[n]
        /\ Append(s, r)[Len(s) + 1] = r
    OBVIOUS
  <2> QED
    BY <1>2, <2>1 DEF AllLoggedIn
<1>3. ASSUME NEW t \in Seq(ResponseType), AllLoggedIn(l, c, t)
      PROVE  AllLoggedIn(l, c, s \o t)
  <2>1. /\ Len(s) \in Nat /\ Len(t) \in Nat /\ Len(s \o t) = Len(s) + Len(t)
        /\ \A n \in 1 .. Len(s) : (s \o t)[n] = s[n]
        /\ \A n \in Len(s) + 1 .. Len(s) + Len(t) : (s \o t)[n] = t[n - Len(s)]
    OBVIOUS
  <2> QED
    BY <1>3, <2>1 DEF AllLoggedIn
<1> QED
  BY <1>1, <1>2, <1>3

-----------------------------------------------------------------------------
(* The steps that do not touch the server *)

\* The client's side of the state does not matter to DedupInv, but for the
\* responses in it.
LEMMA DedupKept ==
    ASSUME TypeOK, DedupInv, UNCHANGED server,
           \A c \in Clients : /\ AllLoggedIn(log, c, responses'[c])
                              /\ AllLoggedIn(log, c, completed'[c])
                              /\ AllLoggedIn(log, c, answered'[c])
    PROVE  DedupInv'
<1>1. seen' = seen /\ log' = log /\ executions' = executions
  BY DEF server
<1>2. TableLogged' /\ LogInTable' /\ AtMostOnce'
  BY <1>1 DEF DedupInv, TableLogged, LogInTable, AtMostOnce
<1>3. ResponsesLogged'
  BY <1>1 DEF ResponsesLogged
<1> QED
  BY <1>1, <1>2, <1>3 DEF DedupInv

\* ... and a step that leaves the responses alone as well.
LEMMA DedupUntouched ==
    ASSUME TypeOK, DedupInv,
           UNCHANGED <<server, responses, completed, answered>>
    PROVE  DedupInv'
BY DedupKept DEF DedupInv, ResponsesLogged

\* RpcClient::call
LEMMA CallOK ==
    ASSUME IndInv, NEW c \in Clients, NEW op \in Op, Call(c, op)
    PROVE  IndInv'
<1> USE RpcAssumption
<1> DEFINE id == next_id[c]
           p == [op |-> op, attempts |-> 1]
<1>1. id \in Nat /\ id + 1 \in 0 .. MaxCalls
  BY DEF IndInv, TypeOK, Call
<1>2. Request(id, op) \in RequestType
  BY <1>1 DEF Request, RequestType
<1>3. requests' \in [Clients -> Seq(RequestType)]
  <2>1. requests' = [requests EXCEPT ![c] = Append(requests[c], Request(id, op))]
    BY DEF Call
  <2>2. requests[c] \in Seq(RequestType)
    BY DEF IndInv, TypeOK
  <2>3. Append(requests[c], Request(id, op)) \in Seq(RequestType)
    BY <1>2, <2>2
  <2> QED
    BY <2>1, <2>3 DEF IndInv, TypeOK
<1>4. next_id' \in [Clients -> 0 .. MaxCalls]
  BY <1>1 DEF Call, IndInv, TypeOK, IdAfter
<1>5. p \in [op : Op, attempts : 1 .. MaxAttempts]
  OBVIOUS
<1>6. /\ pending' = [pending EXCEPT ![c] = With(pending[c], id, p)]
      /\ IsMap(pending[c], [op : Op, attempts : 1 .. MaxAttempts])
  BY DEF Call, IndInv, TypeOK
<1> HIDE DEF p
<1>7. IsMap(With(pending[c], id, p), [op : Op, attempts : 1 .. MaxAttempts])
  BY <1>1, <1>5, <1>6, MapFacts
<1>8. /\ pending' = [d \in Clients |-> pending'[d]]
      /\ \A d \in Clients : IsMap(pending'[d], [op : Op, attempts : 1 .. MaxAttempts])
  BY <1>6, <1>7 DEF IndInv, TypeOK
<1>9. UNCHANGED <<completed, failed, responses, server, answered>>
  BY DEF Call
<1>10. TypeOK'
  BY <1>3, <1>4, <1>8, <1>9 DEF IndInv, TypeOK, server
<1>11. DedupInv'
  BY <1>9, DedupUntouched DEF IndInv
<1>12. PendingIssued'
  <2>1. DOMAIN pending'[c] = DOMAIN pending[c] \cup {id}
    BY <1>6 DEF IndInv, TypeOK, With
  <2>2. next_id' = [next_id EXCEPT ![c] = id + 1]
    BY DEF Call, IdAfter
  <2>3. DOMAIN pending'[c] \subseteq 0 .. next_id'[c] - 1
    BY <1>1, <2>1, <2>2 DEF IndInv, TypeOK, PendingIssued
  <2>4. \A d \in Clients \ {c} :
           pending'[d] = pending[d] /\ next_id'[d] = next_id[d]
    BY <1>6, <2>2 DEF IndInv, TypeOK
  <2> QED
    BY <2>3, <2>4 DEF IndInv, PendingIssued
<1> QED
  BY <1>10, <1>11, <1>12 DEF IndInv

\* RpcClient::on_datagram
LEMMA OnResponseOK ==
    ASSUME IndInv, NEW c \in Clients, OnResponse(c)
    PROVE  IndInv'
<1> DEFINE r == Head(responses[c])
<1>1. /\ responses[c] \in Seq(ResponseType) /\ responses[c] # << >>
      /\ completed[c] \in Seq(ResponseType)
      /\ AllLoggedIn(log, c, responses[c]) /\ AllLoggedIn(log, c, completed[c])
  BY DEF IndInv, TypeOK, DedupInv, ResponsesLogged, OnResponse
<1>2. /\ r \in ResponseType /\ Tail(responses[c]) \in Seq(ResponseType)
      /\ Append(completed[c], r) \in Seq(ResponseType)
  BY <1>1
<1>3. /\ AllLoggedIn(log, c, Tail(responses[c]))
      /\ AllLoggedIn(log, c, Append(completed[c], r))
  BY <1>1, <1>2, AllLoggedOps
<1> HIDE DEF r
<1>4. /\ responses' = [responses EXCEPT ![c] = Tail(responses[c])]
      /\ UNCHANGED <<next_id, failed, requests, server, answered>>
      /\ \/ /\ pending' = [pending EXCEPT ![c] = Without(pending[c], {r.id})]
            /\ completed' = [completed EXCEPT ![c] = Append(completed[c], r)]
         \/ UNCHANGED <<pending, completed>>
  BY DEF OnResponse, history, r
<1>5. /\ responses' \in [Clients -> Seq(ResponseType)]
      /\ completed' \in [Clients -> Seq(ResponseType)]
  BY <1>2, <1>4 DEF IndInv, TypeOK
<1>6. IsMap(Without(pending[c], {r.id}), [op : Op, attempts : 1 .. MaxAttempts])
  BY MapFacts DEF IndInv, TypeOK
<1>7. /\ pending' = [d \in Clients |-> pending'[d]]
      /\ \A d \in Clients : IsMap(pending'[d], [op : Op, attempts : 1 .. MaxAttempts])
  BY <1>4, <1>6 DEF IndInv, TypeOK
<1>8. TypeOK'
  BY <1>4, <1>5, <1>7 DEF IndInv, TypeOK, server
<1>9. \A d \in Clients : /\ AllLoggedIn(log, d, responses'[d])
                         /\ AllLoggedIn(log, d, completed'[d])
                         /\ AllLoggedIn(log, d, answered'[d])
  BY <1>3, <1>4 DEF IndInv, TypeOK, DedupInv, ResponsesLogged
<1>10. DedupInv'
  BY <1>4, <1>9, DedupKept DEF IndInv
<1>11. PendingIssued'
  <2>1. DOMAIN Without(pending[c], {r.id}) \subseteq DOMAIN pending[c]
    BY DEF Without
  <2>2. \A d \in Clients : DOMAIN pending'[d] \subseteq DOMAIN pending[d]
    BY <1>4, <2>1 DEF IndInv, TypeOK
  <2>3. next_id' = next_id
    BY <1>4
  <2> QED
    BY <2>2, <2>3 DEF IndInv, PendingIssued
<1> QED
  BY <1>8, <1>10, <1>11 DEF IndInv

\* RpcClient::on_tick
LEMMA OnTickOK ==
    ASSUME IndInv, NEW c \in Clients, NEW expired \in SUBSET DOMAIN pending[c],
           OnTick(c, expired)
    PROVE  IndInv'
<1> USE RpcAssumption
<1> DEFINE to_fail == ToFail(c, expired)
           P == [op : Op, attempts : 1 .. MaxAttempts]
           new == [id \in DOMAIN pending[c] \ to_fail |->
                     IF id \in expired
                       THEN [pending[c][id] EXCEPT !.attempts = @ + 1]
                       ELSE pending[c][id]]
<1>1. /\ Retry(c, expired, to_fail)
      /\ DOMAIN pending[c] \subseteq Nat
      /\ \A id \in DOMAIN pending[c] : pending[c][id] \in P
  BY DEF OnTick, IndInv, TypeOK, IsMap
<1>2. to_fail \subseteq expired
  BY DEF ToFail
<1>3. IsMap(new, P)
  <2>1. ASSUME NEW id \in DOMAIN pending[c] \ to_fail
        PROVE  new[id] \in P
    <3>1. CASE id \in expired
      <4>1. /\ pending[c][id] \in P
            /\ ~(pending[c][id].attempts + 1 > MaxAttempts)
        BY <1>1, <3>1 DEF ToFail
      <4>2. pending[c][id].attempts + 1 \in 1 .. MaxAttempts
        BY <4>1
      <4>3. [pending[c][id] EXCEPT !.attempts = pending[c][id].attempts + 1] \in P
        BY <4>1, <4>2
      <4> QED
        BY <4>3, <3>1
    <3>2. CASE id \notin expired
      BY <1>1, <3>2
    <3> QED
      BY <3>1, <3>2
  <2> HIDE DEF P
  <2>2. DOMAIN new = DOMAIN pending[c] \ to_fail
    OBVIOUS
  <2>3. new \in [DOMAIN new -> P]
    BY <2>1, <2>2
  <2> QED
    BY <1>1, <2>2, <2>3 DEF IsMap
<1>4. pending' = [pending EXCEPT ![c] = new]
  BY <1>1 DEF Retry
<1>5. requests' \in [Clients -> Seq(RequestType)]
  <2>1. PICK order \in Orders(expired \ to_fail) :
          requests' = [requests EXCEPT ![c] =
             requests[c] \o [i \in DOMAIN order |->
                     Request(order[i], pending[c][order[i]].op)]]
    BY <1>1 DEF Retry
  <2> DEFINE k == Cardinality(expired \ to_fail)
             again == [i \in 1 .. k |-> Request(order[i], pending[c][order[i]].op)]
  <2>2. order \in [1 .. k -> expired \ to_fail] /\ DOMAIN order = 1 .. k
    BY DEF Orders
  <2>3. \A i \in 1 .. k : Request(order[i], pending[c][order[i]].op) \in RequestType
    BY <1>1, <2>2 DEF Request, RequestType
  <2>4. k \in Nat
    <3>1. next_id[c] - 1 \in Int /\ 0 \in Int
      BY DEF IndInv, TypeOK
    <3>2. IsFiniteSet(0 .. next_id[c] - 1)
      BY <3>1, FS_Interval
    <3>3. expired \ to_fail \subseteq 0 .. next_id[c] - 1
      BY DEF IndInv, PendingIssued
    <3>4. IsFiniteSet(expired \ to_fail)
      BY <3>2, <3>3, FS_Subset
    <3> QED
      BY <3>4, FS_CardinalityType
  <2> HIDE DEF k
  <2>5. again \in Seq(RequestType)
    BY <2>3, <2>4
  <2> HIDE DEF again
  <2>6. requests' = [requests EXCEPT ![c] = requests[c] \o again]
    BY <2>1, <2>2 DEF again
  <2>7. requests[c] \in Seq(RequestType)
    BY DEF IndInv, TypeOK
  <2>8. requests[c] \o again \in Seq(RequestType)
    BY <2>5, <2>7
  <2> QED
    BY <2>6, <2>8 DEF IndInv, TypeOK
<1> HIDE DEF new
<1>6. failed' \in [Clients -> SUBSET Nat]
  BY <1>1, <1>2 DEF Retry, IndInv, TypeOK
<1>7. UNCHANGED <<next_id, completed, responses, server, answered>>
  BY <1>1 DEF Retry, history
<1>8. /\ pending' = [d \in Clients |-> pending'[d]]
      /\ \A d \in Clients : IsMap(pending'[d], P)
  BY <1>3, <1>4 DEF IndInv, TypeOK
<1>9. TypeOK'
  BY <1>5, <1>6, <1>7, <1>8 DEF IndInv, TypeOK, server
<1>10. DedupInv'
  BY <1>7, DedupUntouched DEF IndInv
<1>11. PendingIssued'
  <2>1. DOMAIN new \subseteq DOMAIN pending[c]
    BY DEF new
  <2> QED
    BY <1>4, <1>7, <2>1 DEF IndInv, TypeOK, PendingIssued
<1> QED
  BY <1>9, <1>10, <1>11 DEF IndInv

\* RpcClient::poll_completed and poll_failed
LEMMA PollOK ==
    ASSUME IndInv, NEW c \in Clients, PollCompleted(c) \/ PollFailed(c)
    PROVE  IndInv'
<1>1. CASE PollCompleted(c)
  <2> DEFINE all == answered[c] \o completed[c]
  <2>1. /\ answered' = [answered EXCEPT ![c] = all]
        /\ completed' = [completed EXCEPT ![c] = << >>]
        /\ UNCHANGED <<next_id, pending, failed, requests, responses, server>>
    BY <1>1 DEF PollCompleted
  <2>2. /\ answered[c] \in Seq(ResponseType) /\ completed[c] \in Seq(ResponseType)
        /\ AllLoggedIn(log, c, answered[c]) /\ AllLoggedIn(log, c, completed[c])
    BY DEF IndInv, TypeOK, DedupInv, ResponsesLogged
  <2>3. all \in Seq(ResponseType) /\ << >> \in Seq(ResponseType)
    BY <2>2
  <2>4. AllLoggedIn(log, c, all) /\ AllLoggedIn(log, c, << >>)
    <3>1. AllLoggedIn(log, c, << >>)
      BY DEF AllLoggedIn
    <3> QED
      BY <2>2, <3>1, AllLoggedOps
  <2> HIDE DEF all
  <2>5. /\ answered' \in [Clients -> Seq(ResponseType)]
        /\ completed' \in [Clients -> Seq(ResponseType)]
    BY <2>1, <2>3 DEF IndInv, TypeOK
  <2>6. TypeOK'
    BY <2>1, <2>5 DEF IndInv, TypeOK, server
  <2>7. \A d \in Clients : /\ AllLoggedIn(log, d, responses'[d])
                           /\ AllLoggedIn(log, d, completed'[d])
                           /\ AllLoggedIn(log, d, answered'[d])
    BY <2>1, <2>4 DEF IndInv, TypeOK, DedupInv, ResponsesLogged
  <2>8. DedupInv'
    BY <2>1, <2>7, DedupKept DEF IndInv
  <2> QED
    BY <2>1, <2>6, <2>8 DEF IndInv, PendingIssued
<1>2. CASE PollFailed(c)
  <2>1. TypeOK'
    BY <1>2 DEF PollFailed, IndInv, TypeOK, server
  <2>2. DedupInv'
    BY <1>2, DedupUntouched DEF PollFailed, IndInv
  <2> QED
    BY <1>2, <2>1, <2>2 DEF PollFailed, IndInv, PendingIssued
<1> QED
  BY <1>1, <1>2

-----------------------------------------------------------------------------
(* The server *)

\* RpcServer::on_datagram of a repeated request
LEMMA ReplayOK ==
    ASSUME IndInv, NEW c \in Clients, Replay(c)
    PROVE  IndInv'
<1> DEFINE q == Head(requests[c])
           a == seen[c][q.id]
           R == Append(responses[c], a)
<1>1. /\ requests[c] \in Seq(RequestType) /\ requests[c] # << >>
      /\ responses[c] \in Seq(ResponseType)
      /\ q.id \in DOMAIN seen[c]
      /\ AllLoggedIn(log, c, responses[c])
  BY DEF IndInv, TypeOK, DedupInv, ResponsesLogged, Replay, Table
<1>2. a \in ResponseType /\ LoggedIn(log, c, a)
  BY <1>1 DEF IndInv, TypeOK, IsMap, DedupInv, TableLogged
<1>3. /\ requests' = [requests EXCEPT ![c] = Tail(requests[c])]
      /\ responses' = [responses EXCEPT ![c] = R]
      /\ UNCHANGED <<next_id, pending, completed, failed, server, answered>>
  BY DEF Replay, Table, client, history
<1> HIDE DEF a
<1>4. R \in Seq(ResponseType) /\ Tail(requests[c]) \in Seq(RequestType)
  BY <1>1, <1>2
<1>5. AllLoggedIn(log, c, R)
  BY <1>1, <1>2, AllLoggedOps
<1> HIDE DEF R
<1>6. /\ requests' \in [Clients -> Seq(RequestType)]
      /\ responses' \in [Clients -> Seq(ResponseType)]
  BY <1>3, <1>4 DEF IndInv, TypeOK
<1>7. TypeOK'
  BY <1>3, <1>6 DEF IndInv, TypeOK, server
<1>8. \A d \in Clients : /\ AllLoggedIn(log, d, responses'[d])
                         /\ AllLoggedIn(log, d, completed'[d])
                         /\ AllLoggedIn(log, d, answered'[d])
  BY <1>3, <1>5 DEF IndInv, TypeOK, DedupInv, ResponsesLogged
<1>9. DedupInv'
  BY <1>3, <1>8, DedupKept DEF IndInv
<1>10. PendingIssued'
  BY <1>3 DEF IndInv, PendingIssued
<1> QED
  BY <1>7, <1>9, <1>10 DEF IndInv

\* RpcServer::on_datagram of a new request: an id that is not in the table
\* is not in the log, so the new execution is its first.
LEMMA ExecuteOK ==
    ASSUME IndInv, NEW c \in Clients, Execute(c)
    PROVE  IndInv'
<1> DEFINE q == Head(requests[c])
           res == ApplyResult(store, q.op)
           a == Response(q.id, res)
           x == [client |-> c, id |-> q.id, op |-> q.op, result |-> res]
           R == Append(responses[c], a)
           T == With(seen[c], q.id, a)
<1>1. /\ requests[c] \in Seq(RequestType) /\ requests[c] # << >>
      /\ responses[c] \in Seq(ResponseType) /\ log \in Seq(Execution)
      /\ q.id \notin DOMAIN seen[c]
      /\ AllLoggedIn(log, c, responses[c])
      /\ IsMap(seen[c], ResponseType)
  BY DEF IndInv, TypeOK, DedupInv, ResponsesLogged, Execute, Table
<1>2. q \in RequestType /\ q.id \in Nat /\ q.op \in Op
  <2>1. q \in RequestType
    BY <1>1
  <2> HIDE DEF q
  <2> QED
    BY <2>1 DEF RequestType
<1>3. /\ requests' = [requests EXCEPT ![c] = Tail(requests[c])]
      /\ responses' = [responses EXCEPT ![c] = R]
      /\ seen' = [seen EXCEPT ![c] = T]
      /\ executions' = [executions EXCEPT ![c] = executions[c] + 1]
      /\ store' = ApplyStore(store, q.op)
      /\ log' = Append(log, x)
      /\ UNCHANGED <<next_id, pending, completed, failed, answered>>
  BY DEF Execute, StoreOf, client, history
<1> HIDE DEF q
<1>4. /\ res \in ResultType
      /\ store' \in [DOMAIN store' -> Values] /\ DOMAIN store' \subseteq Keys
  BY <1>2, <1>3, ApplyOK DEF IndInv, TypeOK
<1> HIDE DEF res
<1>5. a \in ResponseType /\ x \in Execution /\ a.id = q.id
  BY <1>2, <1>4 DEF Response, ResponseType, ResultType, Execution
<1>6. x.client = c /\ x.id = q.id /\ Response(x.id, x.result) = a
  OBVIOUS
<1> HIDE DEF a, x
<1>7. R \in Seq(ResponseType) /\ Tail(requests[c]) \in Seq(RequestType)
  BY <1>1, <1>5
<1>8. IsMap(T, ResponseType) /\ DOMAIN T = DOMAIN seen[c] \cup {q.id}
      /\ T[q.id] = a /\ \A id \in DOMAIN seen[c] : T[id] = seen[c][id]
  <2>1. IsMap(T, ResponseType)
    BY <1>1, <1>2, <1>5, MapFacts
  <2>2. q.id \notin DOMAIN seen[c]
    BY <1>1
  <2> QED
    BY <2>1, <2>2 DEF With
<1>9. /\ LoggedIn(log', c, a)
      /\ \A d, r : LoggedIn(log, d, r) => LoggedIn(log', d, r)
      /\ \A d, s : AllLoggedIn(log, d, s) => AllLoggedIn(log', d, s)
  BY <1>1, <1>3, <1>5, <1>6, LogGrows
<1>10. AllLoggedIn(log', c, R)
  <2>1. AllLoggedIn(log', c, responses[c])
    BY <1>1, <1>9
  <2> QED
    BY <2>1, <1>1, <1>5, <1>9, AllLoggedOps
<1> HIDE DEF R, T
<1>11. /\ log' \in Seq(Execution) /\ Len(log) \in Nat
       /\ Len(log') = Len(log) + 1 /\ log'[Len(log) + 1] = x
       /\ \A i \in 1 .. Len(log) : log'[i] = log[i]
  BY <1>1, <1>3, <1>5
<1>12. /\ seen'[c] = T /\ \A d \in Clients \ {c} : seen'[d] = seen[d]
       /\ seen' = [d \in Clients |-> seen'[d]]
       /\ \A d \in Clients : DOMAIN seen[d] \subseteq DOMAIN seen'[d]
  BY <1>3, <1>8 DEF IndInv, TypeOK
<1>13. TypeOK'
  <2>1. /\ requests' \in [Clients -> Seq(RequestType)]
        /\ responses' \in [Clients -> Seq(ResponseType)]
        /\ executions' \in [Clients -> Nat]
    BY <1>3, <1>7 DEF IndInv, TypeOK
  <2>2. \A d \in Clients : IsMap(seen'[d], ResponseType)
    BY <1>8, <1>12 DEF IndInv, TypeOK
  <2> QED
    BY <1>3, <1>4, <1>11, <1>12, <2>1, <2>2 DEF IndInv, TypeOK
<1>14. TableLogged'
  <2> SUFFICES ASSUME NEW d \in Clients, NEW id \in DOMAIN seen'[d]
               PROVE  seen'[d][id].id = id /\ LoggedIn(log', d, seen'[d][id])
    BY DEF TableLogged
  <2>1. CASE d = c /\ id = q.id
    BY <2>1, <1>5, <1>8, <1>9, <1>12
  <2>2. CASE ~(d = c /\ id = q.id)
    <3>1. id \in DOMAIN seen[d] /\ seen'[d][id] = seen[d][id]
      BY <2>2, <1>8, <1>12
    <3> QED
      BY <3>1, <1>9 DEF IndInv, DedupInv, TableLogged
  <2> QED
    BY <2>1, <2>2
<1>15. \A i \in 1 .. Len(log) : /\ log[i].client \in Clients
                                /\ log[i].id \in DOMAIN seen[log[i].client]
                                /\ ~(log[i].client = c /\ log[i].id = q.id)
  <2>1. \A i \in 1 .. Len(log) : log[i].client \in Clients
    <3>1. \A i \in 1 .. Len(log) : log[i] \in Execution
      BY <1>1
    <3> QED
      BY <3>1 DEF Execution
  <2> QED
    BY <2>1, <1>1 DEF IndInv, DedupInv, LogInTable, q
<1>16. \A i \in 1 .. Len(log') : i \in 1 .. Len(log) \/ i = Len(log) + 1
  BY <1>11
<1>17. LogInTable'
  <2> SUFFICES ASSUME NEW i \in 1 .. Len(log')
               PROVE  log'[i].id \in DOMAIN seen'[log'[i].client]
    BY DEF LogInTable
  <2>1. CASE i \in 1 .. Len(log)
    BY <2>1, <1>11, <1>12, <1>15
  <2>2. CASE i = Len(log) + 1
    BY <2>2, <1>6, <1>8, <1>11, <1>12
  <2> QED
    BY <2>1, <2>2, <1>16
<1>18. ResponsesLogged'
  <2>1. \A d \in Clients \ {c} : responses'[d] = responses[d]
    BY <1>3 DEF IndInv, TypeOK
  <2>2. responses'[c] = R
    BY <1>3 DEF IndInv, TypeOK
  <2>3. completed' = completed /\ answered' = answered
    BY <1>3
  <2>4. \A d \in Clients : /\ AllLoggedIn(log, d, responses[d])
                           /\ AllLoggedIn(log, d, completed[d])
                           /\ AllLoggedIn(log, d, answered[d])
    BY DEF IndInv, DedupInv, ResponsesLogged
  <2>5. \A d \in Clients : /\ AllLoggedIn(log', d, responses'[d])
                           /\ AllLoggedIn(log', d, completed[d])
                           /\ AllLoggedIn(log', d, answered[d])
    BY <1>9, <1>10, <2>1, <2>2, <2>4
  <2> QED
    BY <2>3, <2>5 DEF ResponsesLogged
<1>19. /\ \A d \in Clients : IsFiniteSet(DOMAIN seen'[d])
       /\ \A d \in Clients : executions'[d] = Cardinality(DOMAIN seen'[d])
  <2>1. IsFiniteSet(DOMAIN seen[c]) /\ executions[c] = Cardinality(DOMAIN seen[c])
    BY DEF IndInv, DedupInv, AtMostOnce
  <2>2. /\ IsFiniteSet(DOMAIN seen[c] \cup {q.id})
        /\ Cardinality(DOMAIN seen[c] \cup {q.id}) = Cardinality(DOMAIN seen[c]) + 1
    BY <2>1, <1>1, FS_AddElement DEF q
  <2>3. executions'[c] = executions[c] + 1
        /\ \A d \in Clients \ {c} : executions'[d] = executions[d]
    BY <1>3 DEF IndInv, TypeOK
  <2> QED
    BY <2>1, <2>2, <2>3, <1>8, <1>12 DEF IndInv, DedupInv, AtMostOnce
<1>20. \A i, j \in 1 .. Len(log') :
          log'[i].client = log'[j].client /\ log'[i].id = log'[j].id => i = j
  <2> SUFFICES ASSUME NEW i \in 1 .. Len(log'), NEW j \in 1 .. Len(log'),
                      log'[i].client = log'[j].client, log'[i].id = log'[j].id
               PROVE  i = j
    OBVIOUS
  <2>1. CASE i \in 1 .. Len(log) /\ j \in 1 .. Len(log)
    BY <2>1, <1>11 DEF IndInv, DedupInv, AtMostOnce
  <2>2. CASE i \in 1 .. Len(log) /\ j = Len(log) + 1
    BY <2>2, <1>6, <1>11, <1>15
  <2>3. CASE j \in 1 .. Len(log) /\ i = Len(log) + 1
    BY <2>3, <1>6, <1>11, <1>15
  <2> QED
    BY <2>1, <2>2, <2>3, <1>16
<1>21. AtMostOnce'
  BY <1>19, <1>20 DEF AtMostOnce
<1>22. PendingIssued'
  BY <1>3 DEF IndInv, PendingIssued
<1> QED
  BY <1>13, <1>14, <1>17, <1>18, <1>19, <1>21, <1>22 DEF IndInv, DedupInv

-----------------------------------------------------------------------------

\* RpcClient::new and RpcServer::new
LEMMA InitOK == Init => IndInv
<1> SUFFICES ASSUME Init PROVE IndInv
  OBVIOUS
<1>1. DOMAIN NoCalls = {} /\ DOMAIN EmptyStore = {}
  BY DEF NoCalls, EmptyStore
<1>2. << >> \in Seq(ResponseType) /\ << >> \in Seq(RequestType)
      /\ << >> \in Seq(Execution) /\ Len(<< >>) = 0
  OBVIOUS
<1>3. \A S : IsMap(NoCalls, S)
  BY <1>1 DEF IsMap, NoCalls
<1>4. EmptyStore \in [{} -> Values]
  BY DEF EmptyStore
<1>5. TypeOK
  BY <1>1, <1>2, <1>3, <1>4, RpcAssumption DEF Init, TypeOK
<1>6. PendingIssued
  BY <1>1 DEF Init, PendingIssued
<1>7. IsFiniteSet({}) /\ Cardinality({}) = 0
  BY FS_EmptySet
<1>8. AtMostOnce /\ \A c \in Clients : IsFiniteSet(DOMAIN seen[c])
  BY <1>1, <1>2, <1>7 DEF Init, AtMostOnce
<1>9. TableLogged /\ LogInTable /\ ResponsesLogged
  BY <1>1, <1>2 DEF Init, TableLogged, LogInTable, ResponsesLogged, AllLoggedIn
<1> QED
  BY <1>5, <1>6, <1>8, <1>9 DEF IndInv, DedupInv

\* Every step of Next, or none, preserves the invariant.
LEMMA NextOK == IndInv /\ [Next]_vars => IndInv'
<1> SUFFICES ASSUME IndInv, [Next]_vars PROVE IndInv'
  OBVIOUS
<1>1. CASE UNCHANGED vars
  <2>1. TypeOK'
    BY <1>1 DEF vars, client, server, history, IndInv, TypeOK
  <2>2. PendingIssued'
    BY <1>1 DEF vars, client, IndInv, PendingIssued
  <2>3. DedupInv'
    BY <1>1, DedupUntouched DEF vars, client, history, IndInv
  <2> QED
    BY <2>1, <2>2, <2>3 DEF IndInv
<1> QED
  BY <1>1, CallOK, OnResponseOK, OnTickOK, PollOK, ExecuteOK, ReplayOK DEF Next

\* The invariant of RpcInv holds in every reachable state.
THEOREM Invariance == Spec => []IndInv
BY InitOK, NextOK, PTL DEF Spec

\* At most once, for any number of clients, calls and attempts: however
\* often on_tick repeats a request, on_datagram runs its handler once.
THEOREM AtMostOnceHolds == Spec => []AtMostOnce
<1>1. IndInv => AtMostOnce
  BY DEF IndInv, DedupInv
<1> QED
  BY <1>1, Invariance, PTL

\* A completed call has the response of its own one execution.
THEOREM AnswersHold == Spec => []AnswerIsItsExecution
<1>1. ASSUME IndInv
      PROVE  AnswerIsItsExecution
  <2> SUFFICES ASSUME NEW c \in Clients, NEW n \in 1 .. Len(Answers(c))
               PROVE  \E i \in 1 .. Len(log) :
                        /\ log[i].client = c /\ log[i].id = Answers(c)[n].id
                        /\ Answers(c)[n] = Response(log[i].id, log[i].result)
    BY DEF AnswerIsItsExecution
  <2>1. /\ answered[c] \in Seq(ResponseType) /\ completed[c] \in Seq(ResponseType)
        /\ AllLoggedIn(log, c, answered[c]) /\ AllLoggedIn(log, c, completed[c])
    BY <1>1 DEF IndInv, TypeOK, DedupInv, ResponsesLogged
  <2>2. AllLoggedIn(log, c, Answers(c))
    BY <2>1, AllLoggedOps DEF Answers
  <2> QED
    BY <2>2 DEF AllLoggedIn, LoggedIn
<1> QED
  BY <1>1, Invariance, PTL

-----------------------------------------------------------------------------
(* Outcomes *)

\* The outcomes of one client's calls: its answers A, its failures F, its
\* pending calls P, when it has made the calls below n.
Outcome(A, F, P, n) ==
    /\ \A i, j \in 1 .. Len(A) : A[i].id = A[j].id => i = j
    /\ \A i \in 1 .. Len(A) : A[i].id \in 0 .. n - 1 /\ A[i].id \notin F \cup P
    /\ F \subseteq 0 .. n - 1
    /\ F \cap P = {}
    /\ \A id \in 0 .. n - 1 : id \in F \cup P \/ \E i \in 1 .. Len(A) : A[i].id = id

\* OutcomeInv, client by client.
LEMMA OutcomeByClient ==
    /\ OutcomeInv <=>
         /\ \A c \in Clients :
              Outcome(Answers(c), Failures(c), DOMAIN pending[c], next_id[c])
         /\ FailedApart /\ gaveUp \in [Clients -> SUBSET Nat]
    /\ OutcomeInv' <=>
         /\ \A c \in Clients :
              Outcome(Answers(c)', Failures(c)', DOMAIN pending'[c], next_id'[c])
         /\ FailedApart' /\ gaveUp' \in [Clients -> SUBSET Nat]
BY DEF OutcomeInv, OneOutcome, Outcome

\* call: the new id is nobody's outcome yet.
LEMMA OutcomeCall ==
    ASSUME NEW A, NEW F, NEW P, NEW n \in Nat, Outcome(A, F, P, n)
    PROVE  Outcome(A, F, P \cup {n}, n + 1)
<1>1. n \notin 0 .. n - 1 /\ 0 .. n + 1 - 1 = (0 .. n - 1) \cup {n}
  OBVIOUS
<1> QED
  BY <1>1 DEF Outcome

\* A response to a pending call.
LEMMA OutcomeAnswer ==
    ASSUME NEW A \in Seq(ResponseType), NEW F, NEW P, NEW n \in Nat,
           Outcome(A, F, P, n), P \subseteq 0 .. n - 1,
           NEW r \in ResponseType, r.id \in P
    PROVE  Outcome(Append(A, r), F, P \ {r.id}, n)
<1> DEFINE B == Append(A, r)
<1>1. /\ Len(A) \in Nat /\ Len(B) = Len(A) + 1 /\ B[Len(A) + 1] = r
      /\ \A i \in 1 .. Len(A) : B[i] = A[i]
  OBVIOUS
<1>2. \A i \in 1 .. Len(B) : i \in 1 .. Len(A) \/ i = Len(A) + 1
  BY <1>1
<1> HIDE DEF B
<1>3. \A i \in 1 .. Len(A) : A[i].id # r.id
  BY DEF Outcome
<1>4. \A i, j \in 1 .. Len(B) : B[i].id = B[j].id => i = j
  BY <1>1, <1>2, <1>3 DEF Outcome
<1>5. r.id \notin F
  BY DEF Outcome
<1>6. \A i \in 1 .. Len(B) :
         B[i].id \in 0 .. n - 1 /\ B[i].id \notin F \cup (P \ {r.id})
  BY <1>1, <1>2, <1>3, <1>5 DEF Outcome
<1>7. \A id \in 0 .. n - 1 :
         id \in F \cup (P \ {r.id}) \/ \E i \in 1 .. Len(B) : B[i].id = id
  <2>1. Len(A) + 1 \in 1 .. Len(B) /\ \A i \in 1 .. Len(A) : i \in 1 .. Len(B)
    BY <1>1
  <2> QED
    BY <1>1, <2>1 DEF Outcome
<1> QED
  BY <1>4, <1>6, <1>7 DEF Outcome, B

\* on_tick gives calls up.
LEMMA OutcomeFail ==
    ASSUME NEW A, NEW F, NEW P, NEW n \in Nat, Outcome(A, F, P, n),
           P \subseteq 0 .. n - 1, NEW G \in SUBSET P
    PROVE  Outcome(A, F \cup G, P \ G, n)
BY DEF Outcome

\* A step of client c, or of its server.
LEMMA OutcomeStep ==
    ASSUME OutcomeInv, NEW c \in Clients,
           FailedApart', gaveUp' \in [Clients -> SUBSET Nat],
           Outcome(Answers(c)', Failures(c)', DOMAIN pending'[c], next_id'[c]),
           \A d \in Clients \ {c} :
               /\ Answers(d)' = Answers(d) /\ Failures(d)' = Failures(d)
               /\ pending'[d] = pending[d] /\ next_id'[d] = next_id[d]
    PROVE  OutcomeInv'
<1>1. \A d \in Clients \ {c} :
         Outcome(Answers(d)', Failures(d)', DOMAIN pending'[d], next_id'[d])
  BY OutcomeByClient
<1> QED
  BY <1>1, OutcomeByClient

\* RpcClient::call
LEMMA CallOutcome ==
    ASSUME IndInv, OutcomeInv, NEW c \in Clients, NEW op \in Op, Call(c, op)
    PROVE  OutcomeInv'
<1> DEFINE n == next_id[c]
<1>1. /\ n \in Nat /\ next_id' = [next_id EXCEPT ![c] = n + 1]
      /\ pending' = [pending EXCEPT ![c] =
                       With(pending[c], n, [op |-> op, attempts |-> 1])]
      /\ UNCHANGED <<completed, failed, answered, gaveUp>>
  BY DEF Call, IdAfter, IndInv, TypeOK
<1>2. /\ DOMAIN pending'[c] = DOMAIN pending[c] \cup {n}
      /\ next_id'[c] = n + 1
      /\ \A d \in Clients \ {c} :
            pending'[d] = pending[d] /\ next_id'[d] = next_id[d]
  BY <1>1 DEF IndInv, TypeOK, With
<1>3. \A d \in Clients : Answers(d)' = Answers(d) /\ Failures(d)' = Failures(d)
  BY <1>1 DEF Answers, Failures
<1>4. Outcome(Answers(c), Failures(c), DOMAIN pending[c] \cup {n}, n + 1)
  BY <1>1, OutcomeByClient, OutcomeCall
<1>5. FailedApart' /\ gaveUp' \in [Clients -> SUBSET Nat]
  BY <1>1 DEF OutcomeInv, FailedApart
<1> QED
  BY <1>2, <1>3, <1>4, <1>5, OutcomeStep

\* Putting one more response after those that were not yet polled.
LEMMA AnswersAppend ==
    ASSUME NEW a \in Seq(ResponseType), NEW b \in Seq(ResponseType),
           NEW r \in ResponseType
    PROVE  a \o Append(b, r) = Append(a \o b, r)
<1> DEFINE x == a \o Append(b, r)
           y == Append(a \o b, r)
<1>1. /\ x \in Seq(ResponseType) /\ y \in Seq(ResponseType)
      /\ Len(x) = Len(a) + Len(b) + 1 /\ Len(y) = Len(a) + Len(b) + 1
      /\ Len(a) \in Nat /\ Len(b) \in Nat
  OBVIOUS
<1>2. \A i \in 1 .. Len(a) + Len(b) + 1 : x[i] = y[i]
  OBVIOUS
<1> HIDE DEF x, y
<1>3. x = y
  BY <1>1, <1>2, SeqEqual
<1> QED
  BY <1>3 DEF x, y

\* RpcClient::on_datagram
LEMMA OnResponseOutcome ==
    ASSUME IndInv, OutcomeInv, NEW c \in Clients, OnResponse(c)
    PROVE  OutcomeInv'
<1> DEFINE r == Head(responses[c])
<1>1. /\ responses[c] \in Seq(ResponseType) /\ responses[c] # << >>
      /\ completed[c] \in Seq(ResponseType) /\ answered[c] \in Seq(ResponseType)
      /\ next_id[c] \in Nat /\ DOMAIN pending[c] \subseteq 0 .. next_id[c] - 1
  BY DEF IndInv, TypeOK, PendingIssued, OnResponse
<1>2. r \in ResponseType
  BY <1>1
<1>3. /\ UNCHANGED <<next_id, failed, answered, gaveUp>>
      /\ \/ /\ r.id \in DOMAIN pending[c]
            /\ pending' = [pending EXCEPT ![c] = Without(pending[c], {r.id})]
            /\ completed' = [completed EXCEPT ![c] = Append(completed[c], r)]
         \/ UNCHANGED <<pending, completed>>
  BY DEF OnResponse, history
<1> HIDE DEF r
<1>4. FailedApart' /\ gaveUp' \in [Clients -> SUBSET Nat]
  BY <1>3 DEF OutcomeInv, FailedApart
<1>5. \A d \in Clients : Failures(d)' = Failures(d)
  BY <1>3 DEF Failures
<1>6. CASE UNCHANGED <<pending, completed>>
  <2>1. \A d \in Clients : Answers(d)' = Answers(d)
    BY <1>3, <1>6 DEF Answers
  <2>2. UNCHANGED <<next_id, pending>>
    BY <1>3, <1>6
  <2> QED
    BY <1>4, <1>5, <2>1, <2>2, OutcomeByClient
<1>7. CASE /\ r.id \in DOMAIN pending[c]
           /\ pending' = [pending EXCEPT ![c] = Without(pending[c], {r.id})]
           /\ completed' = [completed EXCEPT ![c] = Append(completed[c], r)]
  <2>1. /\ DOMAIN pending'[c] = DOMAIN pending[c] \ {r.id}
        /\ completed'[c] = Append(completed[c], r)
        /\ \A d \in Clients \ {c} :
              pending'[d] = pending[d] /\ completed'[d] = completed[d]
    BY <1>7 DEF IndInv, TypeOK, Without
  <2>2. Answers(c)' = Append(Answers(c), r)
    <3>1. Answers(c)' = answered[c] \o Append(completed[c], r)
      BY <1>3, <2>1 DEF Answers
    <3>2. answered[c] \o Append(completed[c], r)
            = Append(answered[c] \o completed[c], r)
      BY <1>1, <1>2, AnswersAppend
    <3> QED
      BY <3>1, <3>2 DEF Answers
  <2>3. \A d \in Clients \ {c} : Answers(d)' = Answers(d)
    BY <1>3, <2>1 DEF Answers
  <2>4. Answers(c) \in Seq(ResponseType)
    BY <1>1 DEF Answers
  <2>5. Outcome(Answers(c), Failures(c), DOMAIN pending[c], next_id[c])
    BY OutcomeByClient
  <2>6. Outcome(Append(Answers(c), r), Failures(c), DOMAIN pending[c] \ {r.id},
                next_id[c])
    BY <1>1, <1>2, <1>7, <2>4, <2>5, OutcomeAnswer
  <2> QED
    BY <1>3, <1>4, <1>5, <2>1, <2>2, <2>3, <2>6, OutcomeStep
<1> QED
  BY <1>3, <1>6, <1>7

\* RpcClient::on_tick
LEMMA OnTickOutcome ==
    ASSUME IndInv, OutcomeInv, NEW c \in Clients,
           NEW expired \in SUBSET DOMAIN pending[c], OnTick(c, expired)
    PROVE  OutcomeInv'
<1> DEFINE G == ToFail(c, expired)
<1>1. /\ next_id[c] \in Nat /\ DOMAIN pending[c] \subseteq 0 .. next_id[c] - 1
      /\ G \in SUBSET DOMAIN pending[c]
  BY DEF IndInv, TypeOK, PendingIssued, ToFail
<1>2. /\ UNCHANGED <<next_id, completed, answered, gaveUp>>
      /\ failed' = [failed EXCEPT ![c] = failed[c] \cup G]
      /\ DOMAIN pending'[c] = DOMAIN pending[c] \ G
      /\ \A d \in Clients \ {c} : pending'[d] = pending[d]
  BY DEF OnTick, Retry, history, IndInv, TypeOK
<1> HIDE DEF G
<1>3. \A d \in Clients : Answers(d)' = Answers(d)
  BY <1>2 DEF Answers
<1>4. /\ Failures(c)' = Failures(c) \cup G
      /\ \A d \in Clients \ {c} : Failures(d)' = Failures(d)
  BY <1>2 DEF Failures, IndInv, TypeOK
<1>5. Outcome(Answers(c), Failures(c) \cup G, DOMAIN pending[c] \ G, next_id[c])
  BY <1>1, OutcomeByClient, OutcomeFail
<1>6. gaveUp' \in [Clients -> SUBSET Nat]
  BY <1>2 DEF OutcomeInv
<1>7. FailedApart'
  <2>1. failed \in [Clients -> SUBSET Nat]
    BY DEF IndInv, TypeOK
  <2>2. Failures(c) \cap DOMAIN pending[c] = {} /\ FailedApart
    BY DEF OutcomeInv, OneOutcome
  <2>3. gaveUp[c] \cap G = {}
    BY <1>1, <2>2 DEF Failures
  <2> QED
    BY <1>2, <2>1, <2>2, <2>3 DEF FailedApart
<1> QED
  BY <1>2, <1>3, <1>4, <1>5, <1>6, <1>7, OutcomeStep

\* RpcClient::poll_completed and poll_failed only hand outcomes over.
LEMMA PollOutcome ==
    ASSUME IndInv, OutcomeInv, NEW c \in Clients,
           PollCompleted(c) \/ PollFailed(c)
    PROVE  OutcomeInv'
<1>1. UNCHANGED <<next_id, pending>>
  BY DEF PollCompleted, PollFailed
<1>2. CASE PollCompleted(c)
  <2>1. /\ UNCHANGED <<failed, gaveUp>>
        /\ answered' = [answered EXCEPT ![c] = answered[c] \o completed[c]]
        /\ completed' = [completed EXCEPT ![c] = << >>]
    BY <1>2 DEF PollCompleted
  <2>2. answered[c] \in Seq(ResponseType) /\ completed[c] \in Seq(ResponseType)
    BY DEF IndInv, TypeOK
  <2>3. (answered[c] \o completed[c]) \o << >> = answered[c] \o completed[c]
    <3>1. answered[c] \o completed[c] \in Seq(ResponseType)
      BY <2>2
    <3> QED
      BY <3>1, ConcatEmptySeq
  <2>4. Answers(c)' = Answers(c)
    BY <2>1, <2>3 DEF Answers, IndInv, TypeOK
  <2>5. \A d \in Clients \ {c} : Answers(d)' = Answers(d)
    BY <2>1 DEF Answers, IndInv, TypeOK
  <2>6. \A d \in Clients : Failures(d)' = Failures(d)
    BY <2>1 DEF Failures
  <2>7. FailedApart'
    BY <2>1 DEF OutcomeInv, FailedApart
  <2> QED
    BY <1>1, <2>1, <2>4, <2>5, <2>6, <2>7, OutcomeByClient
<1>3. CASE PollFailed(c)
  <2>1. /\ UNCHANGED <<completed, answered>>
        /\ gaveUp' = [gaveUp EXCEPT ![c] = gaveUp[c] \cup failed[c]]
        /\ failed' = [failed EXCEPT ![c] = {}]
    BY <1>3 DEF PollFailed
  <2>2. gaveUp \in [Clients -> SUBSET Nat] /\ failed \in [Clients -> SUBSET Nat]
    BY DEF OutcomeInv, IndInv, TypeOK
  <2>3. gaveUp' \in [Clients -> SUBSET Nat]
    BY <2>1, <2>2
  <2>4. \A d \in Clients : Failures(d)' = Failures(d)
    BY <2>1, <2>2 DEF Failures
  <2>5. \A d \in Clients : Answers(d)' = Answers(d)
    BY <2>1 DEF Answers
  <2>6. FailedApart'
    BY <2>1, <2>2 DEF OutcomeInv, FailedApart
  <2> QED
    BY <1>1, <2>3, <2>4, <2>5, <2>6, OutcomeByClient
<1> QED
  BY <1>2, <1>3

\* A step that leaves the client's side alone.
LEMMA OutcomeUntouched ==
    ASSUME OutcomeInv, UNCHANGED <<client, history>>
    PROVE  OutcomeInv'
<1>1. UNCHANGED <<next_id, pending, completed, failed, answered, gaveUp>>
  BY DEF client, history
<1>2. \A d \in Clients : Failures(d)' = Failures(d) /\ Answers(d)' = Answers(d)
  BY <1>1 DEF Failures, Answers
<1>3. FailedApart'
  BY <1>1 DEF OutcomeInv, FailedApart
<1> QED
  BY <1>1, <1>2, <1>3, OutcomeByClient

\* RpcClient::new
LEMMA InitOutcome == Init => OutcomeInv
<1> SUFFICES ASSUME Init PROVE OutcomeInv
  OBVIOUS
<1>1. \A c \in Clients : /\ Answers(c) = << >> /\ Failures(c) = {}
                         /\ DOMAIN pending[c] = {} /\ next_id[c] = 0
  BY DEF Init, Answers, Failures, NoCalls
<1>2. \A c \in Clients :
         Outcome(Answers(c), Failures(c), DOMAIN pending[c], next_id[c])
  BY <1>1 DEF Outcome
<1>3. FailedApart /\ gaveUp \in [Clients -> SUBSET Nat]
  BY DEF Init, FailedApart
<1> QED
  BY <1>2, <1>3, OutcomeByClient

\* Every step keeps the outcomes apart.
LEMMA NextOutcome == IndInv /\ OutcomeInv /\ [Next]_vars => OutcomeInv'
<1> SUFFICES ASSUME IndInv, OutcomeInv, [Next]_vars PROVE OutcomeInv'
  OBVIOUS
<1>1. CASE UNCHANGED vars
  BY <1>1, OutcomeUntouched DEF vars
<1>2. ASSUME NEW c \in Clients, Execute(c) \/ Replay(c)
      PROVE  OutcomeInv'
  BY <1>2, OutcomeUntouched DEF Execute, Replay
<1> QED
  BY <1>1, <1>2, CallOutcome, OnResponseOutcome, OnTickOutcome, PollOutcome
     DEF Next

LEMMA OutcomeInvariance == Spec => []OutcomeInv
BY InitOutcome, NextOutcome, Invariance, PTL DEF Spec

\* A call ends once, for any number of calls and attempts: completed once,
\* or failed, or neither yet; what on_datagram brings late or repeated
\* changes nothing, also after on_tick has given the call up.
THEOREM OneOutcomeHolds == Spec => []OneOutcome
<1>1. OutcomeInv => OneOutcome
  BY DEF OutcomeInv
<1> QED
  BY <1>1, OutcomeInvariance, PTL

-----------------------------------------------------------------------------
(* Orders *)

\* The order of one client's calls: q is the queue of its requests, T the
\* ids its server has executed, when it has made the calls below n.
Ordered(q, T, n) ==
    /\ \A i \in 1 .. Len(q) :
          /\ q[i].id \in 0 .. n - 1
          /\ \A y \in 0 .. q[i].id - 1 : y \in T \/ QueuedBefore(q, i - 1, y)
    /\ \A y \in 0 .. n - 1 : y \in T \/ QueuedBefore(q, Len(q), y)
    /\ T \subseteq 0 .. n - 1
    /\ \A z \in T : \A y \in 0 .. z - 1 : y \in T

\* OrderInv, client by client.
LEMMA OrderByClient ==
    /\ OrderInv <=>
         /\ \A c \in Clients : Ordered(requests[c], DOMAIN seen[c], next_id[c])
         /\ IssuedInv /\ ProgramOrder /\ ExecutedAfterCall
    /\ OrderInv' <=>
         /\ \A c \in Clients : Ordered(requests'[c], DOMAIN seen'[c], next_id'[c])
         /\ IssuedInv' /\ ProgramOrder' /\ ExecutedAfterCall'
BY DEF OrderInv, QueueOrdered, EveryCallSent, OnlyCallsSent, SeenClosed, Ordered

\* What is queued in a longer queue, and in one that has lost its head.
LEMMA QueuedFacts ==
    ASSUME NEW q \in Seq(RequestType)
    PROVE  /\ \A a \in Seq(RequestType), i \in 0 .. Len(q) : \A y :
                 QueuedBefore(q, i, y) => QueuedBefore(q \o a, i, y)
           /\ \A i \in Nat, j \in Nat : \A y :
                 i <= j /\ QueuedBefore(q, i, y) => QueuedBefore(q, j, y)
           /\ q # << >> =>
                 \A i \in 1 .. Len(q) : \A y :
                    QueuedBefore(q, i, y) =>
                       y = Head(q).id \/ QueuedBefore(Tail(q), i - 1, y)
<1>1. Len(q) \in Nat
  OBVIOUS
<1>2. ASSUME NEW a \in Seq(RequestType), NEW i \in 0 .. Len(q), NEW y,
             QueuedBefore(q, i, y)
      PROVE  QueuedBefore(q \o a, i, y)
  <2>1. \A m \in 1 .. i : (q \o a)[m] = q[m]
    BY <1>1
  <2> QED
    BY <1>2, <2>1 DEF QueuedBefore
<1>3. ASSUME NEW i \in Nat, NEW j \in Nat, NEW y, i <= j, QueuedBefore(q, i, y)
      PROVE  QueuedBefore(q, j, y)
  BY <1>3 DEF QueuedBefore
<1>4. ASSUME q # << >>, NEW i \in 1 .. Len(q), NEW y, QueuedBefore(q, i, y)
      PROVE  y = Head(q).id \/ QueuedBefore(Tail(q), i - 1, y)
  <2>1. PICK m \in 1 .. i : q[m].id = y
    BY <1>4 DEF QueuedBefore
  <2>2. CASE m = 1
    BY <2>1, <2>2, <1>4
  <2>3. CASE m # 1
    <3>1. m - 1 \in 1 .. i - 1 /\ m - 1 \in 1 .. Len(q) - 1
      BY <1>1, <1>4, <2>1, <2>3
    <3>2. Tail(q)[m - 1] = q[m - 1 + 1]
      BY <1>4, <3>1
    <3>3. m - 1 + 1 = m
      BY <2>1
    <3> QED
      BY <2>1, <3>1, <3>2, <3>3 DEF QueuedBefore
  <2> QED
    BY <2>2, <2>3
<1> QED
  BY <1>2, <1>3, <1>4

\* on_tick: copies of calls that were made go to the end of the queue.
LEMMA OrderedRetry ==
    ASSUME NEW q \in Seq(RequestType), NEW T, NEW n \in Nat, Ordered(q, T, n),
           NEW a \in Seq(RequestType),
           \A i \in 1 .. Len(a) : a[i].id \in 0 .. n - 1
    PROVE  Ordered(q \o a, T, n)
<1> DEFINE b == q \o a
<1>1. /\ Len(q) \in Nat /\ Len(a) \in Nat /\ Len(b) = Len(q) + Len(a)
      /\ \A i \in 1 .. Len(q) : b[i] = q[i]
      /\ \A i \in Len(q) + 1 .. Len(q) + Len(a) : b[i] = a[i - Len(q)]
      /\ b \in Seq(RequestType)
  OBVIOUS
<1>2. \A i \in 0 .. Len(q) : \A y : QueuedBefore(q, i, y) => QueuedBefore(b, i, y)
  BY QueuedFacts
<1> HIDE DEF b
<1>3. \A j \in Nat : \A y : Len(q) <= j /\ y \in 0 .. n - 1
                          => y \in T \/ QueuedBefore(b, j, y)
  <2>1. \A y \in 0 .. n - 1 : y \in T \/ QueuedBefore(b, Len(q), y)
    BY <1>1, <1>2 DEF Ordered
  <2> QED
    BY <2>1, <1>1, QueuedFacts
<1>4. ASSUME NEW i \in 1 .. Len(b)
      PROVE  /\ b[i].id \in 0 .. n - 1
             /\ \A y \in 0 .. b[i].id - 1 : y \in T \/ QueuedBefore(b, i - 1, y)
  <2>1. CASE i \in 1 .. Len(q)
    <3>1. b[i] = q[i] /\ i - 1 \in 0 .. Len(q)
      BY <2>1, <1>1
    <3> QED
      BY <2>1, <3>1, <1>2 DEF Ordered
  <2>2. CASE i \in Len(q) + 1 .. Len(q) + Len(a)
    <3>1. b[i].id \in 0 .. n - 1 /\ Len(q) <= i - 1 /\ i - 1 \in Nat
      <4>1. /\ i - Len(q) \in 1 .. Len(a)
            /\ Len(q) <= i - 1 /\ i - 1 \in Nat
        BY <2>2, <1>1
      <4>2. b[i] = a[i - Len(q)]
        BY <2>2, <1>1
      <4>3. a[i - Len(q)].id \in 0 .. n - 1
        BY Zenon, <4>1
      <4> QED
        BY <4>1, <4>2, <4>3
    <3>2. \A y \in 0 .. b[i].id - 1 : y \in 0 .. n - 1
      BY <3>1
    <3>3. \A y \in 0 .. n - 1 : y \in T \/ QueuedBefore(b, i - 1, y)
      BY <3>1, <1>3
    <3> QED
      BY <3>1, <3>2, <3>3
  <2> QED
    BY <2>1, <2>2, <1>1
<1>5. \A y \in 0 .. n - 1 : y \in T \/ QueuedBefore(b, Len(b), y)
  BY <1>1, <1>3
<1>6. T \subseteq 0 .. n - 1 /\ \A z \in T : \A y \in 0 .. z - 1 : y \in T
  BY DEF Ordered
<1> QED
  BY <1>4, <1>5, <1>6 DEF Ordered, b

\* call: the new call goes behind all that were made before it.
LEMMA OrderedCall ==
    ASSUME NEW q \in Seq(RequestType), NEW T, NEW n \in Nat, Ordered(q, T, n),
           NEW x \in RequestType, x.id = n
    PROVE  Ordered(Append(q, x), T, n + 1)
<1> DEFINE b == Append(q, x)
<1>1. /\ Len(q) \in Nat /\ Len(b) = Len(q) + 1
      /\ \A i \in 1 .. Len(q) : b[i] = q[i]
      /\ b[Len(q) + 1] = x /\ b \in Seq(RequestType)
  OBVIOUS
<1> HIDE DEF b
<1>2. \A i \in 0 .. Len(q) : \A y : QueuedBefore(q, i, y) => QueuedBefore(b, i, y)
  BY <1>1 DEF QueuedBefore
<1>3. ASSUME NEW i \in 1 .. Len(b)
      PROVE  /\ b[i].id \in 0 .. n + 1 - 1
             /\ \A y \in 0 .. b[i].id - 1 : y \in T \/ QueuedBefore(b, i - 1, y)
  <2>1. CASE i \in 1 .. Len(q)
    <3>1. b[i] = q[i] /\ i - 1 \in 0 .. Len(q)
      BY <2>1, <1>1
    <3>2. q[i].id \in 0 .. n + 1 - 1
      BY <2>1 DEF Ordered
    <3> QED
      BY <2>1, <3>1, <3>2, <1>2 DEF Ordered
  <2>2. CASE i = Len(q) + 1
    <3>1. b[i].id = n /\ i - 1 = Len(q) /\ n \in 0 .. n + 1 - 1
      BY <2>2, <1>1
    <3>2. \A y \in 0 .. n - 1 : y \in T \/ QueuedBefore(b, Len(q), y)
      BY <1>1, <1>2 DEF Ordered
    <3> QED
      BY <3>1, <3>2
  <2> QED
    BY <2>1, <2>2, <1>1
<1>4. ASSUME NEW y \in 0 .. n + 1 - 1
      PROVE  y \in T \/ QueuedBefore(b, Len(b), y)
  <2>1. CASE y = n
    BY <2>1, <1>1 DEF QueuedBefore
  <2>2. CASE y \in 0 .. n - 1
    <3>1. y \in T \/ QueuedBefore(b, Len(q), y)
      BY <2>2, <1>1, <1>2 DEF Ordered
    <3> QED
      BY <3>1, <1>1 DEF QueuedBefore
  <2> QED
    BY <2>1, <2>2
<1>5. T \subseteq 0 .. n + 1 - 1 /\ \A z \in T : \A y \in 0 .. z - 1 : y \in T
  BY DEF Ordered
<1> QED
  BY <1>3, <1>4, <1>5 DEF Ordered, b

\* on_datagram of the server: everything called before the request at the
\* head has been executed, and if the request is new, nothing called later.
LEMMA OrderedServe ==
    ASSUME NEW q \in Seq(RequestType), NEW T, NEW n \in Nat, Ordered(q, T, n),
           q # << >>
    PROVE  /\ Head(q).id \in 0 .. n - 1
           /\ Ordered(Tail(q), T \cup {Head(q).id}, n)
           /\ Head(q).id \notin T => \A z \in T : z < Head(q).id
<1> DEFINE b == Tail(q)
           h == Head(q).id
           U == T \cup {h}
<1>1. /\ Len(q) \in Nat /\ Len(q) > 0 /\ Len(b) = Len(q) - 1
      /\ \A i \in 1 .. Len(b) : b[i] = q[i + 1]
      /\ Head(q) = q[1] /\ 1 \in 1 .. Len(q)
  OBVIOUS
<1>2. \A i \in 1 .. Len(q) : \A y :
         QueuedBefore(q, i, y) => y = h \/ QueuedBefore(b, i - 1, y)
  BY QueuedFacts
<1> HIDE DEF b
<1>3. h \in 0 .. n - 1 /\ \A y \in 0 .. h - 1 : y \in T
  <2>1. /\ q[1].id \in 0 .. n - 1
        /\ \A y \in 0 .. q[1].id - 1 : y \in T \/ QueuedBefore(q, 1 - 1, y)
    BY <1>1 DEF Ordered
  <2>2. \A y : ~QueuedBefore(q, 1 - 1, y)
    BY DEF QueuedBefore
  <2> QED
    BY <1>1, <2>1, <2>2
<1>4. T \subseteq 0 .. n - 1 /\ \A z \in T : \A y \in 0 .. z - 1 : y \in T
  BY DEF Ordered
<1> HIDE DEF h
<1>5. h \notin T => \A z \in T : z < h
  <2> SUFFICES ASSUME h \notin T, NEW z \in T, ~(z < h) PROVE FALSE
    OBVIOUS
  <2>1. z \in Nat /\ h \in Nat /\ z # h
    BY <1>3, <1>4
  <2>2. h \in 0 .. z - 1
    BY <2>1
  <2> QED
    BY <2>2, <1>4
<1>6. U \subseteq 0 .. n - 1 /\ \A z \in U : \A y \in 0 .. z - 1 : y \in U
  BY <1>3, <1>4
<1>7. ASSUME NEW i \in 1 .. Len(b)
      PROVE  /\ b[i].id \in 0 .. n - 1
             /\ \A y \in 0 .. b[i].id - 1 : y \in U \/ QueuedBefore(b, i - 1, y)
  <2>1. i + 1 \in 1 .. Len(q) /\ i \in 1 .. Len(q) /\ b[i] = q[i + 1]
        /\ i + 1 - 1 = i
    BY <1>1
  <2>2. /\ b[i].id \in 0 .. n - 1
        /\ \A y \in 0 .. b[i].id - 1 : y \in T \/ QueuedBefore(q, i, y)
    BY <2>1 DEF Ordered
  <2> QED
    BY <2>1, <2>2, <1>2
<1>8. \A y \in 0 .. n - 1 : y \in U \/ QueuedBefore(b, Len(b), y)
  <2>1. \A y \in 0 .. n - 1 : y \in T \/ QueuedBefore(q, Len(q), y)
    BY DEF Ordered
  <2>2. Len(q) \in 1 .. Len(q)
    BY <1>1
  <2> QED
    BY <2>1, <2>2, <1>1, <1>2
<1>9. Ordered(b, U, n)
  BY <1>6, <1>7, <1>8 DEF Ordered
<1> QED
  BY <1>3, <1>5, <1>9 DEF b, h

\* A step that executes nothing and makes no call.
LEMMA OrderKept ==
    ASSUME OrderInv, UNCHANGED <<next_id, seen, log, issued>>,
           \A c \in Clients : Ordered(requests'[c], DOMAIN seen[c], next_id[c])
    PROVE  OrderInv'
<1>1. IssuedInv' /\ ProgramOrder' /\ ExecutedAfterCall'
  BY DEF OrderInv, IssuedInv, ProgramOrder, ExecutedAfterCall
<1> QED
  BY <1>1, OrderByClient

\* Every execution in the log is of a client's call that was made.
LEMMA LogFacts ==
    ASSUME IndInv, OrderInv, NEW i \in 1 .. Len(log)
    PROVE  /\ log[i].client \in Clients
           /\ log[i].id \in DOMAIN seen[log[i].client]
           /\ log[i].id \in 0 .. next_id[log[i].client] - 1
<1>1. log[i] \in Execution
  BY DEF IndInv, TypeOK
<1>2. log[i].client \in Clients
  BY <1>1 DEF Execution
<1>3. log[i].id \in DOMAIN seen[log[i].client]
  BY DEF IndInv, DedupInv, LogInTable
<1> QED
  BY <1>2, <1>3 DEF OrderInv, OnlyCallsSent

\* RpcClient::call
LEMMA CallOrder ==
    ASSUME IndInv, OrderInv, NEW c \in Clients, NEW op \in Op, Call(c, op)
    PROVE  OrderInv'
<1> DEFINE n == next_id[c]
           x == Request(n, op)
<1>1. /\ n \in Nat /\ next_id' = [next_id EXCEPT ![c] = n + 1]
      /\ requests' = [requests EXCEPT ![c] = Append(requests[c], x)]
      /\ issued' = [issued EXCEPT ![c] = With(issued[c], n, Len(log))]
      /\ seen' = seen /\ log' = log
  BY DEF Call, IdAfter, server, IndInv, TypeOK
<1>2. x \in RequestType /\ x.id = n
  BY <1>1 DEF Request, RequestType
<1> HIDE DEF x
<1>3. \A d \in Clients : /\ requests[d] \in Seq(RequestType)
                         /\ Ordered(requests[d], DOMAIN seen[d], next_id[d])
  BY OrderByClient DEF IndInv, TypeOK
<1>4. /\ requests'[c] = Append(requests[c], x) /\ next_id'[c] = n + 1
      /\ \A d \in Clients \ {c} :
            requests'[d] = requests[d] /\ next_id'[d] = next_id[d]
  BY <1>1 DEF IndInv, TypeOK
<1>5. Ordered(Append(requests[c], x), DOMAIN seen[c], n + 1)
  BY <1>1, <1>2, <1>3, OrderedCall
<1>6. \A d \in Clients : Ordered(requests'[d], DOMAIN seen'[d], next_id'[d])
  BY <1>1, <1>3, <1>4, <1>5
<1>7. /\ issued' = [d \in Clients |-> issued'[d]]
      /\ issued'[c] = With(issued[c], n, Len(log))
      /\ \A d \in Clients \ {c} : issued'[d] = issued[d]
  BY <1>1 DEF OrderInv, IssuedInv
<1>8. /\ DOMAIN issued'[c] = 0 .. n /\ issued'[c][n] = Len(log)
      /\ \A id \in 0 .. n - 1 : issued'[c][id] = issued[c][id]
  <2>1. DOMAIN issued[c] = 0 .. n - 1
    BY DEF OrderInv, IssuedInv
  <2>2. 0 .. n = 0 .. n - 1 \cup {n} /\ n \notin 0 .. n - 1
    BY <1>1
  <2> QED
    BY <1>7, <2>1, <2>2 DEF With
<1>9. IssuedInv'
  <2>1. Len(log) \in Nat
    BY DEF IndInv, TypeOK
  <2>2. \A d \in Clients :
           /\ DOMAIN issued[d] = 0 .. next_id[d] - 1
           /\ \A id \in DOMAIN issued[d] : issued[d][id] \in 0 .. Len(log)
    BY DEF OrderInv, IssuedInv
  <2>3. /\ DOMAIN issued'[c] = 0 .. next_id'[c] - 1
        /\ \A id \in DOMAIN issued'[c] : issued'[c][id] \in 0 .. Len(log')
    <3>1. \A id \in 0 .. n : id \in 0 .. n - 1 \/ id = n
      BY <1>1
    <3>2. next_id'[c] - 1 = n
      BY <1>1, <1>4
    <3>3. issued'[c][n] \in 0 .. Len(log)
      BY <1>8, <2>1
    <3>4. \A id \in 0 .. n - 1 : issued'[c][id] \in 0 .. Len(log)
      BY <1>8, <2>2
    <3>5. DOMAIN issued'[c] = 0 .. next_id'[c] - 1
      BY <1>8, <3>2
    <3>6. Len(log') = Len(log)
      BY <1>1
    <3> HIDE DEF n
    <3> QED
      BY <1>8, <3>1, <3>3, <3>4, <3>5, <3>6
  <2> QED
    BY <1>1, <1>4, <1>7, <2>2, <2>3 DEF IssuedInv
<1>10. ExecutedAfterCall'
  <2> SUFFICES ASSUME NEW i \in 1 .. Len(log)
               PROVE  i > issued'[log[i].client][log[i].id]
    BY <1>1 DEF ExecutedAfterCall
  <2>1. log[i].client \in Clients /\ log[i].id \in 0 .. next_id[log[i].client] - 1
    BY LogFacts
  <2>2. issued'[log[i].client][log[i].id] = issued[log[i].client][log[i].id]
    BY <1>7, <1>8, <2>1
  <2> QED
    BY <2>2 DEF OrderInv, ExecutedAfterCall
<1>11. ProgramOrder'
  BY <1>1 DEF OrderInv, ProgramOrder
<1> QED
  BY <1>6, <1>9, <1>10, <1>11, OrderByClient

\* What on_tick sends again are calls that were made.
LEMMA RetrySends ==
    ASSUME IndInv, NEW c \in Clients,
           NEW expired \in SUBSET DOMAIN pending[c], OnTick(c, expired)
    PROVE  \E a \in Seq(RequestType) :
              /\ requests' = [requests EXCEPT ![c] = requests[c] \o a]
              /\ \A i \in 1 .. Len(a) : a[i].id \in 0 .. next_id[c] - 1
<1> DEFINE R == expired \ ToFail(c, expired)
           k == Cardinality(R)
<1>1. PICK order \in Orders(R) :
         requests' = [requests EXCEPT ![c] = requests[c] \o
            [i \in DOMAIN order |-> Request(order[i], pending[c][order[i]].op)]]
  BY DEF OnTick, Retry
<1> DEFINE a == [i \in 1 .. k |-> Request(order[i], pending[c][order[i]].op)]
<1>2. order \in [1 .. k -> R] /\ DOMAIN order = 1 .. k
  BY DEF Orders
<1>3. R \subseteq DOMAIN pending[c] /\ R \subseteq 0 .. next_id[c] - 1
  BY DEF IndInv, PendingIssued
<1>4. k \in Nat
  <2>1. next_id[c] - 1 \in Int /\ 0 \in Int
    BY DEF IndInv, TypeOK
  <2>2. IsFiniteSet(R)
    BY <2>1, <1>3, FS_Interval, FS_Subset
  <2> QED
    BY <2>2, FS_CardinalityType
<1> HIDE DEF k, R
<1>5. \A id \in DOMAIN pending[c] : id \in Nat /\ pending[c][id].op \in Op
  BY DEF IndInv, TypeOK, IsMap
<1>6. \A i \in 1 .. k : /\ Request(order[i], pending[c][order[i]].op) \in RequestType
                        /\ Request(order[i], pending[c][order[i]].op).id = order[i]
  BY <1>2, <1>3, <1>5 DEF Request, RequestType
<1>7. a \in Seq(RequestType) /\ Len(a) = k
  BY <1>4, <1>6
<1>8. \A i \in 1 .. Len(a) : a[i].id \in 0 .. next_id[c] - 1
  BY <1>2, <1>3, <1>6, <1>7
<1>9. requests' = [requests EXCEPT ![c] = requests[c] \o a]
  BY <1>1, <1>2
<1> HIDE DEF a
<1> QED
  BY <1>7, <1>8, <1>9

\* RpcClient::on_tick
LEMMA OnTickOrder ==
    ASSUME IndInv, OrderInv, NEW c \in Clients,
           NEW expired \in SUBSET DOMAIN pending[c], OnTick(c, expired)
    PROVE  OrderInv'
<1>1. PICK a \in Seq(RequestType) :
         /\ requests' = [requests EXCEPT ![c] = requests[c] \o a]
         /\ \A i \in 1 .. Len(a) : a[i].id \in 0 .. next_id[c] - 1
  BY RetrySends
<1>2. UNCHANGED <<next_id, seen, log, issued>>
  BY DEF OnTick, Retry, server, history
<1>3. \A d \in Clients : /\ requests[d] \in Seq(RequestType) /\ next_id[d] \in Nat
                         /\ Ordered(requests[d], DOMAIN seen[d], next_id[d])
  BY OrderByClient DEF IndInv, TypeOK
<1>4. /\ requests'[c] = requests[c] \o a
      /\ \A d \in Clients \ {c} : requests'[d] = requests[d]
  BY <1>1 DEF IndInv, TypeOK
<1>5. Ordered(requests[c] \o a, DOMAIN seen[c], next_id[c])
  BY <1>1, <1>3, OrderedRetry
<1> QED
  BY <1>2, <1>3, <1>4, <1>5, OrderKept

\* RpcServer::on_datagram of a repeated request
LEMMA ReplayOrder ==
    ASSUME IndInv, OrderInv, NEW c \in Clients, Replay(c)
    PROVE  OrderInv'
<1> DEFINE q == requests[c]
<1>1. /\ q # << >> /\ Head(q).id \in DOMAIN seen[c]
      /\ requests' = [requests EXCEPT ![c] = Tail(q)]
      /\ UNCHANGED <<next_id, seen, log, issued>>
  BY DEF Replay, Table, client, server, history
<1>2. \A d \in Clients : /\ requests[d] \in Seq(RequestType) /\ next_id[d] \in Nat
                         /\ Ordered(requests[d], DOMAIN seen[d], next_id[d])
  BY OrderByClient DEF IndInv, TypeOK
<1>3. Ordered(Tail(q), DOMAIN seen[c] \cup {Head(q).id}, next_id[c])
  BY <1>1, <1>2, OrderedServe
<1>4. DOMAIN seen[c] \cup {Head(q).id} = DOMAIN seen[c]
  BY <1>1
<1>5. /\ requests'[c] = Tail(q)
      /\ \A d \in Clients \ {c} : requests'[d] = requests[d]
  BY <1>1 DEF IndInv, TypeOK
<1> QED
  BY <1>1, <1>2, <1>3, <1>4, <1>5, OrderKept

\* RpcServer::on_datagram of a new request: it is the client's next one.
LEMMA ExecuteOrder ==
    ASSUME IndInv, OrderInv, NEW c \in Clients, Execute(c)
    PROVE  OrderInv'
<1> DEFINE q == requests[c]
           h == Head(q).id
           x == [client |-> c, id |-> h, op |-> Head(q).op,
                 result |-> ApplyResult(store, Head(q).op)]
           a == Response(h, ApplyResult(store, Head(q).op))
<1>1. /\ q # << >> /\ h \notin DOMAIN seen[c]
      /\ requests' = [requests EXCEPT ![c] = Tail(q)]
      /\ log' = Append(log, x)
      /\ seen' = [seen EXCEPT ![c] = With(seen[c], h, a)]
      /\ next_id' = next_id /\ issued' = issued
  BY DEF Execute, StoreOf, Table, client, history
<1>2. /\ DOMAIN seen'[c] = DOMAIN seen[c] \cup {h}
      /\ \A d \in Clients \ {c} : seen'[d] = seen[d]
      /\ requests'[c] = Tail(q)
      /\ \A d \in Clients \ {c} : requests'[d] = requests[d]
  BY <1>1 DEF IndInv, TypeOK, With
<1>3. /\ Len(log) \in Nat /\ Len(log') = Len(log) + 1
      /\ \A i \in 1 .. Len(log) : log'[i] = log[i]
      /\ log'[Len(log) + 1] = x
  <2>1. log \in Seq(Execution)
    BY DEF IndInv, TypeOK
  <2> HIDE DEF x
  <2> QED
    BY <2>1, <1>1
<1>4. x.client = c /\ x.id = h
  OBVIOUS
<1> HIDE DEF x, a, h
<1>5. \A d \in Clients : /\ requests[d] \in Seq(RequestType) /\ next_id[d] \in Nat
                         /\ Ordered(requests[d], DOMAIN seen[d], next_id[d])
  BY OrderByClient DEF IndInv, TypeOK
<1>6. /\ h \in 0 .. next_id[c] - 1
      /\ Ordered(Tail(q), DOMAIN seen[c] \cup {h}, next_id[c])
      /\ \A z \in DOMAIN seen[c] : z < h
  BY <1>1, <1>5, OrderedServe DEF h
<1>7. \A d \in Clients : Ordered(requests'[d], DOMAIN seen'[d], next_id'[d])
  BY <1>1, <1>2, <1>5, <1>6
<1>8. \A i \in 1 .. Len(log') : i \in 1 .. Len(log) \/ i = Len(log) + 1
  BY <1>3
<1>9. IssuedInv'
  <2>1. \A k \in 0 .. Len(log) : k \in 0 .. Len(log')
    BY <1>3
  <2> QED
    BY <1>1, <2>1 DEF OrderInv, IssuedInv
<1>10. ProgramOrder'
  <2> SUFFICES ASSUME NEW i \in 1 .. Len(log'), NEW j \in 1 .. Len(log'),
                      i < j, log'[i].client = log'[j].client
               PROVE  log'[i].id < log'[j].id
    BY DEF ProgramOrder
  <2>1. i \in 1 .. Len(log)
    BY <1>3, <1>8
  <2>2. CASE j \in 1 .. Len(log)
    BY <2>1, <2>2, <1>3 DEF OrderInv, ProgramOrder
  <2>3. CASE j = Len(log) + 1
    <3>1. log[i].client = c /\ log'[j].id = h
      BY <2>1, <2>3, <1>3, <1>4
    <3>2. log[i].id \in DOMAIN seen[c]
      BY <2>1, <3>1, LogFacts
    <3> QED
      BY <2>1, <3>1, <3>2, <1>3, <1>6
  <2> QED
    BY <2>2, <2>3, <1>8
<1>11. ExecutedAfterCall'
  <2> SUFFICES ASSUME NEW i \in 1 .. Len(log')
               PROVE  i > issued[log'[i].client][log'[i].id]
    BY <1>1 DEF ExecutedAfterCall
  <2>1. CASE i \in 1 .. Len(log)
    BY <2>1, <1>3 DEF OrderInv, ExecutedAfterCall
  <2>2. CASE i = Len(log) + 1
    <3>1. issued[c][h] \in 0 .. Len(log)
      BY <1>6 DEF OrderInv, IssuedInv
    <3> QED
      BY <2>2, <3>1, <1>3, <1>4
  <2> QED
    BY <2>1, <2>2, <1>8
<1> QED
  BY <1>7, <1>9, <1>10, <1>11, OrderByClient

\* RpcClient::new and RpcServer::new
LEMMA InitOrder == Init => OrderInv
<1> SUFFICES ASSUME Init PROVE OrderInv
  OBVIOUS
<1>1. DOMAIN NoCalls = {}
  BY DEF NoCalls
<1>2. \A c \in Clients : /\ requests[c] = << >> /\ DOMAIN seen[c] = {}
                         /\ next_id[c] = 0 /\ issued[c] = NoCalls
  BY <1>1 DEF Init
<1>3. \A c \in Clients : Ordered(requests[c], DOMAIN seen[c], next_id[c])
  BY <1>2 DEF Ordered
<1>4. IssuedInv
  BY <1>1, <1>2 DEF Init, IssuedInv
<1>5. ProgramOrder /\ ExecutedAfterCall
  BY DEF Init, ProgramOrder, ExecutedAfterCall
<1> QED
  BY <1>3, <1>4, <1>5, OrderByClient

\* Every step keeps the order.
LEMMA NextOrder == IndInv /\ OrderInv /\ [Next]_vars => OrderInv'
<1> SUFFICES ASSUME IndInv, OrderInv, [Next]_vars PROVE OrderInv'
  OBVIOUS
<1>1. ASSUME UNCHANGED <<next_id, seen, log, issued, requests>>
      PROVE  OrderInv'
  BY <1>1, OrderKept, OrderByClient
<1>2. CASE UNCHANGED vars
  BY <1>1, <1>2 DEF vars, client, server, history
<1>3. ASSUME NEW c \in Clients, OnResponse(c) \/ PollCompleted(c) \/ PollFailed(c)
      PROVE  OrderInv'
  BY <1>1, <1>3 DEF OnResponse, PollCompleted, PollFailed, server, history
<1> QED
  BY <1>2, <1>3, CallOrder, OnTickOrder, ReplayOrder, ExecuteOrder DEF Next

\* The order of calls is kept in every reachable state.
THEOREM OrderInvariance == Spec => []OrderInv
BY InitOrder, NextOrder, Invariance, PTL DEF Spec

\* Program order, for any number of calls and attempts: however on_tick
\* repeats and reorders the pending calls, the server executes the calls of
\* a client in the order in which call() was made.
THEOREM ProgramOrderHolds == Spec => []ProgramOrder
<1>1. OrderInv => ProgramOrder
  BY DEF OrderInv
<1> QED
  BY <1>1, OrderInvariance, PTL

-----------------------------------------------------------------------------
(* The two stores *)

\* A nonempty set of naturals has a least element.
LEMMA LeastOf ==
    ASSUME NEW T \in SUBSET Nat, T # {}
    PROVE  \E x \in T : \A y \in T : x <= y
<1> DEFINE R == OpToRel(<, Nat)
<1>1. IsWellFoundedOn(R, Nat)
  BY NatLessThanWellFounded
<1>2. \A x, y \in Nat : <<y, x>> \in R <=> y < x
  BY DEF OpToRel
<1> HIDE DEF R
<1>3. PICK x \in T : \A y \in T : ~(<<y, x>> \in R)
  BY <1>1, WFMin, Zenon
<1>4. \A y \in T : ~(y < x)
  BY <1>2, <1>3
<1> QED
  BY <1>4

\* f lists the numbers of S from the least to the greatest.
Lists(f, S) ==
    /\ f \in [1 .. Cardinality(S) -> S]
    /\ \A i, j \in 1 .. Cardinality(S) : i < j => f[i] < f[j]

\* The sets of numbers up to n have such a list if those up to n - 1 do.
LEMMA OneMore ==
    ASSUME NEW n \in Nat \ {0}, NEW S \in SUBSET (1 .. n),
           \A T \in SUBSET (1 .. n - 1) : \E f : Lists(f, T)
    PROVE  \E f : Lists(f, S)
<1>1. CASE n \notin S
  <2>1. S \in SUBSET (1 .. n - 1)
    BY <1>1
  <2> QED
    BY <2>1
<1>2. CASE n \in S
  <2> DEFINE T == S \ {n}
             k == Cardinality(T)
  <2>1. T \in SUBSET (1 .. n - 1)
    OBVIOUS
  <2>2. IsFiniteSet(T)
    <3>1. IsFiniteSet(1 .. n - 1)
      BY FS_Interval
    <3> QED
      BY <2>1, <3>1, FS_Subset
  <2>3. k \in Nat /\ Cardinality(S) = k + 1
    <3>1. S = T \cup {n} /\ n \notin T
      BY <1>2
    <3> HIDE DEF T
    <3> QED
      BY <2>2, <3>1, FS_AddElement, FS_CardinalityType
  <2>4. PICK f : Lists(f, T)
    BY <2>1
  <2>5. /\ f \in [1 .. k -> T]
        /\ \A i, j \in 1 .. k : i < j => f[i] < f[j]
    BY <2>4 DEF Lists
  <2> HIDE DEF k
  <2> DEFINE g == [i \in 1 .. k + 1 |-> IF i = k + 1 THEN n ELSE f[i]]
  <2>6. \A i \in 1 .. k + 1 : i \in 1 .. k \/ i = k + 1
    BY <2>3
  <2>7. \A i \in 1 .. k : g[i] = f[i] /\ f[i] \in S /\ f[i] \in 1 .. n - 1
    <3>1. \A i \in 1 .. k : f[i] \in T
      BY <2>5
    <3>2. \A i \in 1 .. k : i \in 1 .. k + 1 /\ i # k + 1
      BY <2>3
    <3> QED
      BY <2>1, <3>1, <3>2
  <2>8. g[k + 1] = n
    BY <2>3
  <2>9. g \in [1 .. k + 1 -> S]
    BY <1>2, <2>6, <2>7
  <2> HIDE DEF g
  <2>10. ASSUME NEW i \in 1 .. k + 1, NEW j \in 1 .. k + 1, i < j
         PROVE  g[i] < g[j]
    <3>1. CASE j \in 1 .. k
      <4>1. i \in 1 .. k
        BY <3>1, <2>10, <2>3
      <4> QED
        BY <3>1, <4>1, <2>10, <2>5, <2>7
    <3>2. CASE j = k + 1
      <4>1. i \in 1 .. k
        BY <3>2, <2>10, <2>3
      <4> QED
        BY <3>2, <4>1, <2>7, <2>8
    <3> QED
      BY <2>6, <3>1, <3>2
  <2> QED
    BY <2>3, <2>9, <2>10 DEF Lists
<1> QED
  BY <1>1, <1>2

\* Every finite set of positive numbers can be listed in order.
LEMMA ListExists ==
    ASSUME NEW n \in Nat, NEW S \in SUBSET (1 .. n)
    PROVE  \E f : Lists(f, S)
<1> DEFINE Bad == {m \in Nat : \E T \in SUBSET (1 .. m) : ~ \E f : Lists(f, T)}
<1> SUFFICES Bad = {}
  OBVIOUS
<1> SUFFICES ASSUME Bad # {} PROVE FALSE
  OBVIOUS
<1>1. Bad \in SUBSET Nat
  OBVIOUS
<1>2. PICK m \in Bad : \A y \in Bad : m <= y
  <2> HIDE DEF Bad
  <2> QED
    BY <1>1, LeastOf
<1>3. PICK T \in SUBSET (1 .. m) : ~ \E f : Lists(f, T)
  OBVIOUS
<1>4. m # 0
  <2> SUFFICES ASSUME m = 0 PROVE FALSE
    OBVIOUS
  <2>1. T = {} /\ Cardinality(T) = 0
    <3>1. T = {}
      OBVIOUS
    <3> QED
      BY <3>1, FS_EmptySet
  <2> DEFINE e == [i \in 1 .. 0 |-> 0]
  <2>2. Lists(e, T)
    BY <2>1 DEF Lists
  <2> QED
    BY <1>3, <2>2
<1>5. m \in Nat \ {0} /\ m - 1 \in Nat /\ ~ (m <= m - 1)
  BY <1>4
<1>6. m - 1 \notin Bad
  BY <1>2, <1>5
<1>7. \A U \in SUBSET (1 .. m - 1) : \E f : Lists(f, U)
  BY <1>5, <1>6
<1> HIDE DEF Bad
<1> QED
  BY <1>3, <1>5, <1>7, OneMore

\* InOrderOf lists all the numbers of a set, each once.
LEMMA InOrderFacts ==
    ASSUME NEW n \in Nat, NEW S \in SUBSET (1 .. n)
    PROVE  /\ Cardinality(S) \in Nat
           /\ InOrderOf(S) \in [1 .. Cardinality(S) -> S]
           /\ \A i, j \in 1 .. Cardinality(S) :
                 InOrderOf(S)[i] = InOrderOf(S)[j] => i = j
           /\ \A x \in S : \E i \in 1 .. Cardinality(S) : InOrderOf(S)[i] = x
<1> DEFINE f == InOrderOf(S)
           k == Cardinality(S)
<1>1. Lists(f, S)
  BY ListExists DEF Lists, InOrderOf
<1>2. IsFiniteSet(S)
  <2>1. IsFiniteSet(1 .. n)
    BY FS_Interval
  <2> QED
    BY <2>1, FS_Subset
<1>3. k \in Nat
  BY <1>2, FS_CardinalityType
<1>4. /\ f \in [1 .. k -> S]
      /\ \A i, j \in 1 .. k : i < j => f[i] < f[j]
  BY <1>1 DEF Lists
<1> HIDE DEF f
<1>5. ASSUME NEW i \in 1 .. k, NEW j \in 1 .. k, f[i] = f[j]
      PROVE  i = j
  <2> HIDE DEF k
  <2>1. f[i] \in 1 .. n /\ f[j] \in 1 .. n
    BY <1>4
  <2>2. ~(i < j) /\ ~(j < i)
    BY <1>4, <1>5, <2>1
  <2>3. i \in Nat /\ j \in Nat
    BY <1>3
  <2> QED
    BY <2>2, <2>3
<1>6. f \in Injection(1 .. k, S)
  BY <1>4, <1>5 DEF Injection, IsInjective
<1>7. Cardinality(1 .. k) = k
  <2>1. Cardinality(1 .. k) = IF 1 > k THEN 0 ELSE k - 1 + 1
    BY <1>3, FS_Interval
  <2> HIDE DEF k
  <2> QED
    BY <1>3, <2>1
<1>8. f \in Surjection(1 .. k, S)
  BY <1>2, <1>6, <1>7, FS_Injection
<1>9. \A x \in S : \E i \in 1 .. k : f[i] = x
  BY <1>8 DEF Surjection
<1> QED
  BY <1>3, <1>4, <1>5, <1>9 DEF f

\* What a Vec of entries keeps in retain: exactly the entries with another
\* key, each once; and it gets shorter exactly if there is one with the key.
LEMMA RetainFacts ==
    ASSUME NEW E, NEW e \in Seq(E), NEW k
    PROVE  LET r == Retain(e, k)
           IN  /\ r \in Seq(E)
               /\ Len(r) = Len(e) <=> ~ HasKey(e, k)
               /\ \E f \in [1 .. Len(r) -> 1 .. Len(e)] :
                     /\ \A i, j \in 1 .. Len(r) : f[i] = f[j] => i = j
                     /\ \A i \in 1 .. Len(r) : r[i] = e[f[i]] /\ e[f[i]].key # k
                     /\ \A j \in 1 .. Len(e) :
                           e[j].key # k => \E i \in 1 .. Len(r) : f[i] = j
<1> DEFINE r == Retain(e, k)
           S == {i \in 1 .. Len(e) : e[i].key # k}
           f == InOrderOf(S)
           n == Cardinality(S)
<1>1. Len(e) \in Nat /\ \A i \in 1 .. Len(e) : e[i] \in E
  OBVIOUS
<1>2. S \in SUBSET (1 .. Len(e))
  OBVIOUS
<1>3. r = [i \in 1 .. n |-> e[f[i]]]
  BY DEF Retain
<1>4. \A i \in S : e[i].key # k /\ i \in 1 .. Len(e)
  OBVIOUS
<1>5. \A i \in 1 .. Len(e) : e[i].key # k => i \in S
  OBVIOUS
<1>6. HasKey(e, k) <=> S # 1 .. Len(e)
  BY DEF HasKey
<1> HIDE DEF S
<1>7. /\ n \in Nat /\ f \in [1 .. n -> S]
      /\ \A i, j \in 1 .. n : f[i] = f[j] => i = j
      /\ \A x \in S : \E i \in 1 .. n : f[i] = x
  BY <1>1, <1>2, InOrderFacts
<1>8. n = Len(e) <=> S = 1 .. Len(e)
  <2>1. /\ IsFiniteSet(1 .. Len(e))
        /\ Cardinality(1 .. Len(e)) = IF 1 > Len(e) THEN 0 ELSE Len(e) - 1 + 1
    BY SMTT(30), <1>1, FS_Interval
  <2>2. Cardinality(1 .. Len(e)) = Len(e)
    BY <1>1, <2>1
  <2> QED
    BY <1>2, <2>1, <2>2, FS_Subset
<1> HIDE DEF f, n, r
<1>9. r \in Seq(E) /\ Len(r) = n
  <2>1. \A i \in 1 .. n : e[f[i]] \in E
    BY <1>1, <1>2, <1>7
  <2> QED
    BY <1>3, <1>7, <2>1
<1>10. f \in [1 .. Len(r) -> 1 .. Len(e)]
  BY <1>2, <1>7, <1>9
<1>11. \A i \in 1 .. Len(r) : r[i] = e[f[i]] /\ e[f[i]].key # k
  BY <1>3, <1>4, <1>7, <1>9
<1>12. \A i, j \in 1 .. Len(r) : f[i] = f[j] => i = j
  BY <1>7, <1>9
<1>13. \A j \in 1 .. Len(e) : e[j].key # k => \E i \in 1 .. Len(r) : f[i] = j
  BY <1>5, <1>7, <1>9
<1>14. \E g \in [1 .. Len(r) -> 1 .. Len(e)] :
          /\ \A i, j \in 1 .. Len(r) : g[i] = g[j] => i = j
          /\ \A i \in 1 .. Len(r) : r[i] = e[g[i]] /\ e[g[i]].key # k
          /\ \A j \in 1 .. Len(e) : e[j].key # k => \E i \in 1 .. Len(r) : g[i] = j
  BY <1>10, <1>11, <1>12, <1>13
<1>15. Len(r) = Len(e) <=> ~ HasKey(e, k)
  BY <1>6, <1>8, <1>9
<1> QED
  BY <1>9, <1>14, <1>15 DEF r

\* The last entry with a key is the only one.
LEMMA LastFacts ==
    ASSUME NEW e, NEW st, SameContents(e, st), NEW k \in DOMAIN st
    PROVE  LastValue(e, k) = st[k]
<1> DEFINE P(i) == /\ e[i].key = k
                   /\ \A j \in i + 1 .. Len(e) : e[j].key # k
<1>1. Len(e) \in Nat
  BY DEF SameContents
<1>2. PICK i \in 1 .. Len(e) : e[i].key = k
  BY DEF SameContents, HasKey
<1>3. P(i)
  <2>1. ASSUME NEW j \in i + 1 .. Len(e)
        PROVE  e[j].key # k
    <3>1. j \in 1 .. Len(e) /\ j # i
      BY <1>1
    <3> QED
      BY <3>1, <1>2 DEF SameContents
  <2> QED
    BY <1>2, <2>1
<1>4. \A x \in 1 .. Len(e) : P(x) => e[x].value = st[k]
  BY DEF SameContents
<1> DEFINE m == CHOOSE x \in 1 .. Len(e) : P(x)
<1>5. m \in 1 .. Len(e) /\ P(m)
  BY <1>3
<1>6. LastValue(e, k) = e[m].value
  BY DEF LastValue
<1> HIDE DEF m, P
<1> QED
  BY <1>4, <1>5, <1>6

\* kv::apply with Delete, and ReferenceStore's.
LEMMA DeleteSame ==
    ASSUME NEW e, NEW st, SameContents(e, st), NEW k \in Keys
    PROVE  /\ SameContents(Retain(e, k), [x \in DOMAIN st \ {k} |-> st[x]])
           /\ ~ HasKey(Retain(e, k), k)
<1> DEFINE E == [key : Keys, value : Values]
           r == Retain(e, k)
           new == [x \in DOMAIN st \ {k} |-> st[x]]
<1>1. e \in Seq(E)
  BY DEF SameContents
<1> HIDE DEF E
<1>2. r \in Seq(E)
  BY <1>1, RetainFacts
<1>3. PICK f \in [1 .. Len(r) -> 1 .. Len(e)] :
         /\ \A i, j \in 1 .. Len(r) : f[i] = f[j] => i = j
         /\ \A i \in 1 .. Len(r) : r[i] = e[f[i]] /\ e[f[i]].key # k
         /\ \A j \in 1 .. Len(e) :
               e[j].key # k => \E i \in 1 .. Len(r) : f[i] = j
  BY <1>1, RetainFacts
<1> HIDE DEF r
<1>4. \A i, j \in 1 .. Len(r) : r[i].key = r[j].key => i = j
  BY <1>3 DEF SameContents
<1>5. \A i \in 1 .. Len(r) : r[i].key \in DOMAIN st \ {k} /\ r[i].value = st[r[i].key]
  BY <1>3 DEF SameContents
<1>6. ASSUME NEW x \in DOMAIN st \ {k}
      PROVE  HasKey(r, x)
  <2>1. PICK j \in 1 .. Len(e) : e[j].key = x
    BY DEF SameContents, HasKey
  <2>2. PICK i \in 1 .. Len(r) : f[i] = j
    BY <1>3, <2>1
  <2>3. r[i].key = x
    BY <1>3, <2>1, <2>2
  <2> QED
    BY <2>3 DEF HasKey
<1>7. DOMAIN new = DOMAIN st \ {k} /\ \A x \in DOMAIN new : new[x] = st[x]
  OBVIOUS
<1> HIDE DEF new
<1>8. SameContents(r, new)
  BY <1>2, <1>4, <1>5, <1>6, <1>7 DEF SameContents, E
<1>9. ~ HasKey(r, k)
  BY <1>5 DEF HasKey
<1> QED
  BY <1>8, <1>9 DEF r, new

\* kv::apply with Put, and ReferenceStore's.
LEMMA PutSame ==
    ASSUME NEW e, NEW st, SameContents(e, st), NEW k \in Keys, NEW v \in Values
    PROVE  SameContents(Append(Retain(e, k), [key |-> k, value |-> v]),
                        [x \in DOMAIN st \cup {k} |-> IF x = k THEN v ELSE st[x]])
<1> DEFINE E == [key : Keys, value : Values]
           r == Retain(e, k)
           less == [x \in DOMAIN st \ {k} |-> st[x]]
           z == [key |-> k, value |-> v]
           a == Append(r, z)
           new == [x \in DOMAIN st \cup {k} |-> IF x = k THEN v ELSE st[x]]
<1>1. SameContents(r, less) /\ ~ HasKey(r, k)
  BY DeleteSame
<1>2. z \in E /\ z.key = k /\ z.value = v
  OBVIOUS
<1>3. /\ DOMAIN new = DOMAIN less \cup {k} /\ new[k] = v
      /\ \A x \in DOMAIN less : new[x] = less[x] /\ x # k
  OBVIOUS
<1> HIDE DEF r, less, z, new, E
<1>4. r \in Seq(E) /\ Len(r) \in Nat
  BY <1>1 DEF SameContents, E
<1>5. /\ a \in Seq(E) /\ Len(a) = Len(r) + 1 /\ a[Len(r) + 1] = z
      /\ \A i \in 1 .. Len(r) : a[i] = r[i]
  BY <1>2, <1>4
<1>6. \A i \in 1 .. Len(a) : i \in 1 .. Len(r) \/ i = Len(r) + 1
  BY <1>4, <1>5
<1>7. Len(r) + 1 \in 1 .. Len(a) /\ \A i \in 1 .. Len(r) : i \in 1 .. Len(a)
  BY <1>4, <1>5
<1> HIDE DEF a
<1>8. \A i \in 1 .. Len(r) : a[i].key # k
  BY <1>1, <1>5 DEF HasKey
<1>9. ASSUME NEW i \in 1 .. Len(a), NEW j \in 1 .. Len(a), a[i].key = a[j].key
      PROVE  i = j
  <2>1. CASE i \in 1 .. Len(r) /\ j \in 1 .. Len(r)
    BY <2>1, <1>1, <1>5, <1>9 DEF SameContents
  <2>2. CASE ~(i \in 1 .. Len(r) /\ j \in 1 .. Len(r))
    BY <2>2, <1>2, <1>5, <1>6, <1>8, <1>9
  <2> QED
    BY <2>1, <2>2
<1>10. ASSUME NEW i \in 1 .. Len(a)
       PROVE  a[i].key \in DOMAIN new /\ a[i].value = new[a[i].key]
  <2>1. CASE i \in 1 .. Len(r)
    <3>1. r[i].key \in DOMAIN less /\ r[i].value = less[r[i].key]
      BY <2>1, <1>1 DEF SameContents
    <3> QED
      BY <2>1, <3>1, <1>3, <1>5
  <2>2. CASE i = Len(r) + 1
    BY <2>2, <1>2, <1>3, <1>5
  <2> QED
    BY <1>6, <2>1, <2>2
<1>11. ASSUME NEW x \in DOMAIN new
       PROVE  HasKey(a, x)
  <2>1. CASE x = k
    BY <2>1, <1>2, <1>5, <1>7 DEF HasKey
  <2>2. CASE x \in DOMAIN less
    <3>1. PICK i \in 1 .. Len(r) : r[i].key = x
      BY <2>2, <1>1 DEF SameContents, HasKey
    <3> QED
      BY <3>1, <1>5, <1>7 DEF HasKey
  <2> QED
    BY <1>3, <2>1, <2>2
<1>12. SameContents(a, new)
  BY <1>5, <1>9, <1>10, <1>11 DEF SameContents, E
<1> QED
  BY <1>12 DEF a, r, new, z

\* The two stores answer alike and stay alike, whatever the operation.
LEMMA ApplySame ==
    ASSUME NEW e, NEW st, SameContents(e, st), NEW op \in Op
    PROVE  /\ RefResult(e, op) = ApplyResult(st, op)
           /\ SameContents(RefStore(e, op), ApplyStore(st, op))
<1> DEFINE k == op.key
<1>1. /\ k \in Keys /\ op.method \in {"Get", "Put", "Delete"}
      /\ op.method = "Put" => op.value \in Values
  BY DEF Op
<1>2. HasKey(e, k) <=> k \in DOMAIN st
  BY DEF SameContents, HasKey
<1>3. CASE op.method = "Get"
  <2>1. RefStore(e, op) = e /\ ApplyStore(st, op) = st
    BY <1>3 DEF RefStore, ApplyStore
  <2>2. CASE k \in DOMAIN st
    <3>1. LastValue(e, k) = st[k]
      BY <2>2, LastFacts
    <3>2. RefResult(e, op) = Result(TRUE, LastValue(e, k))
      BY <1>2, <1>3, <2>2 DEF RefResult
    <3>3. ApplyResult(st, op) = Result(TRUE, st[k])
      BY <1>3, <2>2 DEF ApplyResult
    <3> QED
      BY <2>1, <3>1, <3>2, <3>3
  <2>3. CASE k \notin DOMAIN st
    <3>1. RefResult(e, op) = Result(FALSE, Empty)
      BY <1>2, <1>3, <2>3 DEF RefResult
    <3>2. ApplyResult(st, op) = Result(FALSE, Empty)
      BY <1>3, <2>3 DEF ApplyResult
    <3> QED
      BY <2>1, <3>1, <3>2
  <2> QED
    BY <2>2, <2>3
<1>4. CASE op.method = "Put"
  <2>1. RefResult(e, op) = ApplyResult(st, op)
    BY <1>4 DEF RefResult, ApplyResult
  <2>2. RefStore(e, op) = Append(Retain(e, k), [key |-> k, value |-> op.value])
    BY <1>4 DEF RefStore
  <2>3. ApplyStore(st, op) = [x \in DOMAIN st \cup {k} |->
                                IF x = k THEN op.value ELSE st[x]]
    BY <1>4 DEF ApplyStore
  <2>4. op.value \in Values
    BY <1>1, <1>4
  <2> HIDE DEF k
  <2>5. SameContents(Append(Retain(e, k), [key |-> k, value |-> op.value]),
                     [x \in DOMAIN st \cup {k} |-> IF x = k THEN op.value ELSE st[x]])
    BY <1>1, <2>4, PutSame
  <2> QED
    BY <2>1, <2>2, <2>3, <2>5, Zenon
<1>5. CASE op.method = "Delete"
  <2>1. RefResult(e, op) = Result(Len(Retain(e, k)) # Len(e), Empty)
    BY <1>5 DEF RefResult
  <2>2. ApplyResult(st, op) = Result(k \in DOMAIN st, Empty)
    BY <1>5 DEF ApplyResult
  <2>3. e \in Seq([key : Keys, value : Values])
    BY DEF SameContents
  <2>4. (Len(Retain(e, k)) # Len(e)) = (k \in DOMAIN st)
    BY <1>2, <2>3, RetainFacts
  <2>5. RefStore(e, op) = Retain(e, k)
    BY <1>5 DEF RefStore
  <2>6. ApplyStore(st, op) = [x \in DOMAIN st \ {k} |-> st[x]]
    BY <1>5 DEF ApplyStore
  <2>7. SameContents(RefStore(e, op), ApplyStore(st, op))
    BY <1>1, <2>5, <2>6, DeleteSame
  <2> QED
    BY <2>1, <2>2, <2>4, <2>7
<1> QED
  BY <1>1, <1>3, <1>4, <1>5

\* RpcServer::on_datagram runs both stores on the same operation.
LEMMA ExecuteStores ==
    ASSUME IndInv, StoresAgree, NEW c \in Clients, Execute(c)
    PROVE  StoresAgree'
<1> DEFINE q == Head(requests[c])
           res == ApplyResult(store, q.op)
           ref == RefResult(reference, q.op)
           x == [client |-> c, id |-> q.id, op |-> q.op, result |-> res]
<1>1. requests[c] \in Seq(RequestType) /\ requests[c] # << >>
  BY DEF IndInv, TypeOK, Execute
<1>2. q.op \in Op /\ q.id \in Nat
  <2>1. q \in RequestType
    BY <1>1
  <2> HIDE DEF q
  <2> QED
    BY <2>1 DEF RequestType
<1>3. /\ log' = Append(log, x) /\ replayed' = Append(replayed, ref)
      /\ store' = ApplyStore(store, q.op)
      /\ reference' = RefStore(reference, q.op)
  BY DEF Execute, StoreOf
<1> HIDE DEF q
<1>4. ref = res /\ SameContents(reference', store')
  BY <1>2, <1>3, ApplySame DEF StoresAgree
<1>5. res \in ResultType
  BY <1>2, ApplyOK DEF IndInv, TypeOK
<1>6. x \in Execution /\ x.result = res
  BY <1>2, <1>5 DEF Execution
<1> HIDE DEF res, ref, x
<1>7. /\ log \in Seq(Execution) /\ replayed \in Seq(ResultType)
      /\ Len(replayed) = Len(log)
  BY DEF IndInv, TypeOK, StoresAgree
<1>8. /\ Len(log) \in Nat /\ Len(log') = Len(log) + 1 /\ log'[Len(log) + 1] = x
      /\ \A i \in 1 .. Len(log) : log'[i] = log[i]
  BY <1>3, <1>6, <1>7
<1>9. /\ replayed' \in Seq(ResultType) /\ Len(replayed') = Len(log) + 1
      /\ replayed'[Len(log) + 1] = ref
      /\ \A i \in 1 .. Len(log) : replayed'[i] = replayed[i]
  BY <1>3, <1>4, <1>5, <1>7
<1>10. \A i \in 1 .. Len(log') : i \in 1 .. Len(log) \/ i = Len(log) + 1
  BY <1>8
<1>11. DifferentialAgrees'
  <2> SUFFICES ASSUME NEW i \in 1 .. Len(log')
               PROVE  log'[i].result = replayed'[i]
    BY DEF DifferentialAgrees
  <2>1. CASE i \in 1 .. Len(log)
    BY <2>1, <1>8, <1>9 DEF StoresAgree, DifferentialAgrees
  <2>2. CASE i = Len(log) + 1
    BY <2>2, <1>4, <1>6, <1>8, <1>9
  <2> QED
    BY <1>10, <2>1, <2>2
<1> QED
  BY <1>4, <1>8, <1>9, <1>11 DEF StoresAgree

\* The stores agree in every reachable state.
THEOREM StoresInvariance == Spec => []StoresAgree
<1>1. Init => StoresAgree
  BY DEF Init, StoresAgree, SameContents, DifferentialAgrees, EmptyStore
<1>2. IndInv /\ StoresAgree /\ [Next]_vars => StoresAgree'
  <2> SUFFICES ASSUME IndInv, StoresAgree, [Next]_vars PROVE StoresAgree'
    OBVIOUS
  <2>1. ASSUME UNCHANGED <<store, log, reference, replayed>>
        PROVE  StoresAgree'
    BY <2>1 DEF StoresAgree, DifferentialAgrees
  <2>2. CASE UNCHANGED vars
    BY SMTT(30), <2>1, <2>2 DEF vars, server
  <2>3. ASSUME NEW c \in Clients, \/ \E op \in Op : Call(c, op)
                                  \/ OnResponse(c)
                                  \/ \E S \in SUBSET DOMAIN pending[c] : OnTick(c, S)
                                  \/ PollCompleted(c) \/ PollFailed(c) \/ Replay(c)
        PROVE  StoresAgree'
    BY <2>1, <2>3
       DEF Call, OnResponse, OnTick, Retry, PollCompleted, PollFailed, Replay, server
  <2> QED
    BY <2>2, <2>3, ExecuteStores DEF Next
<1> QED
  BY <1>1, <1>2, Invariance, PTL DEF Spec

\* run_chaos's differential check cannot fail, for any clients, keys and
\* values: the map of kv.rs answered every execution of the log as the list
\* of ReferenceStore does when the log is replayed on it.
THEOREM DifferentialHolds == Spec => []DifferentialAgrees
<1>1. StoresAgree => DifferentialAgrees
  BY DEF StoresAgree
<1> QED
  BY <1>1, StoresInvariance, PTL

\* Linearizability, for any number of clients, calls and attempts: the answer
\* is that of an execution of the call (AnswerIsItsExecution), which comes
\* after what had been executed, for any client, when the call was made
\* (ExecutedAfterCall), and which the reference, replaying the executions of
\* all clients in the order of the log, answers in the same way.
THEOREM LinearizableHolds == Spec => []Linearizable
<1>1. ASSUME IndInv, OrderInv, StoresAgree, AnswerIsItsExecution
      PROVE  Linearizable
  <2> SUFFICES ASSUME NEW c \in Clients, NEW n \in 1 .. Len(Answers(c))
               PROVE  \E i \in issued[c][Answers(c)[n].id] + 1 .. Len(log) :
                        /\ log[i].client = c /\ log[i].id = Answers(c)[n].id
                        /\ Answers(c)[n] = Response(log[i].id, replayed[i])
    BY DEF Linearizable
  <2>1. PICK i \in 1 .. Len(log) :
               /\ log[i].client = c /\ log[i].id = Answers(c)[n].id
               /\ Answers(c)[n] = Response(log[i].id, log[i].result)
    BY <1>1 DEF AnswerIsItsExecution
  <2>2. log[i].id \in 0 .. next_id[c] - 1
    BY <1>1, <2>1, LogFacts
  <2>3. issued[c][log[i].id] \in Nat /\ i > issued[c][log[i].id]
    <3>1. issued[c][log[i].id] \in 0 .. Len(log)
      BY <1>1, <2>2 DEF OrderInv, IssuedInv
    <3>2. i > issued[c][log[i].id]
      BY <1>1, <2>1 DEF OrderInv, ExecutedAfterCall
    <3> QED
      BY <3>1, <3>2
  <2>4. i \in issued[c][Answers(c)[n].id] + 1 .. Len(log)
    <3>1. Len(log) \in Nat
      BY <1>1 DEF IndInv, TypeOK
    <3> QED
      BY <2>1, <2>3, <3>1
  <2>5. Answers(c)[n] = Response(log[i].id, replayed[i])
    BY <1>1, <2>1 DEF StoresAgree, DifferentialAgrees
  <2> QED
    BY <2>1, <2>4, <2>5
<1> QED
  BY <1>1, Invariance, OrderInvariance, StoresInvariance, AnswersHold, PTL

-----------------------------------------------------------------------------
(***************************************************************************)
(* The chaos harness                                                       *)
(***************************************************************************)

-----------------------------------------------------------------------------
(* The inductive invariant *)

\* f has a value for each client.
IsFamily(f) == f = [c \in Clients |-> f[c]]

\* The fields of the loop, and an age for every pending call.
HarnessType ==
    /\ tick \in Nat \ {0} /\ turn \in 0 .. Len(Links) + 1
    /\ wait \in 0 .. MaxGap /\ fired \in 0 .. Calls
    /\ outcome \in {"running", "ok", "mismatch", "did_not_drain"}
    /\ IsFamily(sent_at)
    /\ \A c \in Clients :
          /\ DOMAIN sent_at[c] = DOMAIN pending[c]
          /\ \A id \in DOMAIN pending[c] : sent_at[c][id] \in 0 .. RetryDeadline

\* While calls are to be made, every gap of the schedule has cost MaxGap
\* ticks at most, and a call that is due is made in the tick it is due in.
ScheduleInv ==
    fired < Calls => /\ (tick - 1) + wait <= MaxGap * (fired + 1)
                     /\ turn # 0 => wait # 0

\* What a call has cost by its attempts before the last copy.
Waited(attempts) == (attempts - 1) * RetryDeadline

\* A call was made when the schedule allowed at the latest, and each of its
\* copies but the last has waited for RetryDeadline ticks.  The last copies
\* of the links that have had their turn have waited for less.
DeadlineInv ==
    \A c \in Clients : \A id \in DOMAIN pending[c] :
        /\ tick - 1 <= MaxGap * Calls
                         + (Waited(pending[c][id].attempts) + sent_at[c][id])
        /\ \A i \in 1 .. Len(Links) :
              i < turn /\ Links[i] = c => sent_at[c][id] < RetryDeadline

ClockInv == HarnessType /\ ScheduleInv /\ DeadlineInv /\ DrainsInTime

-----------------------------------------------------------------------------
(* What the summary counts *)

\* The calls made, as pairs of client and id, and those that have failed
\* and were polled.
Made == UNION {{c} \X (0 .. next_id[c] - 1) : c \in Clients}

Lost == UNION {{c} \X gaveUp[c] : c \in Clients}

\* The counters of the loop count what they are meant to, and a run ends
\* well only with nothing left.
CountInv ==
    /\ fired = Cardinality(Made)
    /\ calls_failed = Cardinality(Lost)
    /\ outcome # "running" => turn > Len(Links)
    /\ outcome = "ok" => Polled /\ Drained

-----------------------------------------------------------------------------
(* run_chaos is a way of driving clients and servers *)

LEMMA GoesAsRpc == [ChaosNext]_chaosVars => [Next]_vars
<1> SUFFICES ASSUME [ChaosNext]_chaosVars PROVE Next \/ UNCHANGED vars
  OBVIOUS
<1>1. ASSUME NEW c \in Clients, NEW op \in Op, Fire(c, op) PROVE Next
  BY <1>1 DEF Fire, Next
<1>2. CASE NotDue
  BY <1>2 DEF NotDue
<1>3. ASSUME NEW c \in Clients, TickLink(c) PROVE Next \/ UNCHANGED vars
  <2>1. Overdue(c) \in SUBSET DOMAIN pending[c]
    BY DEF Overdue
  <2> QED
    BY <1>3, <2>1 DEF TickLink, Next
<1>4. ASSUME NEW c \in Clients, Poll(c) PROVE Next
  BY <1>4 DEF Poll, Next
<1>5. CASE Check
  BY <1>5 DEF Check
<1>6. ASSUME NEW c \in Clients, Deliver(c) PROVE Next
  BY <1>6 DEF Deliver, Next
<1>7. CASE UNCHANGED chaosVars
  BY <1>7 DEF chaosVars
<1> QED
  BY <1>1, <1>2, <1>3, <1>4, <1>5, <1>6, <1>7 DEF ChaosNext, Go

\* Whatever the links deliver, what run_chaos does to the clients, servers
\* and the store are steps of Rpc.
THEOREM DrivesRpc == ChaosSpec => Spec
<1>1. ChaosInit => Init
  BY DEF ChaosInit
<1> QED
  BY <1>1, GoesAsRpc, PTL DEF ChaosSpec, Spec
-----------------------------------------------------------------------------
(* Time *)

LEMMA ChaosConstants ==
    /\ Calls \in Nat /\ MaxGap \in Nat \ {0} /\ RetryDeadline \in Nat \ {0}
    /\ MaxTicks \in Nat /\ MaxAttempts \in Nat \ {0} /\ Len(Links) \in Nat
    /\ MaxGap * Calls \in Nat /\ MaxAttempts * RetryDeadline \in Nat
    /\ 1 + MaxGap * Calls + MaxAttempts * RetryDeadline <= MaxTicks
    /\ \A i \in 1 .. Len(Links) : Links[i] \in Clients
    /\ \A c \in Clients : \E i \in 1 .. Len(Links) : Links[i] = c
<1>1. /\ Calls \in Nat /\ MaxGap \in Nat \ {0} /\ RetryDeadline \in Nat \ {0}
      /\ MaxTicks \in Nat /\ MaxAttempts \in Nat \ {0}
      /\ 1 + MaxGap * Calls + MaxAttempts * RetryDeadline <= MaxTicks
  BY ChaosAssumption, RpcAssumption
<1>2. MaxGap * Calls \in Nat /\ MaxAttempts * RetryDeadline \in Nat
  BY <1>1
<1>3. Len(Links) \in Nat /\ \A i \in 1 .. Len(Links) : Links[i] \in Clients
  BY ChaosAssumption
<1>4. \A c \in Clients : \E i \in 1 .. Len(Links) : Links[i] = c
  BY ChaosAssumption
<1> QED
  BY <1>1, <1>2, <1>3, <1>4

LEMMA ConstantTypes ==
    /\ Calls \in Nat /\ MaxGap \in Nat /\ RetryDeadline \in Nat
    /\ MaxTicks \in Nat /\ MaxAttempts \in Nat
BY ChaosConstants

\* The gaps of n calls, and of one more.
LEMMA Gaps ==
    ASSUME NEW n \in Nat
    PROVE  /\ MaxGap * n \in Nat
           /\ MaxGap * (n + 1) = MaxGap * n + MaxGap
           /\ n <= Calls => MaxGap * n <= MaxGap * Calls
<1>1. MaxGap \in Nat /\ Calls \in Nat
  BY ChaosConstants
<1>2. MaxGap * n \in Nat /\ MaxGap * (n + 1) = MaxGap * n + MaxGap
  BY <1>1
<1>3. ASSUME n <= Calls PROVE MaxGap * n <= MaxGap * Calls
  <2>1. PICK d \in Nat : Calls = n + d
    <3>1. Calls - n \in Nat /\ Calls = n + (Calls - n)
      BY <1>1, <1>3
    <3> QED
      BY <3>1
  <2>2. MaxGap * Calls = MaxGap * n + MaxGap * d /\ MaxGap * d \in Nat
    BY <1>1, <2>1
  <2> QED
    BY <1>2, <2>2
<1> QED
  BY <1>2, <1>3

\* The deadlines of the attempts of a call.
LEMMA Attempts ==
    ASSUME NEW n \in 1 .. MaxAttempts
    PROVE  /\ Waited(n) \in Nat /\ Waited(n) + RetryDeadline <= MaxAttempts * RetryDeadline
           /\ Waited(1) = 0 /\ Waited(n + 1) = Waited(n) + RetryDeadline
<1>1. RetryDeadline \in Nat /\ MaxAttempts \in Nat /\ MaxAttempts * RetryDeadline \in Nat
  BY ChaosConstants
<1>2. PICK k \in Nat : k = n - 1
  BY <1>1
<1>3. Waited(n) = k * RetryDeadline /\ Waited(n + 1) = (k + 1) * RetryDeadline
      /\ Waited(1) = 0 * RetryDeadline
  BY <1>1, <1>2 DEF Waited
<1>4. k * RetryDeadline \in Nat /\ (k + 1) * RetryDeadline = k * RetryDeadline + RetryDeadline
      /\ 0 * RetryDeadline = 0
  BY <1>1, <1>2
<1>5. PICK d \in Nat : MaxAttempts = (k + 1) + d
  <2>1. MaxAttempts - n \in Nat /\ MaxAttempts = (k + 1) + (MaxAttempts - n)
    BY <1>1, <1>2
  <2> QED
    BY <2>1
<1>6. MaxAttempts * RetryDeadline = (k + 1) * RetryDeadline + d * RetryDeadline
      /\ d * RetryDeadline \in Nat
  BY <1>1, <1>2, <1>5
<1> QED
  BY <1>1, <1>3, <1>4, <1>6

\* TypeOK, for the calls that are pending.
LEMMA PendingFacts ==
    ASSUME TypeOK
    PROVE  /\ IsFamily(pending)
           /\ next_id \in [Clients -> Nat]
           /\ \A c \in Clients : \A id \in DOMAIN pending[c] :
                 /\ id \in Nat
                 /\ pending[c][id].attempts \in 1 .. MaxAttempts
<1>1. \A c \in Clients : \A id \in DOMAIN pending[c] :
         id \in Nat /\ pending[c][id] \in [op : Op, attempts : 1 .. MaxAttempts]
  BY DEF TypeOK, IsMap
<1>2. next_id \in [Clients -> Nat]
  BY RpcAssumption DEF TypeOK
<1>3. IsFamily(pending)
  BY DEF TypeOK, IsFamily
<1> QED
  BY <1>1, <1>2, <1>3

\* DeadlineInv for the calls of c, p its pending calls, a their ages, at
\* tick t, and u the number of links that have had their turn.
Kept(c, p, a, t, u) ==
    /\ DOMAIN a = DOMAIN p
    /\ \A id \in DOMAIN p :
          /\ a[id] \in 0 .. RetryDeadline
          /\ t - 1 <= MaxGap * Calls + (Waited(p[id].attempts) + a[id])
          /\ \A i \in 1 .. Len(Links) :
                i < u /\ Links[i] = c => a[id] < RetryDeadline

LEMMA KeptByClient ==
    /\ HarnessType /\ DeadlineInv =>
          \A c \in Clients : Kept(c, pending[c], sent_at[c], tick, turn)
    /\ /\ tick' \in Nat \ {0} /\ turn' \in 0 .. Len(Links) + 1
       /\ wait' \in 0 .. MaxGap /\ fired' \in 0 .. Calls
       /\ outcome' \in {"running", "ok", "mismatch", "did_not_drain"}
       /\ IsFamily(sent_at')
       /\ \A c \in Clients : Kept(c, pending'[c], sent_at'[c], tick', turn')
       => HarnessType' /\ DeadlineInv'
<1>1. ASSUME HarnessType, DeadlineInv, NEW c \in Clients
      PROVE  Kept(c, pending[c], sent_at[c], tick, turn)
  BY <1>1 DEF HarnessType, DeadlineInv, Kept
<1>2. ASSUME tick' \in Nat \ {0}, turn' \in 0 .. Len(Links) + 1,
             wait' \in 0 .. MaxGap, fired' \in 0 .. Calls,
             outcome' \in {"running", "ok", "mismatch", "did_not_drain"},
             IsFamily(sent_at'),
             \A c \in Clients : Kept(c, pending'[c], sent_at'[c], tick', turn')
      PROVE  HarnessType' /\ DeadlineInv'
  BY <1>2 DEF HarnessType, DeadlineInv, Kept
<1> QED
  BY <1>1, <1>2

LEMMA ClockInit == ChaosInit => ClockInv
<1> SUFFICES ASSUME ChaosInit PROVE ClockInv
  OBVIOUS
<1>1. /\ tick = 1 /\ turn = 0 /\ sent_at = [c \in Clients |-> NoCalls]
      /\ wait \in 1 .. MaxGap /\ fired = 0 /\ outcome = "running"
      /\ pending = [c \in Clients |-> NoCalls]
  BY DEF ChaosInit, Init
<1>2. \A c \in Clients : DOMAIN pending[c] = {} /\ DOMAIN sent_at[c] = {}
  BY <1>1 DEF NoCalls
<1>3. Len(Links) \in Nat /\ MaxGap \in Nat /\ Calls \in Nat
  BY ChaosConstants
<1>4. HarnessType
  <2>1. IsFamily(sent_at)
    BY <1>1 DEF IsFamily
  <2> QED
    BY <1>1, <1>2, <1>3, <2>1 DEF HarnessType
<1>5. ScheduleInv
  <2>1. MaxGap * (0 + 1) = MaxGap
    BY <1>3
  <2> QED
    BY <1>1, <1>3, <2>1 DEF ScheduleInv
<1>6. DeadlineInv /\ DrainsInTime
  BY <1>1, <1>2 DEF DeadlineInv, DrainsInTime
<1> QED
  BY <1>4, <1>5, <1>6 DEF ClockInv
\* A call is made when it is due.
LEMMA FireClock ==
    ASSUME IndInv, ClockInv, NEW c \in Clients, NEW op \in Op, Fire(c, op)
    PROVE  ClockInv'
<1> USE ConstantTypes
<1> DEFINE new == next_id[c]
           p == [op |-> op, attempts |-> 1]
<1>1. /\ turn = 0 /\ fired < Calls /\ wait = 0 /\ fired' = fired + 1
      /\ wait' \in 1 .. MaxGap /\ turn' = 1 /\ tick' = tick /\ outcome' = outcome
      /\ sent_at' = [sent_at EXCEPT ![c] = With(sent_at[c], new, 0)]
      /\ pending' = [pending EXCEPT ![c] = With(pending[c], new, p)]
  BY DEF Fire, Call
<1>2. /\ tick \in Nat \ {0} /\ fired \in Nat /\ Calls \in Nat /\ MaxGap \in Nat
      /\ Len(Links) \in Nat /\ RetryDeadline \in Nat /\ fired' \in 0 .. Calls
      /\ IsFamily(sent_at) /\ IsFamily(pending)
      /\ outcome \in {"running", "ok", "mismatch", "did_not_drain"}
  <2>1. IsFamily(pending)
    BY PendingFacts DEF IndInv
  <2>2. tick \in Nat \ {0} /\ fired \in 0 .. Calls /\ IsFamily(sent_at)
        /\ outcome \in {"running", "ok", "mismatch", "did_not_drain"}
    BY DEF ClockInv, HarnessType
  <2>3. fired' \in 0 .. Calls /\ fired \in Nat
    BY <1>1, <2>2
  <2> QED
    BY <2>1, <2>2, <2>3, ChaosConstants
<1>3. /\ tick - 1 <= MaxGap * (fired + 1) /\ MaxGap * (fired + 1) \in Nat
      /\ MaxGap * (fired + 1) <= MaxGap * Calls /\ MaxGap * Calls \in Nat
      /\ MaxGap * (fired' + 1) = MaxGap * (fired + 1) + MaxGap
  <2>1. fired + 1 \in Nat /\ fired + 1 <= Calls
    BY <1>1, <1>2
  <2>2. (tick - 1) + 0 <= MaxGap * (fired + 1)
    BY <1>1 DEF ClockInv, ScheduleInv
  <2>3. tick - 1 <= MaxGap * (fired + 1)
    BY <1>2, <2>2
  <2> QED
    BY <1>1, <2>1, <2>3, Gaps, ChaosConstants
<1>4. ScheduleInv'
  <2> DEFINE x == MaxGap * (fired + 1)
  <2>1. x \in Nat /\ tick - 1 <= x /\ MaxGap * (fired' + 1) = x + MaxGap
    BY <1>3
  <2> HIDE DEF x
  <2>2. (tick - 1) + wait' <= x + MaxGap /\ wait' # 0
    <3>1. tick - 1 \in Nat /\ wait' \in 1 .. MaxGap
      BY <1>1, <1>2
    <3> QED
      BY <2>1, <3>1
  <2> QED
    BY <1>1, <2>1, <2>2 DEF ScheduleInv
<1>5. ASSUME NEW d \in Clients
      PROVE  Kept(d, pending'[d], sent_at'[d], tick', turn')
  <2>1. Kept(d, pending[d], sent_at[d], tick, turn)
    BY KeptByClient DEF ClockInv
  <2>2. \A i \in 1 .. Len(Links) : ~(i < turn')
    BY <1>1, <1>2
  <2>3. CASE d # c
    <3>1. pending'[d] = pending[d] /\ sent_at'[d] = sent_at[d]
      BY <1>1, <1>2, <2>3 DEF IsFamily
    <3> QED
      BY <1>1, <2>1, <2>2, <3>1 DEF Kept
  <2>4. CASE d = c
    <3>1. pending'[d] = With(pending[d], new, p) /\ sent_at'[d] = With(sent_at[d], new, 0)
      BY <1>1, <1>2, <2>4 DEF IsFamily
    <3>2. DOMAIN sent_at'[d] = DOMAIN pending'[d]
      BY <2>1, <3>1 DEF With, Kept
    <3>3. ASSUME NEW id \in DOMAIN pending'[d]
          PROVE  /\ sent_at'[d][id] \in 0 .. RetryDeadline
                 /\ tick - 1 <= MaxGap * Calls
                                  + (Waited(pending'[d][id].attempts) + sent_at'[d][id])
      <4>1. CASE id = new
        <5>1. pending'[d][id].attempts = 1 /\ sent_at'[d][id] = 0
          BY <2>1, <3>1, <4>1 DEF With, Kept
        <5>2. Waited(1) = 0
          <6>1. 1 \in 1 .. MaxAttempts
            BY ChaosConstants
          <6> QED
            BY <6>1, Attempts
        <5>3. tick - 1 <= MaxGap * Calls + (0 + 0)
          BY <1>2, <1>3
        <5> QED
          BY <1>2, <5>1, <5>2, <5>3
      <4>2. CASE id # new
        <5>1. /\ id \in DOMAIN pending[d] /\ pending'[d][id] = pending[d][id]
              /\ sent_at'[d][id] = sent_at[d][id]
          BY <2>1, <3>1, <3>3, <4>2 DEF With, Kept
        <5> QED
          BY <2>1, <5>1 DEF Kept
      <4> QED
        BY <4>1, <4>2
    <3> QED
      BY <1>1, <2>2, <3>2, <3>3 DEF Kept
  <2> QED
    BY <2>3, <2>4
<1>6. IsFamily(sent_at')
  BY <1>1, <1>2 DEF IsFamily
<1>7. HarnessType' /\ DeadlineInv'
  <2>1. turn' \in 0 .. Len(Links) + 1 /\ wait' \in 0 .. MaxGap /\ tick' \in Nat \ {0}
    BY <1>1, <1>2
  <2> QED
    BY <1>1, <1>2, <1>5, <1>6, <2>1, KeptByClient
<1> QED
  BY <1>1, <1>4, <1>7 DEF ClockInv, DrainsInTime

\* Steps that only take calls away from pending.
LEMMA FewerCalls ==
    ASSUME ClockInv, UNCHANGED <<tick, wait, fired, outcome>>,
           turn' = turn \/ (turn = 0 /\ turn' = 1 /\ (fired < Calls => wait # 0)),
           IsFamily(sent_at'),
           \A d \in Clients :
              /\ DOMAIN pending'[d] \subseteq DOMAIN pending[d]
              /\ DOMAIN sent_at'[d] = DOMAIN pending'[d]
              /\ \A id \in DOMAIN pending'[d] :
                    /\ pending'[d][id].attempts = pending[d][id].attempts
                    /\ sent_at'[d][id] = sent_at[d][id]
    PROVE  ClockInv'
<1> USE ConstantTypes
<1>1. /\ tick \in Nat \ {0} /\ turn \in 0 .. Len(Links) + 1 /\ Len(Links) \in Nat
      /\ wait \in 0 .. MaxGap /\ fired \in 0 .. Calls
      /\ outcome \in {"running", "ok", "mismatch", "did_not_drain"}
  BY ChaosConstants DEF ClockInv, HarnessType
<1>2. \A i \in 1 .. Len(Links) : i < turn' => i < turn
  BY <1>1
<1>3. ASSUME NEW d \in Clients
      PROVE  Kept(d, pending'[d], sent_at'[d], tick', turn')
  <2>1. Kept(d, pending[d], sent_at[d], tick, turn)
    BY KeptByClient DEF ClockInv
  <2> QED
    BY <1>2, <2>1 DEF Kept
<1>4. turn' \in 0 .. Len(Links) + 1
  BY <1>1
<1>5. HarnessType' /\ DeadlineInv'
  BY <1>1, <1>3, <1>4, KeptByClient
<1>6. ScheduleInv'
  BY DEF ClockInv, ScheduleInv
<1> QED
  BY <1>5, <1>6 DEF ClockInv, DrainsInTime

LEMMA OtherClock ==
    ASSUME IndInv, ClockInv,
           NotDue \/ UNCHANGED chaosVars \/ \E c \in Clients : Deliver(c) \/ Poll(c)
    PROVE  ClockInv'
<1>1. /\ IsFamily(sent_at) /\ IsFamily(pending)
      /\ \A d \in Clients : DOMAIN sent_at[d] = DOMAIN pending[d]
  BY PendingFacts DEF ClockInv, HarnessType, IndInv
<1>2. ASSUME UNCHANGED <<pending, sent_at, tick, wait, fired, outcome>>,
             turn' = turn \/ (turn = 0 /\ turn' = 1 /\ (fired < Calls => wait # 0))
      PROVE  ClockInv'
  BY <1>1, <1>2, FewerCalls
<1>3. CASE NotDue
  BY <1>2, <1>3 DEF NotDue, vars, client
<1>4. CASE UNCHANGED chaosVars
  BY <1>2, <1>4 DEF chaosVars, harness, vars, client
<1>5. ASSUME NEW c \in Clients, Poll(c) PROVE ClockInv'
  BY <1>2, <1>5 DEF Poll, PollCompleted, PollFailed
<1>6. ASSUME NEW c \in Clients, Deliver(c) PROVE ClockInv'
  <2>1. /\ UNCHANGED <<tick, turn, wait, fired, outcome>>
        /\ sent_at' = [sent_at EXCEPT ![c] =
                         [id \in DOMAIN pending'[c] |-> sent_at[c][id]]]
    BY <1>6 DEF Deliver
  <2>2. \A d \in Clients :
           /\ DOMAIN pending'[d] \subseteq DOMAIN pending[d]
           /\ \A id \in DOMAIN pending'[d] : pending'[d][id] = pending[d][id]
           /\ d # c => pending'[d] = pending[d]
    <3>1. CASE pending' = pending
      BY <3>1
    <3>2. ASSUME NEW S, pending' = [pending EXCEPT ![c] = Without(pending[c], S)]
          PROVE  <2>2!:
      <4>1. \A d \in Clients : d # c => pending'[d] = pending[d]
        BY <1>1, <3>2 DEF IsFamily
      <4>2. pending'[c] = Without(pending[c], S)
        BY <1>1, <3>2 DEF IsFamily
      <4> QED
        BY <4>1, <4>2 DEF Without
    <3> QED
      BY ZenonT(30), <1>6, <3>1, <3>2 DEF Deliver, Execute, Replay, OnResponse, client
  <2>3. \A d \in Clients :
           /\ DOMAIN sent_at'[d] = DOMAIN pending'[d]
           /\ \A id \in DOMAIN pending'[d] : sent_at'[d][id] = sent_at[d][id]
    <3>1. TAKE d \in Clients
    <3>2. CASE d = c
      <4>1. sent_at'[d] = [id \in DOMAIN pending'[c] |-> sent_at[c][id]]
        BY <1>1, <2>1, <3>2 DEF IsFamily
      <4> QED
        BY <3>2, <4>1
    <3>3. CASE d # c
      <4>1. sent_at'[d] = sent_at[d]
        BY <1>1, <2>1, <3>3 DEF IsFamily
      <4> QED
        BY <1>1, <2>2, <3>3, <4>1
    <3> QED
      BY <3>2, <3>3
  <2>4. IsFamily(sent_at')
    BY <1>1, <2>1 DEF IsFamily
  <2> QED
    BY <2>1, <2>2, <2>3, <2>4, FewerCalls
<1> QED
  BY <1>3, <1>4, <1>5, <1>6
\* on_tick of the link's client: what is overdue is repeated or given up.
LEMMA TickClock ==
    ASSUME IndInv, ClockInv, NEW c \in Clients, TickLink(c)
    PROVE  ClockInv'
<1> USE ConstantTypes
<1> DEFINE over == Overdue(c)
<1>1. /\ turn \in 1 .. Len(Links) /\ c = Links[turn] /\ turn' = turn + 1
      /\ UNCHANGED <<tick, wait, fired, outcome>>
      /\ sent_at' = [sent_at EXCEPT ![c] =
                       [id \in DOMAIN pending'[c] |->
                          IF id \in over THEN 0 ELSE sent_at[c][id]]]
  BY DEF TickLink
<1>2. IsFamily(sent_at) /\ IsFamily(pending)
  BY PendingFacts DEF ClockInv, HarnessType, IndInv
<1>3. /\ tick \in Nat \ {0} /\ wait \in 0 .. MaxGap /\ fired \in 0 .. Calls
      /\ outcome \in {"running", "ok", "mismatch", "did_not_drain"}
      /\ Len(Links) \in Nat /\ MaxGap * Calls \in Nat
  BY ChaosConstants DEF ClockInv, HarnessType
<1>4. /\ \A d \in Clients : d # c => pending'[d] = pending[d]
      /\ DOMAIN pending'[c] \subseteq DOMAIN pending[c]
      /\ \A id \in DOMAIN pending'[c] :
            pending'[c][id].attempts =
              IF id \in over THEN pending[c][id].attempts + 1 ELSE pending[c][id].attempts
      /\ \A id \in DOMAIN pending'[c] : pending'[c][id].attempts \in 1 .. MaxAttempts
  <2>1. CASE over = {} /\ UNCHANGED vars
    <3>1. pending' = pending
      BY <2>1 DEF vars, client
    <3>2. \A id \in DOMAIN pending[c] : pending[c][id].attempts \in 1 .. MaxAttempts
      BY PendingFacts DEF IndInv
    <3> QED
      BY <2>1, <3>1, <3>2
  <2>2. CASE OnTick(c, over)
    <3> DEFINE fail == ToFail(c, over)
               new == [id \in DOMAIN pending[c] \ fail |->
                         IF id \in over
                           THEN [pending[c][id] EXCEPT !.attempts = @ + 1]
                           ELSE pending[c][id]]
    <3>1. pending' = [pending EXCEPT ![c] = new]
      BY <2>2 DEF OnTick, Retry
    <3>2. pending'[c] = new /\ \A d \in Clients : d # c => pending'[d] = pending[d]
      BY <1>2, <3>1 DEF IsFamily
    <3>3. \A id \in DOMAIN pending[c] :
             /\ pending[c][id] \in [op : Op, attempts : 1 .. MaxAttempts]
             /\ pending[c][id].attempts \in 1 .. MaxAttempts
      BY DEF IndInv, TypeOK, IsMap
    <3>4. over \subseteq DOMAIN pending[c]
      BY DEF Overdue
    <3>5. ASSUME NEW id \in DOMAIN new
          PROVE  /\ id \in DOMAIN pending[c]
                 /\ new[id].attempts =
                      IF id \in over THEN pending[c][id].attempts + 1
                                     ELSE pending[c][id].attempts
                 /\ new[id].attempts \in 1 .. MaxAttempts
      <4>1. id \in DOMAIN pending[c] \ fail
        BY <3>5
      <4>2. CASE id \in over
        <5>1. new[id] = [pending[c][id] EXCEPT !.attempts = @ + 1]
          BY <4>1, <4>2
        <5>2. new[id].attempts = pending[c][id].attempts + 1
          BY <3>3, <4>1, <5>1
        <5>3. ~(pending[c][id].attempts + 1 > MaxAttempts)
          BY <4>1, <4>2 DEF ToFail
        <5>4. pending[c][id].attempts + 1 \in 1 .. MaxAttempts
          BY <3>3, <4>1, <5>3
        <5> QED
          BY <4>1, <4>2, <5>2, <5>4
      <4>3. CASE id \notin over
        <5>1. new[id] = pending[c][id]
          BY <4>1, <4>3
        <5> QED
          BY <3>3, <4>1, <4>3, <5>1
      <4> QED
        BY <4>2, <4>3
    <3> HIDE DEF new, fail
    <3> QED
      BY <3>2, <3>5
  <2> QED
    BY <2>1, <2>2 DEF TickLink
<1>5. /\ sent_at'[c] = [id \in DOMAIN pending'[c] |->
                          IF id \in over THEN 0 ELSE sent_at[c][id]]
      /\ \A d \in Clients : d # c => sent_at'[d] = sent_at[d]
      /\ IsFamily(sent_at')
  BY <1>1, <1>2 DEF IsFamily
<1>6. ASSUME NEW d \in Clients
      PROVE  Kept(d, pending'[d], sent_at'[d], tick', turn')
  <2>1. Kept(d, pending[d], sent_at[d], tick, turn)
    BY KeptByClient DEF ClockInv
  <2>2. CASE d # c
    <3>1. pending'[d] = pending[d] /\ sent_at'[d] = sent_at[d]
      BY <1>4, <1>5, <2>2
    <3>2. \A i \in 1 .. Len(Links) : i < turn' /\ Links[i] = d => i < turn
      BY <1>1, <1>3, <2>2
    <3> QED
      BY <1>1, <2>1, <3>1, <3>2 DEF Kept
  <2>3. CASE d = c
    <3>1. DOMAIN sent_at'[c] = DOMAIN pending'[c]
      BY <1>5
    <3>2. ASSUME NEW id \in DOMAIN pending'[c]
          PROVE  /\ sent_at'[c][id] \in 0 .. RetryDeadline /\ sent_at'[c][id] < RetryDeadline
                 /\ tick - 1 <= MaxGap * Calls
                                  + (Waited(pending'[c][id].attempts) + sent_at'[c][id])
      <4> DEFINE n == pending[c][id].attempts
                 a == sent_at[c][id]
                 G == MaxGap * Calls
      <4>1. id \in DOMAIN pending[c] /\ n \in 1 .. MaxAttempts
        BY <1>4, <3>2, PendingFacts DEF IndInv
      <4>2. a \in 0 .. RetryDeadline /\ tick - 1 <= G + (Waited(n) + a) /\ G \in Nat
        BY <1>3, <2>1, <2>3, <4>1 DEF Kept
      <4>3. id \in over <=> a >= RetryDeadline
        BY <4>1 DEF Overdue
      <4>4. /\ pending'[c][id].attempts = IF id \in over THEN n + 1 ELSE n
            /\ sent_at'[c][id] = IF id \in over THEN 0 ELSE a
        BY <1>4, <1>5, <3>2
      <4>5. Waited(n) \in Nat /\ Waited(n + 1) = Waited(n) + RetryDeadline
        BY <4>1, Attempts
      <4>6. RetryDeadline # 0
        BY ChaosConstants
      <4> HIDE DEF n, a, G, over
      <4>7. CASE id \in over
        <5>1. a = RetryDeadline
          BY <4>2, <4>3, <4>7
        <5>2. tick - 1 <= G + (Waited(n + 1) + 0)
          BY <4>2, <4>5, <5>1
        <5> QED
          BY <4>4, <4>6, <4>7, <5>2 DEF G
      <4>8. CASE id \notin over
        BY <4>2, <4>3, <4>4, <4>8 DEF G
      <4> QED
        BY <4>7, <4>8
    <3> QED
      BY <1>1, <2>3, <3>1, <3>2 DEF Kept
  <2> QED
    BY <2>2, <2>3
<1>7. turn' \in 0 .. Len(Links) + 1 /\ tick' \in Nat \ {0}
  BY <1>1, <1>3
<1>8. HarnessType' /\ DeadlineInv'
  BY <1>1, <1>3, <1>5, <1>6, <1>7, KeptByClient
<1>9. ScheduleInv'
  <2>1. turn # 0
    BY <1>1, <1>3
  <2> QED
    BY <1>1, <2>1 DEF ClockInv, ScheduleInv
<1> QED
  BY <1>1, <1>8, <1>9 DEF ClockInv, DrainsInTime

\* The end of a tick: if there is no other, nothing is left to wait for.
LEMMA CheckClock ==
    ASSUME IndInv, ClockInv, Check
    PROVE  ClockInv'
<1> USE ConstantTypes
<1>1. /\ tick \in Nat \ {0} /\ wait \in 0 .. MaxGap /\ fired \in 0 .. Calls
      /\ turn \in 0 .. Len(Links) + 1 /\ Len(Links) \in Nat /\ turn > Len(Links)
      /\ outcome = "running" /\ MaxGap * Calls \in Nat
      /\ MaxAttempts * RetryDeadline \in Nat
      /\ 1 + MaxGap * Calls + MaxAttempts * RetryDeadline <= MaxTicks
  BY ChaosConstants DEF ClockInv, HarnessType, Check
<1>2. pending' = pending /\ fired' = fired
  BY DEF Check, vars, client
<1>3. ASSUME NEW c \in Clients, NEW id \in DOMAIN pending[c]
      PROVE  /\ sent_at[c][id] \in 0 .. RetryDeadline /\ sent_at[c][id] < RetryDeadline
             /\ tick - 1 <= MaxGap * Calls
                              + (Waited(pending[c][id].attempts) + sent_at[c][id])
  <2>1. Kept(c, pending[c], sent_at[c], tick, turn)
    BY KeptByClient DEF ClockInv
  <2>2. PICK i \in 1 .. Len(Links) : Links[i] = c
    BY ChaosConstants
  <2>3. i < turn
    BY <1>1, <2>2
  <2> QED
    BY <2>1, <2>2, <2>3 DEF Kept
<1>4. fired < Calls => (tick - 1) + wait <= MaxGap * (fired + 1) /\ wait # 0
  BY <1>1 DEF ClockInv, ScheduleInv
<1>5. CASE UNCHANGED <<tick, turn, sent_at, wait>> /\ Drained
           /\ outcome' \in {"ok", "mismatch"}
  <2>1. HarnessType' /\ ScheduleInv' /\ DeadlineInv'
    BY <1>2, <1>5 DEF ClockInv, HarnessType, ScheduleInv, DeadlineInv
  <2> QED
    BY <1>5, <2>1 DEF ClockInv, DrainsInTime
<1>6. CASE ~Drained /\ tick >= MaxTicks
  <2>1. ASSUME fired < Calls PROVE FALSE
    <3> DEFINE x == MaxGap * (fired + 1)
               y == MaxGap * Calls
               z == MaxAttempts * RetryDeadline
    <3>1. x \in Nat /\ x <= y
      <4>1. fired + 1 \in Nat /\ fired + 1 <= Calls
        BY <1>1, <2>1
      <4> QED
        BY <4>1, Gaps
    <3>2. y \in Nat /\ z \in Nat /\ 1 + y + z <= MaxTicks /\ (tick - 1) + wait <= x
      BY <1>1, <1>4, <2>1
    <3> HIDE DEF x, y, z
    <3>3. tick \in Nat \ {0} /\ wait \in Nat /\ wait # 0
      BY <1>1, <1>4, <2>1
    <3> QED
      BY <1>6, <3>1, <3>2, <3>3
  <2>2. ASSUME NEW c \in Clients, NEW id \in DOMAIN pending[c] PROVE FALSE
    <3> DEFINE n == pending[c][id].attempts
               a == sent_at[c][id]
               y == MaxGap * Calls
               z == MaxAttempts * RetryDeadline
    <3>1. n \in 1 .. MaxAttempts
      BY PendingFacts DEF IndInv
    <3>2. Waited(n) \in Nat /\ Waited(n) + RetryDeadline <= z
      BY <3>1, Attempts
    <3>3. y \in Nat /\ z \in Nat /\ 1 + y + z <= MaxTicks
      BY <1>1
    <3>4. a \in 0 .. RetryDeadline /\ a < RetryDeadline /\ tick - 1 <= y + (Waited(n) + a)
      BY <1>3
    <3> HIDE DEF n, a, y, z
    <3>5. tick \in Nat \ {0}
      BY <1>1
    <3> QED
      <4>1. tick <= y + z
        <5> DEFINE w == Waited(n)
        <5>1. w \in Nat /\ w + RetryDeadline <= z /\ tick - 1 <= y + (w + a)
          BY <3>2, <3>4
        <5> HIDE DEF w
        <5> QED
          BY <3>3, <3>4, <3>5, <5>1
      <4> QED
        BY <1>6, <3>3, <3>5, <4>1
  <2>3. fired = Calls
    BY <1>1, <2>1
  <2> QED
    BY <1>6, <2>2, <2>3 DEF Drained
<1>7. CASE /\ tick' = tick + 1 /\ turn' = 0 /\ outcome' = outcome
           /\ sent_at' = [c \in Clients |-> [id \in DOMAIN sent_at[c] |-> sent_at[c][id] + 1]]
           /\ wait' = IF fired < Calls THEN wait - 1 ELSE 0
  <2>1. wait' \in 0 .. MaxGap /\ (fired < Calls => wait' = wait - 1)
    BY <1>1, <1>4, <1>7
  <2>2. ScheduleInv'
    <3> SUFFICES ASSUME fired < Calls
                 PROVE  (tick' - 1) + wait' <= MaxGap * (fired + 1)
      BY <1>2, <1>7 DEF ScheduleInv
    <3>1. (tick' - 1) + wait' = (tick - 1) + wait
      BY <1>1, <1>7, <2>1
    <3> QED
      BY <1>4, <3>1
  <2>3. IsFamily(sent_at')
    BY <1>7 DEF IsFamily
  <2>4. ASSUME NEW c \in Clients
        PROVE  Kept(c, pending'[c], sent_at'[c], tick', turn')
    <3>1. DOMAIN sent_at[c] = DOMAIN pending[c]
      BY DEF ClockInv, HarnessType
    <3>2. sent_at'[c] = [id \in DOMAIN pending[c] |-> sent_at[c][id] + 1]
      BY <1>7, <3>1
    <3>3. ASSUME NEW id \in DOMAIN pending[c]
          PROVE  /\ sent_at'[c][id] \in 0 .. RetryDeadline
                 /\ tick' - 1 <= MaxGap * Calls
                                  + (Waited(pending[c][id].attempts) + sent_at'[c][id])
      <4> DEFINE n == pending[c][id].attempts
                 a == sent_at[c][id]
                 y == MaxGap * Calls
      <4>1. n \in 1 .. MaxAttempts
        BY PendingFacts DEF IndInv
      <4>2. Waited(n) \in Nat
        BY <4>1, Attempts
      <4>3. a \in 0 .. RetryDeadline /\ a < RetryDeadline /\ tick - 1 <= y + (Waited(n) + a)
        BY <1>3
      <4>4. sent_at'[c][id] = a + 1
        BY <3>2
      <4>5. y \in Nat /\ tick \in Nat \ {0}
        BY <1>1
      <4> HIDE DEF n, a, y
      <4>6. a + 1 \in 0 .. RetryDeadline /\ (tick + 1) - 1 <= y + (Waited(n) + (a + 1))
        BY <4>2, <4>3, <4>5
      <4> QED
        BY <1>7, <4>4, <4>6 DEF n, y
    <3>4. \A i \in 1 .. Len(Links) : ~(i < turn')
      BY <1>1, <1>7
    <3>5. DOMAIN sent_at'[c] = DOMAIN pending[c]
      BY <3>2
    <3> QED
      BY <1>2, <3>3, <3>4, <3>5 DEF Kept
  <2>5. tick' \in Nat \ {0} /\ turn' \in 0 .. Len(Links) + 1 /\ fired' \in 0 .. Calls
        /\ outcome' \in {"running", "ok", "mismatch", "did_not_drain"}
    BY <1>1, <1>2, <1>7
  <2>6. HarnessType' /\ DeadlineInv'
    BY <2>1, <2>3, <2>4, <2>5, KeptByClient
  <2> QED
    BY <1>7, <2>2, <2>6 DEF ClockInv, DrainsInTime
<1> QED
  BY <1>5, <1>6, <1>7 DEF Check

LEMMA ClockStep == IndInv /\ ClockInv /\ [ChaosNext]_chaosVars => ClockInv'
BY FireClock, OtherClock, TickClock, CheckClock DEF ChaosNext, Go

LEMMA RpcInvariance == ChaosSpec => []IndInv
BY DrivesRpc, Invariance, PTL

LEMMA ClockInvariance == ChaosSpec => []ClockInv
BY ClockInit, ClockStep, RpcInvariance, PTL DEF ChaosSpec

\* run_chaos drains before max_ticks, however little the links deliver,
\* when max_ticks leaves room for the gaps of the schedule and for all the
\* attempts of the last call.
THEOREM DrainsInTimeHolds == ChaosSpec => []DrainsInTime
<1>1. ClockInv => DrainsInTime
  BY DEF ClockInv
<1> QED
  BY <1>1, ClockInvariance, PTL
-----------------------------------------------------------------------------
(* The summary *)

LEMMA ClientsFinite == IsFiniteSet(Clients)
<1>1. Len(Links) \in Nat /\ Links \in [1 .. Len(Links) -> Clients]
  BY ChaosAssumption
<1>2. Links \in Surjection(1 .. Len(Links), Clients)
  BY <1>1, ChaosConstants DEF Surjection
<1>3. IsFiniteSet(1 .. Len(Links))
  BY <1>1, FS_Interval
<1> QED
  BY <1>2, <1>3, FS_Surjection

\* Made and Lost, pair by pair.
LEMMA PairFacts ==
    /\ \A p \in Made : p = <<p[1], p[2]>> /\ p[1] \in Clients
                       /\ p[2] \in 0 .. next_id[p[1]] - 1
    /\ \A c \in Clients : \A id \in 0 .. next_id[c] - 1 : <<c, id>> \in Made
    /\ \A p \in Lost : p = <<p[1], p[2]>> /\ p[1] \in Clients /\ p[2] \in gaveUp[p[1]]
    /\ \A c \in Clients : \A id \in gaveUp[c] : <<c, id>> \in Lost
BY DEF Made, Lost

LEMMA MadeFinite ==
    ASSUME TypeOK
    PROVE  IsFiniteSet(Made)
<1>1. MaxCalls \in Nat /\ \A c \in Clients : next_id[c] \in 0 .. MaxCalls
  BY RpcAssumption DEF TypeOK
<1>2. IsFiniteSet(0 .. MaxCalls)
  BY <1>1, FS_Interval
<1>3. IsFiniteSet(Clients \X (0 .. MaxCalls))
  BY <1>2, ClientsFinite, FS_Product
<1>4. ASSUME NEW p \in Made PROVE p \in Clients \X (0 .. MaxCalls)
  <2>1. p = <<p[1], p[2]>> /\ p[1] \in Clients /\ p[2] \in 0 .. next_id[p[1]] - 1
    BY PairFacts
  <2>2. p[2] \in 0 .. MaxCalls
    BY <1>1, <2>1
  <2> QED
    BY <2>1, <2>2
<1>5. Made \in SUBSET (Clients \X (0 .. MaxCalls))
  BY <1>4
<1> QED
  BY <1>3, <1>5, FS_Subset

LEMMA LostFinite ==
    ASSUME TypeOK, OutcomeInv
    PROVE  Lost \subseteq Made /\ IsFiniteSet(Lost)
<1>1. ASSUME NEW p \in Lost PROVE p \in Made
  <2>1. p = <<p[1], p[2]>> /\ p[1] \in Clients /\ p[2] \in gaveUp[p[1]]
    BY PairFacts
  <2>2. p[2] \in 0 .. next_id[p[1]] - 1
    BY <2>1 DEF OutcomeInv, Failures
  <2> QED
    BY <2>1, <2>2, PairFacts
<1>2. Lost \in SUBSET Made
  BY <1>1
<1> QED
  BY <1>2, MadeFinite, FS_Subset

LEMMA CountInit == ChaosInit => CountInv
<1> SUFFICES ASSUME ChaosInit PROVE CountInv
  OBVIOUS
<1>1. \A c \in Clients : 0 .. next_id[c] - 1 = {} /\ gaveUp[c] = {}
  BY DEF ChaosInit, Init
<1>2. Made = {} /\ Lost = {}
  BY <1>1, PairFacts
<1> QED
  BY <1>2, FS_EmptySet DEF CountInv, ChaosInit

\* Steps that neither make a call nor poll a failure.
LEMMA SameCounts ==
    ASSUME CountInv, UNCHANGED <<next_id, gaveUp, fired, calls_failed>>,
           outcome' # "running" => turn' > Len(Links),
           outcome' = "ok" => Polled' /\ Drained'
    PROVE  CountInv'
<1>1. Made' = Made /\ Lost' = Lost
  BY DEF Made, Lost
<1> QED
  BY <1>1 DEF CountInv

LEMMA FireCount ==
    ASSUME IndInv, CountInv, NEW c \in Clients, NEW op \in Op, Fire(c, op)
    PROVE  CountInv'
<1> DEFINE n == next_id[c]
<1>1. /\ next_id' = [next_id EXCEPT ![c] = n + 1] /\ gaveUp' = gaveUp
      /\ fired' = fired + 1 /\ turn = 0 /\ UNCHANGED <<calls_failed, outcome>>
  BY DEF Fire, Call, IdAfter
<1>2. next_id \in [Clients -> Nat]
  BY PendingFacts DEF IndInv
<1>3. outcome = "running"
  <2>1. ~(0 > Len(Links))
    BY ChaosConstants
  <2> QED
    BY <1>1, <2>1 DEF CountInv
<1>4. <<c, n>> \notin Made
  <2>1. ASSUME <<c, n>> \in Made PROVE FALSE
    <3>1. n \in 0 .. n - 1
      BY <2>1, PairFacts
    <3> QED
      BY <1>2, <3>1
  <2> QED
    BY <2>1
<1>5. Made' = Made \cup {<<c, n>>}
  <2>1. /\ next_id'[c] = n + 1 /\ \A d \in Clients \ {c} : next_id'[d] = next_id[d]
        /\ 0 .. n + 1 - 1 = (0 .. n - 1) \cup {n}
    BY <1>1, <1>2
  <2> DEFINE S(d) == 0 .. next_id[d] - 1
             T(d) == 0 .. next_id'[d] - 1
  <2>2. T(c) = S(c) \cup {n} /\ \A d \in Clients \ {c} : T(d) = S(d)
    <3>1. T(c) = 0 .. n + 1 - 1
      <4>1. next_id'[c] - 1 = n + 1 - 1
        BY <2>1
      <4> HIDE DEF n
      <4> QED
        BY <4>1
    <3>2. \A d \in Clients \ {c} : T(d) = S(d)
      BY <2>1, Zenon
    <3> QED
      BY <2>1, <3>1, <3>2, Zenon
  <2>3. Made' = UNION {{d} \X T(d) : d \in Clients} /\ Made = UNION {{d} \X S(d) : d \in Clients}
    BY DEF Made
  <2> HIDE DEF S, T
  <2> QED
    BY <2>2, <2>3
<1>6. Cardinality(Made') = fired + 1
  BY <1>4, <1>5, MadeFinite, FS_AddElement DEF IndInv, CountInv
<1>7. Lost' = Lost
  BY <1>1 DEF Lost
<1> QED
  BY <1>1, <1>3, <1>6, <1>7 DEF CountInv

\* poll_failed: each failure is counted once.
LEMMA FailedCount ==
    ASSUME IndInv, OutcomeInv, CountInv, NEW c \in Clients, PollFailed(c),
           outcome = "running", calls_failed' = calls_failed + Cardinality(failed[c]),
           UNCHANGED <<turn, fired, outcome>>
    PROVE  CountInv'
<1> DEFINE new == {c} \X failed[c]
<1>1. gaveUp' = [gaveUp EXCEPT ![c] = gaveUp[c] \cup failed[c]] /\ next_id' = next_id
  BY DEF PollFailed
<1>2. gaveUp \in [Clients -> SUBSET Nat]
  BY DEF OutcomeInv
<1>3. Lost' = Lost \cup new
  <2>1. gaveUp'[c] = gaveUp[c] \cup failed[c]
        /\ \A d \in Clients \ {c} : gaveUp'[d] = gaveUp[d]
    BY <1>1, <1>2
  <2>2. Lost' = UNION {{d} \X gaveUp'[d] : d \in Clients}
    BY DEF Lost
  <2> QED
    BY <2>1, <2>2 DEF Lost
<1>4. Lost \cap new = {}
  <2>1. failed[c] \cap gaveUp[c] = {}
    BY DEF OutcomeInv, FailedApart
  <2> QED
    BY <2>1, PairFacts
<1>5. IsFiniteSet(failed[c])
  <2>1. next_id[c] \in Nat
    BY PendingFacts DEF IndInv
  <2>2. IsFiniteSet(0 .. next_id[c] - 1)
    BY <2>1, FS_Interval
  <2>3. failed[c] \in SUBSET (0 .. next_id[c] - 1)
    BY DEF OutcomeInv, Failures
  <2> QED
    BY <2>2, <2>3, FS_Subset
<1>6. IsFiniteSet(new) /\ Cardinality(new) = Cardinality(failed[c])
  <2>1. IsFiniteSet({c}) /\ Cardinality({c}) = 1
    BY FS_Singleton
  <2>2. Cardinality(failed[c]) \in Nat
    BY <1>5, FS_CardinalityType
  <2>3. IsFiniteSet(new) /\ Cardinality(new) = Cardinality({c}) * Cardinality(failed[c])
    BY <1>5, <2>1, FS_Product
  <2> QED
    BY <2>1, <2>2, <2>3
<1>7. Cardinality(Lost') = calls_failed'
  <2>1. IsFiniteSet(Lost)
    BY LostFinite DEF IndInv
  <2>2. Cardinality(Lost) \in Nat /\ Cardinality(new) \in Nat
    BY <1>6, <2>1, FS_CardinalityType
  <2>3. Cardinality(Lost \cup new)
          = Cardinality(Lost) + Cardinality(new) - Cardinality(Lost \cap new)
    BY <1>6, <2>1, FS_Union
  <2>4. Cardinality(Lost \cap new) = 0
    BY <1>4, FS_EmptySet
  <2> QED
    BY <1>3, <1>6, <2>2, <2>3, <2>4 DEF CountInv
<1>8. Made' = Made
  BY <1>1 DEF Made
<1> QED
  BY <1>7, <1>8 DEF CountInv

LEMMA CountStep == IndInv /\ OutcomeInv /\ CountInv /\ [ChaosNext]_chaosVars => CountInv'
<1> SUFFICES ASSUME IndInv, OutcomeInv, CountInv, [ChaosNext]_chaosVars PROVE CountInv'
  OBVIOUS
<1>1. Len(Links) \in Nat
  BY ChaosConstants
<1>2. turn \in 0 .. Len(Links) => outcome = "running"
  BY <1>1 DEF CountInv
<1>3. ASSUME NEW c \in Clients, NEW op \in Op, Fire(c, op) PROVE CountInv'
  BY <1>3, FireCount
<1>4. CASE NotDue
  <2>1. turn \in 0 .. Len(Links)
    BY <1>1, <1>4 DEF NotDue
  <2> QED
    BY <1>2, <1>4, <2>1, SameCounts DEF NotDue, vars, client, history
<1>5. ASSUME NEW c \in Clients, Deliver(c) \/ TickLink(c) PROVE CountInv'
  <2>1. turn \in 0 .. Len(Links) /\ UNCHANGED <<fired, calls_failed, outcome>>
    BY SMTT(30), <1>1, <1>5 DEF Deliver, TickLink
  <2>2. UNCHANGED <<next_id, gaveUp>>
    BY <1>5 DEF Deliver, TickLink, Execute, Replay, OnResponse, OnTick, Retry, vars,
                client, history
  <2> QED
    BY <1>2, <2>1, <2>2, SameCounts
<1>6. ASSUME NEW c \in Clients, Poll(c) PROVE CountInv'
  <2>1. outcome = "running" /\ UNCHANGED <<turn, fired, outcome>>
    BY <1>6 DEF Poll
  <2>2. CASE PollCompleted(c) /\ UNCHANGED calls_failed
    BY <2>1, <2>2, SameCounts DEF PollCompleted
  <2>3. CASE PollFailed(c) /\ calls_failed' = calls_failed + Cardinality(failed[c])
    BY <2>1, <2>3, FailedCount
  <2> QED
    BY <1>6, <2>2, <2>3 DEF Poll
<1>7. CASE Check
  <2>1. /\ turn > Len(Links) /\ Polled /\ UNCHANGED <<vars, fired, calls_failed>>
        /\ outcome' \in {"ok", "mismatch"} => Drained /\ turn' = turn
        /\ outcome' = "did_not_drain" => turn' = turn
        /\ outcome' \in {"running", "ok", "mismatch", "did_not_drain"}
    BY <1>7 DEF Check
  <2>2. outcome' = "ok" => Polled' /\ Drained'
    BY <2>1 DEF Polled, Drained, vars, client
  <2> QED
    BY <2>1, <2>2, SameCounts DEF vars, client, history
<1>8. CASE UNCHANGED chaosVars
  <2>1. UNCHANGED <<client, history, harness>>
    BY <1>8 DEF chaosVars, vars
  <2>2. Polled' = Polled /\ Drained' = Drained
    BY <2>1 DEF Polled, Drained, client, harness
  <2> QED
    BY <2>1, <2>2, SameCounts DEF CountInv, client, history, harness
<1> QED
  BY <1>3, <1>4, <1>5, <1>6, <1>7, <1>8 DEF ChaosNext, Go
\* The answers that were polled, one by one.
Slots == UNION {{c} \X (1 .. Len(answered[c])) : c \in Clients}

LEMMA SlotFacts ==
    /\ \A p \in Slots : p = <<p[1], p[2]>> /\ p[1] \in Clients
                        /\ p[2] \in 1 .. Len(answered[p[1]])
    /\ \A c \in Clients : \A n \in 1 .. Len(answered[c]) : <<c, n>> \in Slots
BY DEF Slots

\* Once all is polled, the outcomes are those that were handed over.
LEMMA AllPolled ==
    ASSUME IndInv, OutcomeInv, Polled, Drained, NEW c \in Clients
    PROVE  /\ answered[c] \in Seq(ResponseType)
           /\ \A m, n \in 1 .. Len(answered[c]) :
                 answered[c][m].id = answered[c][n].id => m = n
           /\ \A n \in 1 .. Len(answered[c]) :
                 /\ answered[c][n].id \in 0 .. next_id[c] - 1
                 /\ answered[c][n].id \notin gaveUp[c]
           /\ \A id \in 0 .. next_id[c] - 1 :
                 \/ id \in gaveUp[c]
                 \/ \E n \in 1 .. Len(answered[c]) : answered[c][n].id = id
<1>1. answered[c] \in Seq(ResponseType)
  BY DEF IndInv, TypeOK
<1>2. Answers(c) = answered[c]
  <2>1. answered[c] \o << >> = answered[c]
    BY <1>1, ConcatEmptySeq
  <2>2. completed[c] = << >>
    BY DEF Polled
  <2> QED
    BY <2>1, <2>2 DEF Answers
<1>3. Failures(c) = gaveUp[c] /\ DOMAIN pending[c] = {}
  BY DEF Polled, Drained, Failures
<1>4. Outcome(Answers(c), Failures(c), DOMAIN pending[c], next_id[c])
  BY OutcomeByClient
<1> QED
  BY <1>1, <1>2, <1>3, <1>4 DEF Outcome

\* There are as many answers as calls that did not fail.
LEMMA SlotCount ==
    ASSUME IndInv, OutcomeInv, Polled, Drained
    PROVE  /\ IsFiniteSet(Slots)
           /\ Cardinality(Slots) = Cardinality(Made \ Lost)
<1> DEFINE f == [p \in Slots |-> <<p[1], answered[p[1]][p[2]].id>>]
<1>1. ASSUME NEW p \in Slots PROVE f[p] \in Made \ Lost
  <2>1. p[1] \in Clients /\ p[2] \in 1 .. Len(answered[p[1]])
    BY SlotFacts
  <2>2. /\ answered[p[1]][p[2]].id \in 0 .. next_id[p[1]] - 1
        /\ answered[p[1]][p[2]].id \notin gaveUp[p[1]]
    BY <2>1, AllPolled
  <2>3. f[p] \in Made
    BY <2>1, <2>2, PairFacts
  <2>4. f[p] \notin Lost
    BY <2>2, PairFacts
  <2> QED
    BY <2>3, <2>4
<1>2. ASSUME NEW p \in Slots, NEW q \in Slots, f[p] = f[q] PROVE p = q
  <2>1. p[1] = q[1] /\ answered[p[1]][p[2]].id = answered[q[1]][q[2]].id
    BY <1>2
  <2>2. /\ p[1] \in Clients /\ p[2] \in 1 .. Len(answered[p[1]]) /\ p = <<p[1], p[2]>>
        /\ q[2] \in 1 .. Len(answered[q[1]]) /\ q = <<q[1], q[2]>>
    BY SlotFacts
  <2>3. p[2] = q[2]
    BY <2>1, <2>2, AllPolled
  <2> QED
    BY <2>1, <2>2, <2>3
<1>3. ASSUME NEW t \in Made \ Lost PROVE \E p \in Slots : f[p] = t
  <2>1. t = <<t[1], t[2]>> /\ t[1] \in Clients /\ t[2] \in 0 .. next_id[t[1]] - 1
    BY PairFacts
  <2>2. t[2] \notin gaveUp[t[1]]
    BY <2>1, PairFacts
  <2>3. PICK n \in 1 .. Len(answered[t[1]]) : answered[t[1]][n].id = t[2]
    BY <2>1, <2>2, AllPolled
  <2>4. <<t[1], n>> \in Slots
    BY <2>1, SlotFacts
  <2>5. f[<<t[1], n>>] = t
    BY <2>1, <2>3, <2>4
  <2> QED
    BY <2>4, <2>5
<1>4. f \in Injection(Slots, Made \ Lost) /\ f \in Surjection(Slots, Made \ Lost)
  <2>1. f \in [Slots -> Made \ Lost]
    BY <1>1
  <2> HIDE DEF f
  <2> QED
    BY <1>2, <1>3, <2>1 DEF Injection, Surjection, IsInjective
<1>5. IsFiniteSet(Made \ Lost)
  BY MadeFinite, FS_Difference DEF IndInv
<1> HIDE DEF f
<1> QED
  BY <1>4, <1>5, FS_Injection

\* Every answer has its execution, and every execution its call.
LEMMA LogCount ==
    ASSUME IndInv, OutcomeInv, OrderInv, AnswerIsItsExecution, Polled, Drained
    PROVE  Cardinality(Slots) <= Len(log) /\ Len(log) <= Cardinality(Made)
<1>1. log \in Seq(Execution) /\ Len(log) \in Nat
  BY DEF IndInv, TypeOK
<1>2. IsFiniteSet(1 .. Len(log)) /\ Cardinality(1 .. Len(log)) = Len(log)
  BY SMTT(30), <1>1, FS_Interval
<1>3. \A i, j \in 1 .. Len(log) :
         log[i].client = log[j].client /\ log[i].id = log[j].id => i = j
  BY DEF IndInv, DedupInv, AtMostOnce
<1>4. Cardinality(1 .. Len(log)) <= Cardinality(Made)
  <2> DEFINE g == [i \in 1 .. Len(log) |-> <<log[i].client, log[i].id>>]
  <2>1. ASSUME NEW i \in 1 .. Len(log) PROVE g[i] \in Made
    <3>1. log[i].client \in Clients
      <4>1. log[i] \in Execution
        BY <1>1
      <4> QED
        BY <4>1 DEF Execution
    <3>2. log[i].id \in 0 .. next_id[log[i].client] - 1
      BY <3>1 DEF IndInv, DedupInv, LogInTable, OrderInv, OnlyCallsSent
    <3> QED
      BY <3>1, <3>2, PairFacts
  <2>2. \A i, j \in 1 .. Len(log) : g[i] = g[j] => i = j
    BY <1>3
  <2>3. g \in [1 .. Len(log) -> Made]
    BY <2>1
  <2> HIDE DEF g
  <2>4. g \in Injection(1 .. Len(log), Made)
    BY <2>2, <2>3 DEF Injection, IsInjective
  <2> QED
    BY <2>4, MadeFinite, FS_Injection DEF IndInv
<1>5. Cardinality(Slots) <= Cardinality(1 .. Len(log))
  <2> DEFINE Of(p, i) == log[i].client = p[1] /\ log[i].id = answered[p[1]][p[2]].id
             h == [p \in Slots |-> CHOOSE i \in 1 .. Len(log) : Of(p, i)]
  <2>1. ASSUME NEW p \in Slots PROVE \E i \in 1 .. Len(log) : Of(p, i)
    <3>1. p[1] \in Clients /\ p[2] \in 1 .. Len(answered[p[1]])
      BY SlotFacts
    <3>2. Answers(p[1]) = answered[p[1]]
      <4>1. answered[p[1]] \o << >> = answered[p[1]]
        BY <3>1, AllPolled, ConcatEmptySeq
      <4> QED
        BY <3>1, <4>1 DEF Answers, Polled
    <3> QED
      BY SMTT(30), <3>1, <3>2 DEF AnswerIsItsExecution
  <2> HIDE DEF Of
  <2>2. \A p \in Slots : h[p] \in 1 .. Len(log) /\ Of(p, h[p])
    BY <2>1
  <2>3. h \in [Slots -> 1 .. Len(log)]
    BY <2>2
  <2> HIDE DEF h
  <2>4. ASSUME NEW p \in Slots, NEW q \in Slots, h[p] = h[q] PROVE p = q
    <3>1. Of(p, h[p]) /\ Of(q, h[p])
      BY <2>2, <2>4
    <3>2. p[1] = q[1] /\ answered[p[1]][p[2]].id = answered[q[1]][q[2]].id
      BY <3>1 DEF Of
    <3>3. /\ p[1] \in Clients /\ p[2] \in 1 .. Len(answered[p[1]]) /\ p = <<p[1], p[2]>>
          /\ q[2] \in 1 .. Len(answered[q[1]]) /\ q = <<q[1], q[2]>>
      BY SlotFacts
    <3>4. p[2] = q[2]
      BY <3>2, <3>3, AllPolled
    <3> QED
      BY <3>2, <3>3, <3>4
  <2>5. h \in Injection(Slots, 1 .. Len(log))
    BY <2>3, <2>4 DEF Injection, IsInjective
  <2> QED
    BY <1>2, <2>5, FS_Injection
<1> QED
  BY <1>2, <1>4, <1>5

LEMMA CountsAreTrue ==
    ASSUME IndInv, OutcomeInv, OrderInv, AnswerIsItsExecution, CountInv
    PROVE  SummaryTrue
<1> SUFFICES ASSUME outcome = "ok"
             PROVE  /\ calls_failed = GivenUp
                    /\ fired - calls_failed = Answered
                    /\ Answered <= Len(log) /\ Len(log) <= fired
                    /\ Answered + GivenUp = Calls
  BY DEF SummaryTrue
<1>1. /\ Polled /\ Drained /\ fired = Cardinality(Made) /\ calls_failed = Cardinality(Lost)
      /\ fired = Calls
  BY DEF CountInv, Drained
<1>2. Answered = Cardinality(Slots) /\ GivenUp = Cardinality(Lost)
  BY DEF Answered, Slots, GivenUp, Lost
<1>3. Cardinality(Slots) = Cardinality(Made) - Cardinality(Lost)
  <2>1. IsFiniteSet(Made) /\ Lost \subseteq Made
    BY MadeFinite, LostFinite DEF IndInv
  <2>2. Cardinality(Made \ Lost) = Cardinality(Made) - Cardinality(Made \cap Lost)
    BY <2>1, FS_Difference
  <2>3. Made \cap Lost = Lost
    BY <2>1
  <2> QED
    BY <1>1, <2>2, <2>3, SlotCount
<1>4. Cardinality(Slots) <= Len(log) /\ Len(log) <= Cardinality(Made)
  BY <1>1, LogCount
<1>5. Cardinality(Made) \in Nat /\ Cardinality(Lost) \in Nat
  <2>1. IsFiniteSet(Made) /\ IsFiniteSet(Lost)
    BY MadeFinite, LostFinite DEF IndInv
  <2> QED
    BY <2>1, FS_CardinalityType
<1>6. Len(log) \in Nat
  BY DEF IndInv, TypeOK
<1> DEFINE s == Cardinality(Slots)
           m == Cardinality(Made)
           l == Cardinality(Lost)
<1>7. s = m - l /\ s <= Len(log) /\ Len(log) <= m /\ m \in Nat /\ l \in Nat
  BY <1>3, <1>4, <1>5
<1>8. fired = m /\ calls_failed = l /\ Calls = m /\ Answered = s /\ GivenUp = l
  BY <1>1, <1>2
<1> HIDE DEF s, m, l
<1> QED
  BY <1>6, <1>7, <1>8

\* What run_chaos reports of a run that ends well is true: the counters of
\* its summary are the numbers of answers, failures and executions.
THEOREM SummaryTrueHolds == ChaosSpec => []SummaryTrue
<1>1. ChaosSpec => []OutcomeInv
  BY DrivesRpc, OutcomeInvariance, PTL
<1>2. ChaosSpec => []OrderInv
  BY DrivesRpc, OrderInvariance, PTL
<1>3. ChaosSpec => []AnswerIsItsExecution
  BY DrivesRpc, AnswersHold, PTL
<1>4. ChaosSpec => []CountInv
  BY CountInit, CountStep, RpcInvariance, <1>1, PTL DEF ChaosSpec
<1>5. IndInv /\ OutcomeInv /\ OrderInv /\ AnswerIsItsExecution /\ CountInv => SummaryTrue
  BY CountsAreTrue
<1> QED
  BY <1>1, <1>2, <1>3, <1>4, <1>5, RpcInvariance, PTL

\* run_chaos never ends with the error of a differential mismatch.
NoMismatch == outcome # "mismatch"

\* The log that run_chaos replays against ReferenceStore agrees with it: it
\* never reports a mismatch.
THEOREM NoMismatchHolds == ChaosSpec => []NoMismatch
<1>1. ChaosSpec => []DifferentialAgrees
  BY DrivesRpc, DifferentialHolds, PTL
<1>2. ChaosInit => NoMismatch
  BY DEF ChaosInit, NoMismatch
<1>3. DifferentialAgrees /\ NoMismatch /\ [ChaosNext]_chaosVars => NoMismatch'
  BY DEF NoMismatch, DifferentialAgrees, ChaosNext, Go, Fire, NotDue, TickLink, Poll, Check,
         Deliver, chaosVars, harness
<1> QED
  BY <1>1, <1>2, <1>3, PTL DEF ChaosSpec
=============================================================================
