-------------------------------- MODULE Rpc --------------------------------
(***************************************************************************)
(* crates/rpc with the service of crates/workload: several clients, each   *)
(* an RpcClient with its own connection to its own RpcServer; the servers  *)
(* share one key-value store (make_server, SharedStore).                   *)
(*                                                                         *)
(* A connection is what ReliableStream and the framing make of it: in each *)
(* direction a queue of whole messages, delivered in order, each once, and *)
(* at some point perhaps no longer.  The loops of on_datagram over the     *)
(* frames that have become complete take one frame per step: nothing else  *)
(* runs during the loop, and a datagram may complete any number of frames, *)
(* so the steps between two frames are those of frames that came apart.    *)
(* The clock is left out: which calls are past retry_deadline when on_tick *)
(* is called is an input of OnTick.                                        *)
(***************************************************************************)
EXTENDS KvStore, FiniteSets

CONSTANTS
    Clients,
    MaxAttempts,   \* RpcClient::max_attempts
    MaxCalls       \* how many calls each client makes at most (a bound)

ASSUME RpcAssumption == MaxAttempts \in Nat \ {0} /\ MaxCalls \in Nat

VARIABLES
    next_id,     \* next_id[c]: the id of c's next call
    pending,     \* pending[c]: the PendingCall of each id, op and attempts
    completed,   \* completed[c]: responses not yet polled
    failed,      \* failed[c]: ids given up and not yet polled
    requests,    \* requests[c]: the frames on their way to c's server
    responses,   \* responses[c]: the frames on their way back
    seen,        \* seen[c]: the response of each id c's server has executed
    executions,  \* executions[c]: how often c's server has run the handler
    store,       \* the SharedStore
    log,         \* chaos.rs exec_log: every execution, with its client and id
    reference,   \* chaos.rs: the ReferenceStore after replaying log
    replayed,    \* chaos.rs: what it answered to each execution of log
    issued,      \* history: issued[c][id], the length of log at call()
    answered,    \* history: what poll_completed has returned
    gaveUp       \* history: what poll_failed has returned

client == <<next_id, pending, completed, failed>>
server == <<seen, executions, store, log, reference, replayed>>
history == <<issued, answered, gaveUp>>
vars == <<client, requests, responses, server, history>>

NoCalls == [id \in {} |-> 0]

Init ==
    /\ next_id = [c \in Clients |-> 0]
    /\ pending = [c \in Clients |-> NoCalls]
    /\ completed = [c \in Clients |-> << >>]
    /\ failed = [c \in Clients |-> {}]
    /\ requests = [c \in Clients |-> << >>]
    /\ responses = [c \in Clients |-> << >>]
    /\ seen = [c \in Clients |-> NoCalls]
    /\ executions = [c \in Clients |-> 0]
    /\ store = EmptyStore
    /\ log = << >>
    /\ reference = << >>
    /\ replayed = << >>
    /\ issued = [c \in Clients |-> NoCalls]
    /\ answered = [c \in Clients |-> << >>]
    /\ gaveUp = [c \in Clients |-> {}]

Request(id, op) == [id |-> id, op |-> op]

Response(id, result) ==
    [id |-> id, ok |-> result.ok, payload |-> result.payload]

\* f with x mapped to y; f without the keys in S.
With(f, x, y) == [k \in DOMAIN f \cup {x} |-> IF k = x THEN y ELSE f[k]]

\* Mutation: the call is looked up and not removed.
Without_Kept(f, S) == f

Without(f, S) == [k \in DOMAIN f \ S |-> f[k]]

-----------------------------------------------------------------------------
(* RpcClient *)

IdAfter(id) == id + 1

\* Mutation: the first transmission is left to on_tick.
Call_Deferred(c, op) ==
    LET id == next_id[c]
    IN  /\ id < MaxCalls
        /\ next_id' = [next_id EXCEPT ![c] = id + 1]
        /\ pending' = [pending EXCEPT ![c] =
                         With(@, id, [op |-> op, attempts |-> 1])]
        /\ issued' = [issued EXCEPT ![c] = With(@, id, Len(log))]
        /\ UNCHANGED <<completed, failed, requests, responses, server,
                       answered, gaveUp>>

Call(c, op) ==
    LET id == next_id[c]
    IN  /\ id < MaxCalls
        /\ next_id' = [next_id EXCEPT ![c] = IdAfter(id)]
        /\ requests' = [requests EXCEPT ![c] = Append(@, Request(id, op))]
        /\ pending' = [pending EXCEPT ![c] =
                         With(@, id, [op |-> op, attempts |-> 1])]
        /\ issued' = [issued EXCEPT ![c] = With(@, id, Len(log))]
        /\ UNCHANGED <<completed, failed, responses, server, answered, gaveUp>>

\* on_datagram: a response completes its call, unless the call is no longer
\* pending.
OnResponse(c) ==
    LET response == Head(responses[c])
    IN  /\ responses[c] # << >>
        /\ responses' = [responses EXCEPT ![c] = Tail(@)]
        /\ \/ /\ response.id \in DOMAIN pending[c]
              /\ pending' = [pending EXCEPT ![c] = Without(@, {response.id})]
              /\ completed' = [completed EXCEPT ![c] = Append(@, response)]
           \/ /\ response.id \notin DOMAIN pending[c]
              /\ UNCHANGED <<pending, completed>>
        /\ UNCHANGED <<next_id, failed, requests, server, history>>

\* The orders in which a HashMap may be iterated.
Orders(S) ==
    {f \in [1 .. Cardinality(S) -> S] :
        \A i, j \in 1 .. Cardinality(S) : f[i] = f[j] => i = j}

\* Mutation: one attempt too many.
ToFail_OffByOne(c, expired) ==
    {id \in expired : pending[c][id].attempts > MaxAttempts}

\* The calls of `expired' that on_tick gives up.
ToFail(c, expired) ==
    {id \in expired : pending[c][id].attempts + 1 > MaxAttempts}

\* The loop of on_tick: the calls in `expired' but not in to_fail are sent
\* again, in some order; those in to_fail are given up.
Retry(c, expired, to_fail) ==
    /\ expired # {}
    /\ \E order \in Orders(expired \ to_fail) :
          requests' = [requests EXCEPT ![c] =
             @ \o [i \in DOMAIN order |->
                     Request(order[i], pending[c][order[i]].op)]]
    /\ pending' = [pending EXCEPT ![c] =
          [id \in DOMAIN pending[c] \ to_fail |->
             IF id \in expired
               THEN [pending[c][id] EXCEPT !.attempts = @ + 1]
               ELSE pending[c][id]]]
    /\ failed' = [failed EXCEPT ![c] = @ \cup to_fail]
    /\ UNCHANGED <<next_id, completed, responses, server, history>>

\* Mutation: a call out of attempts is skipped and stays pending.
OnTick_Lingers(c, expired) == Retry(c, expired \ ToFail(c, expired), {})

\* on_tick, when the calls in `expired' are past their deadline.
OnTick(c, expired) == Retry(c, expired, ToFail(c, expired))

\* poll_completed and poll_failed.
PollCompleted(c) ==
    /\ completed[c] # << >>
    /\ answered' = [answered EXCEPT ![c] = @ \o completed[c]]
    /\ completed' = [completed EXCEPT ![c] = << >>]
    /\ UNCHANGED <<next_id, pending, failed, requests, responses, server,
                   issued, gaveUp>>

PollFailed(c) ==
    /\ failed[c] # {}
    /\ gaveUp' = [gaveUp EXCEPT ![c] = @ \cup failed[c]]
    /\ failed' = [failed EXCEPT ![c] = {}]
    /\ UNCHANGED <<next_id, pending, completed, requests, responses, server,
                   issued, answered>>

-----------------------------------------------------------------------------
(* RpcServer::on_datagram, for one request *)

\* Mutations: nothing is remembered; all connections share one table.
Table_Empty(c) == NoCalls

Table_Shared(c) ==
    [id \in UNION {DOMAIN seen[d] : d \in Clients} |->
        seen[CHOOSE d \in Clients : id \in DOMAIN seen[d]][id]]

\* The dedup table that c's server looks a request up in: its own.
Table(c) == seen[c]

\* Mutation: each server works on a store of its own.
StoreOf_Own(c) ==
    LET after[i \in 0 .. Len(log)] ==
          IF i = 0 THEN EmptyStore
          ELSE IF log[i].client = c THEN ApplyStore(after[i - 1], log[i].op)
          ELSE after[i - 1]
    IN  after[Len(log)]

\* The store that the handler of c's server works on: the SharedStore.
StoreOf(c) == store

\* The request is new: the handler of make_server runs, and is logged.
Execute(c) ==
    LET request == Head(requests[c])
        result  == ApplyResult(StoreOf(c), request.op)
        answer  == Response(request.id, result)
    IN  /\ requests[c] # << >>
        /\ request.id \notin DOMAIN Table(c)
        /\ requests' = [requests EXCEPT ![c] = Tail(@)]
        /\ store' = ApplyStore(StoreOf(c), request.op)
        /\ log' = Append(log, [client |-> c, id |-> request.id,
                               op |-> request.op, result |-> result])
        /\ replayed' = Append(replayed, RefResult(reference, request.op))
        /\ reference' = RefStore(reference, request.op)
        /\ executions' = [executions EXCEPT ![c] = @ + 1]
        /\ seen' = [seen EXCEPT ![c] = With(@, request.id, answer)]
        /\ responses' = [responses EXCEPT ![c] = Append(@, answer)]
        /\ UNCHANGED <<client, history>>

\* A repeated request is answered from the table.
Replay(c) ==
    LET request == Head(requests[c])
    IN  /\ requests[c] # << >>
        /\ request.id \in DOMAIN Table(c)
        /\ requests' = [requests EXCEPT ![c] = Tail(@)]
        /\ responses' = [responses EXCEPT ![c] =
                           Append(@, Table(c)[request.id])]
        /\ UNCHANGED <<client, server, history>>

-----------------------------------------------------------------------------

Next ==
    \E c \in Clients :
        \/ \E op \in Op : Call(c, op)
        \/ OnResponse(c)
        \/ \E expired \in SUBSET DOMAIN pending[c] : OnTick(c, expired)
        \/ PollCompleted(c)
        \/ PollFailed(c)
        \/ Execute(c)
        \/ Replay(c)

Spec == Init /\ [][Next]_vars

\* The call id of c runs into its deadline.
Expires(c, id) ==
    \E expired \in SUBSET DOMAIN pending[c] : id \in expired /\ OnTick(c, expired)

\* on_tick is called again and again with a clock that advances, so a call
\* that stays pending runs into its deadline.  Nothing is assumed of the
\* connection: it may never deliver a frame.
FairSpec ==
    /\ Spec
    /\ \A c \in Clients : \A id \in 0 .. MaxCalls - 1 : WF_vars(Expires(c, id))

-----------------------------------------------------------------------------
(* Properties *)

ResultType == [ok : BOOLEAN, payload : Values \cup {Empty}]

ResponseType == [id : Nat, ok : BOOLEAN, payload : Values \cup {Empty}]

RequestType == [id : Nat, op : Op]

Execution == [client : Clients, id : Nat, op : Op, result : ResultType]

IsMap(f, S) == f \in [DOMAIN f -> S] /\ DOMAIN f \subseteq Nat

\* The parts of the state have the shapes that the structs of client.rs and
\* server.rs give them, and the attempts of a pending call stay within
\* max_attempts.
TypeOK ==
    /\ next_id \in [Clients -> 0 .. MaxCalls]
    /\ pending = [c \in Clients |-> pending[c]]
    /\ \A c \in Clients :
          IsMap(pending[c], [op : Op, attempts : 1 .. MaxAttempts])
    /\ completed \in [Clients -> Seq(ResponseType)]
    /\ failed \in [Clients -> SUBSET Nat]
    /\ requests \in [Clients -> Seq(RequestType)]
    /\ responses \in [Clients -> Seq(ResponseType)]
    /\ seen = [c \in Clients |-> seen[c]]
    /\ \A c \in Clients : IsMap(seen[c], ResponseType)
    /\ executions \in [Clients -> Nat]
    /\ store \in [DOMAIN store -> Values] /\ DOMAIN store \subseteq Keys
    /\ log \in Seq(Execution)
    /\ answered \in [Clients -> Seq(ResponseType)]

\* All the answers c has got, and all the calls it has given up.
Answers(c) == answered[c] \o completed[c]

Failures(c) == gaveUp[c] \cup failed[c]

\* WIRE.md: "every request's handler executes at most once", however often
\* on_tick repeats the request; `executions' counts exactly the distinct ids.
AtMostOnce ==
    /\ \A i, j \in 1 .. Len(log) :
          log[i].client = log[j].client /\ log[i].id = log[j].id => i = j
    /\ \A c \in Clients : executions[c] = Cardinality(DOMAIN seen[c])

\* WIRE.md: "every completed call's response is the one that execution
\* produced", of its own operation and not of another call's.
AnswerIsItsExecution ==
    \A c \in Clients : \A n \in 1 .. Len(Answers(c)) :
        \E i \in 1 .. Len(log) :
            /\ log[i].client = c /\ log[i].id = Answers(c)[n].id
            /\ Answers(c)[n] = Response(log[i].id, log[i].result)

\* A call ends once: completed once, or failed, or neither yet; late and
\* repeated responses are ignored, also after the call was given up.
OneOutcome ==
    \A c \in Clients :
        /\ \A m, n \in 1 .. Len(Answers(c)) :
              Answers(c)[m].id = Answers(c)[n].id => m = n
        /\ \A n \in 1 .. Len(Answers(c)) :
              Answers(c)[n].id \notin Failures(c) \cup DOMAIN pending[c]
        /\ Failures(c) \cap DOMAIN pending[c] = {}

\* Retries never reorder a client's operations: its calls are executed in
\* the order in which it made them.
ProgramOrder ==
    \A i, j \in 1 .. Len(log) :
        i < j /\ log[i].client = log[j].client => log[i].id < log[j].id

\* The shared store is linearizable, whatever the connections do between a
\* call and its response: every client is answered as one sequential store,
\* the reference, answers the operations of all clients in the order of the
\* log, and the place of a call in that order lies between call() and its
\* response.
Linearizable ==
    \A c \in Clients : \A n \in 1 .. Len(Answers(c)) :
        \E i \in issued[c][Answers(c)[n].id] + 1 .. Len(log) :
            /\ log[i].client = c /\ log[i].id = Answers(c)[n].id
            /\ Answers(c)[n] = Response(log[i].id, replayed[i])

\* The differential check of run_chaos never fails: whatever the order of
\* executions, the shared store answers as the reference store does.
DifferentialAgrees ==
    \A i \in 1 .. Len(log) : log[i].result = replayed[i]

\* Every call completes or fails in the end, also when the connection dies.
CallsResolve ==
    \A c \in Clients : \A id \in 0 .. MaxCalls - 1 :
        id \in DOMAIN pending[c] ~> id \notin DOMAIN pending[c]
=============================================================================
