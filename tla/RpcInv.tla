------------------------------- MODULE RpcInv -------------------------------
(***************************************************************************)
(* The inductive invariants of the rpc layer.  IndInv, from which RpcProof *)
(* derives AtMostOnce and AnswerIsItsExecution: the dedup tables and the   *)
(* execution log say the same, and every response, wherever it is, comes   *)
(* from the log.  On top of it OutcomeInv (OneOutcome), OrderInv           *)
(* (ProgramOrder) and StoresAgree, with its part DifferentialAgrees; from  *)
(* all but OutcomeInv, Linearizable.                                       *)
(***************************************************************************)
EXTENDS Rpc

\* r is the response to an execution for client c that is in the log l.
LoggedIn(l, c, r) ==
    \E i \in 1 .. Len(l) :
        /\ l[i].client = c
        /\ l[i].id = r.id
        /\ r = Response(l[i].id, l[i].result)

\* All of the sequence s are.
AllLoggedIn(l, c, s) == \A n \in 1 .. Len(s) : LoggedIn(l, c, s[n])

\* Every entry of a table is for its own id, and is in the log.
TableLogged ==
    \A c \in Clients : \A id \in DOMAIN seen[c] :
        seen[c][id].id = id /\ LoggedIn(log, c, seen[c][id])

\* Every execution is in the table of its server.
LogInTable ==
    \A i \in 1 .. Len(log) : log[i].id \in DOMAIN seen[log[i].client]

\* All the responses on their way, received, or handed to the application.
ResponsesLogged ==
    \A c \in Clients : /\ AllLoggedIn(log, c, responses[c])
                       /\ AllLoggedIn(log, c, completed[c])
                       /\ AllLoggedIn(log, c, answered[c])

\* What the tables, the log and the responses say of each other.
DedupInv ==
    /\ TableLogged
    /\ LogInTable
    /\ ResponsesLogged
    /\ AtMostOnce
    /\ \A c \in Clients : IsFiniteSet(DOMAIN seen[c])

\* Only calls that were made are pending.
PendingIssued == \A c \in Clients : DOMAIN pending[c] \subseteq 0 .. next_id[c] - 1

\* The tables and the log agree, no execution is repeated, and no response
\* is made up.
IndInv == TypeOK /\ PendingIssued /\ DedupInv

-----------------------------------------------------------------------------
(* Outcomes *)

\* A failure that was polled is not reported again.
FailedApart == \A c \in Clients : failed[c] \cap gaveUp[c] = {}

\* A call that has ended was made, and has ended once; and a call that was
\* made is pending or has ended.
OutcomeInv ==
    /\ OneOutcome
    /\ \A c \in Clients :
          /\ Failures(c) \subseteq 0 .. next_id[c] - 1
          /\ \A n \in 1 .. Len(Answers(c)) :
                Answers(c)[n].id \in 0 .. next_id[c] - 1
          /\ \A id \in 0 .. next_id[c] - 1 :
                \/ id \in Failures(c) \cup DOMAIN pending[c]
                \/ \E n \in 1 .. Len(Answers(c)) : Answers(c)[n].id = id
    /\ FailedApart
    /\ gaveUp \in [Clients -> SUBSET Nat]

-----------------------------------------------------------------------------
(* Orders *)

\* The id y has a copy among the first n requests of the queue s.
QueuedBefore(s, n, y) == \E m \in 1 .. n : s[m].id = y

\* The first copies of the calls are in the order of the calls: what was
\* called before a queued request has been executed or is ahead of it.
QueueOrdered ==
    \A c \in Clients : \A n \in 1 .. Len(requests[c]) :
        \A y \in 0 .. requests[c][n].id - 1 :
            y \in DOMAIN seen[c] \/ QueuedBefore(requests[c], n - 1, y)

\* Every call that was made has been executed or has a copy in the queue.
EveryCallSent ==
    \A c \in Clients : \A y \in 0 .. next_id[c] - 1 :
        y \in DOMAIN seen[c] \/ QueuedBefore(requests[c], Len(requests[c]), y)

\* Only calls that were made are sent and executed.
OnlyCallsSent ==
    \A c \in Clients :
        /\ \A n \in 1 .. Len(requests[c]) : requests[c][n].id \in 0 .. next_id[c] - 1
        /\ DOMAIN seen[c] \subseteq 0 .. next_id[c] - 1

\* A call has been executed only if those before it have been.
SeenClosed ==
    \A c \in Clients : \A z \in DOMAIN seen[c] :
        \A y \in 0 .. z - 1 : y \in DOMAIN seen[c]

\* When each call was made.
IssuedInv ==
    /\ issued = [c \in Clients |-> issued[c]]
    /\ \A c \in Clients : /\ DOMAIN issued[c] = 0 .. next_id[c] - 1
                         /\ \A id \in DOMAIN issued[c] : issued[c][id] \in 0 .. Len(log)

\* An execution comes after everything that was executed before its call.
ExecutedAfterCall ==
    \A i \in 1 .. Len(log) : i > issued[log[i].client][log[i].id]

\* The queues, the tables and the log keep the order of the calls.
OrderInv ==
    /\ QueueOrdered
    /\ EveryCallSent
    /\ OnlyCallsSent
    /\ SeenClosed
    /\ IssuedInv
    /\ ProgramOrder
    /\ ExecutedAfterCall

-----------------------------------------------------------------------------
(* The two stores *)

\* The list of entries e and the map st hold the same: each key of st has
\* one entry, with its value, and there are no others.
SameContents(e, st) ==
    /\ e \in Seq([key : Keys, value : Values])
    /\ \A i, j \in 1 .. Len(e) : e[i].key = e[j].key => i = j
    /\ \A i \in 1 .. Len(e) :
          e[i].key \in DOMAIN st /\ e[i].value = st[e[i].key]
    /\ \A k \in DOMAIN st : HasKey(e, k)

\* The service and the reference hold the same, and have answered the same.
StoresAgree ==
    /\ SameContents(reference, store)
    /\ Len(replayed) = Len(log) /\ replayed \in Seq(ResultType)
    /\ DifferentialAgrees
=============================================================================
