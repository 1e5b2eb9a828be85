--------------------------- MODULE ReliableStream ---------------------------
(***************************************************************************)
(* What a pair of transport connections promises to its two applications:  *)
(* one byte stream in each direction.  What send() takes, recv() returns   *)
(* on the other side in the same order, nothing left out, nothing twice;   *)
(* the end of the stream is reported only after all that was written       *)
(* before close() has arrived.  Nothing is said of when: a stream may stop *)
(* for good at any point (the connection failed, or the network is gone).  *)
(***************************************************************************)
EXTENDS Integers, Sequences

CONSTANTS Endpoint, Peer(_)

VARIABLES
    written,   \* written[e]: how many bytes e has written; the i-th is i
    closed,    \* closed[e]: e has closed its stream
    final,     \* final[e]: how many bytes it had written by then
    arrived,   \* arrived[e]: how many bytes of its peer's stream e holds
    read,      \* read[e]: the bytes e's application has read
    eof        \* eof[e]: e has been told that its peer is done

vars == <<written, closed, final, arrived, read, eof>>

Init ==
    /\ written = [e \in Endpoint |-> 0]
    /\ closed = [e \in Endpoint |-> FALSE]
    /\ final = [e \in Endpoint |-> 0]
    /\ arrived = [e \in Endpoint |-> 0]
    /\ read = [e \in Endpoint |-> << >>]
    /\ eof = [e \in Endpoint |-> FALSE]

Write(e) ==
    /\ written'[e] \in Nat /\ written'[e] > written[e]
    /\ written' = [written EXCEPT ![e] = written'[e]]
    /\ UNCHANGED <<closed, final, arrived, read, eof>>

CloseStream(e) ==
    /\ ~closed[e]
    /\ closed' = [closed EXCEPT ![e] = TRUE]
    /\ final' = [final EXCEPT ![e] = written[e]]
    /\ UNCHANGED <<written, arrived, read, eof>>

Arrive(e) ==
    /\ \E a \in (arrived[e] + 1) .. written[Peer(e)] :
          arrived' = [arrived EXCEPT ![e] = a]
    /\ UNCHANGED <<written, closed, final, read, eof>>

EndOfStream(e) ==
    /\ closed[Peer(e)] /\ arrived[e] >= final[Peer(e)]
    /\ eof' = [eof EXCEPT ![e] = TRUE]
    /\ UNCHANGED <<written, closed, final, arrived, read>>

Read(e) ==
    /\ read' = [read EXCEPT ![e] = [i \in 1 .. arrived[e] |-> i]]
    /\ UNCHANGED <<written, closed, final, arrived, eof>>

Next ==
    \E e \in Endpoint :
        Write(e) \/ CloseStream(e) \/ Arrive(e) \/ EndOfStream(e) \/ Read(e)

Spec == Init /\ [][Next]_vars
=============================================================================
