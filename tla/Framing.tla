------------------------------ MODULE Framing ------------------------------
(***************************************************************************)
(* Length-prefixed messages over a byte stream (crates/rpc, framing.rs):   *)
(* one direction of an rpc connection, from the call or the response to    *)
(* the message that the other side decodes.  The sender encodes and frames *)
(* its messages into a stream; the stream hands its bytes over in pieces   *)
(* of any size; feed, drain_frames and decode are called together, as both *)
(* on_datagram handlers do.  The length is LenPrefix bytes (4 in the code).*)
(***************************************************************************)
EXTENDS Messages

CONSTANTS
    LenPrefix,     \* framing.rs LEN_PREFIX
    Operations,    \* the operations that are called (a bound)
    Answers,       \* the results, ok and payload, that are returned (a bound)
    MaxMessages    \* how many messages are sent (a bound)

ASSUME FramingAssumption ==
    /\ LenPrefix \in Nat \ {0} /\ MaxMessages \in Nat
    /\ MaxMessages <= Weight[IdBytes]

\* The calls and answers that fit: a method has a code, only a put has a
\* value, and no length is greater than its field can count.
ASSUME OperationsFit ==
    \A op \in Operations :
        /\ op = KvOp(op.method, op.key, op.value)
        /\ op.method \in {METHOD_GET, METHOD_PUT, METHOD_DELETE}
        /\ op.key \in Seq(Byte) /\ op.value \in Seq(Byte)
        /\ IF op.method = METHOD_PUT THEN Len(op.key) < Weight[KeyLenBytes]
                                     ELSE op.value = << >>
        /\ IdBytes + 1 + Len(EncodePayload(op)) < Weight[LenPrefix]

ASSUME AnswersFit ==
    \A answer \in Answers :
        /\ answer = [ok |-> answer.ok, payload |-> answer.payload]
        /\ answer.ok \in BOOLEAN /\ answer.payload \in Seq(Byte)
        /\ IdBytes + 1 + Len(answer.payload) < Weight[LenPrefix]

VARIABLES
    direction,  \* "requests" or "responses"
    sent,       \* the messages framed so far
    stream,     \* the bytes that have not reached the reader
    buf,        \* FrameReader::buf
    decoded     \* the messages that the other side has decoded

vars == <<direction, sent, stream, buf, decoded>>

Frame(payload) == ToLeBytes(Len(payload), LenPrefix) \o payload

\* Where the frame at the front of the buffer ends.
FrameEnd(b) == LenPrefix + FromLeBytes(b, LenPrefix)

\* Mutation: a frame waits for a byte after it.
Complete_Strict(b) == Len(b) >= LenPrefix /\ Len(b) > FrameEnd(b)

\* A whole frame is at the front of the buffer: the two breaks of the loop.
Complete(b) == Len(b) >= LenPrefix /\ Len(b) >= FrameEnd(b)

\* One pass of the loop of drain_frames, on the frames found so far and the
\* bytes that are left.
DrainFrame(d) ==
    IF Complete(d.buf)
      THEN [frames |-> Append(d.frames,
                              SubSeq(d.buf, LenPrefix + 1, FrameEnd(d.buf))),
            buf |-> From(d.buf, FrameEnd(d.buf) + 1)]
      ELSE d

\* drain_frames: the frames it returns, and the bytes it leaves.  A pass that
\* finds a frame takes a byte at least, so Len(b) passes are enough.
DrainFrames(b) ==
    LET loop[k \in 0 .. Len(b)] ==
          IF k = 0 THEN [frames |-> << >>, buf |-> b] ELSE DrainFrame(loop[k - 1])
    IN  loop[Len(b)]

-----------------------------------------------------------------------------

Init ==
    /\ direction \in {"requests", "responses"}
    /\ sent = << >> /\ stream = << >>
    /\ buf = << >> /\ decoded = << >>

\* RpcClient::call: ids are given in turn.
Call(op) ==
    LET request == [id |-> Len(sent), op |-> op]
    IN  /\ direction = "requests"
        /\ Len(sent) < MaxMessages
        /\ sent' = Append(sent, request)
        /\ stream' = stream \o Frame(EncodeRequest(request))
        /\ UNCHANGED <<direction, buf, decoded>>

\* RpcServer::on_datagram answers request after request.
Answer(answer) ==
    LET response == [id |-> Len(sent), ok |-> answer.ok,
                     payload |-> answer.payload]
    IN  /\ direction = "responses"
        /\ Len(sent) < MaxMessages
        /\ sent' = Append(sent, response)
        /\ stream' = stream \o Frame(EncodeResponse(response))
        /\ UNCHANGED <<direction, buf, decoded>>

Decode(b) ==
    IF direction = "requests" THEN DecodeRequest(b) ELSE DecodeResponse(b)

\* The frames that decode, decoded; the others are skipped.
Decoded(frames) ==
    LET kept[k \in 0 .. Len(frames)] ==
          IF k = 0 THEN << >>
          ELSE IF TooShort(frames[k]) THEN kept[k - 1]
          ELSE Append(kept[k - 1], Decode(frames[k]))
    IN  kept[Len(frames)]

\* The next n bytes arrive.
Feed(n) ==
    LET drained == DrainFrames(buf \o SubSeq(stream, 1, n))
    IN  /\ stream' = SubSeq(stream, n + 1, Len(stream))
        /\ buf' = drained.buf
        /\ decoded' = decoded \o Decoded(drained.frames)
        /\ UNCHANGED <<direction, sent>>

Next ==
    \/ \E op \in Operations : Call(op)
    \/ \E answer \in Answers : Answer(answer)
    \/ \E n \in 1 .. Len(stream) : Feed(n)

Spec == Init /\ [][Next]_vars

-----------------------------------------------------------------------------

\* However the stream is cut into pieces, in the middle of a prefix, of a
\* payload, or with several frames in one piece, the other side decodes the
\* messages that were sent, in order: their ids, and an operation with its
\* key and value told apart, up to the longest key a u16 can count, or an
\* answer.
MessagesIntact ==
    /\ Len(decoded) <= Len(sent)
    /\ \A i \in 1 .. Len(decoded) : decoded[i] = sent[i]

\* No message is left behind: when every byte has arrived, every message has
\* been decoded, those with an empty payload too, and the buffer is empty.
NothingHeldBack == stream = << >> => decoded = sent /\ buf = << >>
=============================================================================
