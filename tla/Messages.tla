------------------------------ MODULE Messages ------------------------------
(***************************************************************************)
(* The bytes of requests, responses (crates/rpc, message.rs) and of the    *)
(* key-value operations inside requests (crates/workload, kv.rs).          *)
(* A byte is a number below Base (256 in the code); integers are           *)
(* little-endian, of the given number of bytes.                            *)
(***************************************************************************)
EXTENDS Integers, Sequences

CONSTANTS
    Base,        \* how many values a byte has
    IdBytes,     \* the width of an id (8, a u64)
    KeyLenBytes  \* the width of a key's length (2, a u16)

ASSUME MessagesAssumption ==
    /\ Base \in Nat /\ Base > 2   \* the three methods are bytes
    /\ IdBytes \in Nat \ {0} /\ KeyLenBytes \in Nat \ {0}

Byte == 0 .. Base - 1

\* Base to the power i: the weight of the byte after i others.
Weight[i \in Nat] == IF i = 0 THEN 1 ELSE Base * Weight[i - 1]

\* to_le_bytes of n cut to w bytes, and back.
ToLeBytes(n, w) == [i \in 1 .. w |-> (n \div Weight[i - 1]) % Base]

FromLeBytes(b, w) ==
    LET value[i \in 0 .. w] ==
          IF i = 0 THEN 0 ELSE value[i - 1] + b[i] * Weight[i - 1]
    IN  value[w]

From(b, i) == SubSeq(b, i, Len(b))

\* Nothing could be decoded.
Malformed == [kind |-> "Malformed"]

-----------------------------------------------------------------------------
(* kv.rs: an operation is a record of its method, key and value *)

METHOD_GET == 0
METHOD_PUT == 1
METHOD_DELETE == 2

KvOp(method, key, value) ==
    [kind |-> "Op", method |-> method, key |-> key, value |-> value]

EncodePayload(op) ==
    IF op.method = METHOD_PUT
      THEN ToLeBytes(Len(op.key), KeyLenBytes) \o op.key \o op.value
      ELSE op.key

\* Mutation: the whole payload of a put is taken for its key.
KeyEnd_Whole(payload) == Len(payload)

\* Where the key in the payload of a put ends.
KeyEnd(payload) == KeyLenBytes + FromLeBytes(payload, KeyLenBytes)

DecodeOp(method, payload) ==
    CASE method \in {METHOD_GET, METHOD_DELETE} -> KvOp(method, payload, << >>)
      [] method = METHOD_PUT ->
           IF Len(payload) < KeyLenBytes THEN Malformed
           ELSE IF Len(payload) < KeyEnd(payload) THEN Malformed
           ELSE KvOp(method,
                     SubSeq(payload, KeyLenBytes + 1, KeyEnd(payload)),
                     From(payload, KeyEnd(payload) + 1))
      [] OTHER -> Malformed

-----------------------------------------------------------------------------
(* message.rs *)

\* Request::encode and Response::encode: the id, one byte (the method, or ok)
\* and the payload.
Encode(id, byte, payload) == ToLeBytes(id, IdBytes) \o <<byte>> \o payload

\* A request with its operation, as call() of workload's client.rs encodes
\* it, and a response.
EncodeRequest(r) == Encode(r.id, r.op.method, EncodePayload(r.op))

EncodeResponse(r) == Encode(r.id, IF r.ok THEN 1 ELSE 0, r.payload)

\* decode returns None.
TooShort(b) == Len(b) < IdBytes + 1

\* Request::decode followed by the Op::decode of make_server's handler.
DecodeRequest(b) ==
    [id |-> FromLeBytes(b, IdBytes),
     op |-> DecodeOp(b[IdBytes + 1], From(b, IdBytes + 2))]

DecodeResponse(b) ==
    [id |-> FromLeBytes(b, IdBytes), ok |-> b[IdBytes + 1] # 0,
     payload |-> From(b, IdBytes + 2)]
=============================================================================
