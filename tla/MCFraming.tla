----------------------------- MODULE MCFraming -----------------------------
(***************************************************************************)
(* The messages for model checking Framing, with bytes of four values.     *)
(***************************************************************************)
EXTENDS Framing

\* A get, a delete of the empty key, a put of an empty value whose key has
\* the greatest length that fits, and a put whose value looks like a length.
SomeOperations ==
    {KvOp(METHOD_GET, <<3, 0>>, << >>), KvOp(METHOD_DELETE, << >>, << >>),
     KvOp(METHOD_PUT, <<0, 1, 2>>, << >>),
     KvOp(METHOD_PUT, << >>, <<1, 0>>)}

SomeAnswers ==
    {[ok |-> TRUE, payload |-> << >>], [ok |-> FALSE, payload |-> << >>],
     [ok |-> TRUE, payload |-> <<0, 3>>]}
=============================================================================
