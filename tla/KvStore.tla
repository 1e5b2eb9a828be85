------------------------------ MODULE KvStore ------------------------------
(***************************************************************************)
(* The key-value service of crates/workload (kv.rs), twice: the map that   *)
(* the server keeps, and the list of entries of ReferenceStore, the oracle *)
(* that chaos.rs replays the server's executions against.  Both return a   *)
(* result (ok, payload) and a new store.  Payload encoding is left out: an *)
(* operation travels as itself.                                            *)
(***************************************************************************)
EXTENDS Integers, Sequences, FiniteSets

CONSTANTS
    Keys,
    Values,
    Empty     \* the empty payload

ASSUME EmptyAssumption == Empty \notin Values

Op == [method : {"Get", "Delete"}, key : Keys, value : {Empty}]
        \cup [method : {"Put"}, key : Keys, value : Values]

Result(ok, payload) == [ok |-> ok, payload |-> payload]

-----------------------------------------------------------------------------
(* apply: the store is a function from the keys present to their values *)

EmptyStore == [k \in {} |-> Empty]

\* What apply returns ...
ApplyResult(store, op) ==
    CASE op.method = "Get" /\ op.key \in DOMAIN store ->
            Result(TRUE, store[op.key])
      [] op.method = "Put" -> Result(TRUE, Empty)
      [] op.method = "Delete" -> Result(op.key \in DOMAIN store, Empty)
      [] OTHER -> Result(FALSE, Empty)

\* Mutation: delete leaves the entry in place.
ApplyStore_NoDelete(store, op) ==
    IF op.method = "Put"
      THEN [k \in DOMAIN store \cup {op.key} |->
              IF k = op.key THEN op.value ELSE store[k]]
      ELSE store

\* ... and the store it leaves.
ApplyStore(store, op) ==
    CASE op.method = "Put" ->
            [k \in DOMAIN store \cup {op.key} |->
                IF k = op.key THEN op.value ELSE store[k]]
      [] op.method = "Delete" ->
            [k \in DOMAIN store \ {op.key} |-> store[k]]
      [] OTHER -> store

-----------------------------------------------------------------------------
(* ReferenceStore::apply: the store is a sequence of entries *)

HasKey(entries, k) == \E i \in 1 .. Len(entries) : entries[i].key = k

\* The value of the last entry with key k (the search runs backwards).
LastValue(entries, k) ==
    entries[CHOOSE i \in 1 .. Len(entries) :
              /\ entries[i].key = k
              /\ \A j \in i + 1 .. Len(entries) : entries[j].key # k].value

\* The numbers in S, from the least to the greatest.
InOrderOf(S) ==
    CHOOSE f \in [1 .. Cardinality(S) -> S] :
        \A i, j \in 1 .. Cardinality(S) : i < j => f[i] < f[j]

\* Vec::retain: the entries with another key than k, in their order.
Retain(entries, k) ==
    LET kept == {i \in 1 .. Len(entries) : entries[i].key # k}
    IN  [i \in 1 .. Cardinality(kept) |-> entries[InOrderOf(kept)[i]]]

RefResult(entries, op) ==
    CASE op.method = "Get" /\ HasKey(entries, op.key) ->
            Result(TRUE, LastValue(entries, op.key))
      [] op.method = "Put" -> Result(TRUE, Empty)
      [] op.method = "Delete" ->
            Result(Len(Retain(entries, op.key)) # Len(entries), Empty)
      [] OTHER -> Result(FALSE, Empty)

RefStore(entries, op) ==
    CASE op.method = "Put" ->
            Append(Retain(entries, op.key), [key |-> op.key, value |-> op.value])
      [] op.method = "Delete" -> Retain(entries, op.key)
      [] OTHER -> entries
=============================================================================
