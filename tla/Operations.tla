------------------------------ MODULE Operations ------------------------------
(***************************************************************************)
(* Operations of a list-append transaction and what the storage does with  *)
(* them.  A transaction is a sequence of operations.                       *)
(***************************************************************************)
EXTENDS Integers, Sequences

CONSTANT Nullopt     \* the empty optional<ValueContainer>, null in a reply

ASSUME OperationsAssumption == Nullopt \notin Seq(Int)

Op(keys) == [type : {"READ", "APPEND"}, key : keys, value : Int]
ReadOp(k) == [type |-> "READ", key |-> k, value |-> -1]
AppendOp(k, v) == [type |-> "APPEND", key |-> k, value |-> v]

IsRead(op) == op.type = "READ"
IsAppendTo(op, k) == op.type = "APPEND" /\ op.key = k

KeysOf(tx) == {tx[j].key : j \in DOMAIN tx}
ReadPositions(tx) == {j \in DOMAIN tx : IsRead(tx[j])}

\* ThreadSafeKVStore::get: a key that was never appended to has no value.
\* db maps a key to its list, the empty list standing for an absent key.
StoreGet(db, k) == IF db[k] = <<>> THEN Nullopt ELSE db[k]

\* ThreadSafeKVStore::append: push_back, or a new one-element list.
StoreAppend(db, k, v) == [db EXCEPT ![k] = Append(@, v)]

------------------------------------------------------------------------------
(* Reference definitions: the effect of operations from .. to of tx at once. *)

AppendedTo(tx, k, from, to) ==
  LET rest[j \in 1 .. to + 1] ==
        IF j > to THEN <<>>
        ELSE IF IsAppendTo(tx[j], k) THEN <<tx[j].value>> \o rest[j + 1]
        ELSE rest[j + 1]
  IN  rest[from]

\* The lists after operations from .. Len(tx) ran on db.
AfterOps(tx, from, db) ==
  [k \in DOMAIN db |-> db[k] \o AppendedTo(tx, k, from, Len(tx))]

\* What the read at position j sees when operations from .. j - 1 ran on db.
SeenAt(tx, from, j, db) ==
  LET k == tx[j].key
  IN  StoreGet([db EXCEPT ![k] = @ \o AppendedTo(tx, k, from, j - 1)], k)

\* How many of the operations 1 .. j of tx are reads.
ReadsUpTo(tx, j) ==
  LET reads[n \in 0 .. Len(tx)] ==
        IF n = 0 THEN 0
        ELSE IF IsRead(tx[n]) THEN reads[n - 1] + 1
        ELSE reads[n - 1]
  IN  reads[j]
==============================================================================
