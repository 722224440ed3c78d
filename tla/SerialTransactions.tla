-------------------------- MODULE SerialTransactions --------------------------
(***************************************************************************)
(* The promise of the scheduler ("Guarantees serializability through       *)
(* strict two-phase locking", main.cpp): each transaction either runs      *)
(* alone, all of its operations in one step, or has no effect.             *)
(***************************************************************************)
EXTENDS Operations

CONSTANTS
  Requests,    \* transaction requests
  Txn,         \* the operations of each request
  Keys

VARIABLES
  db,          \* per key, the list of values
  status,      \* per request, "open", "committed" or "aborted"
  reads        \* per request, what its reads returned

serialVars == <<db, status, reads>>

Init ==
  /\ db = [k \in Keys |-> <<>>]
  /\ status = [r \in Requests |-> "open"]
  /\ reads = [r \in Requests |-> <<>>]

Commit(r) ==
  /\ status[r] = "open"
  /\ status' = [status EXCEPT ![r] = "committed"]
  /\ db' = AfterOps(Txn[r], 1, db)
  /\ reads' = [reads EXCEPT ![r] =
                 [j \in ReadPositions(Txn[r]) |-> SeenAt(Txn[r], 1, j, db)]]

Abort(r) ==
  /\ status[r] = "open"
  /\ status' = [status EXCEPT ![r] = "aborted"]
  /\ UNCHANGED <<db, reads>>

Next == \E r \in Requests : Commit(r) \/ Abort(r)

Spec == Init /\ [][Next]_serialVars
==============================================================================
