---------------------------- MODULE TwoPLScheduler ----------------------------
(***************************************************************************)
(* TwoPLScheduler::execute_transaction on one node (no peers, so no        *)
(* coordinator and every key is local), called by the "txn" handler on the *)
(* threads of the node's pool, over LockManager.                           *)
(*                                                                         *)
(* A caller of the lock manager is a transaction, named by the id it drew. *)
(* Requests are numbered in the order in which they draw their ids; what   *)
(* they do afterwards interleaves freely.                                  *)
(***************************************************************************)
EXTENDS LockManager, TransactionMessageHandler

CONSTANTS
  NumRequests,  \* how many requests arrive
  Txn           \* the operations of each request

ASSUME SchedulerAssumption ==
  /\ NumRequests \in Nat
  /\ Callers = 1 .. NumRequests
  /\ TxIds = Callers
  /\ TxOf = [i \in Callers |-> i]
  /\ Txn \in [Callers -> Seq(Op(Keys))]

VARIABLES
  next_tx_id,   \* the atomic id counter
  phase,        \* per transaction, where execute_transaction stands
  to_lock,      \* per transaction, local_keys not asked for yet
  op_index,     \* per transaction, the next operation to execute
  results,      \* per transaction, (key, value) of the reads so far
  reply,        \* per transaction, the message sent to the client
  store         \* per key, the list in the ThreadSafeKVStore

schedVars == <<next_tx_id, phase, to_lock, op_index, results, reply, store>>
vars == <<lmVars, schedVars>>

Phases == {"unborn", "growing", "executing", "shrinking", "aborting",
           "committed", "aborted", "failed"}
Answered == {"committed", "aborted", "failed"}

NoReply == [type |-> "none", reads |-> <<>>]

Init ==
  /\ LMInit
  /\ next_tx_id = 1
  /\ phase = [i \in Callers |-> "unborn"]
  /\ to_lock = [i \in Callers |-> {}]
  /\ op_index = [i \in Callers |-> 1]
  /\ results = [i \in Callers |-> <<>>]
  /\ reply = [i \in Callers |-> NoReply]
  /\ store = [k \in Keys |-> <<>>]

EnterPhase(i, p) == phase' = [phase EXCEPT ![i] = p]

\* The lock manager returned to transaction i, the last acquire with res.
Returned(i, res) == pc[i] = "idle" /\ result[i] \in res

------------------------------------------------------------------------------

\* execute_transaction draws an id; execute_with_distributed_support finds
\* every key local.
Begin(i) ==
  /\ i = next_tx_id
  /\ next_tx_id' = next_tx_id + 1
  /\ EnterPhase(i, "growing")
  /\ to_lock' = [to_lock EXCEPT ![i] = KeysOf(Txn[i])]
  /\ UNCHANGED <<lmVars, op_index, results, reply, store>>

\* acquire_all_locks: the next of the local keys, in no particular order.
LockNext(i) ==
  /\ phase[i] = "growing"
  /\ Returned(i, {"none", "acquired"})
  /\ \E k \in to_lock[i] :
       /\ CallAcquire(i, k)
       /\ to_lock' = [to_lock EXCEPT ![i] = @ \ {k}]
  /\ UNCHANGED <<next_tx_id, phase, op_index, results, reply, store>>

\* Mutant: nothing is released on refusal.
AbortWithoutRelease(i) ==
  /\ phase[i] = "growing"
  /\ Returned(i, {"aborted"})
  /\ EnterPhase(i, "aborting")
  /\ UNCHANGED <<lmVars, next_tx_id, to_lock, op_index, results, reply, store>>

\* Mutant: the transaction is tried again.
RetryOnRefusal(i) ==
  /\ phase[i] = "growing"
  /\ Returned(i, {"aborted"})
  /\ CallReleaseAll(i)
  /\ to_lock' = [to_lock EXCEPT ![i] = KeysOf(Txn[i])]
  /\ UNCHANGED <<next_tx_id, phase, op_index, results, reply, store>>

\* A key was refused: release_all, and the scheduler returns an empty list.
AbortOnRefusal(i) ==
  /\ phase[i] = "growing"
  /\ Returned(i, {"aborted"})
  /\ CallReleaseAll(i)
  /\ EnterPhase(i, "aborting")
  /\ UNCHANGED <<next_tx_id, to_lock, op_index, results, reply, store>>

\* acquire threw.  acquire_all_locks is called outside the try block that
\* releases the locks, so the exception reaches the handler, which answers.
FailOnException(i) ==
  /\ phase[i] = "growing"
  /\ Returned(i, {"threw"})
  /\ EnterPhase(i, "failed")
  /\ reply' = [reply EXCEPT ![i] = [type |-> "error", reads |-> <<>>]]
  /\ UNCHANGED <<lmVars, next_tx_id, to_lock, op_index, results, store>>

\* Mutant: execution starts before every key was asked for.
SomeLocked(i) ==
  /\ phase[i] = "growing"
  /\ Returned(i, {"none", "acquired"})
  /\ EnterPhase(i, "executing")
  /\ UNCHANGED <<lmVars, next_tx_id, to_lock, op_index, results, reply, store>>

AllLocked(i) ==
  /\ phase[i] = "growing"
  /\ Returned(i, {"none", "acquired"})
  /\ to_lock[i] = {}
  /\ EnterPhase(i, "executing")
  /\ UNCHANGED <<lmVars, next_tx_id, to_lock, op_index, results, reply, store>>

\* One operation, executed by NaiveOpExecutor on the store.
ExecOp(i) ==
  /\ phase[i] = "executing"
  /\ op_index[i] <= Len(Txn[i])
  /\ LET op == Txn[i][op_index[i]] IN
       IF IsRead(op)
       THEN /\ results' = [results EXCEPT ![i] = Append(@,
                 [key |-> op.key, value |-> StoreGet(store, op.key)])]
            /\ UNCHANGED store
       ELSE /\ store' = StoreAppend(store, op.key, op.value)
            /\ UNCHANGED results
  /\ op_index' = [op_index EXCEPT ![i] = @ + 1]
  /\ UNCHANGED <<lmVars, next_tx_id, phase, to_lock, reply>>

\* release_all_locks: there are no remote keys.
Shrink(i) ==
  /\ phase[i] = "executing"
  /\ op_index[i] > Len(Txn[i])
  /\ CallReleaseAll(i)
  /\ EnterPhase(i, "shrinking")
  /\ UNCHANGED <<next_tx_id, to_lock, op_index, results, reply, store>>

\* The scheduler returned its list, which is empty after an abort; the handler
\* fills in the reads and answers txn_ok.
ReplyOk(i, outcome, reads) ==
  /\ pc[i] = "idle"
  /\ EnterPhase(i, outcome)
  /\ reply' = [reply EXCEPT ![i] =
                 [type |-> "txn_ok", reads |-> createReply(Txn[i], reads)]]
  /\ UNCHANGED <<lmVars, next_tx_id, to_lock, op_index, results, store>>

ReplyCommitted(i) ==
  phase[i] = "shrinking" /\ ReplyOk(i, "committed", results[i])

ReplyAborted(i) == phase[i] = "aborting" /\ ReplyOk(i, "aborted", <<>>)

\* A statement of a lock manager call made by transaction i.
InLockManager(i) == LMStep(i) /\ UNCHANGED schedVars

TxStep(i) ==
  \/ LockNext(i) \/ AbortOnRefusal(i) \/ FailOnException(i) \/ AllLocked(i)
  \/ ExecOp(i) \/ Shrink(i) \/ ReplyCommitted(i) \/ ReplyAborted(i)
  \/ InLockManager(i)

Next == \E i \in Callers : Begin(i) \/ TxStep(i)

Spec == Init /\ [][Next]_vars

\* The scheduler of the operating system runs every thread of the pool.
FairSpec == Spec /\ \A i \in Callers : WF_vars(TxStep(i))

------------------------------------------------------------------------------
(* Properties                                                              *)

TypeOK ==
  /\ LMTypeOK
  /\ next_tx_id \in Nat
  /\ phase \in [Callers -> Phases]
  /\ to_lock \in [Callers -> SUBSET Keys]
  /\ op_index \in [Callers -> Nat]
  /\ DOMAIN results = Callers
  /\ DOMAIN reply = Callers
  /\ DOMAIN store = Keys

\* Strict two-phase locking, as a restriction on steps: an operation runs only
\* while its transaction owns the operation's key, and a transaction loses a
\* lock only once all of its operations ran or none of them will.
Strict2PL ==
  [][\A i \in Callers :
       /\ op_index'[i] # op_index[i] =>
            owner[Txn[i][op_index[i]].key] = i
       /\ \A k \in Keys : owner[k] = i /\ owner'[k] # i =>
            phase[i] \in {"shrinking", "aborting"}]_vars

\* A transaction answered with txn_ok left nothing behind: it owns no lock and
\* no key is tracked for it, so no later transaction can wait for it.
OkReleasesAll ==
  \A i \in Callers : reply[i].type = "txn_ok" =>
    /\ \A k \in Keys : owner[k] # i
    /\ held_locks[i] = {}

\* Every transaction that drew an id is answered, although transactions take
\* their locks in any order and can wait for each other in a circle: bounded
\* waiting ends every circle ("Timeout-based abort strategy prevents circular
\* waits", README.md).
EveryTxAnswered ==
  \A i \in Callers : phase[i] # "unborn" ~> phase[i] \in Answered

\* A bound on the phases left to a transaction.
PhasesLeft(i) ==
  CASE phase[i] \in Answered -> 0
    [] phase[i] \in {"shrinking", "aborting"} -> 1
    [] phase[i] = "executing" -> 2
    [] phase[i] = "growing" -> 3
    [] phase[i] = "unborn" -> 4

\* Transaction i comes nearer to its answer: it enters a later phase, asks for
\* one more of its keys, executes one more operation, or its lock manager call
\* comes nearer to its end.
TxNearer(i) ==
  \/ PhasesLeft(i)' < PhasesLeft(i)
  \/ /\ phase'[i] = phase[i]
     /\ to_lock'[i] \subseteq to_lock[i] /\ to_lock'[i] # to_lock[i]
  \/ /\ UNCHANGED <<phase[i], to_lock[i]>>
     /\ op_index[i] < op_index'[i] /\ op_index'[i] <= Len(Txn[i]) + 1
  \/ UNCHANGED <<phase[i], to_lock[i], op_index[i]>> /\ CallNearer(i)

\* No transaction waits, is retried or is sent back for ever: every step takes
\* one transaction nearer to its answer and no other away from it, so that
\* there are finitely many of them, whatever the threads are scheduled to do.
BoundedWork ==
  [][/\ \E i \in Callers : TxNearer(i)
     /\ \A i \in Callers :
          \/ TxNearer(i)
          \/ UNCHANGED <<phase[i], to_lock[i], op_index[i]>> /\ CallKept(i)]_vars

\* Serializability of what the scheduler does: the point where a transaction
\* has all its locks is the point where it runs alone.  Mapped back, the lists
\* contain the appends that the transactions past that point still have to
\* make, and their reads what they are still going to see.
RunningOn(k) ==
  {i \in Callers : phase[i] = "executing" /\ k \in KeysOf(Txn[i])}

SerialDb ==
  [k \in Keys |->
     IF RunningOn(k) = {} THEN store[k]
     ELSE LET i == CHOOSE i \in RunningOn(k) : TRUE
          IN  AfterOps(Txn[i], op_index[i], store)[k]]

SerialStatus ==
  [i \in Callers |->
     IF phase[i] \in {"executing", "shrinking", "committed"} THEN "committed"
     ELSE IF phase[i] \in {"aborting", "aborted", "failed"} THEN "aborted"
     ELSE "open"]

SerialReads ==
  [i \in Callers |->
     IF phase[i] \in {"executing", "shrinking"}
     THEN [j \in ReadPositions(Txn[i]) |->
             IF j < op_index[i] THEN results[i][ReadsUpTo(Txn[i], j)].value
             ELSE SeenAt(Txn[i], op_index[i], j, store)]
     ELSE IF phase[i] = "committed" THEN reply[i].reads
     ELSE <<>>]

Serial == INSTANCE SerialTransactions
            WITH Requests <- Callers, db <- SerialDb, status <- SerialStatus,
                 reads <- SerialReads

Serializable == Serial!Spec

\* What a client may conclude from "Ensures serializability" (README.md) and
\* the reply txn_ok: the appends it asked for are in the lists.
AckedAppendsDurable ==
  \A i \in Callers : reply[i].type = "txn_ok" =>
    \A j \in DOMAIN Txn[i] :
      LET op == Txn[i][j] IN
        ~IsRead(op) => \E n \in DOMAIN store[op.key] :
                         store[op.key][n] = op.value

\* "Release all locks after completion" (README.md): no answered transaction
\* owns a lock, whatever the answer.
AnsweredReleasesAll ==
  \A i \in Callers : phase[i] \in Answered =>
    \A k \in Keys : owner[k] # i
==============================================================================
