------------------------- MODULE DistributedScheduler -------------------------
(***************************************************************************)
(* TwoPLScheduler on the nodes of a cluster: transactions whose keys are   *)
(* partly on other nodes, the handlers that serve the peers' messages, and *)
(* the timeouts of those who wait for a response.                          *)
(*                                                                         *)
(* A request is <<n, i>>: the one that draws id i from node n's counter.   *)
(* Every counter starts at 1, so requests of different nodes share ids.    *)
(*                                                                         *)
(* A call of the lock manager is one step, as LockService promises, and    *)
(* so is a critical section of distributed_mutex.  A key is only ever      *)
(* locked and stored at its primary node, so owner and store need no node. *)
(* The transport, TransactionServer, is external: it may lose messages,    *)
(* deliver them in any order, throw when asked to send, and hand over a    *)
(* message as it was made or parsed from text, but it makes up nothing.    *)
(***************************************************************************)
EXTENDS Operations, Routing, JsonNumbers, FiniteSetsExt

CONSTANTS
  NumNodes,    \* nodes are numbered from 0
  Keys,
  NumRequests, \* per node, how many transactions it is asked to execute
  Txn,         \* per request, the operations
  NoTx,        \* the owner of a free lock
  NoResult     \* the result of an operation that was not answered

Nodes == 0 .. NumNodes - 1
Requests == UNION {{n} \X (1 .. NumRequests[n]) : n \in Nodes}

\* The node that executes a request, and the id it draws there.
Origin == [r \in Requests |-> r[1]]
TxId == [r \in Requests |-> r[2]]

ASSUME DistributedAssumption ==
  /\ NumNodes \in Nat \ {0}
  /\ NumRequests \in [Nodes -> Nat]
  /\ Txn \in [Requests -> Seq(Op(Keys))]
  /\ NoTx \notin Nat

\* No value is appended twice to a key, as in the list-append workload.
UniqueValues ==
  \A r, s \in Requests : \A i \in DOMAIN Txn[r], j \in DOMAIN Txn[s] :
    ~IsRead(Txn[r][i]) /\ Txn[r][i] = Txn[s][j] => r = s /\ i = j

VARIABLES
  phase,           \* per request, where execute_transaction stands
  to_lock,         \* per request, the local keys not asked for yet
  pending_locks,   \* per request, its keys in pending_remote_locks
  pending_ops,     \* per request, its keys in pending_remote_ops
  remote_results,  \* per request, the value per key, or NoResult
  op_index,        \* per request, the next operation to execute
  results,         \* per request, the result list, with positions in Txn
  owner,           \* per key, the owner of its lock on the primary node
  granted,         \* per key, requests that were told they own it
  store,           \* per key, the list on the primary node
  net              \* messages under way

remoteVars == <<pending_locks, pending_ops, remote_results>>
opVars == <<op_index, results>>
txVars == <<phase, to_lock, remoteVars, opVars>>
lockVars == <<owner, granted>>
vars == <<txVars, lockVars, store, net>>

\* Every node has the same list.
AllNodes == [i \in 1 .. NumNodes |-> i - 1]
Primary(k) == get_primary_node(AllNodes, k)
LocalKeys(r) == {k \in KeysOf(Txn[r]) : is_local(Origin[r], AllNodes, k)}
RemoteKeys(r) == KeysOf(Txn[r]) \ LocalKeys(r)

Phases == {"unborn", "locking", "waiting", "executing", "op_wait",
           "unwinding", "committed", "aborted", "failed"}
Answered == {"committed", "aborted", "failed"}

Init ==
  /\ phase = [r \in Requests |-> "unborn"]
  /\ to_lock = [r \in Requests |-> {}]
  /\ pending_locks = [r \in Requests |-> {}]
  /\ pending_ops = [r \in Requests |-> {}]
  /\ remote_results = [r \in Requests |-> [k \in Keys |-> NoResult]]
  /\ op_index = [r \in Requests |-> 1]
  /\ results = [r \in Requests |-> <<>>]
  /\ owner = [k \in Keys |-> NoTx]
  /\ granted = [k \in Keys |-> {}]
  /\ store = [k \in Keys |-> <<>>]
  /\ net = {}

------------------------------------------------------------------------------
(* The transport.                                                          *)

\* One past the messages of this transaction on the way from src to dst, to
\* tell apart messages that are otherwise alike.
NextStamp(src, dst, t) ==
  1 + Max({0} \cup {m.stamp : m \in {m \in net : /\ m.src = src /\ m.dst = dst
                                                 /\ m.tx_id.number = t}})

Message(type, src, dst, t, k, body) ==
  [type |-> type, src |-> src, dst |-> dst, stamp |-> NextStamp(src, dst, t),
   tx_id |-> FromUnsigned(t), key |-> k, body |-> body]

\* One message to the primary node of each of ks, in the order of a hash set.
ToPrimaries(type, r, ks, body) ==
  {Message(type, Origin[r], Primary(k), TxId[r], k, body) : k \in ks}

Response(type, m, body) ==
  Message(type, m.dst, m.src, m.tx_id.number, m.key, body)

\* An exception in a handler after or before the call of the lock manager is
\* the loss of its response or of the request.
Lose ==
  /\ \E m \in net : net' = net \ {m}
  /\ UNCHANGED <<txVars, lockVars, store>>

------------------------------------------------------------------------------
(* The lock managers.                                                      *)

Acquire(k, r) ==
  /\ owner[k] \in {NoTx, TxId[r]}
  /\ owner' = [owner EXCEPT ![k] = TxId[r]]
  /\ granted' = [granted EXCEPT ![k] = @ \cup {r}]

\* acquire gave up waiting for an owner.
Refused(k, r) == owner[k] \notin {NoTx, TxId[r]}

\* Mutant: release does not look at the owner.
ReleaseAnyOwner(k, r) ==
  /\ owner' = [owner EXCEPT ![k] = NoTx]
  /\ granted' = [granted EXCEPT ![k] = @ \ {r}]

Release(k, r) ==
  /\ owner' = [owner EXCEPT ![k] = IF @ = TxId[r] THEN NoTx ELSE @]
  /\ granted' = [granted EXCEPT ![k] = @ \ {r}]

\* release_all of r's id on r's own node.
ReleaseAll(r) ==
  /\ owner' = [k \in Keys |->
                 IF Primary(k) = Origin[r] /\ owner[k] = TxId[r] THEN NoTx
                 ELSE owner[k]]
  /\ granted' = [k \in Keys |->
                   IF Primary(k) = Origin[r] THEN granted[k] \ {r}
                   ELSE granted[k]]

------------------------------------------------------------------------------
(* The growing phase.                                                      *)

EnterPhase(r, p) == phase' = [phase EXCEPT ![r] = p]

\* The counter of node n: one past the ids it gave out, one per transaction.
next_tx_id(n) ==
  1 + Cardinality({r \in Requests : Origin[r] = n /\ phase[r] # "unborn"})

\* Mutant: the first call sees every key as local.
BeginAllLocal(r) ==
  /\ phase[r] = "unborn"
  /\ TxId[r] = next_tx_id(Origin[r])
  /\ EnterPhase(r, "locking")
  /\ to_lock' = [to_lock EXCEPT ![r] = KeysOf(Txn[r])]
  /\ UNCHANGED <<remoteVars, opVars, lockVars, store, net>>

\* The next id is drawn, and the keys are split by their primary node.
Begin(r) ==
  /\ phase[r] = "unborn"
  /\ TxId[r] = next_tx_id(Origin[r])
  /\ EnterPhase(r, "locking")
  /\ to_lock' = [to_lock EXCEPT ![r] = LocalKeys(r)]
  /\ UNCHANGED <<remoteVars, opVars, lockVars, store, net>>

LockLocal(r) ==
  /\ phase[r] = "locking"
  /\ \E k \in to_lock[r] :
       /\ Acquire(k, r)
       /\ to_lock' = [to_lock EXCEPT ![r] = @ \ {k}]
  /\ UNCHANGED <<phase, remoteVars, opVars, store, net>>

LocalRefused(r) ==
  /\ phase[r] = "locking"
  /\ \E k \in to_lock[r] : Refused(k, r)
  /\ ReleaseAll(r)
  /\ EnterPhase(r, "aborted")
  /\ UNCHANGED <<to_lock, remoteVars, opVars, store, net>>

\* acquire threw, outside the try block that releases locks.
LocalThrew(r) ==
  /\ phase[r] = "locking"
  /\ to_lock[r] # {}
  /\ EnterPhase(r, "failed")
  /\ UNCHANGED <<to_lock, remoteVars, opVars, lockVars, store, net>>

\* acquire_remote_locks_with_retry noted all remote keys and sent the requests
\* for some of them.
AskFor(r, sent) ==
  /\ phase[r] = "locking"
  /\ to_lock[r] = {}
  /\ RemoteKeys(r) # {}
  /\ pending_locks' = [pending_locks EXCEPT ![r] = RemoteKeys(r)]
  /\ net' = net \cup ToPrimaries("lock_req", r, sent, Nullopt)
  /\ UNCHANGED <<to_lock, pending_ops, remote_results, opVars, lockVars,
                 store>>

AskRemote(r) == AskFor(r, RemoteKeys(r)) /\ EnterPhase(r, "waiting")

AskRemoteThrows(r) ==
  /\ \E sent \in SUBSET RemoteKeys(r) \ {RemoteKeys(r)} : AskFor(r, sent)
  /\ EnterPhase(r, "failed")

\* Mutant: the local locks that were not asked for are not waited for.
SomeLocked(r) ==
  /\ phase[r] \in {"locking", "waiting"}
  /\ pending_locks[r] = {}
  /\ EnterPhase(r, "executing")
  /\ UNCHANGED <<to_lock, remoteVars, opVars, lockVars, store, net>>

\* acquire_all_locks returns true: there was nothing to ask for, or nothing is
\* pending any more.
AllLocked(r) ==
  /\ \/ phase[r] = "locking" /\ to_lock[r] = {} /\ RemoteKeys(r) = {}
     \/ phase[r] = "waiting" /\ pending_locks[r] = {}
  /\ EnterPhase(r, "executing")
  /\ UNCHANGED <<to_lock, remoteVars, opVars, lockVars, store, net>>

\* Mutant: the local locks are kept.
TimeoutKeepsLocks(r) ==
  /\ phase[r] = "waiting"
  /\ net' = net \cup ToPrimaries("lock_rel", r, pending_locks[r], Nullopt)
  /\ pending_locks' = [pending_locks EXCEPT ![r] = {}]
  /\ EnterPhase(r, "aborted")
  /\ UNCHANGED <<to_lock, pending_ops, remote_results, opVars, lockVars,
                 store>>

\* wait_until timed out, perhaps with the last response just processed.
LockTimeout(r) ==
  /\ phase[r] = "waiting"
  /\ net' = net \cup ToPrimaries("lock_rel", r, pending_locks[r], Nullopt)
  /\ pending_locks' = [pending_locks EXCEPT ![r] = {}]
  /\ ReleaseAll(r)
  /\ EnterPhase(r, "aborted")
  /\ UNCHANGED <<to_lock, pending_ops, remote_results, opVars, store>>

LockTimeoutThrows(r) ==
  /\ phase[r] = "waiting"
  /\ \E sent \in SUBSET pending_locks[r] \ {pending_locks[r]} :
       net' = net \cup ToPrimaries("lock_rel", r, sent, Nullopt)
  /\ EnterPhase(r, "failed")
  /\ UNCHANGED <<to_lock, remoteVars, opVars, lockVars, store>>

------------------------------------------------------------------------------
(* Operations and the shrinking phase.                                     *)

CurrentOp(r) == Txn[r][op_index[r]]
HasOp(r) == op_index[r] <= Len(Txn[r])
Advance(r) == op_index' = [op_index EXCEPT ![r] = @ + 1]

Push(r, value) ==
  results' = [results EXCEPT ![r] = Append(@,
    [key |-> CurrentOp(r).key, value |-> value, pos |-> op_index[r]])]

\* Mutant: an append puts the value at the front.
ExecuteAtFront(op) ==
  store' = IF IsRead(op) THEN store
           ELSE [store EXCEPT ![op.key] = <<op.value>> \o @]

\* NaiveOpExecutor on the store of the key's primary node.
Execute(op) ==
  store' = IF IsRead(op) THEN store ELSE StoreAppend(store, op.key, op.value)

ExecLocal(r) ==
  /\ phase[r] = "executing"
  /\ HasOp(r)
  /\ CurrentOp(r).key \in LocalKeys(r)
  /\ Execute(CurrentOp(r))
  /\ IF IsRead(CurrentOp(r)) THEN Push(r, StoreGet(store, CurrentOp(r).key))
     ELSE UNCHANGED results
  /\ Advance(r)
  /\ UNCHANGED <<phase, to_lock, remoteVars, lockVars, net>>

NoteOp(r) ==
  /\ phase[r] = "executing"
  /\ HasOp(r)
  /\ CurrentOp(r).key \in RemoteKeys(r)
  /\ pending_ops' = [pending_ops EXCEPT ![r] = @ \cup {CurrentOp(r).key}]
  /\ UNCHANGED <<to_lock, pending_locks, remote_results, results, lockVars,
                 store>>

SendOp(r) ==
  /\ NoteOp(r)
  /\ net' = net \cup
       ToPrimaries("op_req", r, {CurrentOp(r).key}, CurrentOp(r))
  /\ EnterPhase(r, "op_wait")
  /\ UNCHANGED op_index

\* send threw: no result, and the key stays noted.
SendOpThrows(r) ==
  /\ NoteOp(r)
  /\ Advance(r)
  /\ UNCHANGED <<phase, net>>

\* Mutant: the result is taken without waiting.
OpNotAwaited(r) ==
  /\ phase[r] = "op_wait"
  /\ LET value == remote_results[r][CurrentOp(r).key] IN
       IF value # NoResult THEN Push(r, value) ELSE UNCHANGED results
  /\ Advance(r)
  /\ EnterPhase(r, "executing")
  /\ UNCHANGED <<to_lock, remoteVars, lockVars, store, net>>

\* A response for the key arrived, and its value is there: it is pushed for an
\* append as well.
OpAnswered(r) ==
  /\ phase[r] = "op_wait"
  /\ CurrentOp(r).key \notin pending_ops[r]
  /\ LET value == remote_results[r][CurrentOp(r).key] IN
       IF value # NoResult THEN Push(r, value) ELSE UNCHANGED results
  /\ Advance(r)
  /\ EnterPhase(r, "executing")
  /\ UNCHANGED <<to_lock, remoteVars, lockVars, store, net>>

\* Mutant: the operation is tried again.
OpTimeoutRetries(r) ==
  /\ phase[r] = "op_wait"
  /\ pending_ops' = [pending_ops EXCEPT ![r] = @ \ {CurrentOp(r).key}]
  /\ EnterPhase(r, "executing")
  /\ UNCHANGED <<opVars, to_lock, pending_locks, remote_results, lockVars,
                 store, net>>

\* Mutant: wait instead of wait_until.
NoOpTimeout(r) == FALSE

\* The operation has no result, and the next one is executed.
OpTimeout(r) ==
  /\ phase[r] = "op_wait"
  /\ pending_ops' = [pending_ops EXCEPT ![r] = @ \ {CurrentOp(r).key}]
  /\ Advance(r)
  /\ EnterPhase(r, "executing")
  /\ UNCHANGED <<to_lock, pending_locks, remote_results, results, lockVars,
                 store, net>>

\* release_all_locks, as far as it sends the releases.
ReleaseAllLocks(r, sent) ==
  /\ ReleaseAll(r)
  /\ net' = net \cup ToPrimaries("lock_rel", r, sent, Nullopt)
  /\ UNCHANGED <<to_lock, remoteVars, opVars, store>>

Finishing(r) == phase[r] = "executing" /\ ~HasOp(r)

Finish(r) ==
  /\ Finishing(r)
  /\ ReleaseAllLocks(r, RemoteKeys(r))
  /\ EnterPhase(r, "committed")

FinishThrows(r) ==
  /\ Finishing(r)
  /\ \E sent \in SUBSET RemoteKeys(r) \ {RemoteKeys(r)} :
       ReleaseAllLocks(r, sent)
  /\ EnterPhase(r, "unwinding")

\* catch (...) releases everything again, and may fail again.
Unwind(r) ==
  /\ phase[r] = "unwinding"
  /\ \E sent \in SUBSET RemoteKeys(r) : ReleaseAllLocks(r, sent)
  /\ EnterPhase(r, "failed")

------------------------------------------------------------------------------
(* handle_peer_message.                                                    *)

\* The request that the id in a message stands for on node n.
RequestOf(n, m) == <<n, m.tx_id.number>>

\* The handler throws, and catches it, when as_uint64 does: the id has lost its
\* kind if the message was written out and parsed, as Peer does.
HandlerThrows(m) ==
  /\ ~as_uint64(Reparsed(m.tx_id))
  /\ net' = net \ {m}
  /\ UNCHANGED <<txVars, lockVars, store>>

HandleLockRequest(m) ==
  /\ m.type = "lock_req"
  /\ \/ /\ Acquire(m.key, RequestOf(m.src, m))
        /\ net' = (net \ {m}) \cup {Response("lock_granted", m, Nullopt)}
     \/ /\ Refused(m.key, RequestOf(m.src, m))
        /\ net' = (net \ {m}) \cup {Response("lock_denied", m, Nullopt)}
        /\ UNCHANGED lockVars
  /\ UNCHANGED <<txVars, store>>

\* granted is a comparison of two pointers into different objects.
SaysGranted(m) == FALSE

HandleLockResponse(m) ==
  /\ m.type \in {"lock_granted", "lock_denied"}
  /\ pending_locks' = [pending_locks EXCEPT ![RequestOf(m.dst, m)] =
                         IF SaysGranted(m) THEN @ \ {m.key} ELSE {}]
  /\ net' = net \ {m}
  /\ UNCHANGED <<phase, to_lock, pending_ops, remote_results, opVars,
                 lockVars, store>>

HandleLockRelease(m) ==
  /\ m.type = "lock_rel"
  /\ Release(m.key, RequestOf(m.src, m))
  /\ net' = net \ {m}
  /\ UNCHANGED <<txVars, store>>

\* No lock is asked for.  An append has no result, a read of an absent key
\* has none either.
HandleOpRequest(m) ==
  /\ m.type = "op_req"
  /\ Execute(m.body)
  /\ LET result == IF IsRead(m.body) THEN StoreGet(store, m.key) ELSE Nullopt
     IN  net' = (net \ {m}) \cup {Response("op_resp", m, result)}
  /\ UNCHANGED <<txVars, lockVars>>

HandleOpResponse(m) ==
  /\ m.type = "op_resp"
  /\ LET r == RequestOf(m.dst, m) IN
       /\ remote_results' = [remote_results EXCEPT ![r][m.key] =
                               IF m.body = Nullopt THEN <<>> ELSE m.body]
       /\ pending_ops' = [pending_ops EXCEPT ![r] = @ \ {m.key}]
  /\ net' = net \ {m}
  /\ UNCHANGED <<phase, to_lock, pending_locks, opVars, lockVars, store>>

handle_peer_message(m) ==
  \/ HandlerThrows(m)
  \/ /\ as_uint64(m.tx_id)
     /\ \/ HandleLockRequest(m) \/ HandleLockResponse(m)
        \/ HandleLockRelease(m) \/ HandleOpRequest(m) \/ HandleOpResponse(m)

------------------------------------------------------------------------------

TxStep(r) ==
  \/ LockLocal(r) \/ LocalRefused(r) \/ LocalThrew(r)
  \/ AskRemote(r) \/ AskRemoteThrows(r) \/ AllLocked(r)
  \/ LockTimeout(r) \/ LockTimeoutThrows(r)
  \/ ExecLocal(r) \/ SendOp(r) \/ SendOpThrows(r) \/ OpAnswered(r)
  \/ OpTimeout(r) \/ Finish(r) \/ FinishThrows(r) \/ Unwind(r)

Next ==
  \/ \E r \in Requests : Begin(r) \/ TxStep(r)
  \/ \E m \in net : handle_peer_message(m)
  \/ Lose

Spec == Init /\ [][Next]_vars

\* Threads that can run do run, and deadlines pass; nothing is assumed of the
\* network or of the peers.
FairSpec == Spec /\ \A r \in Requests : WF_vars(TxStep(r))

------------------------------------------------------------------------------
(* Properties                                                              *)

DistTypeOK ==
  /\ phase \in [Requests -> Phases]
  /\ to_lock \in [Requests -> SUBSET Keys]
  /\ \A r \in Requests : to_lock[r] \subseteq LocalKeys(r)
  /\ pending_locks \in [Requests -> SUBSET Keys]
  /\ op_index \in [Requests -> Nat \ {0}]
  /\ owner \in [Keys -> Nat \cup {NoTx}]
  /\ granted \in [Keys -> SUBSET Requests]
  /\ DOMAIN store = Keys

\* Requests of other nodes with r's id that r's locks can meet: on a key of r,
\* or through release_all on the node of a key of r.
Namesakes(r) ==
  {s \in Requests \ {r} :
     /\ TxId[s] = TxId[r]
     /\ \/ KeysOf(Txn[s]) \cap KeysOf(Txn[r]) # {}
        \/ \E k \in KeysOf(Txn[r]) : Primary(k) = Origin[s]}
Alone(r) == Namesakes(r) = {}

\* A transaction that a primary node told that it owns a key remains the owner
\* until it releases the key, unless it has a namesake: late requests, late
\* releases and the releases of others take nothing away from it
\* (handle_lock_request, handle_lock_release, release_all).
GrantsKept ==
  \A k \in Keys : \A r \in granted[k] : Alone(r) => owner[k] = TxId[r]

\* An operation on a key of the transaction's own node runs while the
\* transaction owns the key, whatever peers do to that node's lock manager,
\* unless it has a namesake.
AloneOpsLocked ==
  [][\A r \in Requests :
       Alone(r) /\ ExecLocal(r) => owner[CurrentOp(r).key] = TxId[r]]_vars

\* A transaction that returned, committed or aborted, owns none of its keys on
\* its own node, whichever messages or responses were lost or late, unless it
\* has a namesake.
ReturnedFreesLocal ==
  \A r \in Requests : Alone(r) /\ phase[r] \in {"committed", "aborted"} =>
    \A k \in LocalKeys(r) : owner[k] # TxId[r]

Has(list, v) == \E i \in DOMAIN list : list[i] = v
Once(list, v) == \A i, j \in DOMAIN list : list[i] = v /\ list[j] = v => i = j

\* No append happens twice, and those of a transaction that is aborted never
\* happen, although timeouts leave requests of it under way.
AppendsAtMostOnce ==
  \A r \in Requests : \A j \in DOMAIN Txn[r] :
    LET op == Txn[r][j] IN
      ~IsRead(op) => /\ Once(store[op.key], op.value)
                     /\ phase[r] = "aborted" => ~Has(store[op.key], op.value)

\* A value that a transaction returns is one that the key's list really had,
\* and that the list has only grown from since: late responses and responses
\* to other operations of the transaction, which can stand in for the right
\* one (handle_operation_response), are old but never invented.
ReadsSeeTheList ==
  \A r \in Requests : \A i \in DOMAIN results[r] :
    LET e == results[r][i] IN
      \/ e.value = Nullopt
      \/ \E n \in 0 .. Len(store[e.key]) :
           e.value = SubSeq(store[e.key], 1, n)

\* Every earlier operation of r on the remote key of its operation j has a
\* result: none timed out, and no exception was swallowed.
NoneSkipped(r, j) ==
  \A i \in 1 .. j - 1 :
    Txn[r][i].key = Txn[r][j].key /\ Txn[r][j].key \in RemoteKeys(r) =>
      \E n \in DOMAIN results[r] : results[r][n].pos = i

\* A result is that of its operation, and not of an earlier one whose response
\* came late, if no operation on the key was skipped before: an append with a
\* result took effect, and a read sees the transaction's own earlier appends
\* (execute_remote_operation, handle_operation_response).
ResultsAreOwn ==
  \A r \in Requests : \A i \in DOMAIN results[r] :
    LET e == results[r][i]
        op == Txn[r][e.pos]
    IN  NoneSkipped(r, e.pos) =>
          /\ ~IsRead(op) => Has(store[op.key], op.value)
          /\ IsRead(op) => \A j \in 1 .. e.pos - 1 :
               IsAppendTo(Txn[r][j], e.key) =>
                 e.value # Nullopt /\ Has(e.value, Txn[r][j].value)

\* Every transaction that began is answered, whatever the network and the
\* peers do: each wait of the coordinator has a deadline.  An answer is final
\* and the requests are finitely many, so that all are answered for good.
EveryTxAnswered ==
  <>[](\A r \in Requests : phase[r] \in Answered \cup {"unborn"})

\* A bound on the phases left to a transaction, and on its steps in the phase
\* in which operations are executed.
PhasesLeft(r) ==
  CASE phase[r] \in Answered -> 0
    [] phase[r] = "unwinding" -> 1
    [] phase[r] \in {"executing", "op_wait"} -> 2
    [] phase[r] = "waiting" -> 3
    [] phase[r] = "locking" -> 4
    [] phase[r] = "unborn" -> 5
OpStepsLeft(r) ==
  2 * (Len(Txn[r]) + 1 - op_index[r]) + (IF phase[r] = "op_wait" THEN 0 ELSE 1)

\* Transaction r comes nearer to its answer, or stays where it is.
TxNearer(r) ==
  \/ PhasesLeft(r)' < PhasesLeft(r)
  \/ /\ PhasesLeft(r)' = PhasesLeft(r)
     /\ to_lock'[r] \subseteq to_lock[r] /\ to_lock'[r] # to_lock[r]
  \/ /\ PhasesLeft(r)' = PhasesLeft(r)
     /\ to_lock'[r] = to_lock[r]
     /\ OpStepsLeft(r)' \in 0 .. OpStepsLeft(r) - 1
TxKept(r) == UNCHANGED <<phase[r], to_lock[r], op_index[r]>>

\* Each step of a coordinating thread takes its transaction nearer to the
\* answer: nothing is retried without end after a denial, a timeout, an
\* exception or a late response.  No step of others takes it away from it, and
\* after the answer nothing moves.
BoundedTransactions ==
  [][\A r \in Requests : /\ TxStep(r) => TxNearer(r)
                         /\ TxNearer(r) \/ TxKept(r)]_vars

------------------------------------------------------------------------------
(* What the documentation says, and the code does not do.                  *)

\* "Assign unique transaction ID" (TwoPLScheduler.h): a primary node has told
\* at most one transaction that it owns a key.
PrimaryExclusive ==
  \A k \in Keys : \A r, s \in granted[k] : r = s

\* "Shrinking Phase: Release all locks after all operations complete"
\* (TwoPLScheduler.h): a local operation runs while its transaction owns the
\* key.
LocalOpsLocked ==
  [][\A r \in Requests :
       ExecLocal(r) => owner[CurrentOp(r).key] = TxId[r]]_vars

\* "Growing Phase: Acquire locks for all keys before executing operations"
\* (TwoPLScheduler.h): a peer executes an operation (handle_operation_request)
\* for the owner of the key.
RemoteOpsLocked ==
  [][\A m \in net : HandleOpRequest(m) => owner[m.key] = m.tx_id.number]_vars

\* "Send lock releases for any acquired locks" (TwoPLScheduler.cpp): when every
\* transaction has returned and every message is handled, every lock in the
\* cluster is free, the remote ones too.
ReturnedFreesAll ==
  /\ net = {}
  /\ \A r \in Requests : phase[r] \in {"unborn", "committed", "aborted"}
  => \A k \in Keys : owner[k] = NoTx

\* "Send response back to requesting node" (TwoPLScheduler.cpp): a lock request
\* that is handled is answered.
LockRequestsAnswered ==
  [][\A m \in net : m.type = "lock_req" /\ handle_peer_message(m) =>
       \E o \in net' :
         /\ o.type \in {"lock_granted", "lock_denied"}
         /\ o.dst = m.src /\ o.tx_id = m.tx_id /\ o.key = m.key]_vars

\* "Guarantees serializability through strict two-phase locking" (main.cpp): a
\* read sees the transaction's own earlier appends to the key.
ReadsOwnAppends ==
  \A r \in Requests : \A i \in DOMAIN results[r] :
    LET e == results[r][i] IN
      IsRead(Txn[r][e.pos]) =>
        \A j \in 1 .. e.pos - 1 :
          IsAppendTo(Txn[r][j], e.key) =>
            e.value # Nullopt /\ Has(e.value, Txn[r][j].value)

\* "coordinate across multiple nodes using a two-phase commit protocol"
\* (TwoPLScheduler.h): once nothing is under way, the appends of a committed
\* transaction are in the lists.
CommittedAppendsDone ==
  net = {} => \A r \in Requests : phase[r] = "committed" =>
    \A j \in DOMAIN Txn[r] : LET op == Txn[r][j] IN
      ~IsRead(op) => Has(store[op.key], op.value)

\* "Vector of (key, value) pairs for read operations" (TwoPLScheduler.h).
ResultsAreReads ==
  \A r \in Requests : \A i \in DOMAIN results[r] :
    IsRead(Txn[r][results[r][i].pos])
==============================================================================
