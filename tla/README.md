# A TLA+ model of the two-phase locking transaction processor

The program is a Maelstrom node. It answers `txn` requests (lists of reads and
appends on integer keys) by strict two-phase locking over per-key exclusive
locks, on its own or as one node of a cluster. This directory holds TLA+ modules
for its parts, TLC configurations that check them on small instances, and TLAPS
proofs that hold for every instance.

## Inventory

Paths are relative to `src/lib/`.

| Part | State | Operations | Interacts with |
|---|---|---|---|
| Lock manager (`LockManager.cpp`) | `lock_table` under `table_mutex`, an owner and a mutex per entry, `held_locks` under `held_locks_mutex` | `acquire`, `release`, `release_all`, `holds_lock` | called by the scheduler on pool threads, and by the handlers of peers' lock messages |
| Scheduler, local part (`TwoPLScheduler.cpp`) | `next_tx_id`; per call: the keys, the next operation, the result list | `execute_transaction`: grow, execute, shrink | lock manager, store |
| Scheduler, remote part (`TwoPLScheduler.cpp`) | `pending_remote_locks`, `pending_remote_ops`, `remote_results` under `distributed_mutex` | remote lock and operation requests with 2 s timeouts, eight message handlers | transaction server, peers' schedulers |
| Coordinator (`DistributedCoordinator.cpp`) | the list of nodes | key to primary node, `set_nodes`, creating and parsing lock messages | scheduler |
| Message handler (`TransactionMessageHandler.cpp`) | none | `handle`, `createReply` | scheduler, client |
| Store (`ThreadSafeKVStore.cpp`) | 256 stripes, each a map under a mutex | `get`, `append` | scheduler |
| Node (`maelstrom.cpp`, `main.cpp`) | handlers, a thread pool | the input loop, `init`, posting to the pool | handlers |
| Peer (`Peer.cpp`) | two sockets, the `ready` timer | `connect`, `send`, `receive`, `setup_incoming` | other nodes |

What makes it hard: pool threads interleave inside the lock manager between its
critical sections; one lookup in the table is outside any critical section;
waiting is a bounded loop that drops the entry's mutex; keys are tracked for
clean-up before they are owned; transactions lock their keys in no common order;
an abort and a commit look alike to the handler. Between nodes, messages and
timeouts race, ids collide, and responses can be late. A connection is used from
several threads, and its incoming half arrives while calls already wait for it.
`PROJECT.json` lists each hazard at its line.

What should hold: exclusive locks, no orphaned lock, no mutex deadlock, strict
two-phase locking, serializability, complete clean-up, one primary node per key,
intact frames, and an answer to every request. On one node most of this holds. In a
cluster and on a connection much of it does not: there the project states what
holds in spite of collisions and faults, and lists beside it where the code departs
from its documentation.

## Modules

| Module | Models |
|---|---|
| `LockManager` | the lock manager, one action per critical section or statement between two of them, for the most general client |
| `LockService` | its promise: a lock is granted in one step and freed only after it was given back |
| `Operations` | operations, the store's `get` and `append`, and reference definitions of what a run of operations does |
| `TransactionMessageHandler` | `createReply`, the cursor that fills reads into the reply |
| `SerialTransactions` | the scheduler's promise: a transaction runs alone in one step, or has no effect |
| `TwoPLScheduler` | `execute_transaction` and the handler's answer on a node without peers, composed with `LockManager` |
| `JsonNumbers` | external: how Boost.JSON keeps the signedness of integers, and loses it in text |
| `Routing` | the node list that `start` builds, and a key's primary node |
| `DistributedCoordinator` | the coordinators of a cluster and the lock messages they create and parse |
| `DistributedScheduler` | `execute_transaction` with remote keys, the handlers of peers' messages, timeouts and exceptions; uses `Operations`, `Routing` and `JsonNumbers` |
| `Peer` | a peer connection: connecting, frames, the incoming socket |
| `MaelstromNode` | the process: input loop, `init`, thread pool, replies |
| `LockManagerProofs`, `TwoPLSchedulerProofs`, `SerializabilityProofs`, `DistributedCoordinatorProofs`, `DistributedSchedulerProofs`, `ClusterOperationsProofs`, `ClusterResultsProofs`, `MaelstromNodeProofs` | theorems |
| `MC...` | instances for TLC |

**LockManager.** A caller `c` is one call chain with a fixed transaction id
`TxOf[c]`. `pc[c]` is its next statement: `acq_*` in `acquire` and
`acquire_with_wait_die`, `rel_*` in `release`, `all_loop` in `release_all`.
`table_mutex` and `entry_mtx` are state because they are held while another
mutex is awaited; sections under `held_locks_mutex` never wait and are atomic.
`tries` counts failed checks over both wait loops; below `MAX_SPINS` it is the
first loop, which alone tests for re-entry. `result` and `granted` record what
the caller was told: `granted` is not in the code.
`lock_table.at(key)` in `acquire` runs outside `table_mutex`. `AcquireAtMissed`
is its outcome when a concurrent `try_emplace` rehashes the table: the entry is
not found and `at` throws. A crash, the other possible outcome, needs no action
for safety, because every prefix of a behaviour is checked; liveness assumes
there is none.

**TwoPLScheduler.** A request is a caller, and its id is the one it drew, so
request `i` draws id `i`; drawing an id commutes with all else, so the order
loses nothing. `phase` follows `execute_with_distributed_support`. Without peers
there is no coordinator and every key is local. The ways out of a transaction
are `ReplyCommitted`, `ReplyAborted` (a refused lock: `release_all`, an empty
list, and `txn_ok`) and `FailOnException` (`acquire` threw: an `error` reply,
nothing released). `phase` distinguishes `committed` from `aborted`, which the
reply does not.

**DistributedCoordinator.** A node name `n<i>` is the number `i`, any other name
is `NoNumber`; `start` reads its own number with `from_chars`, which refuses what
does not fit, and its peers' with `stoi`, which throws if the number is no `int` and
is then cut to 16 bits. `Sorted` is the list that `std::sort` and `std::unique` leave.
`set_nodes` may be given any list but the empty one, by whose length
`get_primary_node` would divide; nothing in the repository calls it. `Carry` sends the
message under way through text, after which an unsigned number that fits `int64_t` is
a signed one.

**DistributedScheduler.** A request is `<<n, i>>`: the one that draws id `i` from node
`n`'s counter. Every counter starts at 1 (`next_tx_id`), so requests of different nodes
share ids, and the lock managers, which see only ids, cannot tell them apart. `phase`
follows `execute_with_distributed_support`; `waiting` and `op_wait` are the two waits
with a deadline. A call of the lock manager is one step: `LockService` is what it
promises to callers with unique ids, and for callers with equal ids the calls are taken
to be atomic without proof. A section under `distributed_mutex` is one step as well,
sending included, since the mutex is held meanwhile. A key is locked and stored on its
primary node only, so `owner` and `store` are indexed by key. `granted`, and the
positions in `results`, are not in the code. `SaysGranted` is `FALSE`: the code compares
the address of a parsed string with that of a literal.
`TransactionServer.cpp` is not in the repository and `handle_peer_message` has no
caller in it, so the transport is external: a set of messages, each delivered at most
once, in any order, or lost. `send` may throw after any part of a group of messages.
The missing code decides whether a message arrives as the JSON value it was or parsed
from text, as `Peer` does it, so each message may do either; parsed from text,
`as_uint64` refuses an id that fits `int64_t`, and the handler logs that and returns
(`HandlerThrows`). A lost message also stands for a handler that fails before or after
its effect.

**Peer.** A frame is two parts, its length and its payload, because
`boost::asio::write` may pass it on in pieces. `setup_incoming` is two steps,
since `receive` can run between them on another thread. The constructor's own send
may fail as well (`ConnectSendFails`). The other side reads frames and answers each; it
is external, and so are the callers. `overlapped` and `dropped` record, for the
properties, whether two calls were ever under way together and whether a call ended
without its response.

**MaelstromNode.** Lines of input arrive in any order. `_init` runs on the input
thread, handlers on the pool. `Malformed` and `Raise` are exceptions that leave
`main`. At the end of the input the pool is stopped: running handlers finish,
queued ones are dropped (`Exit`). `too_early` is not in the code.

Definitions named "Mutant" are plausible bugs of the definition that follows
them. No action uses them; each is there to show that a property notices it.

## Runs

| Run | Instance | Shows |
|---|---|---|
| `lock_manager` | 2 callers, 2 keys, one check per wait loop, symmetric | `Exclusion`, `OwnerTracked`, `HoldersAreTold`, `SomeCallRuns`, `BoundedCalls`, `ImplementsLockService` |
| `scheduler` | 3 requests, 3 keys | `Strict2PL`, `OkReleasesAll`, `BoundedWork`, `Serializable` |
| `scheduler_live` | 2 requests, 3 keys, with fairness | `EveryTxAnswered` |
| `acked_appends` | as `scheduler_live` | violated: an aborted transaction is acknowledged with `txn_ok` |
| `answered_releases` | as `scheduler_live` | violated: a transaction answered with `error` keeps its locks |
| `coordinator` | 3 nodes, negative keys, reconfiguration | `RoutingAgrees`, `ParsedAsMade` |
| `cluster` | 2 nodes, 3 requests, two of them with the same id and a common key | `GrantsKept`, `ReturnedFreesLocal`, `AloneOpsLocked`, `AppendsAtMostOnce`, `ReadsSeeTheList` |
| `cluster_live` | 2 nodes, 3 requests, those with equal ids apart, with fairness | `GrantsKept`, `ResultsAreOwn`, `EveryTxAnswered`, `BoundedTransactions` |
| `primary_exclusive` | one request per node with the same key | violated: a key is granted to two transactions with the same id |
| `remote_ops_locked` | 2 requests with different ids and a common key | violated: an operation runs although its lock was denied |
| `peer` | 2 callers, one with an oversized message between two others, with fairness | `ResponsesMatch`, `ConstructionEnds` |
| `node` | 7 lines, 2 threads | `RepliesMatch`, `StartedBeforeWork`, `RequestsAnswered` |

`RoutingAgrees` is about a settled cluster: nodes numbered from 0, all started,
all with the same list.
The passing properties of the cluster hold with every fault and every collision of ids
in the model. Collisions do spoil the locks of the transactions they touch, so the
three about locks (`GrantsKept`, `ReturnedFreesLocal`, `AloneOpsLocked`) are about
transactions without a namesake: `Alone(r)` says that no request of another node with
`r`'s id uses one of `r`'s keys, or runs on a node that has one, where its `release_all`
would free it. They say that nothing else spoils a lock: no late request or release, no
response that is misread, no exception. `PrimaryExclusive` and `LocalOpsLocked` are the
same claims without `Alone`, and do not hold. `AppendsAtMostOnce`, `ReadsSeeTheList`,
`ResultsAreOwn`, `EveryTxAnswered` and `BoundedTransactions` need no such condition.
`ResultsAreOwn` says how far a result can be trusted: if no earlier operation on a remote
key was skipped (`NoneSkipped`), its response cannot be one that came late, so an append
with a result took effect, and a read sees the transaction's own appends.
`ReadsOwnAppends` and `CommittedAppendsDone` are what a client would expect, without the
condition, and do not hold. A transaction across nodes is not serializable, as
`remote_ops_locked` shows, so there is no refinement of `SerialTransactions` here.
`BoundedCalls`, `BoundedWork` and `BoundedTransactions` say as action properties why
transactions are answered: each step of a thread makes a well-founded measure smaller,
and no step of another thread makes it larger.
`ResponsesMatch` holds while callers of a `Peer` take turns and no call fails, which is
as much as a protocol without message ids can give; `FramesIntact` and `OwnResponse` are
what `Peer.h` says instead.

`Serializable` is `SerialTransactions` under a refinement mapping: a transaction
takes effect when it has its last lock. `SerialDb` adds the appends that running
transactions still have to make, `SerialReads` what their reads are still going
to see, and, once committed, the reads in the reply, so `createReply` is covered
too. It says that the scheduler's effects on the store and the reads of
transactions that executed are serializable. It does not say that the replies
are: the client cannot tell an abort from a commit, which is what
`acked_appends` shows.

**Bounds.** Two callers and two keys are what the table race and the waits for
an owner need: one caller creates an entry while the other looks one up. The
scheduler instances have a third key, so that a transaction can own a lock while
another creates an entry, which is how an exception leaks locks. `scheduler` has
three requests: a clean-up that frees a key of another transaction does harm
only when a third one takes the key. It has no iteration of the second wait
loop, which differs from the first only in not testing for re-entry, and a
transaction never asks twice for a key. In the other instances one iteration
per wait loop (1000 and 500 in the code) reaches every branch: a success and a
failure in each loop, and giving up. The proofs need none of these bounds.
The cluster instances have two nodes and a key on each. In `cluster` two transactions
need both keys, and the first of each node have the same id and a common key, so that
releases and grants of one reach the other, while the third crosses both. In
`cluster_live` the two with the same id are apart; the third appends to a remote key
and reads it back, with a local operation before, so that responses can be late for
one operation and on time for the next. `INT64_MAX` is 1, so that the id 1 does not
survive text and the id 2 does. `primary_exclusive` and `remote_ops_locked` have the
smallest instances that show the disagreement. `peer` has two callers with five messages between them, one of
them oversized, and `CONN_RETRIES` (10 in the code) is large enough for a failure, a
retry and giving up.
In `node`, `INT_MODULUS` is 16, with ids at both
ends of the range; two threads and three requests fill the pool. Beyond the range
of `int`, `RepliesMatch` does not hold.
Runs that do not check for deadlock are of systems that stop: a node whose
requests are all answered, a connection whose calls are made, a process whose
input has ended.

**Fairness.** `FairSpec` has weak fairness on the steps of each transaction: a
pool thread that can run does run. Weak fairness covers the waits for a mutex
because requests are finitely many and waits are bounded, so a mutex is
contended only finitely often. The arrival of requests is not assumed. In
`DistributedScheduler` weak fairness is again on each transaction's steps, which
include the passing of its deadline (`wait_until`); nothing is assumed of the
network, of the peers or of the handlers. In `Peer` it is on the constructor, since a call of
`boost::asio::connect` returns or fails by TCP's timeouts. In `MaelstromNode` it
is on the pool's threads and on each handler; that a handler returns is what
`EveryTxAnswered` shows.

## Disagreements between code and documentation

The four runs with an expected violation (`acked_appends`, `answered_releases`,
`primary_exclusive`, `remote_ops_locked`) are described under `findings` in
`PROJECT.json`. The models show more. Where a property is named, TLC reports it violated
on the instance given; the definitions are in the last section of their modules.

| Code | Documentation | Property | Instance |
|---|---|---|---|
| `acquire` never compares ids: after its wait loops it turns away younger and older callers alike (`LockManager.cpp:76`) | "if this transaction is older than the current lock holder, returns ABORTED. Otherwise, waits for the lock" (`LockManager.h:99-100`) | `WaitDie` | `lock_manager` with `TxOf <- NumberedIds`, `TxIds = {1, 2}`, `NoTx = 0`, one key and no symmetry |
| `get_primary_node` returns an index into the node list (`DistributedCoordinator.cpp:17`) | "The node ID that is primary for this key" (`DistributedCoordinator.h:106`) | `PrimaryIsListed` | `coordinator` with `Names = {1, 2, 3}`: some keys go to node 0 |
| a peer's release frees the key of a local transaction with the same id (`TwoPLScheduler.cpp:219`) | "Shrinking Phase: Release all locks after all operations complete" (`TwoPLScheduler.h:36`) | `LocalOpsLocked` | `primary_exclusive` |
| on a timeout only keys still pending are released (`TwoPLScheduler.cpp:472`) | "Send lock releases for any acquired locks" (`TwoPLScheduler.cpp:471`) | `ReturnedFreesAll` | `Txn <- Single` |
| the handler of a lock request throws on an id that was parsed from text (`TwoPLScheduler.cpp:153`) | "Send response back to requesting node" (`TwoPLScheduler.cpp:159`) | `LockRequestsAnswered` | `Txn <- Single` |
| an operation that timed out or threw is skipped (`TwoPLScheduler.cpp:545`, `:557`); its late response answers the next one on the key (`:553`) | "Guarantees serializability through strict two-phase locking" (`main.cpp:22`) | `ReadsOwnAppends` | `Txn <- Single` |
| the transaction commits without it (`TwoPLScheduler.cpp:385`); nothing sends `txn_prep` | "using a two-phase commit protocol" (`TwoPLScheduler.h:44-45`) | `CommittedAppendsDone` | `Txn <- Single` |
| a remote append adds an entry to the result list (`TwoPLScheduler.cpp:386`) | "Vector of (key, value) pairs for read operations" (`TwoPLScheduler.h:166`) | `ResultsAreReads` | `Txn <- Single` |
| `Peer::send` writes without a lock (`Peer.cpp:65`) | `send_receive` is "asynchronous but thread-safe" (`Peer.h:23`) | `FramesIntact` | `peer` with `Calls <- OneEach` |
| `receive` takes the next frame, whichever message it answers (`Peer.cpp:46`) | "sends a message and returns the response to the message" (`Peer.h:22`) | `OwnResponse` | `peer` with one caller and `Calls <- InTurn` |
| `holds_lock` answers from the tracking (`LockManager.cpp:140`), so it is true after an aborted `acquire` too; nothing calls it | "true if the transaction holds the lock" (`LockManager.h:130`) | none; `HoldersAreTold` is the half that holds | |
| messages queued at the end of the input are dropped (`maelstrom.cpp:130`, `Exit`) | messages are dispatched "to the appropriate message handler" (`maelstrom.h:104-105`) | none | |

`Single` is one transaction with a remote key, so `NumRequests <- OneOnly`, and the
other constants are those of `cluster`. Apart from the documentation, `setup_incoming`
cancels the waiters it should wake (`Peer.cpp:145`), and makes `ready` expire before
`in_socket` is set (`ReadNull`).

## Proofs

`LockManagerProofs` assumes only `LockManagerAssumption` (types of the
constants), and where it says so `UniqueIds`: no two callers pass the same id,
as on one node, where ids come from one atomic counter.

* `TypeCorrect`: `LMTypeOK` is inductive as it stands.
* `NoMutexDeadlock` adds `MutexInv`: a mutex is locked by exactly the caller
  whose statement runs under it. A caller that holds an entry mutex never waits;
  when no entry is locked, the holder of `table_mutex` can run.
* `MutualExclusion` and `NoOrphanedLock` rest on `LockInv`. `GrantInv` ties what
  a caller was told to the owner; it needs `ReleaseInv`, that a caller in
  `release` has already given the key back. `OwnerTracked` needs `TrackInv` (a
  caller that looks at the owner is tracked) and `EntryInv` (an owned key has an
  entry, so `release` does not return early).
* `HoldersKnown`: `holds_lock` answers from the tracking, which is kept until the
  caller gives the key back.
* `CallsEnd`: `StatementsLeft` bounds the statements left in `acquire` or in one turn of
  `release_all`, and `keys_to_release` the turns. No statement changes either for another
  caller.
* `Refinement`: `TryFree` and `TryReentrant` are `Grant`, `ReleaseOwner` is
  `Free`, starting a release is `GiveBack`; all else stutters.

`TwoPLSchedulerProofs` assumes `SchedulerAssumption`: requests are numbered,
each is its own id, and each has a sequence of operations. It also assumes
`OperationsAssumption`: `Nullopt` is not a list.

* `SchedulerIsClient`: every behaviour of the scheduler is one of the lock
  manager, so the invariants above hold in it; `UniqueIds` is proved, not
  assumed.
* `TwoPhaseLocking` and `NothingLeftBehind` rest on `PhaseInv`: which calls a
  phase can be in, that keys no longer in `to_lock` are granted except the one
  being asked for, and that nothing is tracked once `release_all` began.
* `WorkBounded`: the phases left, then the keys left to lock, the operations left and
  the measure of `CallsEnd` make a lexicographic order in which every step goes down.
* `SchedulerTypeCorrect`: the scheduler's state is well typed; the others use it.

`SerializabilityProofs` goes on from there, with the same assumption.

* `SchedulerSerializable`: the scheduler implements `SerialTransactions`. The
  results of a transaction are those of its reads before `op_index`, in order
  (`ResultsInv`), and while it runs the locks keep every other running
  transaction off its keys, by `MutualExclusion` and `PhaseInv`. The step that
  takes the last lock is then `Commit`: what the transaction will still append is
  added to the abstract store at once, and what it will still read is already
  decided. The ends without execution are `Abort`; every other step stutters.
  `AppendedTo` and `ReadsUpTo` are recursive functions; what the proof needs of
  them follows by induction on sets of numbers (`SetInduction`, from the
  well-foundedness of `<`).

`DistributedCoordinatorProofs` assumes `CoordinatorAssumption`: names are finitely many
numbers or `NoNumber`, and the lists given to `set_nodes` are not empty.

* `RoutingCorrect`: every started coordinator has its own number and a list that is not
  empty (`RoutingInv`); in a settled cluster the index is then the number of exactly one
  node. That `Sorted` yields a list of the ids, as long as there are ids, needs an id for
  each place of the list (`IdAtEachPlace`), by induction on the place.
* `CoordTypeCorrect` follows from the same invariant.
* `ParsingCorrect`: a message under way is as it was made (`MessageInv`); going
  through text changes the kind of a number, never its value.

`DistributedSchedulerProofs` assumes `DistributedAssumption`, the types of the constants.
No fault and no collision of ids is excluded.

* `ClusterTypeCorrect`: the types of the handlers' results depend on where a message
  came from, so it needs `MessageInv`: each message under way belongs to a transaction
  and to one of its remote keys or operations (`NetShape`).
* `GrantsLast`, `LocalLocksReturned` and `LocalTwoPhase` rest on `LockInv` beside it: a
  key was granted only to transactions that have it, and one without a namesake is then
  its owner (`GrantOK`); such a transaction owns the local keys it has asked for until it
  returns, and none of them afterwards (`HeldOK`). A step for one transaction leaves
  what others own unless they are namesakes (`OthersKeep`). `MessageInv` is needed
  because no peer's message about a transaction may concern its local keys.
* `TransactionsBounded` needs only that a transaction that waits for an operation has one
  left (`AwaitsOp`).

`ClusterOperationsProofs` goes on from there.

* `AppendsOnce` assumes `UniqueValues`: no two appends of the workload add the
  same value to a key, so that a value in a list tells which append put it there.
  Any fault may happen. `OnceInv`: an append is asked for in at most one message,
  or is in its list, never both, and neither before its turn; no operation has
  begun before the transaction executes.
* `ResultsNotMadeUp`: lists only grow at their end, so whatever a list was stays a
  beginning of it. Every value that can become a result is such a beginning: in a
  response under way, in `remote_results`, and in the results (`ListInv`).

`ClusterResultsProofs` proves `OwnResults`, without `UniqueValues`. In `OwnInv`, as long as
a transaction has skipped no operation on a remote key (`Unskipped`), its earlier
appends to the key are done (`DoneBefore`), and at most one message about the key is
under way (`KeyOK`): the request of the operation it waits for, or its response, and
neither once the response was handled (`WaitOK`). So the value that `OpAnswered` takes is
the one that this operation left. Once an operation is skipped nothing is said of the
key any more, which is what `NoneSkipped` allows for, and it is seen to have been skipped
because no later step adds its result (`NoResultYet`).

`MaelstromNodeProofs` assumes `NodeAssumption`: types of the input, of the thread
count and of the constants that stand for absent values.

* `NodeTypeCorrect` and `WorkFollowsStart` rest on `NodeInv`: each line that was
  read is in at most one of the queue, the working threads and the answers, once
  (`LinesInv`), and
  the main loop does not go on past an init whose handlers have not run
  (`StartInv`).
* `RepliesCorrect` also assumes `IdsFit`: the message ids of the input fit `int`.
  Beyond it `RepliesMatch` fails, since the id is narrowed.

Only model-checked: `PeerTypeOK` and `ResponsesMatch` of `Peer`, for which no inductive
invariant has been worked out; and `EveryTxAnswered` of both schedulers,
`ConstructionEnds` and `RequestsAnswered`, since liveness under fairness is outside what
TLAPS proves. What is proved towards the first two is `WorkBounded` and
`TransactionsBounded`.

## Not modelled

* `TransactionServer`, `TransactionManager`, `Transaction` and `NaiveOpExecutor`:
  only their headers are in the repository. What the modelled code expects of
  them is external.
* `handle_prepare_request`, `handle_commit_request`, `handle_abort_request`: no
  code sends their messages, and the last two are empty. `execute_with_id` and
  `execute_remote_op`: nothing calls them. The listener thread only sleeps.
* Whether `send` can wait for a handler that needs `distributed_mutex`, which is
  held while lock requests are sent: that is decided in the missing transport.
* The stripes of the store: each operation is atomic under its stripe's mutex.
* The text of JSON messages, logging, and memory exhaustion.
