----------------------------- MODULE LockManager -----------------------------
(***************************************************************************)
(* LockManager (lib/src/transactions/LockManager.cpp): exclusive per-key   *)
(* locks with bounded waiting, at the granularity of its three mutexes.    *)
(*                                                                         *)
(* A caller is one call chain into the manager: the pool thread that runs  *)
(* a transaction, or the thread that serves a peer's lock message.  It     *)
(* passes the same transaction id in every call, TxOf[c].  The client is   *)
(* the most general one: an idle caller may make any call.                 *)
(*                                                                         *)
(* table_mutex and the entry mutexes are state, because they are held      *)
(* while another mutex is awaited.  held_locks_mutex is not: none of its   *)
(* critical sections waits for anything, so each is one atomic step.       *)
(***************************************************************************)
EXTENDS Integers

CONSTANTS
  Callers,      \* call chains into the manager
  Keys,         \* keys that can be locked
  TxIds,        \* transaction ids
  TxOf,         \* the transaction id each caller passes
  MAX_SPINS,    \* iterations of the first (yielding) wait loop
  MAX_YIELDS,   \* iterations of the second (sleeping) wait loop
  NoTx,         \* the empty optional<TransactionId>
  NoKey,        \* the argument of a caller that made no call yet
  NoCaller      \* the owner of a free mutex

ASSUME LockManagerAssumption ==
  /\ TxOf \in [Callers -> TxIds]
  /\ NoTx \notin TxIds
  /\ NoCaller \notin Callers
  /\ MAX_SPINS \in Nat
  /\ MAX_YIELDS \in Nat

VARIABLES
  lock_table,       \* keys that have a LockEntry
  table_mutex,      \* caller that holds table_mutex, or NoCaller
  entry_mtx,        \* per key, the caller that holds the entry's mutex
  owner,            \* per key, the transaction that owns the lock
  held_locks,       \* per transaction, the keys tracked for clean-up
  pc,               \* per caller, the next statement
  key,              \* per caller, the argument key
  tries,            \* per caller, failed checks of the current acquire
  keys_to_release,  \* per caller, the local set of release_all
  in_all,           \* per caller, whether release was called by release_all
  result,           \* per caller, how the last acquire ended
  granted           \* per caller, keys it was told it has and did not give back

mutexes == <<table_mutex, entry_mtx>>
locals == <<key, tries, keys_to_release, in_all>>
lmVars == <<lock_table, table_mutex, entry_mtx, owner, held_locks, pc, key,
            tries, keys_to_release, in_all, result, granted>>

------------------------------------------------------------------------------

AcquirePCs == {"acq_table", "acq_emplace", "acq_at", "acq_entry",
               "acq_track", "acq_try", "acq_wait"}
ReleasePCs == {"rel_table", "rel_entry", "rel_owner", "rel_untrack"}
PCs == {"idle", "all_loop"} \cup AcquirePCs \cup ReleasePCs

\* Statements executed with table_mutex, respectively the entry mutex, held.
TablePCs == {"acq_emplace", "rel_entry", "rel_owner", "rel_untrack"}
EntryPCs == {"acq_track", "acq_try", "rel_owner", "rel_untrack"}

Results == {"none", "acquired", "aborted", "threw"}

LMTypeOK ==
  /\ lock_table \subseteq Keys
  /\ table_mutex \in Callers \cup {NoCaller}
  /\ entry_mtx \in [Keys -> Callers \cup {NoCaller}]
  /\ owner \in [Keys -> TxIds \cup {NoTx}]
  /\ held_locks \in [TxIds -> SUBSET Keys]
  /\ pc \in [Callers -> PCs]
  /\ key \in [Callers -> Keys \cup {NoKey}]
  /\ \A c \in Callers : pc[c] \notin {"idle", "all_loop"} => key[c] \in Keys
  /\ tries \in [Callers -> 0 .. MAX_SPINS + MAX_YIELDS]
  /\ keys_to_release \in [Callers -> SUBSET Keys]
  /\ in_all \in [Callers -> BOOLEAN]
  /\ result \in [Callers -> Results]
  /\ granted \in [Callers -> SUBSET Keys]

LMInit ==
  /\ lock_table = {}
  /\ table_mutex = NoCaller
  /\ entry_mtx = [k \in Keys |-> NoCaller]
  /\ owner = [k \in Keys |-> NoTx]
  /\ held_locks = [t \in TxIds |-> {}]
  /\ pc = [c \in Callers |-> "idle"]
  /\ key = [c \in Callers |-> NoKey]
  /\ tries = [c \in Callers |-> 0]
  /\ keys_to_release = [c \in Callers |-> {}]
  /\ in_all = [c \in Callers |-> FALSE]
  /\ result = [c \in Callers |-> "none"]
  /\ granted = [c \in Callers |-> {}]

Goto(c, l) == pc' = [pc EXCEPT ![c] = l]
LockTable(c) == table_mutex = NoCaller /\ table_mutex' = c
UnlockTable == table_mutex' = NoCaller
LockEntry(c) ==
  /\ entry_mtx[key[c]] = NoCaller
  /\ entry_mtx' = [entry_mtx EXCEPT ![key[c]] = c]
UnlockEntry(c) == entry_mtx' = [entry_mtx EXCEPT ![key[c]] = NoCaller]

------------------------------------------------------------------------------
(* acquire(key, tx_id)                                                     *)

CallAcquire(c, k) ==
  /\ pc[c] = "idle"
  /\ Goto(c, "acq_table")
  /\ key' = [key EXCEPT ![c] = k]
  /\ tries' = [tries EXCEPT ![c] = 0]
  /\ UNCHANGED <<lock_table, mutexes, owner, held_locks, keys_to_release,
                 in_all, result, granted>>

\* The entry exists: the critical section on the table changes nothing.
AcquireTableFound(c) ==
  /\ pc[c] = "acq_table"
  /\ table_mutex = NoCaller
  /\ key[c] \in lock_table
  /\ Goto(c, "acq_at")
  /\ UNCHANGED <<lock_table, mutexes, owner, held_locks, locals, result,
                 granted>>

\* The entry is missing: try_emplace starts, under table_mutex.
AcquireTableMissing(c) ==
  /\ pc[c] = "acq_table"
  /\ key[c] \notin lock_table
  /\ LockTable(c)
  /\ Goto(c, "acq_emplace")
  /\ UNCHANGED <<lock_table, entry_mtx, owner, held_locks, locals, result,
                 granted>>

AcquireEmplace(c) ==
  /\ pc[c] = "acq_emplace"
  /\ lock_table' = lock_table \cup {key[c]}
  /\ UnlockTable
  /\ Goto(c, "acq_at")
  /\ UNCHANGED <<entry_mtx, owner, held_locks, locals, result, granted>>

\* lock_table.at(key), after table_mutex was released.
AcquireAt(c) ==
  /\ pc[c] = "acq_at"
  /\ Goto(c, "acq_entry")
  /\ UNCHANGED <<lock_table, mutexes, owner, held_locks, locals, result,
                 granted>>

\* The same lookup while another caller is inside try_emplace: a data race on
\* the unordered_map.  A lookup that meets a rehash can miss the entry, and
\* at() then throws out_of_range.
AcquireAtMissed(c) ==
  /\ pc[c] = "acq_at"
  /\ \E d \in Callers : pc[d] = "acq_emplace"
  /\ Goto(c, "idle")
  /\ result' = [result EXCEPT ![c] = "threw"]
  /\ UNCHANGED <<lock_table, mutexes, owner, held_locks, locals, granted>>

AcquireEntry(c) ==
  /\ pc[c] = "acq_entry"
  /\ LockEntry(c)
  /\ Goto(c, "acq_track")
  /\ UNCHANGED <<lock_table, table_mutex, owner, held_locks, locals, result,
                 granted>>

\* Mutant: the key is never tracked.
AcquireTrackNothing(c) ==
  /\ pc[c] = "acq_track"
  /\ Goto(c, "acq_try")
  /\ UNCHANGED <<lock_table, mutexes, owner, held_locks, locals, result,
                 granted>>

\* The key is tracked before the lock is owned.
AcquireTrack(c) ==
  /\ pc[c] = "acq_track"
  /\ held_locks' = [held_locks EXCEPT ![TxOf[c]] = @ \cup {key[c]}]
  /\ Goto(c, "acq_try")
  /\ UNCHANGED <<lock_table, mutexes, owner, locals, result, granted>>

------------------------------------------------------------------------------
(* acquire_with_wait_die: tries < MAX_SPINS is the first loop, the rest is  *)
(* the second one, which does not test for re-entry.                        *)

\* Mutant: one check too many.
InLoopsOnceMore(c) == tries[c] <= MAX_SPINS + MAX_YIELDS

InLoops(c) == tries[c] < MAX_SPINS + MAX_YIELDS

\* Mutant: the owner is not compared with the caller's id.
ReentrantForAnyone(c) == tries[c] < MAX_SPINS /\ owner[key[c]] # NoTx

Reentrant(c) == tries[c] < MAX_SPINS /\ owner[key[c]] = TxOf[c]

Acquired(c) ==
  /\ result' = [result EXCEPT ![c] = "acquired"]
  /\ granted' = [granted EXCEPT ![c] = @ \cup {key[c]}]

TryFree(c) ==
  /\ pc[c] = "acq_try"
  /\ InLoops(c)
  /\ owner[key[c]] = NoTx
  /\ owner' = [owner EXCEPT ![key[c]] = TxOf[c]]
  /\ Acquired(c)
  /\ UnlockEntry(c)
  /\ Goto(c, "idle")
  /\ UNCHANGED <<lock_table, table_mutex, held_locks, locals>>

TryReentrant(c) ==
  /\ pc[c] = "acq_try"
  /\ Reentrant(c)
  /\ Acquired(c)
  /\ UnlockEntry(c)
  /\ Goto(c, "idle")
  /\ UNCHANGED <<lock_table, table_mutex, owner, held_locks, locals>>

\* Mutant: the entry mutex is kept while waiting.
TryBusyLocked(c) ==
  /\ pc[c] = "acq_try"
  /\ InLoops(c)
  /\ owner[key[c]] # NoTx
  /\ ~Reentrant(c)
  /\ tries' = [tries EXCEPT ![c] = @ + 1]
  /\ Goto(c, "acq_wait")
  /\ UNCHANGED <<lock_table, mutexes, owner, held_locks, key,
                 keys_to_release, in_all, result, granted>>

\* Mutant: the wait has no bound.
TryBusyForever(c) ==
  /\ pc[c] = "acq_try"
  /\ owner[key[c]] # NoTx
  /\ ~Reentrant(c)
  /\ UnlockEntry(c)
  /\ Goto(c, "acq_wait")
  /\ UNCHANGED <<lock_table, table_mutex, owner, held_locks, locals, result,
                 granted>>

TryBusy(c) ==
  /\ pc[c] = "acq_try"
  /\ InLoops(c)
  /\ owner[key[c]] # NoTx
  /\ ~Reentrant(c)
  /\ tries' = [tries EXCEPT ![c] = @ + 1]
  /\ UnlockEntry(c)
  /\ Goto(c, "acq_wait")
  /\ UNCHANGED <<lock_table, table_mutex, owner, held_locks, key,
                 keys_to_release, in_all, result, granted>>

AcquireRelock(c) ==
  /\ pc[c] = "acq_wait"
  /\ LockEntry(c)
  /\ Goto(c, "acq_try")
  /\ UNCHANGED <<lock_table, table_mutex, owner, held_locks, locals, result,
                 granted>>

\* Both loops are exhausted: ABORTED, without another look at the owner, and
\* with the key still tracked in held_locks.
GiveUp(c) ==
  /\ pc[c] = "acq_try"
  /\ ~InLoops(c)
  /\ result' = [result EXCEPT ![c] = "aborted"]
  /\ UnlockEntry(c)
  /\ Goto(c, "idle")
  /\ UNCHANGED <<lock_table, table_mutex, owner, held_locks, locals, granted>>

------------------------------------------------------------------------------
(* release(key, tx_id): table_mutex is held across the wait for the entry. *)

Return(c) == Goto(c, IF in_all[c] THEN "all_loop" ELSE "idle")

CallRelease(c, k) ==
  /\ pc[c] = "idle"
  /\ Goto(c, "rel_table")
  /\ key' = [key EXCEPT ![c] = k]
  /\ granted' = [granted EXCEPT ![c] = @ \ {k}]
  /\ UNCHANGED <<lock_table, mutexes, owner, held_locks, tries,
                 keys_to_release, in_all, result>>

ReleaseNoEntry(c) ==
  /\ pc[c] = "rel_table"
  /\ table_mutex = NoCaller
  /\ key[c] \notin lock_table
  /\ Return(c)
  /\ UNCHANGED <<lock_table, mutexes, owner, held_locks, locals, result,
                 granted>>

ReleaseTable(c) ==
  /\ pc[c] = "rel_table"
  /\ key[c] \in lock_table
  /\ LockTable(c)
  /\ Goto(c, "rel_entry")
  /\ UNCHANGED <<lock_table, entry_mtx, owner, held_locks, locals, result,
                 granted>>

ReleaseEntry(c) ==
  /\ pc[c] = "rel_entry"
  /\ LockEntry(c)
  /\ Goto(c, "rel_owner")
  /\ UNCHANGED <<lock_table, table_mutex, owner, held_locks, locals, result,
                 granted>>

ReleaseNotOwner(c) ==
  /\ pc[c] = "rel_owner"
  /\ owner[key[c]] # TxOf[c]
  /\ UnlockEntry(c)
  /\ UnlockTable
  /\ Return(c)
  /\ UNCHANGED <<lock_table, owner, held_locks, locals, result, granted>>

\* Mutant: the lock is freed whoever owns it.
ReleaseAnyOwner(c) ==
  /\ pc[c] = "rel_owner"
  /\ owner' = [owner EXCEPT ![key[c]] = NoTx]
  /\ Goto(c, "rel_untrack")
  /\ UNCHANGED <<lock_table, mutexes, held_locks, locals, result, granted>>

ReleaseOwner(c) ==
  /\ pc[c] = "rel_owner"
  /\ owner[key[c]] = TxOf[c]
  /\ owner' = [owner EXCEPT ![key[c]] = NoTx]
  /\ Goto(c, "rel_untrack")
  /\ UNCHANGED <<lock_table, mutexes, held_locks, locals, result, granted>>

\* Mutant: the entry of the transaction goes although it is not empty.
ReleaseUntrackAll(c) ==
  /\ pc[c] = "rel_untrack"
  /\ held_locks' = [held_locks EXCEPT ![TxOf[c]] = {}]
  /\ UnlockEntry(c)
  /\ UnlockTable
  /\ Return(c)
  /\ UNCHANGED <<lock_table, owner, locals, result, granted>>

ReleaseUntrack(c) ==
  /\ pc[c] = "rel_untrack"
  /\ held_locks' = [held_locks EXCEPT ![TxOf[c]] = @ \ {key[c]}]
  /\ UnlockEntry(c)
  /\ UnlockTable
  /\ Return(c)
  /\ UNCHANGED <<lock_table, owner, locals, result, granted>>

------------------------------------------------------------------------------
(* release_all(tx_id)                                                      *)

CallReleaseAll(c) ==
  /\ pc[c] = "idle"
  /\ keys_to_release' = [keys_to_release EXCEPT ![c] = held_locks[TxOf[c]]]
  /\ held_locks' = [held_locks EXCEPT ![TxOf[c]] = {}]
  /\ in_all' = [in_all EXCEPT ![c] = TRUE]
  /\ granted' = [granted EXCEPT ![c] = {}]
  /\ Goto(c, "all_loop")
  /\ UNCHANGED <<lock_table, mutexes, owner, key, tries, result>>

ReleaseAllNext(c) ==
  /\ pc[c] = "all_loop"
  /\ \E k \in keys_to_release[c] :
       /\ key' = [key EXCEPT ![c] = k]
       /\ keys_to_release' = [keys_to_release EXCEPT ![c] = @ \ {k}]
  /\ Goto(c, "rel_table")
  /\ UNCHANGED <<lock_table, mutexes, owner, held_locks, tries, in_all,
                 result, granted>>

ReleaseAllDone(c) ==
  /\ pc[c] = "all_loop"
  /\ keys_to_release[c] = {}
  /\ in_all' = [in_all EXCEPT ![c] = FALSE]
  /\ Goto(c, "idle")
  /\ UNCHANGED <<lock_table, mutexes, owner, held_locks, key, tries,
                 keys_to_release, result, granted>>

\* holds_lock(key, tx_id), a query.
HoldsLock(k, t) == k \in held_locks[t]

------------------------------------------------------------------------------

\* One statement of a call in progress.
AcquireStep(c) ==
  \/ AcquireTableFound(c) \/ AcquireTableMissing(c) \/ AcquireEmplace(c)
  \/ AcquireAt(c) \/ AcquireAtMissed(c) \/ AcquireEntry(c) \/ AcquireTrack(c)
  \/ TryFree(c) \/ TryReentrant(c) \/ TryBusy(c) \/ AcquireRelock(c)
  \/ GiveUp(c)

ReleaseStep(c) ==
  \/ ReleaseNoEntry(c) \/ ReleaseTable(c) \/ ReleaseEntry(c)
  \/ ReleaseNotOwner(c) \/ ReleaseOwner(c) \/ ReleaseUntrack(c)
  \/ ReleaseAllNext(c) \/ ReleaseAllDone(c)

LMStep(c) == AcquireStep(c) \/ ReleaseStep(c)

LMCall(c) ==
  \/ \E k \in Keys : CallAcquire(c, k) \/ CallRelease(c, k)
  \/ CallReleaseAll(c)

LMNext == \E c \in Callers : LMStep(c) \/ LMCall(c)

LMSpec == LMInit /\ [][LMNext]_lmVars

------------------------------------------------------------------------------
(* Properties                                                              *)

\* No two callers pass the same transaction id, as when every caller's id was
\* drawn from one node's next_tx_id counter.
UniqueIds == \A c, d \in Callers : TxOf[c] = TxOf[d] => c = d

\* Mutual exclusion (LockEntry.owner is "exclusive"): two callers that were
\* both told ACQUIRED for a key, and have not started to give it back, are
\* the same caller.
Exclusion ==
  \A c, d \in Callers : granted[c] \cap granted[d] # {} => c = d

Service == INSTANCE LockService

\* LockManager implements LockService: each acquire and release takes effect
\* in one step, although it is made of several critical sections, and no
\* interleaving frees a lock its holder still counts on.
ImplementsLockService == Service!Spec

\* A release of key k by caller c is still to come or in progress.
Releasing(c, k) ==
  \/ k \in keys_to_release[c]
  \/ in_all[c] /\ pc[c] \in ReleasePCs /\ key[c] = k

\* No orphaned lock: an owned key is tracked in held_locks, or a release_all
\* of its owner is about to free it, so that the clean-up call of the owner
\* always finds every lock it owns (release_all drops the tracking first and
\* frees the keys one by one; acquire tracks before it owns).
OwnerTracked ==
  \A k \in Keys : owner[k] # NoTx =>
    \/ k \in held_locks[owner[k]]
    \/ \E c \in Callers : TxOf[c] = owner[k] /\ Releasing(c, k)

\* holds_lock never answers false to a caller that was granted the key and has
\* not begun to give it back, although ownership and tracking change under
\* different mutexes.  (It may answer true after an aborted acquire.)
HoldersAreTold ==
  \A c \in Callers, k \in Keys :
    k \in granted[c] => HoldsLock(k, TxOf[c])

\* The mutexes the next statement of c needs are free.
CanRun(c) ==
  /\ pc[c] \in {"acq_table", "rel_table"} => table_mutex = NoCaller
  /\ pc[c] \in {"acq_entry", "acq_wait", "rel_entry"} =>
       entry_mtx[key[c]] = NoCaller

\* No deadlock among the mutexes: release waits for an entry mutex with
\* table_mutex held, yet whenever calls are in progress, one of them can run.
SomeCallRuns ==
  (\E c \in Callers : pc[c] # "idle") =>
    \E c \in Callers : pc[c] # "idle" /\ CanRun(c)

\* A bound on the statements left to a call, releases of further keys aside.
StatementsLeft(c) ==
  2 * (MAX_SPINS + MAX_YIELDS - tries[c]) +
    CASE pc[c] = "idle" -> 0
      [] pc[c] \in {"acq_try", "all_loop"} -> 1
      [] pc[c] \in {"acq_track", "acq_wait", "rel_untrack"} -> 2
      [] pc[c] \in {"acq_entry", "rel_owner"} -> 3
      [] pc[c] \in {"acq_at", "rel_entry"} -> 4
      [] pc[c] \in {"acq_emplace", "rel_table"} -> 5
      [] pc[c] = "acq_table" -> 6

\* The call of c comes nearer to its end.
CallNearer(c) ==
  \/ /\ keys_to_release'[c] \subseteq keys_to_release[c]
     /\ keys_to_release'[c] # keys_to_release[c]
  \/ /\ keys_to_release'[c] = keys_to_release[c]
     /\ StatementsLeft(c)' \in 0 .. StatementsLeft(c) - 1

\* The call of c stays where it is.
CallKept(c) == UNCHANGED <<pc[c], tries[c], keys_to_release[c]>>

\* Bounded waiting: every statement of a call brings the call nearer to its
\* end, whoever owns the lock and however often the owner changes, and no
\* statement of another call undoes that.
BoundedCalls ==
  [][\A c \in Callers : pc[c] # "idle" =>
       CallNearer(c) \/ CallKept(c)]_lmVars

\* What LockManager.h says of acquire: "if this transaction is older than the
\* current lock holder, returns ABORTED. Otherwise, waits for the lock" (a
\* smaller id is older).  A caller is turned away from an owned lock only if
\* it is older than the owner.
WaitDie ==
  [][\A c \in Callers :
       GiveUp(c) /\ owner[key[c]] # NoTx => TxOf[c] < owner[key[c]]]_lmVars
==============================================================================
