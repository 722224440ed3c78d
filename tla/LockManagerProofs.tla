-------------------------- MODULE LockManagerProofs --------------------------
(***************************************************************************)
(* Theorems about LockManager, for any callers, keys, ids and wait bounds. *)
(***************************************************************************)
EXTENDS LockManager, TLAPS

------------------------------------------------------------------------------
(* Types                                                                   *)

\* The empty manager a scheduler starts with is well typed.
LEMMA TypeInit == LMInit => LMTypeOK
  BY LockManagerAssumption DEF LMInit, LMTypeOK, PCs, Results

\* Every statement of acquire keeps the types.
LEMMA TypeAcquire ==
  ASSUME LMTypeOK, NEW c \in Callers, AcquireStep(c)
  PROVE  LMTypeOK'
<1> USE LockManagerAssumption DEF LMTypeOK, Goto, PCs, AcquirePCs, ReleasePCs,
      Results, mutexes, locals
<1>1. CASE AcquireTableFound(c)
  BY <1>1 DEF AcquireTableFound
<1>2. CASE AcquireTableMissing(c)
  BY <1>2 DEF AcquireTableMissing, LockTable
<1>3. CASE AcquireEmplace(c)
  BY <1>3 DEF AcquireEmplace, UnlockTable
<1>4. CASE AcquireAt(c)
  BY <1>4 DEF AcquireAt
<1>5. CASE AcquireAtMissed(c)
  BY <1>5 DEF AcquireAtMissed
<1>6. CASE AcquireEntry(c)
  BY <1>6 DEF AcquireEntry, LockEntry
<1>7. CASE AcquireTrack(c)
  BY <1>7 DEF AcquireTrack
<1>8. CASE TryFree(c)
  BY <1>8 DEF TryFree, Acquired, UnlockEntry
<1>9. CASE TryReentrant(c)
  BY <1>9 DEF TryReentrant, Acquired, UnlockEntry
<1>10. CASE TryBusy(c)
  BY <1>10 DEF TryBusy, InLoops, UnlockEntry
<1>11. CASE AcquireRelock(c)
  BY <1>11 DEF AcquireRelock, LockEntry
<1>12. CASE GiveUp(c)
  BY <1>12 DEF GiveUp, UnlockEntry
<1> QED
  BY <1>1, <1>2, <1>3, <1>4, <1>5, <1>6, <1>7, <1>8, <1>9, <1>10, <1>11,
     <1>12, Zenon DEF AcquireStep

\* Every statement of release and release_all keeps the types.
LEMMA TypeRelease ==
  ASSUME LMTypeOK, NEW c \in Callers, ReleaseStep(c)
  PROVE  LMTypeOK'
<1> USE LockManagerAssumption DEF LMTypeOK, Goto, PCs, AcquirePCs, ReleasePCs,
      Results, mutexes, locals
<1>1. CASE ReleaseNoEntry(c)
  BY <1>1 DEF ReleaseNoEntry, Return
<1>2. CASE ReleaseTable(c)
  BY <1>2 DEF ReleaseTable, LockTable
<1>3. CASE ReleaseEntry(c)
  BY <1>3 DEF ReleaseEntry, LockEntry
<1>4. CASE ReleaseNotOwner(c)
  BY <1>4 DEF ReleaseNotOwner, UnlockEntry, UnlockTable, Return
<1>5. CASE ReleaseOwner(c)
  BY <1>5 DEF ReleaseOwner
<1>6. CASE ReleaseUntrack(c)
  BY <1>6 DEF ReleaseUntrack, UnlockEntry, UnlockTable, Return
<1>7. CASE ReleaseAllNext(c)
  BY <1>7 DEF ReleaseAllNext
<1>8. CASE ReleaseAllDone(c)
  BY <1>8 DEF ReleaseAllDone
<1> QED
  BY <1>1, <1>2, <1>3, <1>4, <1>5, <1>6, <1>7, <1>8, Zenon DEF ReleaseStep

\* Starting a call keeps the types.
LEMMA TypeCall ==
  ASSUME LMTypeOK, NEW c \in Callers, LMCall(c)
  PROVE  LMTypeOK'
<1> USE LockManagerAssumption DEF LMTypeOK, Goto, PCs, AcquirePCs, ReleasePCs,
      Results, mutexes
<1>1. ASSUME NEW k \in Keys, CallAcquire(c, k) PROVE LMTypeOK'
  BY <1>1 DEF CallAcquire
<1>2. ASSUME NEW k \in Keys, CallRelease(c, k) PROVE LMTypeOK'
  BY <1>2 DEF CallRelease
<1>3. CASE CallReleaseAll(c)
  BY <1>3 DEF CallReleaseAll
<1> QED
  BY <1>1, <1>2, <1>3 DEF LMCall

\* Every step keeps the types.
LEMMA TypeNext == LMTypeOK /\ [LMNext]_lmVars => LMTypeOK'
<1> SUFFICES ASSUME LMTypeOK, [LMNext]_lmVars PROVE LMTypeOK'
  OBVIOUS
<1>1. CASE UNCHANGED lmVars
  BY <1>1 DEF LMTypeOK, lmVars
<1>2. CASE LMNext
  BY <1>2, TypeAcquire, TypeRelease, TypeCall DEF LMNext, LMStep
<1> QED
  BY <1>1, <1>2

\* The state of the lock manager is always well typed; in particular a caller
\* never counts more failed checks than the two loops have iterations.
THEOREM TypeCorrect == LMSpec => []LMTypeOK
  BY TypeInit, TypeNext, PTL DEF LMSpec

------------------------------------------------------------------------------
(* Mutexes                                                                 *)

\* A mutex is locked by exactly the caller whose statement runs under it.
MutexInv ==
  /\ \A c \in Callers : table_mutex = c <=> pc[c] \in TablePCs
  /\ \A c \in Callers, k \in Keys :
       entry_mtx[k] = c <=> pc[c] \in EntryPCs /\ key[c] = k

\* No mutex is locked before the first call.
LEMMA MutexInit == LMInit => MutexInv
  BY LockManagerAssumption DEF LMInit, MutexInv, TablePCs, EntryPCs

\* Every statement of acquire locks and unlocks as its place in the code says.
LEMMA MutexAcquire ==
  ASSUME LMTypeOK, MutexInv, NEW c \in Callers, AcquireStep(c)
  PROVE  MutexInv'
<1> USE LockManagerAssumption DEF LMTypeOK, MutexInv, TablePCs, EntryPCs, Goto,
      mutexes, locals
<1>1. CASE AcquireTableFound(c)
  BY <1>1 DEF AcquireTableFound
<1>2. CASE AcquireTableMissing(c)
  BY <1>2 DEF AcquireTableMissing, LockTable
<1>3. CASE AcquireEmplace(c)
  BY <1>3 DEF AcquireEmplace, UnlockTable
<1>4. CASE AcquireAt(c)
  BY <1>4 DEF AcquireAt
<1>5. CASE AcquireAtMissed(c)
  BY <1>5 DEF AcquireAtMissed
<1>6. CASE AcquireEntry(c)
  BY <1>6 DEF AcquireEntry, LockEntry
<1>7. CASE AcquireTrack(c)
  BY <1>7 DEF AcquireTrack
<1>8. CASE TryFree(c)
  BY <1>8 DEF TryFree, UnlockEntry
<1>9. CASE TryReentrant(c)
  BY <1>9 DEF TryReentrant, UnlockEntry
<1>10. CASE TryBusy(c)
  BY <1>10 DEF TryBusy, UnlockEntry
<1>11. CASE AcquireRelock(c)
  BY <1>11 DEF AcquireRelock, LockEntry
<1>12. CASE GiveUp(c)
  BY <1>12 DEF GiveUp, UnlockEntry
<1> QED
  BY <1>1, <1>2, <1>3, <1>4, <1>5, <1>6, <1>7, <1>8, <1>9, <1>10, <1>11, <1>12, Zenon DEF AcquireStep

\* So does every statement of release and release_all.
LEMMA MutexRelease ==
  ASSUME LMTypeOK, MutexInv, NEW c \in Callers, ReleaseStep(c)
  PROVE  MutexInv'
<1> USE LockManagerAssumption DEF LMTypeOK, MutexInv, TablePCs, EntryPCs, Goto,
      mutexes, locals
<1>1. CASE ReleaseNoEntry(c)
  BY <1>1 DEF ReleaseNoEntry, Return, PCs, AcquirePCs, ReleasePCs
<1>2. CASE ReleaseTable(c)
  BY <1>2 DEF ReleaseTable, LockTable
<1>3. CASE ReleaseEntry(c)
  BY <1>3 DEF ReleaseEntry, LockEntry
<1>4. CASE ReleaseNotOwner(c)
  BY <1>4 DEF ReleaseNotOwner, UnlockEntry, UnlockTable, Return, PCs, AcquirePCs, ReleasePCs
<1>5. CASE ReleaseOwner(c)
  BY <1>5 DEF ReleaseOwner
<1>6. CASE ReleaseUntrack(c)
  BY <1>6 DEF ReleaseUntrack, UnlockEntry, UnlockTable, Return, PCs, AcquirePCs, ReleasePCs
<1>7. CASE ReleaseAllNext(c)
  BY <1>7 DEF ReleaseAllNext
<1>8. CASE ReleaseAllDone(c)
  BY <1>8 DEF ReleaseAllDone
<1> QED
  BY <1>1, <1>2, <1>3, <1>4, <1>5, <1>6, <1>7, <1>8, Zenon DEF ReleaseStep

\* A call begins and ends with no mutex locked by its caller.
LEMMA MutexCall ==
  ASSUME LMTypeOK, MutexInv, NEW c \in Callers, LMCall(c)
  PROVE  MutexInv'
<1> USE LockManagerAssumption DEF LMTypeOK, MutexInv, TablePCs, EntryPCs, Goto,
      mutexes
<1>1. ASSUME NEW k \in Keys, CallAcquire(c, k) PROVE MutexInv'
  BY <1>1 DEF CallAcquire
<1>2. ASSUME NEW k \in Keys, CallRelease(c, k) PROVE MutexInv'
  BY <1>2 DEF CallRelease
<1>3. CASE CallReleaseAll(c)
  BY <1>3 DEF CallReleaseAll
<1> QED
  BY <1>1, <1>2, <1>3, Zenon DEF LMCall

\* Every step keeps the mutexes in line with the statements.
LEMMA MutexNext == LMTypeOK /\ MutexInv /\ [LMNext]_lmVars => MutexInv'
<1> SUFFICES ASSUME LMTypeOK, MutexInv, [LMNext]_lmVars PROVE MutexInv'
  OBVIOUS
<1>1. CASE UNCHANGED lmVars
  BY <1>1, Zenon DEF MutexInv, lmVars
<1>2. CASE LMNext
  BY <1>2, MutexAcquire, MutexRelease, MutexCall DEF LMNext, LMStep
<1> QED
  BY <1>1, <1>2

\* The mutex discipline of acquire and release rules out a circle of waits.
LEMMA MutexesProgress == LMTypeOK /\ MutexInv => SomeCallRuns
<1> SUFFICES ASSUME LMTypeOK, MutexInv, NEW c \in Callers, pc[c] # "idle"
             PROVE  \E d \in Callers : pc[d] # "idle" /\ CanRun(d)
  BY DEF SomeCallRuns
<1>1. CASE \E k \in Keys : entry_mtx[k] # NoCaller
  <2>1. PICK k \in Keys : entry_mtx[k] # NoCaller
    BY <1>1
  <2>2. entry_mtx[k] \in Callers /\ pc[entry_mtx[k]] \in EntryPCs
    BY <2>1 DEF LMTypeOK, MutexInv
  <2> QED
    BY <2>2 DEF EntryPCs, CanRun
<1>2. CASE \A k \in Keys : entry_mtx[k] = NoCaller
  <2>1. CASE table_mutex = NoCaller
    BY <1>2, <2>1 DEF CanRun, LMTypeOK
  <2>2. CASE table_mutex # NoCaller
    <3>1. table_mutex \in Callers /\ pc[table_mutex] \in TablePCs
      BY <2>2 DEF LMTypeOK, MutexInv
    <3>2. pc[table_mutex] # "idle" /\ CanRun(table_mutex)
      BY <1>2, <3>1 DEF TablePCs, CanRun, LMTypeOK
    <3> QED
      BY <3>1, <3>2
  <2> QED
    BY <2>1, <2>2
<1> QED
  BY <1>1, <1>2

\* However the calls interleave, they never all wait for each other's mutexes,
\* although release locks table_mutex and then waits for an entry mutex.
THEOREM NoMutexDeadlock == LMSpec => []SomeCallRuns
<1>1. LMTypeOK /\ MutexInv /\ [LMNext]_lmVars => (LMTypeOK /\ MutexInv)'
  BY TypeNext, MutexNext
<1> QED
  BY TypeInit, MutexInit, <1>1, MutexesProgress, PTL DEF LMSpec

------------------------------------------------------------------------------
(* Ownership                                                               *)

\* A call past the table section works on a key that has an entry, and so does
\* every owner (entries are never erased).
EntryInv ==
  /\ \A c \in Callers :
       pc[c] \in {"acq_at", "acq_entry", "acq_track", "acq_try", "acq_wait",
                 "rel_entry", "rel_owner", "rel_untrack"} =>
         key[c] \in lock_table
  /\ \A k \in Keys : owner[k] # NoTx => k \in lock_table

\* What a caller in release or release_all has given back, and that nobody
\* takes the key between the two critical sections of release.
ReleaseInv ==
  \A c \in Callers :
    /\ in_all[c] => granted[c] = {} /\ pc[c] \in ReleasePCs \cup {"all_loop"}
    /\ pc[c] = "all_loop" => in_all[c]
    /\ ~in_all[c] => keys_to_release[c] = {}
    /\ pc[c] \in ReleasePCs => key[c] \notin granted[c]
    /\ pc[c] = "rel_untrack" => owner[key[c]] = NoTx

\* A caller that looks at an owner has its key tracked.
TrackInv ==
  \A c \in Callers :
    pc[c] \in {"acq_try", "acq_wait"} => key[c] \in held_locks[TxOf[c]]

\* A caller that was told ACQUIRED is the owner until it gives the key back.
GrantInv ==
  \A c \in Callers : \A k \in granted[c] : owner[k] = TxOf[c]

LockInv ==
  EntryInv /\ ReleaseInv /\ TrackInv /\ GrantInv /\ OwnerTracked

\* Nothing is owned, tracked or granted before the first call.
LEMMA LockInit == LMInit => LockInv
  BY DEF LMInit, LockInv, EntryInv, ReleaseInv, TrackInv, GrantInv,
     OwnerTracked, ReleasePCs

\* Table entries: kept by every statement of acquire.
LEMMA EntryInvAcquire ==
  ASSUME UniqueIds, LMTypeOK, MutexInv, LockInv, NEW c \in Callers, AcquireStep(c)
  PROVE  EntryInv'
<1> USE LockManagerAssumption DEF LMTypeOK, LockInv, Goto, mutexes, locals,
      EntryInv
<1>1. CASE AcquireTableFound(c)
  BY <1>1 DEF AcquireTableFound
<1>2. CASE AcquireTableMissing(c)
  BY <1>2 DEF AcquireTableMissing
<1>3. CASE AcquireEmplace(c)
  BY <1>3 DEF AcquireEmplace
<1>4. CASE AcquireAt(c)
  BY <1>4 DEF AcquireAt
<1>5. CASE AcquireAtMissed(c)
  BY <1>5 DEF AcquireAtMissed
<1>6. CASE AcquireEntry(c)
  BY <1>6 DEF AcquireEntry
<1>7. CASE AcquireTrack(c)
  BY <1>7 DEF AcquireTrack
<1>8. CASE TryFree(c)
  BY <1>8 DEF TryFree, Acquired
<1>9. CASE TryReentrant(c)
  BY <1>9, Zenon DEF TryReentrant, Acquired, Reentrant
<1>10. CASE TryBusy(c)
  BY <1>10 DEF TryBusy
<1>11. CASE AcquireRelock(c)
  BY <1>11 DEF AcquireRelock
<1>12. CASE GiveUp(c)
  BY <1>12 DEF GiveUp
<1> QED
  BY <1>1, <1>2, <1>3, <1>4, <1>5, <1>6, <1>7, <1>8, <1>9, <1>10, <1>11,
     <1>12, Zenon DEF AcquireStep

\* Table entries: kept by every statement of release and release_all.
LEMMA EntryInvRelease ==
  ASSUME UniqueIds, LMTypeOK, MutexInv, LockInv, NEW c \in Callers, ReleaseStep(c)
  PROVE  EntryInv'
<1> USE LockManagerAssumption DEF LMTypeOK, LockInv, Goto, mutexes, locals,
      EntryInv
<1>1. CASE ReleaseNoEntry(c)
  BY <1>1, Zenon DEF ReleaseNoEntry, Return
<1>2. CASE ReleaseTable(c)
  BY <1>2 DEF ReleaseTable
<1>3. CASE ReleaseEntry(c)
  BY <1>3 DEF ReleaseEntry
<1>4. CASE ReleaseNotOwner(c)
  BY <1>4 DEF ReleaseNotOwner, Return
<1>5. CASE ReleaseOwner(c)
  BY <1>5, Zenon DEF ReleaseOwner
<1>6. CASE ReleaseUntrack(c)
  BY <1>6 DEF ReleaseUntrack, Return
<1>7. CASE ReleaseAllNext(c)
  BY <1>7, Zenon DEF ReleaseAllNext
<1>8. CASE ReleaseAllDone(c)
  BY <1>8, Zenon DEF ReleaseAllDone
<1> QED
  BY <1>1, <1>2, <1>3, <1>4, <1>5, <1>6, <1>7, <1>8, Zenon DEF ReleaseStep

\* Table entries: kept by the start of a call.
LEMMA EntryInvCall ==
  ASSUME UniqueIds, LMTypeOK, MutexInv, LockInv, NEW c \in Callers, LMCall(c)
  PROVE  EntryInv'
<1> USE LockManagerAssumption DEF LMTypeOK, LockInv, Goto, mutexes, locals,
      EntryInv
<1>1. ASSUME NEW k \in Keys, CallAcquire(c, k) PROVE EntryInv'
  BY <1>1, Zenon DEF CallAcquire
<1>2. ASSUME NEW k \in Keys, CallRelease(c, k) PROVE EntryInv'
  BY <1>2, Zenon DEF CallRelease
<1>3. CASE CallReleaseAll(c)
  BY <1>3, Zenon DEF CallReleaseAll
<1> QED
  BY <1>1, <1>2, <1>3, Zenon DEF LMCall

\* The state of a release: kept by every statement of acquire.
LEMMA ReleaseInvAcquire ==
  ASSUME UniqueIds, LMTypeOK, MutexInv, LockInv, NEW c \in Callers, AcquireStep(c)
  PROVE  ReleaseInv'
<1> USE LockManagerAssumption DEF LMTypeOK, LockInv, Goto, mutexes, locals,
      MutexInv, EntryPCs, ReleaseInv, ReleasePCs
<1>1. CASE AcquireTableFound(c)
  BY <1>1 DEF AcquireTableFound
<1>2. CASE AcquireTableMissing(c)
  BY <1>2 DEF AcquireTableMissing
<1>3. CASE AcquireEmplace(c)
  BY <1>3 DEF AcquireEmplace
<1>4. CASE AcquireAt(c)
  BY <1>4 DEF AcquireAt
<1>5. CASE AcquireAtMissed(c)
  BY <1>5 DEF AcquireAtMissed
<1>6. CASE AcquireEntry(c)
  BY <1>6 DEF AcquireEntry
<1>7. CASE AcquireTrack(c)
  BY <1>7 DEF AcquireTrack
<1>8. CASE TryFree(c)
  BY <1>8 DEF TryFree, Acquired
<1>9. CASE TryReentrant(c)
  BY <1>9 DEF TryReentrant, Acquired, Reentrant
<1>10. CASE TryBusy(c)
  BY <1>10 DEF TryBusy
<1>11. CASE AcquireRelock(c)
  BY <1>11 DEF AcquireRelock
<1>12. CASE GiveUp(c)
  BY <1>12 DEF GiveUp
<1> QED
  BY <1>1, <1>2, <1>3, <1>4, <1>5, <1>6, <1>7, <1>8, <1>9, <1>10, <1>11,
     <1>12, Zenon DEF AcquireStep

\* The state of a release: kept by every statement of release and release_all.
LEMMA ReleaseInvRelease ==
  ASSUME UniqueIds, LMTypeOK, MutexInv, LockInv, NEW c \in Callers, ReleaseStep(c)
  PROVE  ReleaseInv'
<1> USE LockManagerAssumption DEF LMTypeOK, LockInv, Goto, mutexes, locals,
      MutexInv, EntryPCs, ReleaseInv, ReleasePCs
<1>1. CASE ReleaseNoEntry(c)
  BY <1>1 DEF ReleaseNoEntry, Return
<1>2. CASE ReleaseTable(c)
  BY <1>2 DEF ReleaseTable
<1>3. CASE ReleaseEntry(c)
  BY <1>3 DEF ReleaseEntry
<1>4. CASE ReleaseNotOwner(c)
  BY <1>4 DEF ReleaseNotOwner, Return
<1>5. CASE ReleaseOwner(c)
  BY <1>5 DEF ReleaseOwner
<1>6. CASE ReleaseUntrack(c)
  BY <1>6 DEF ReleaseUntrack, Return
<1>7. CASE ReleaseAllNext(c)
  BY <1>7 DEF ReleaseAllNext
<1>8. CASE ReleaseAllDone(c)
  BY <1>8 DEF ReleaseAllDone
<1> QED
  BY <1>1, <1>2, <1>3, <1>4, <1>5, <1>6, <1>7, <1>8, Zenon DEF ReleaseStep

\* The state of a release: kept by the start of a call.
LEMMA ReleaseInvCall ==
  ASSUME UniqueIds, LMTypeOK, MutexInv, LockInv, NEW c \in Callers, LMCall(c)
  PROVE  ReleaseInv'
<1> USE LockManagerAssumption DEF LMTypeOK, LockInv, Goto, mutexes, locals,
      ReleaseInv, ReleasePCs
<1>1. ASSUME NEW k \in Keys, CallAcquire(c, k) PROVE ReleaseInv'
  BY <1>1, ZenonT(30) DEF CallAcquire
<1>2. ASSUME NEW k \in Keys, CallRelease(c, k) PROVE ReleaseInv'
  BY <1>2, ZenonT(30) DEF CallRelease
<1>3. CASE CallReleaseAll(c)
  BY <1>3, ZenonT(30) DEF CallReleaseAll
<1> QED
  BY <1>1, <1>2, <1>3, Zenon DEF LMCall

\* Tracking before owning: kept by every statement of acquire.
LEMMA TrackInvAcquire ==
  ASSUME UniqueIds, LMTypeOK, MutexInv, LockInv, NEW c \in Callers, AcquireStep(c)
  PROVE  TrackInv'
<1> USE LockManagerAssumption DEF LMTypeOK, LockInv, Goto, mutexes, locals,
      TrackInv
<1>1. CASE AcquireTableFound(c)
  BY <1>1, Zenon DEF AcquireTableFound
<1>2. CASE AcquireTableMissing(c)
  BY <1>2, Zenon DEF AcquireTableMissing
<1>3. CASE AcquireEmplace(c)
  BY <1>3, Zenon DEF AcquireEmplace
<1>4. CASE AcquireAt(c)
  BY <1>4, Zenon DEF AcquireAt
<1>5. CASE AcquireAtMissed(c)
  BY <1>5, Zenon DEF AcquireAtMissed
<1>6. CASE AcquireEntry(c)
  BY <1>6 DEF AcquireEntry
<1>7. CASE AcquireTrack(c)
  BY <1>7, Zenon DEF AcquireTrack
<1>8. CASE TryFree(c)
  BY <1>8, Zenon DEF TryFree, Acquired
<1>9. CASE TryReentrant(c)
  BY <1>9, Zenon DEF TryReentrant, Acquired, Reentrant
<1>10. CASE TryBusy(c)
  BY <1>10, Zenon DEF TryBusy
<1>11. CASE AcquireRelock(c)
  BY <1>11, Zenon DEF AcquireRelock
<1>12. CASE GiveUp(c)
  BY <1>12, Zenon DEF GiveUp
<1> QED
  BY <1>1, <1>2, <1>3, <1>4, <1>5, <1>6, <1>7, <1>8, <1>9, <1>10, <1>11,
     <1>12, Zenon DEF AcquireStep

\* Tracking before owning: kept by every statement of release and release_all.
LEMMA TrackInvRelease ==
  ASSUME UniqueIds, LMTypeOK, MutexInv, LockInv, NEW c \in Callers, ReleaseStep(c)
  PROVE  TrackInv'
<1> USE LockManagerAssumption DEF LMTypeOK, LockInv, Goto, mutexes, locals,
      UniqueIds, TrackInv
<1>1. CASE ReleaseNoEntry(c)
  BY <1>1, Zenon DEF ReleaseNoEntry, Return
<1>2. CASE ReleaseTable(c)
  BY <1>2, Zenon DEF ReleaseTable
<1>3. CASE ReleaseEntry(c)
  BY <1>3, Zenon DEF ReleaseEntry
<1>4. CASE ReleaseNotOwner(c)
  BY <1>4, Zenon DEF ReleaseNotOwner, Return
<1>5. CASE ReleaseOwner(c)
  BY <1>5, Zenon DEF ReleaseOwner
<1>6. CASE ReleaseUntrack(c)
  BY <1>6, Zenon DEF ReleaseUntrack, Return
<1>7. CASE ReleaseAllNext(c)
  BY <1>7, Zenon DEF ReleaseAllNext
<1>8. CASE ReleaseAllDone(c)
  BY <1>8, Zenon DEF ReleaseAllDone
<1> QED
  BY <1>1, <1>2, <1>3, <1>4, <1>5, <1>6, <1>7, <1>8, Zenon DEF ReleaseStep

\* Tracking before owning: kept by the start of a call.
LEMMA TrackInvCall ==
  ASSUME UniqueIds, LMTypeOK, MutexInv, LockInv, NEW c \in Callers, LMCall(c)
  PROVE  TrackInv'
<1> USE LockManagerAssumption DEF LMTypeOK, LockInv, Goto, mutexes, locals,
      UniqueIds, TrackInv
<1>1. ASSUME NEW k \in Keys, CallAcquire(c, k) PROVE TrackInv'
  BY <1>1, Zenon DEF CallAcquire
<1>2. ASSUME NEW k \in Keys, CallRelease(c, k) PROVE TrackInv'
  BY <1>2, Zenon DEF CallRelease
<1>3. CASE CallReleaseAll(c)
  BY <1>3, Zenon DEF CallReleaseAll
<1> QED
  BY <1>1, <1>2, <1>3, Zenon DEF LMCall

\* A grant: kept by every statement of acquire.
LEMMA GrantInvAcquire ==
  ASSUME UniqueIds, LMTypeOK, MutexInv, LockInv, NEW c \in Callers, AcquireStep(c)
  PROVE  GrantInv'
<1> USE LockManagerAssumption DEF LMTypeOK, LockInv, Goto, mutexes, locals,
      GrantInv
<1>1. CASE AcquireTableFound(c)
  BY <1>1, Zenon DEF AcquireTableFound
<1>2. CASE AcquireTableMissing(c)
  BY <1>2, Zenon DEF AcquireTableMissing
<1>3. CASE AcquireEmplace(c)
  BY <1>3, Zenon DEF AcquireEmplace
<1>4. CASE AcquireAt(c)
  BY <1>4, Zenon DEF AcquireAt
<1>5. CASE AcquireAtMissed(c)
  BY <1>5, Zenon DEF AcquireAtMissed
<1>6. CASE AcquireEntry(c)
  BY <1>6, Zenon DEF AcquireEntry
<1>7. CASE AcquireTrack(c)
  BY <1>7, Zenon DEF AcquireTrack
<1>8. CASE TryFree(c)
  BY <1>8 DEF TryFree, Acquired
<1>9. CASE TryReentrant(c)
  BY <1>9 DEF TryReentrant, Acquired, Reentrant
<1>10. CASE TryBusy(c)
  BY <1>10, Zenon DEF TryBusy
<1>11. CASE AcquireRelock(c)
  BY <1>11, Zenon DEF AcquireRelock
<1>12. CASE GiveUp(c)
  BY <1>12, Zenon DEF GiveUp
<1> QED
  BY <1>1, <1>2, <1>3, <1>4, <1>5, <1>6, <1>7, <1>8, <1>9, <1>10, <1>11,
     <1>12, Zenon DEF AcquireStep

\* A grant: kept by every statement of release and release_all.
LEMMA GrantInvRelease ==
  ASSUME UniqueIds, LMTypeOK, MutexInv, LockInv, NEW c \in Callers, ReleaseStep(c)
  PROVE  GrantInv'
<1> USE LockManagerAssumption DEF LMTypeOK, LockInv, Goto, mutexes, locals,
      UniqueIds, GrantInv, ReleaseInv, ReleasePCs
<1>1. CASE ReleaseNoEntry(c)
  BY <1>1, Zenon DEF ReleaseNoEntry, Return
<1>2. CASE ReleaseTable(c)
  BY <1>2, Zenon DEF ReleaseTable
<1>3. CASE ReleaseEntry(c)
  BY <1>3, Zenon DEF ReleaseEntry
<1>4. CASE ReleaseNotOwner(c)
  BY <1>4, Zenon DEF ReleaseNotOwner, Return
<1>5. CASE ReleaseOwner(c)
  BY <1>5 DEF ReleaseOwner
<1>6. CASE ReleaseUntrack(c)
  BY <1>6, Zenon DEF ReleaseUntrack, Return
<1>7. CASE ReleaseAllNext(c)
  BY <1>7, Zenon DEF ReleaseAllNext
<1>8. CASE ReleaseAllDone(c)
  BY <1>8, Zenon DEF ReleaseAllDone
<1> QED
  BY <1>1, <1>2, <1>3, <1>4, <1>5, <1>6, <1>7, <1>8, Zenon DEF ReleaseStep

\* A grant: kept by the start of a call.
LEMMA GrantInvCall ==
  ASSUME UniqueIds, LMTypeOK, MutexInv, LockInv, NEW c \in Callers, LMCall(c)
  PROVE  GrantInv'
<1> USE LockManagerAssumption DEF LMTypeOK, LockInv, Goto, mutexes, locals,
      GrantInv
<1>1. ASSUME NEW k \in Keys, CallAcquire(c, k) PROVE GrantInv'
  BY <1>1, Zenon DEF CallAcquire
<1>2. ASSUME NEW k \in Keys, CallRelease(c, k) PROVE GrantInv'
  BY <1>2, Zenon DEF CallRelease
<1>3. CASE CallReleaseAll(c)
  BY <1>3, Zenon DEF CallReleaseAll
<1> QED
  BY <1>1, <1>2, <1>3, Zenon DEF LMCall

\* The tracking of every owner: kept by every statement of acquire.
LEMMA OwnerTrackedAcquire ==
  ASSUME UniqueIds, LMTypeOK, MutexInv, LockInv, NEW c \in Callers, AcquireStep(c)
  PROVE  OwnerTracked'
<1> USE LockManagerAssumption DEF LMTypeOK, LockInv, Goto, mutexes, locals,
      TrackInv, OwnerTracked, Releasing, ReleasePCs
<1>1. CASE AcquireTableFound(c)
  BY <1>1, Zenon DEF AcquireTableFound
<1>2. CASE AcquireTableMissing(c)
  BY <1>2, Zenon DEF AcquireTableMissing
<1>3. CASE AcquireEmplace(c)
  BY <1>3, Zenon DEF AcquireEmplace
<1>4. CASE AcquireAt(c)
  BY <1>4, Zenon DEF AcquireAt
<1>5. CASE AcquireAtMissed(c)
  BY <1>5, ZenonT(30) DEF AcquireAtMissed
<1>6. CASE AcquireEntry(c)
  BY <1>6, Zenon DEF AcquireEntry
<1>7. CASE AcquireTrack(c)
  BY <1>7 DEF AcquireTrack
<1>8. CASE TryFree(c)
  BY <1>8 DEF TryFree, Acquired
<1>9. CASE TryReentrant(c)
  BY <1>9, Zenon DEF TryReentrant, Acquired, Reentrant
<1>10. CASE TryBusy(c)
  BY <1>10, ZenonT(30) DEF TryBusy
<1>11. CASE AcquireRelock(c)
  BY <1>11, Zenon DEF AcquireRelock
<1>12. CASE GiveUp(c)
  BY <1>12, Zenon DEF GiveUp
<1> QED
  BY <1>1, <1>2, <1>3, <1>4, <1>5, <1>6, <1>7, <1>8, <1>9, <1>10, <1>11,
     <1>12, ZenonT(30) DEF AcquireStep

\* The tracking of every owner: kept by every statement of release and release_all.
LEMMA OwnerTrackedRelease ==
  ASSUME UniqueIds, LMTypeOK, MutexInv, LockInv, NEW c \in Callers, ReleaseStep(c)
  PROVE  OwnerTracked'
<1> USE LockManagerAssumption DEF LMTypeOK, LockInv, Goto, mutexes, locals,
      EntryInv, ReleaseInv, OwnerTracked, Releasing,
      ReleasePCs
<1>1. CASE ReleaseNoEntry(c)
  BY <1>1 DEF ReleaseNoEntry, Return
<1>2. CASE ReleaseTable(c)
  BY <1>2 DEF ReleaseTable
<1>3. CASE ReleaseEntry(c)
  BY <1>3 DEF ReleaseEntry
<1>4. CASE ReleaseNotOwner(c)
  BY <1>4 DEF ReleaseNotOwner, Return
<1>5. CASE ReleaseOwner(c)
  BY <1>5 DEF ReleaseOwner
<1>6. CASE ReleaseUntrack(c)
  BY <1>6 DEF ReleaseUntrack, Return
<1>7. CASE ReleaseAllNext(c)
  BY <1>7 DEF ReleaseAllNext
<1>8. CASE ReleaseAllDone(c)
  BY <1>8 DEF ReleaseAllDone
<1> QED
  BY <1>1, <1>2, <1>3, <1>4, <1>5, <1>6, <1>7, <1>8, Zenon DEF ReleaseStep

\* The tracking of every owner: kept by the start of a call.
LEMMA OwnerTrackedCall ==
  ASSUME UniqueIds, LMTypeOK, MutexInv, LockInv, NEW c \in Callers, LMCall(c)
  PROVE  OwnerTracked'
<1> USE LockManagerAssumption DEF LMTypeOK, LockInv, Goto, mutexes, locals,
      ReleaseInv, OwnerTracked, Releasing, ReleasePCs
<1>1. ASSUME NEW k \in Keys, CallAcquire(c, k) PROVE OwnerTracked'
  BY <1>1, Zenon DEF CallAcquire
<1>2. ASSUME NEW k \in Keys, CallRelease(c, k) PROVE OwnerTracked'
  BY <1>2, Zenon DEF CallRelease
<1>3. CASE CallReleaseAll(c)
  BY <1>3 DEF CallReleaseAll
<1> QED
  BY <1>1, <1>2, <1>3, Zenon DEF LMCall

\* Every step keeps the whole invariant.
LEMMA LockInvNext ==
  UniqueIds /\ LMTypeOK /\ MutexInv /\ LockInv /\ [LMNext]_lmVars => LockInv'
<1> SUFFICES ASSUME UniqueIds, LMTypeOK, MutexInv, LockInv, [LMNext]_lmVars
             PROVE  LockInv'
  OBVIOUS
<1>1. CASE UNCHANGED lmVars
  <2>1. EntryInv' /\ TrackInv' /\ GrantInv'
    BY <1>1, Zenon DEF LockInv, EntryInv, TrackInv, GrantInv, lmVars
  <2>2. ReleaseInv'
    BY <1>1, Zenon DEF LockInv, ReleaseInv, lmVars
  <2>3. OwnerTracked'
    BY <1>1, Zenon DEF LockInv, OwnerTracked, Releasing, lmVars
  <2> QED
    BY <2>1, <2>2, <2>3 DEF LockInv
<1>2. ASSUME NEW c \in Callers, AcquireStep(c) PROVE LockInv'
  BY <1>2, EntryInvAcquire, ReleaseInvAcquire, TrackInvAcquire,
     GrantInvAcquire, OwnerTrackedAcquire DEF LockInv
<1>3. ASSUME NEW c \in Callers, ReleaseStep(c) PROVE LockInv'
  BY <1>3, EntryInvRelease, ReleaseInvRelease, TrackInvRelease,
     GrantInvRelease, OwnerTrackedRelease DEF LockInv
<1>4. ASSUME NEW c \in Callers, LMCall(c) PROVE LockInv'
  BY <1>4, EntryInvCall, ReleaseInvCall, TrackInvCall, GrantInvCall,
     OwnerTrackedCall DEF LockInv
<1> QED
  BY <1>1, <1>2, <1>3, <1>4 DEF LMNext, LMStep

\* The invariants of all reachable states, when no two callers share an id.
LEMMA Invariants ==
  ASSUME UniqueIds
  PROVE  LMSpec => [](LMTypeOK /\ MutexInv /\ LockInv)
<1>1. LMTypeOK /\ MutexInv /\ LockInv /\ [LMNext]_lmVars
        => (LMTypeOK /\ MutexInv /\ LockInv)'
  BY TypeNext, MutexNext, LockInvNext
<1> QED
  BY TypeInit, MutexInit, LockInit, <1>1, PTL DEF LMSpec

\* Mutual exclusion: with ids of one next_tx_id counter, no key is ever granted
\* to two callers at the same time.
THEOREM MutualExclusion ==
  ASSUME UniqueIds
  PROVE  LMSpec => []Exclusion
<1>1. LockInv => Exclusion
  BY DEF LockInv, GrantInv, UniqueIds, Exclusion
<1> QED
  BY Invariants, <1>1, PTL

\* No lock is orphaned: whatever calls interleave with release_all, every
\* owned key is tracked for its owner or on its way to being freed.
THEOREM NoOrphanedLock ==
  ASSUME UniqueIds
  PROVE  LMSpec => []OwnerTracked
<1>1. LockInv => OwnerTracked
  BY DEF LockInv
<1> QED
  BY Invariants, <1>1, PTL

\* holds_lock never denies a lock to a caller that was told it owns it: a
\* release_all, which drops the tracking first, comes after the lock was
\* given back.
THEOREM HoldersKnown ==
  ASSUME UniqueIds
  PROVE  LMSpec => []HoldersAreTold
<1>1. LMTypeOK /\ LockInv => HoldersAreTold
  <2> SUFFICES ASSUME LMTypeOK, LockInv, NEW c \in Callers, NEW k \in Keys,
                      k \in granted[c]
               PROVE  k \in held_locks[TxOf[c]]
    BY DEF HoldersAreTold, HoldsLock
  <2>1. owner[k] = TxOf[c] /\ owner[k] # NoTx
    BY LockManagerAssumption DEF LockInv, GrantInv
  <2>2. ASSUME NEW d \in Callers, TxOf[d] = owner[k], Releasing(d, k)
        PROVE  FALSE
    <3>1. d = c
      BY <2>1, <2>2, Zenon DEF UniqueIds
    <3> QED
      BY <2>2, <3>1, Zenon DEF Releasing, LockInv, ReleaseInv
  <2> QED
    BY <2>1, <2>2, Zenon DEF LockInv, OwnerTracked
<1> QED
  BY Invariants, TypeCorrect, <1>1, PTL

------------------------------------------------------------------------------
(* Refinement                                                              *)

\* Every step of the lock manager is a step of LockService or leaves owner and
\* granted alone.
LEMMA ServiceStep ==
  ASSUME UniqueIds, LMTypeOK, LockInv, LMNext
  PROVE  [Service!Next]_(Service!serviceVars)
<1> USE LockManagerAssumption DEF LMTypeOK, Service!serviceVars, mutexes, locals
<1>1. ASSUME NEW c \in Callers, AcquireStep(c)
      PROVE  [Service!Next]_(Service!serviceVars)
  <2>1. CASE TryFree(c)
    <3>1. Service!Grant(c, key[c]) /\ key[c] \in Keys
      BY <2>1, Zenon DEF TryFree, Acquired, Service!Grant
    <3> QED
      BY <3>1, Zenon DEF Service!Next
  <2>2. CASE TryReentrant(c)
    <3>1. Service!Grant(c, key[c]) /\ key[c] \in Keys
      BY <2>2, Zenon DEF TryReentrant, Reentrant, Acquired, Service!Grant
    <3> QED
      BY <3>1 DEF Service!Next
  <2>3. CASE ~TryFree(c) /\ ~TryReentrant(c)
    BY <1>1, <2>3, Zenon DEF AcquireStep, AcquireTableFound, AcquireTableMissing,
       AcquireEmplace, AcquireAt, AcquireAtMissed, AcquireEntry, AcquireTrack,
       TryBusy, AcquireRelock, GiveUp
  <2> QED
    BY <2>1, <2>2, <2>3, Zenon
<1>2. ASSUME NEW c \in Callers, ReleaseStep(c)
      PROVE  [Service!Next]_(Service!serviceVars)
  <2>1. CASE ReleaseOwner(c)
    <3>1. key[c] \in Keys /\ \A d \in Callers : key[c] \notin granted[d]
      BY <2>1 DEF ReleaseOwner, UniqueIds, LockInv, GrantInv, ReleaseInv,
         ReleasePCs
    <3>2. Service!Free(key[c])
      BY <2>1, <3>1 DEF ReleaseOwner, Service!Free
    <3> QED
      BY <3>1, <3>2, Zenon DEF Service!Next
  <2>2. CASE ~ReleaseOwner(c)
    BY <1>2, <2>2, Zenon DEF ReleaseStep, ReleaseNoEntry, ReleaseTable, ReleaseEntry,
       ReleaseNotOwner, ReleaseUntrack, ReleaseAllNext, ReleaseAllDone
  <2> QED
    BY <2>1, <2>2, Zenon
<1>3. ASSUME NEW c \in Callers, LMCall(c)
      PROVE  [Service!Next]_(Service!serviceVars)
  <2>1. ASSUME NEW k \in Keys, CallAcquire(c, k) PROVE UNCHANGED Service!serviceVars
    BY <2>1, Zenon DEF CallAcquire
  <2>2. ASSUME NEW k \in Keys, CallRelease(c, k) PROVE Service!Next
    <3>1. Service!GiveBack(c, {k}) /\ {k} \in SUBSET Keys
      BY <2>2, Zenon DEF CallRelease, Service!GiveBack
    <3> QED
      BY <3>1, Zenon DEF Service!Next
  <2>3. CASE CallReleaseAll(c)
    <3>1. Service!GiveBack(c, Keys) /\ Keys \in SUBSET Keys
      BY <2>3, Zenon DEF CallReleaseAll, Service!GiveBack
    <3> QED
      BY <3>1, Zenon DEF Service!Next
  <2> QED
    BY <1>3, <2>1, <2>2, <2>3, Zenon DEF LMCall
<1> QED
  BY <1>1, <1>2, <1>3, Zenon DEF LMNext, LMStep

\* The lock manager implements LockService: acquire and release take effect in
\* one step, and a lock is freed only after every holder gave it back.
THEOREM Refinement ==
  ASSUME UniqueIds
  PROVE  LMSpec => ImplementsLockService
<1>1. LMInit => Service!Init
  BY DEF LMInit, Service!Init
<1>2. LMTypeOK /\ MutexInv /\ LockInv /\ [LMNext]_lmVars
        => [Service!Next]_(Service!serviceVars)
  BY ServiceStep DEF lmVars, Service!serviceVars
<1> QED
  BY Invariants, <1>1, <1>2, PTL DEF LMSpec, ImplementsLockService, Service!Spec
------------------------------------------------------------------------------
(* Bounded waiting                                                         *)

\* Every statement of acquire brings the call nearer to its end.
LEMMA AcquireNearer ==
  ASSUME LMTypeOK, NEW c \in Callers, AcquireStep(c)
  PROVE  CallNearer(c)
<1> USE LockManagerAssumption DEF LMTypeOK, Goto, locals, CallNearer,
      StatementsLeft
<1>1. CASE AcquireTableFound(c)
  BY <1>1 DEF AcquireTableFound
<1>2. CASE AcquireTableMissing(c)
  BY <1>2 DEF AcquireTableMissing
<1>3. CASE AcquireEmplace(c)
  BY <1>3 DEF AcquireEmplace
<1>4. CASE AcquireAt(c)
  BY <1>4 DEF AcquireAt
<1>5. CASE AcquireAtMissed(c)
  BY <1>5 DEF AcquireAtMissed
<1>6. CASE AcquireEntry(c)
  BY <1>6 DEF AcquireEntry
<1>7. CASE AcquireTrack(c)
  BY <1>7 DEF AcquireTrack
<1>8. CASE TryFree(c)
  BY <1>8 DEF TryFree
<1>9. CASE TryReentrant(c)
  BY <1>9 DEF TryReentrant
<1>10. CASE TryBusy(c)
  BY <1>10 DEF TryBusy, InLoops
<1>11. CASE AcquireRelock(c)
  BY <1>11 DEF AcquireRelock
<1>12. CASE GiveUp(c)
  BY <1>12 DEF GiveUp
<1> QED
  BY <1>1, <1>2, <1>3, <1>4, <1>5, <1>6, <1>7, <1>8, <1>9, <1>10, <1>11,
     <1>12, Zenon DEF AcquireStep

\* So does every statement of release and release_all: the loop of release_all
\* goes round once per key of its local set.
LEMMA ReleaseNearer ==
  ASSUME LMTypeOK, NEW c \in Callers, ReleaseStep(c)
  PROVE  CallNearer(c)
<1> USE LockManagerAssumption DEF LMTypeOK, Goto, Return, locals, CallNearer,
      StatementsLeft
<1>1. CASE ReleaseNoEntry(c)
  BY <1>1 DEF ReleaseNoEntry
<1>2. CASE ReleaseTable(c)
  BY <1>2 DEF ReleaseTable
<1>3. CASE ReleaseEntry(c)
  BY <1>3 DEF ReleaseEntry
<1>4. CASE ReleaseNotOwner(c)
  BY <1>4 DEF ReleaseNotOwner
<1>5. CASE ReleaseOwner(c)
  BY <1>5 DEF ReleaseOwner
<1>6. CASE ReleaseUntrack(c)
  BY <1>6 DEF ReleaseUntrack
<1>7. CASE ReleaseAllNext(c)
  BY <1>7 DEF ReleaseAllNext
<1>8. CASE ReleaseAllDone(c)
  BY <1>8 DEF ReleaseAllDone
<1> QED
  BY <1>1, <1>2, <1>3, <1>4, <1>5, <1>6, <1>7, <1>8, Zenon DEF ReleaseStep

\* A statement of one call leaves every other call where it is.
LEMMA OtherCallKept ==
  ASSUME LMTypeOK, NEW c \in Callers, NEW d \in Callers, c # d,
         LMStep(d) \/ LMCall(d)
  PROVE  CallKept(c)
<1> USE DEF LMTypeOK, Goto, Return, locals, CallKept
<1>1. CASE AcquireStep(d)
  BY <1>1, ZenonT(30) DEF AcquireStep, AcquireTableFound, AcquireTableMissing,
     AcquireEmplace, AcquireAt, AcquireAtMissed, AcquireEntry, AcquireTrack,
     TryFree, TryReentrant, TryBusy, AcquireRelock, GiveUp
<1>2. CASE ReleaseStep(d)
  BY <1>2, ZenonT(30) DEF ReleaseStep, ReleaseNoEntry, ReleaseTable, ReleaseEntry,
     ReleaseNotOwner, ReleaseOwner, ReleaseUntrack, ReleaseAllNext,
     ReleaseAllDone
<1>3. CASE LMCall(d)
  BY <1>3, Zenon DEF LMCall, CallAcquire, CallRelease, CallReleaseAll
<1> QED
  BY <1>1, <1>2, <1>3, ZenonT(30) DEF LMStep

\* Every call ends after a bounded number of its own statements, for any number
\* of callers and any wait bounds: MAX_SPINS + MAX_YIELDS checks of the owner
\* end an acquire, and no other call can make it start over.
THEOREM CallsEnd == LMSpec => BoundedCalls
<1> DEFINE Bounded == \A c \in Callers :
             pc[c] # "idle" => CallNearer(c) \/ CallKept(c)
<1>1. ASSUME LMTypeOK, LMNext PROVE Bounded
  <2>1. PICK d \in Callers : LMStep(d) \/ LMCall(d)
    BY <1>1 DEF LMNext
  <2>2. ASSUME NEW c \in Callers, c # d PROVE CallKept(c)
    BY <1>1, <2>1, <2>2, OtherCallKept
  <2>3. LMCall(d) => pc[d] = "idle"
    BY Zenon DEF LMCall, CallAcquire, CallRelease, CallReleaseAll
  <2>4. LMStep(d) => CallNearer(d)
    BY <1>1, AcquireNearer, ReleaseNearer DEF LMStep
  <2> QED
    BY <2>1, <2>2, <2>3, <2>4
<1>2. LMTypeOK /\ [LMNext]_lmVars => [Bounded]_lmVars
  BY <1>1
<1> QED
  BY <1>2, TypeCorrect, PTL DEF LMSpec, BoundedCalls
==============================================================================
