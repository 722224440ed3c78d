------------------------- MODULE TwoPLSchedulerProofs -------------------------
(***************************************************************************)
(* Theorems about TwoPLScheduler, for any number of requests, whatever     *)
(* their operations.                                                       *)
(***************************************************************************)
EXTENDS TwoPLScheduler, LockManagerProofs

\* Ids drawn from one counter are unique.
LEMMA DrawnIdsUnique == UniqueIds
  BY SchedulerAssumption DEF UniqueIds

\* Counting one step of one caller.
LEMMA StepCounted ==
  ASSUME NEW f \in [Callers -> Nat], NEW i \in Callers
  PROVE  [f EXCEPT ![i] = @ + 1] \in [Callers -> Nat]
OBVIOUS

\* Another caller's place in the order of births is kept when i is born.
LEMMA BirthOrder ==
  ASSUME NEW i \in Callers, NEW j \in Callers, j # i
  PROVE  i \in Nat /\ (j >= i + 1 <=> j >= i) /\ i >= i /\ ~(i >= i + 1)
BY SchedulerAssumption

\* A position after the first is not before it.
LEMMA StepsOn ==
  ASSUME NEW n \in Nat, n >= 1 PROVE n + 1 >= 1
OBVIOUS

\* A request is a sequence of operations.
LEMMA TxnShape ==
  ASSUME NEW i \in Callers
  PROVE  /\ Txn[i] \in Seq(Op(Keys)) /\ Len(Txn[i]) \in Nat
         /\ DOMAIN Txn[i] = 1 .. Len(Txn[i])
<1>1. Txn[i] \in Seq(Op(Keys))
  BY SchedulerAssumption, Zenon
<1> QED
  BY <1>1

\* The keys of a request are keys.
LEMMA TxnKeys ==
  ASSUME NEW i \in Callers
  PROVE  /\ KeysOf(Txn[i]) \subseteq Keys
         /\ \A j \in 1 .. Len(Txn[i]) : Txn[i][j].key \in KeysOf(Txn[i])
<1>1. Txn[i] \in Seq(Op(Keys))
  BY SchedulerAssumption
<1>2. /\ DOMAIN Txn[i] = 1 .. Len(Txn[i])
      /\ \A j \in 1 .. Len(Txn[i]) : Txn[i][j] \in Op(Keys)
  BY <1>1
<1>3. \A o \in Op(Keys) : o.key \in Keys
  BY DEF Op
<1> QED
  BY <1>2, <1>3 DEF KeysOf

------------------------------------------------------------------------------
(* The scheduler is a client of the lock manager                           *)

\* Every step of the scheduler makes at most one step of the lock manager.
LEMMA SchedulerStep == TypeOK /\ [Next]_vars => [LMNext]_lmVars
<1> SUFFICES ASSUME TypeOK, [Next]_vars PROVE [LMNext]_lmVars
  OBVIOUS
<1>1. CASE UNCHANGED vars
  BY <1>1 DEF vars
<1>2. ASSUME NEW i \in Callers, Begin(i) PROVE UNCHANGED lmVars
  BY <1>2 DEF Begin, lmVars
<1>3. ASSUME NEW i \in Callers, TxStep(i) PROVE [LMNext]_lmVars
  <2>1. CASE LockNext(i)
    <3>1. PICK k \in to_lock[i] : CallAcquire(i, k)
      BY <2>1 DEF LockNext
    <3>2. k \in Keys
      BY <3>1 DEF TypeOK
    <3> QED
      BY <3>1, <3>2 DEF LMNext, LMCall
  <2>2. CASE AbortOnRefusal(i) \/ Shrink(i)
    BY <2>2 DEF AbortOnRefusal, Shrink, LMNext, LMCall
  <2>3. CASE InLockManager(i)
    BY <2>3 DEF InLockManager, LMNext
  <2>4. CASE FailOnException(i) \/ AllLocked(i) \/ ExecOp(i)
               \/ ReplyCommitted(i) \/ ReplyAborted(i)
    BY <2>4, Zenon DEF FailOnException, AllLocked, ExecOp, ReplyCommitted,
       ReplyAborted, ReplyOk
  <2> QED
    BY <1>3, <2>1, <2>2, <2>3, <2>4 DEF TxStep
<1> QED
  BY <1>1, <1>2, <1>3 DEF Next

\* The state a node starts with is well typed.
LEMMA SchedulerTypeInit == Init => TypeOK
  BY TypeInit, SchedulerAssumption DEF Init, TypeOK, Phases

\* Every step keeps the types.
LEMMA SchedulerTypeNext == TypeOK /\ [Next]_vars => TypeOK'
<1> SUFFICES ASSUME TypeOK, [Next]_vars PROVE TypeOK'
  OBVIOUS
<1>1. LMTypeOK'
  BY SchedulerStep, TypeNext DEF TypeOK
<1> USE <1>1, TxnKeys DEF TypeOK, Phases, EnterPhase
<1>2. CASE UNCHANGED vars
  BY <1>2 DEF vars, schedVars
<1>3. ASSUME NEW i \in Callers, Begin(i) PROVE TypeOK'
  BY <1>3 DEF Begin
<1>4. ASSUME NEW i \in Callers, TxStep(i) PROVE TypeOK'
  <2>1. CASE LockNext(i)
    BY <2>1 DEF LockNext
  <2>2. CASE AbortOnRefusal(i)
    BY <2>2 DEF AbortOnRefusal
  <2>3. CASE FailOnException(i)
    BY <2>3 DEF FailOnException
  <2>4. CASE AllLocked(i)
    BY <2>4 DEF AllLocked
  <2>5. CASE ExecOp(i)
    <3>1. DOMAIN results' = Callers /\ DOMAIN store' = Keys
      BY <2>5, Zenon DEF ExecOp, StoreAppend
    <3>2. op_index' = [op_index EXCEPT ![i] = @ + 1]
          /\ UNCHANGED <<next_tx_id, phase, to_lock, reply>>
      BY <2>5, Zenon DEF ExecOp
    <3>3. op_index \in [Callers -> Nat] => op_index' \in [Callers -> Nat]
      BY <3>2, StepCounted, Zenon
    <3> QED
      BY <3>1, <3>2, <3>3, Zenon
  <2>6. CASE Shrink(i)
    BY <2>6 DEF Shrink
  <2>7. CASE ReplyCommitted(i)
    BY <2>7 DEF ReplyCommitted, ReplyOk
  <2>8. CASE ReplyAborted(i)
    BY <2>8 DEF ReplyAborted, ReplyOk
  <2>9. CASE InLockManager(i)
    BY <2>9 DEF InLockManager, schedVars
  <2> QED
    BY <1>4, <2>1, <2>2, <2>3, <2>4, <2>5, <2>6, <2>7, <2>8, <2>9, Zenon DEF TxStep
<1> QED
  BY <1>2, <1>3, <1>4 DEF Next

\* What the scheduler does to the lock manager is what a client may do, so all
\* that holds of the lock manager holds in the scheduler.
THEOREM SchedulerIsClient == Spec => LMSpec
<1>1. Init => LMInit
  BY DEF Init
<1> QED
  BY <1>1, SchedulerTypeInit, SchedulerTypeNext, SchedulerStep, PTL
  DEF Spec, LMSpec

------------------------------------------------------------------------------
(* Phases and locks                                                        *)

\* What the phase of a transaction says about its calls and its locks.
PhaseOK(i) ==
  /\ phase[i] = "unborn" <=> i >= next_tx_id
  /\ op_index[i] >= 1
  /\ pc[i] \in AcquirePCs => phase[i] = "growing"
  /\ pc[i] \in ReleasePCs \cup {"all_loop"} =>
       phase[i] \in {"shrinking", "aborting"}
  /\ phase[i] = "growing" =>
       KeysOf(Txn[i]) \ to_lock[i] \subseteq granted[i] \cup {key[i]}
  /\ phase[i] = "growing" /\ Returned(i, {"none", "acquired"}) =>
       KeysOf(Txn[i]) \ to_lock[i] \subseteq granted[i]
  /\ phase[i] = "executing" => KeysOf(Txn[i]) \subseteq granted[i]
  /\ phase[i] \in {"shrinking", "aborting", "committed", "aborted"} =>
       held_locks[i] = {}
  /\ reply[i].type = "txn_ok" => phase[i] \in {"committed", "aborted"}

PhaseInv == \A i \in Callers : PhaseOK(i)

\* No transaction was born yet.
LEMMA PhaseInit == Init => PhaseInv
  BY SchedulerAssumption DEF Init, LMInit, PhaseInv, PhaseOK, AcquirePCs,
     ReleasePCs, NoReply

\* A statement of a call changes nothing of another transaction's call.
LEMMA CallFrame ==
  ASSUME LMTypeOK, NEW i \in Callers, NEW j \in Callers, i # j, LMStep(j)
  PROVE  /\ pc'[i] = pc[i] /\ key'[i] = key[i] /\ result'[i] = result[i]
         /\ granted'[i] = granted[i] /\ held_locks'[i] = held_locks[i]
<1> USE SchedulerAssumption DEF LMTypeOK, Goto, mutexes, locals, Return, Acquired
<1>1. CASE AcquireStep(j)
  BY <1>1, ZenonT(30) DEF AcquireStep, AcquireTableFound, AcquireTableMissing,
     AcquireEmplace, AcquireAt, AcquireAtMissed, AcquireEntry, AcquireTrack,
     TryFree, TryReentrant, TryBusy, AcquireRelock, GiveUp
<1>2. CASE ReleaseStep(j)
  BY <1>2, ZenonT(30) DEF ReleaseStep, ReleaseNoEntry, ReleaseTable, ReleaseEntry,
     ReleaseNotOwner, ReleaseOwner, ReleaseUntrack, ReleaseAllNext,
     ReleaseAllDone
<1> QED
  BY <1>1, <1>2, Zenon DEF LMStep

\* A statement of acquire keeps the key and the grants, and if it is the last
\* one and reports success, the key is granted.
LEMMA AcquireEffect ==
  ASSUME LMTypeOK, NEW i \in Callers, AcquireStep(i)
  PROVE  /\ pc[i] \in AcquirePCs /\ pc'[i] \in AcquirePCs \cup {"idle"}
         /\ key'[i] = key[i] /\ granted[i] \subseteq granted'[i]
         /\ pc'[i] = "idle" /\ result'[i] \in {"none", "acquired"} =>
              key[i] \in granted'[i]
<1> USE DEF LMTypeOK, Goto, AcquirePCs, mutexes, locals, Acquired
<1>1. CASE AcquireTableFound(i) \/ AcquireTableMissing(i) \/ AcquireEmplace(i)
             \/ AcquireAt(i) \/ AcquireAtMissed(i)
  BY <1>1, Zenon DEF AcquireTableFound, AcquireTableMissing, AcquireEmplace, AcquireAt,
     AcquireAtMissed
<1>2. CASE AcquireEntry(i) \/ AcquireTrack(i) \/ AcquireRelock(i)
  BY <1>2, Zenon DEF AcquireEntry, AcquireTrack, AcquireRelock
<1>3. CASE TryFree(i) \/ TryReentrant(i)
  <2>1. /\ pc[i] = "acq_try" /\ pc' = [pc EXCEPT ![i] = "idle"] /\ key' = key
        /\ granted' = [granted EXCEPT ![i] = @ \cup {key[i]}]
    BY <1>3, Zenon DEF TryFree, TryReentrant
  <2>2. granted'[i] = granted[i] \cup {key[i]} /\ pc'[i] = "idle"
    BY <2>1, Zenon
  <2> QED
    BY <2>1, <2>2, Zenon
<1>4. CASE TryBusy(i) \/ GiveUp(i)
  BY <1>4, Zenon DEF TryBusy, GiveUp
<1> QED
  BY <1>1, <1>2, <1>3, <1>4, Zenon DEF AcquireStep

\* A statement of release or release_all grants and tracks nothing.
LEMMA ReleaseEffect ==
  ASSUME LMTypeOK, NEW i \in Callers, ReleaseStep(i)
  PROVE  /\ pc[i] \in ReleasePCs \cup {"all_loop"}
         /\ pc'[i] \in ReleasePCs \cup {"all_loop", "idle"}
         /\ held_locks'[i] \subseteq held_locks[i]
<1> USE SchedulerAssumption DEF LMTypeOK, Goto, ReleasePCs, mutexes, locals, Return
<1>1. CASE ReleaseNoEntry(i) \/ ReleaseTable(i) \/ ReleaseEntry(i)
             \/ ReleaseNotOwner(i)
  BY <1>1, Zenon DEF ReleaseNoEntry, ReleaseTable, ReleaseEntry, ReleaseNotOwner
<1>2. CASE ReleaseOwner(i)
  BY <1>2, Zenon DEF ReleaseOwner
<1>3. CASE ReleaseUntrack(i)
  BY <1>3, ZenonT(30) DEF ReleaseUntrack
<1>4. CASE ReleaseAllNext(i) \/ ReleaseAllDone(i)
  BY <1>4, Zenon DEF ReleaseAllNext, ReleaseAllDone
<1> QED
  BY <1>1, <1>2, <1>3, <1>4, Zenon DEF ReleaseStep

\* A transaction is born once.
LEMMA Unborn ==
  ASSUME TypeOK, PhaseInv, NEW i \in Callers, Begin(i)
  PROVE  phase[i] = "unborn" /\ i = next_tx_id
<1>1. i >= i /\ i = next_tx_id
  BY BirthOrder, SchedulerAssumption DEF Begin
<1> QED
  BY <1>1, Zenon DEF PhaseInv, PhaseOK

\* A step that leaves a transaction as it is keeps what its phase says.
LEMMA PhaseKept ==
  ASSUME NEW j \in Callers, PhaseOK(j), phase'[j] = phase[j],
         j >= next_tx_id' <=> j >= next_tx_id, op_index'[j] >= 1,
         to_lock'[j] = to_lock[j], reply'[j] = reply[j], pc'[j] = pc[j],
         key'[j] = key[j], result'[j] = result[j], granted'[j] = granted[j],
         held_locks'[j] = held_locks[j]
  PROVE  PhaseOK(j)'
BY Zenon DEF PhaseOK, Returned

\* A birth keeps what the phases say.
LEMMA PhaseBegin ==
  ASSUME TypeOK, PhaseInv, NEW i \in Callers, Begin(i) PROVE PhaseInv'
<1>1. phase[i] = "unborn" /\ i = next_tx_id /\ PhaseOK(i)
  BY Unborn, Zenon DEF PhaseInv
<1>2. /\ phase'[i] = "growing" /\ next_tx_id' = i + 1
      /\ to_lock'[i] = KeysOf(Txn[i])
      /\ op_index'[i] = op_index[i] /\ reply'[i] = reply[i] /\ pc'[i] = pc[i]
  BY <1>1, Zenon DEF Begin, lmVars, EnterPhase, TypeOK
<1>3. pc[i] \notin ReleasePCs \cup {"all_loop"} /\ reply[i].type # "txn_ok"
      /\ op_index[i] >= 1
  BY <1>1, Zenon DEF PhaseOK
<1>4. ~(i >= next_tx_id')
  BY <1>2, SchedulerAssumption
<1>5. PhaseOK(i)'
  BY <1>2, <1>3, <1>4, Zenon DEF PhaseOK
<1>6. ASSUME NEW j \in Callers, j # i PROVE PhaseOK(j)'
  <2>1. j >= next_tx_id' <=> j >= next_tx_id
    BY <1>1, <1>2, <1>6, BirthOrder, Zenon
  <2>2. /\ phase'[j] = phase[j] /\ to_lock'[j] = to_lock[j]
        /\ PhaseOK(j) /\ op_index[j] >= 1
    BY <1>6, Zenon DEF Begin, EnterPhase, TypeOK, PhaseInv, PhaseOK
  <2> QED
    BY <2>1, <2>2, PhaseKept, Zenon DEF Begin, lmVars
<1> QED
  BY <1>5, <1>6, Zenon DEF PhaseInv

\* A transaction that asks for its next key keeps what the phases say.
LEMMA PhaseLock ==
  ASSUME TypeOK, PhaseInv, NEW i \in Callers, LockNext(i) PROVE PhaseInv'
<1>1. PICK k \in to_lock[i] :
        CallAcquire(i, k) /\ to_lock' = [to_lock EXCEPT ![i] = @ \ {k}]
  BY Zenon DEF LockNext
<1>2. /\ pc' = [pc EXCEPT ![i] = "acq_table"] /\ key' = [key EXCEPT ![i] = k]
      /\ phase[i] = "growing" /\ Returned(i, {"none", "acquired"})
      /\ UNCHANGED <<next_tx_id, phase, op_index, reply, result, granted,
                     held_locks>>
  BY <1>1, Zenon DEF LockNext, CallAcquire, Goto
<1>3. DOMAIN pc = Callers /\ DOMAIN key = Callers /\ DOMAIN to_lock = Callers
  BY Zenon DEF TypeOK, LMTypeOK
<1>4. PhaseOK(i)'
  <2>1. /\ PhaseOK(i) /\ phase[i] = "growing"
        /\ KeysOf(Txn[i]) \ to_lock[i] \subseteq granted[i]
    BY <1>2, Zenon DEF PhaseInv, PhaseOK
  <2>2. pc'[i] = "acq_table" /\ key'[i] = k /\ to_lock'[i] = to_lock[i] \ {k}
    BY <1>1, <1>2, <1>3, Zenon
  <2>3. KeysOf(Txn[i]) \ to_lock'[i] \subseteq granted[i] \cup {k}
    BY <2>1, <2>2, Zenon
  <2> QED
    BY <1>2, <2>1, <2>2, <2>3, ZenonT(30)
    DEF PhaseOK, Returned, AcquirePCs, ReleasePCs
<1>5. ASSUME NEW j \in Callers, j # i PROVE PhaseOK(j)'
  <2>1. pc'[j] = pc[j] /\ key'[j] = key[j] /\ to_lock'[j] = to_lock[j]
    BY <1>1, <1>2, <1>3, <1>5, Zenon
  <2>2. PhaseOK(j) /\ op_index[j] >= 1
    BY Zenon DEF PhaseInv, PhaseOK
  <2> QED
    BY <1>2, <2>1, <2>2, PhaseKept, Zenon
<1> QED
  BY <1>4, <1>5, Zenon DEF PhaseInv

\* An operation keeps what the phases say.
LEMMA PhaseExec ==
  ASSUME TypeOK, PhaseInv, NEW i \in Callers, ExecOp(i) PROVE PhaseInv'
<1>1. /\ op_index' = [op_index EXCEPT ![i] = @ + 1]
      /\ UNCHANGED <<lmVars, next_tx_id, phase, to_lock, reply>>
  BY Zenon DEF ExecOp
<1>2. ASSUME NEW j \in Callers PROVE PhaseOK(j)'
  <2>1. PhaseOK(j) /\ op_index[j] >= 1 /\ op_index[j] \in Nat
    BY Zenon DEF PhaseInv, PhaseOK, TypeOK
  <2>2. op_index'[j] = op_index[j] \/ op_index'[j] = op_index[j] + 1
    BY <1>1, Zenon DEF TypeOK
  <2>3. op_index'[j] >= 1
    BY <2>1, <2>2, StepsOn, Zenon
  <2> QED
    BY <1>1, <2>1, <2>3, PhaseKept, Zenon DEF lmVars
<1> QED
  BY <1>2, Zenon DEF PhaseInv

\* A commit that starts to release keeps what the phases say.
LEMMA PhaseShrink ==
  ASSUME TypeOK, PhaseInv, NEW i \in Callers, Shrink(i) PROVE PhaseInv'
<1>1. /\ phase[i] = "executing" /\ phase' = [phase EXCEPT ![i] = "shrinking"]
      /\ pc' = [pc EXCEPT ![i] = "all_loop"]
      /\ held_locks' = [held_locks EXCEPT ![i] = {}]
      /\ granted' = [granted EXCEPT ![i] = {}]
      /\ UNCHANGED <<next_tx_id, to_lock, op_index, reply, key, result>>
  BY SchedulerAssumption, Zenon DEF Shrink, CallReleaseAll, Goto, EnterPhase
<1>2. /\ phase \in [Callers -> Phases] /\ pc \in [Callers -> PCs]
      /\ held_locks \in [Callers -> SUBSET Keys]
      /\ granted \in [Callers -> SUBSET Keys]
  BY SchedulerAssumption, Zenon DEF TypeOK, LMTypeOK
<1>3. PhaseOK(i)'
  <2>1. PhaseOK(i)
    BY Zenon DEF PhaseInv
  <2>2. phase'[i] = "shrinking" /\ pc'[i] = "all_loop" /\ held_locks'[i] = {}
    BY <1>1, <1>2, Zenon
  <2> QED
    BY <1>1, <2>1, <2>2, Zenon DEF PhaseOK, AcquirePCs
<1>4. ASSUME NEW j \in Callers, j # i PROVE PhaseOK(j)'
  <2>1. /\ phase'[j] = phase[j] /\ pc'[j] = pc[j]
        /\ held_locks'[j] = held_locks[j] /\ granted'[j] = granted[j]
    BY <1>1, <1>2, <1>4, Zenon
  <2>2. PhaseOK(j) /\ op_index[j] >= 1
    BY Zenon DEF PhaseInv, PhaseOK
  <2> QED
    BY <1>1, <2>1, <2>2, PhaseKept, Zenon
<1> QED
  BY <1>3, <1>4, Zenon DEF PhaseInv

\* An answer keeps what the phases say.
LEMMA PhaseReply ==
  ASSUME TypeOK, PhaseInv, NEW i \in Callers, ReplyCommitted(i) \/ ReplyAborted(i)
  PROVE  PhaseInv'
<1>1. /\ phase[i] \in {"shrinking", "aborting"}
      /\ \E p \in {"committed", "aborted"} : phase' = [phase EXCEPT ![i] = p]
      /\ pc[i] = "idle"
      /\ UNCHANGED <<lmVars, next_tx_id, to_lock, op_index>>
      /\ \A j \in Callers : j # i => reply'[j] = reply[j]
  BY Zenon DEF ReplyCommitted, ReplyAborted, ReplyOk, EnterPhase, TypeOK
<1>2. /\ phase'[i] \in {"committed", "aborted"}
      /\ \A j \in Callers : j # i => phase'[j] = phase[j]
  BY <1>1, Zenon DEF TypeOK
<1>3. PhaseOK(i)'
  BY <1>1, <1>2, Zenon DEF PhaseInv, PhaseOK, lmVars, AcquirePCs, ReleasePCs
<1>4. ASSUME NEW j \in Callers, j # i PROVE PhaseOK(j)'
  <2>1. PhaseOK(j) /\ op_index[j] >= 1
    BY Zenon DEF PhaseInv, PhaseOK
  <2> QED
    BY <1>1, <1>2, <1>4, <2>1, PhaseKept, Zenon DEF lmVars
<1> QED
  BY <1>3, <1>4, Zenon DEF PhaseInv

\* Every step keeps what the phases say.
LEMMA PhaseNext == TypeOK /\ PhaseInv /\ [Next]_vars => PhaseInv'
<1> SUFFICES ASSUME TypeOK, PhaseInv, [Next]_vars PROVE PhaseInv'
  OBVIOUS
<1> USE SchedulerAssumption DEF TypeOK, PhaseInv, PhaseOK, EnterPhase,
      Returned
<1>1. CASE UNCHANGED vars
  BY <1>1, Zenon DEF vars, lmVars, schedVars
<1>2. ASSUME NEW i \in Callers, Begin(i) PROVE PhaseInv'
  BY <1>2, PhaseBegin, Zenon
<1>3. ASSUME NEW i \in Callers, LockNext(i) PROVE PhaseInv'
  BY <1>3, PhaseLock, Zenon
<1>4. ASSUME NEW i \in Callers, AbortOnRefusal(i) PROVE PhaseInv'
  BY <1>4, ZenonT(30)
  DEF AbortOnRefusal, CallReleaseAll, Goto, AcquirePCs, ReleasePCs,
     LMTypeOK, mutexes
<1>5. ASSUME NEW i \in Callers, FailOnException(i) PROVE PhaseInv'
  BY <1>5, Zenon DEF FailOnException, lmVars, AcquirePCs, ReleasePCs
<1>6. ASSUME NEW i \in Callers, AllLocked(i) PROVE PhaseInv'
  BY <1>6, ZenonT(30) DEF AllLocked, lmVars, AcquirePCs, ReleasePCs
<1>7. ASSUME NEW i \in Callers, ExecOp(i) PROVE PhaseInv'
  BY <1>7, PhaseExec, Zenon
<1>8. ASSUME NEW i \in Callers, Shrink(i) PROVE PhaseInv'
  BY <1>8, PhaseShrink, Zenon
<1>9. ASSUME NEW i \in Callers, ReplyCommitted(i) \/ ReplyAborted(i)
      PROVE  PhaseInv'
  BY <1>9, PhaseReply, Zenon
<1>10. ASSUME NEW i \in Callers, InLockManager(i) PROVE PhaseInv'
  <2> USE <1>10 DEF InLockManager, schedVars
  <2>1. ASSUME NEW j \in Callers, i # j PROVE PhaseOK(j)'
    BY <2>1, CallFrame, Zenon
  <2>2. CASE AcquireStep(i)
    <3>1. PhaseOK(i)'
      BY <2>2, AcquireEffect, Zenon DEF AcquirePCs, ReleasePCs
    <3> QED
      BY <2>1, <3>1, ZenonT(30)
  <2>3. CASE ReleaseStep(i)
    <3>1. PhaseOK(i)'
      BY <2>3, ReleaseEffect, Zenon DEF AcquirePCs, ReleasePCs
    <3> QED
      BY <2>1, <3>1, ZenonT(30)
  <2> QED
    BY <2>2, <2>3, Zenon DEF LMStep
<1> QED
  BY <1>1, <1>2, <1>3, <1>4, <1>5, <1>6, <1>7, <1>8, <1>9, <1>10, Zenon
  DEF Next, TxStep

\* All invariants of the scheduler and its lock manager together.
SchedulerInv == TypeOK /\ MutexInv /\ LockInv /\ PhaseInv

\* They hold in every state the scheduler reaches.
LEMMA SchedulerInvariant == Spec => []SchedulerInv
<1>1. LMSpec => [](LMTypeOK /\ MutexInv /\ LockInv)
  BY Invariants, DrawnIdsUnique
<1>2. TypeOK /\ PhaseInv /\ [Next]_vars => (TypeOK /\ PhaseInv)'
  BY SchedulerTypeNext, PhaseNext
<1> QED
  BY <1>1, <1>2, SchedulerIsClient, SchedulerTypeInit, PhaseInit, PTL
  DEF Spec, SchedulerInv

\* The scheduler's state is always well typed.
THEOREM SchedulerTypeCorrect == Spec => []TypeOK
  BY SchedulerTypeInit, SchedulerTypeNext, PTL DEF Spec

------------------------------------------------------------------------------
(* Strict two-phase locking                                                *)

\* Only the owner's own release takes a lock away from it.
LEMMA LockLost ==
  ASSUME LMTypeOK, NEW i \in Callers, NEW k \in Keys, [LMNext]_lmVars,
         owner[k] = i, owner'[k] # i
  PROVE  pc[i] = "rel_owner"
<1> USE SchedulerAssumption, LockManagerAssumption DEF LMTypeOK, lmVars,
      mutexes, locals
<1>1. ASSUME NEW j \in Callers, AcquireStep(j) PROVE FALSE
  <2>1. CASE TryFree(j)
    BY <2>1, Zenon DEF TryFree
  <2>2. CASE ~TryFree(j)
    <3>1. UNCHANGED owner
      BY <1>1, <2>2, Zenon
      DEF AcquireStep, AcquireTableFound, AcquireTableMissing,
         AcquireEmplace, AcquireAt, AcquireAtMissed, AcquireEntry,
         AcquireTrack, TryReentrant, TryBusy, AcquireRelock, GiveUp
    <3> QED
      BY <3>1, Zenon
  <2> QED
    BY <2>1, <2>2, Zenon
<1>2. ASSUME NEW j \in Callers, ReleaseStep(j) PROVE pc[i] = "rel_owner"
  <2>1. CASE ReleaseOwner(j)
    BY <2>1, Zenon DEF ReleaseOwner
  <2>2. CASE ~ReleaseOwner(j)
    <3>1. UNCHANGED owner
      BY <1>2, <2>2, Zenon DEF ReleaseStep, ReleaseNoEntry, ReleaseTable,
         ReleaseEntry, ReleaseNotOwner, ReleaseUntrack, ReleaseAllNext,
         ReleaseAllDone
    <3> QED
      BY <3>1, Zenon
  <2> QED
    BY <2>1, <2>2, Zenon
<1>3. ASSUME NEW j \in Callers, LMCall(j) PROVE FALSE
  BY <1>3, Zenon DEF LMCall, CallAcquire, CallRelease, CallReleaseAll
<1> QED
  BY <1>1, <1>2, <1>3, Zenon DEF LMNext, LMStep

\* An operation runs in the executing phase, and it exists.
LEMMA OpRuns ==
  ASSUME TypeOK, [Next]_vars, NEW i \in Callers, op_index'[i] # op_index[i]
  PROVE  phase[i] = "executing" /\ op_index[i] <= Len(Txn[i])
<1> USE DEF TypeOK
<1>1. ASSUME NEW j \in Callers, ExecOp(j)
      PROVE  phase[i] = "executing" /\ op_index[i] <= Len(Txn[i])
  BY <1>1, Zenon DEF ExecOp
<1>2. ASSUME NEW j \in Callers, Begin(j) \/ TxStep(j), ~ExecOp(j) PROVE FALSE
  BY <1>2, Zenon DEF Begin, TxStep, LockNext, AbortOnRefusal, FailOnException,
     AllLocked, Shrink, ReplyCommitted, ReplyAborted, ReplyOk, InLockManager,
     schedVars
<1> QED
  BY <1>1, <1>2, Zenon DEF Next, TxStep, vars, schedVars

\* The scheduler follows strict two-phase locking: every operation runs while
\* its transaction owns the key, and no lock is lost before the last one.
THEOREM TwoPhaseLocking == Spec => Strict2PL
<1> DEFINE Step ==
      \A i \in Callers :
        /\ op_index'[i] # op_index[i] =>
             owner[Txn[i][op_index[i]].key] = i
        /\ \A k \in Keys : owner[k] = i /\ owner'[k] # i =>
             phase[i] \in {"shrinking", "aborting"}
<1>1. SchedulerInv /\ [Next]_vars => Step
  <2> SUFFICES ASSUME SchedulerInv, [Next]_vars, NEW i \in Callers
               PROVE  /\ op_index'[i] # op_index[i] =>
                           owner[Txn[i][op_index[i]].key] = i
                      /\ \A k \in Keys : owner[k] = i /\ owner'[k] # i =>
                           phase[i] \in {"shrinking", "aborting"}
    BY Zenon
  <2>1. ASSUME op_index'[i] # op_index[i]
        PROVE  owner[Txn[i][op_index[i]].key] = i
    <3>1. phase[i] = "executing" /\ op_index[i] \in 1 .. Len(Txn[i])
      <4>1. phase[i] = "executing" /\ op_index[i] <= Len(Txn[i])
        BY <2>1, OpRuns, Zenon DEF SchedulerInv
      <4>2. op_index[i] \in Nat /\ op_index[i] >= 1
        BY Zenon DEF SchedulerInv, TypeOK, PhaseInv, PhaseOK
      <4>3. Len(Txn[i]) \in Nat
        BY SchedulerAssumption
      <4> QED
        BY <4>1, <4>2, <4>3
    <3>2. Txn[i][op_index[i]].key \in granted[i]
      <4>1. KeysOf(Txn[i]) \subseteq granted[i]
        BY <3>1, Zenon DEF SchedulerInv, PhaseInv, PhaseOK
      <4>2. Txn[i][op_index[i]].key \in KeysOf(Txn[i])
        BY <3>1, TxnKeys, Zenon
      <4> QED
        BY <4>1, <4>2, Zenon
    <3>3. owner[Txn[i][op_index[i]].key] = TxOf[i]
      BY <3>2, Zenon DEF SchedulerInv, LockInv, GrantInv
    <3>4. TxOf[i] = i
      BY SchedulerAssumption, Zenon
    <3> QED
      BY <3>3, <3>4, Zenon
  <2>2. ASSUME NEW k \in Keys, owner[k] = i, owner'[k] # i
        PROVE  phase[i] \in {"shrinking", "aborting"}
    BY <2>2, SchedulerStep, LockLost, Zenon
    DEF SchedulerInv, TypeOK, PhaseInv, PhaseOK, ReleasePCs
  <2> QED
    BY <2>1, <2>2, ZenonT(30)
<1>2. SchedulerInv /\ [Next]_vars => [Step]_vars
  BY <1>1, Zenon
<1> QED
  BY <1>2, SchedulerInvariant, PTL DEF Spec, Strict2PL

\* A transaction answered with txn_ok owns nothing and nothing is tracked for
\* it, although release_all works key by key while others run.
THEOREM NothingLeftBehind == Spec => []OkReleasesAll
<1>1. SchedulerInv => OkReleasesAll
  <2> SUFFICES ASSUME SchedulerInv, NEW i \in Callers, reply[i].type = "txn_ok"
               PROVE  /\ \A k \in Keys : owner[k] # i
                      /\ held_locks[i] = {}
    BY DEF OkReleasesAll
  <2>1. phase[i] \in {"committed", "aborted"} /\ held_locks[i] = {}
    BY Zenon DEF SchedulerInv, PhaseInv, PhaseOK
  <2>2. pc[i] \notin ReleasePCs \cup {"all_loop"}
    BY <2>1, Zenon DEF SchedulerInv, PhaseInv, PhaseOK
  <2>3. ASSUME NEW k \in Keys PROVE ~Releasing(i, k)
    BY <2>2, Zenon DEF SchedulerInv, LockInv, ReleaseInv, Releasing
  <2>4. ASSUME NEW k \in Keys, owner[k] = i PROVE FALSE
    BY <2>1, <2>3, <2>4, SchedulerAssumption, LockManagerAssumption
    DEF SchedulerInv, LockInv, OwnerTracked
  <2> QED
    BY <2>1, <2>4, Zenon
<1> QED
  BY <1>1, SchedulerInvariant, PTL
------------------------------------------------------------------------------
(* Bounded work                                                            *)

\* Transaction i does not move.
TxKept(i) == UNCHANGED <<phase[i], to_lock[i], op_index[i]>> /\ CallKept(i)

\* A lock manager call, or a statement of one, moves no other transaction.
LEMMA OtherTxKept ==
  ASSUME TypeOK, NEW i \in Callers, NEW j \in Callers, j # i,
         LMStep(i) \/ LMCall(i), UNCHANGED <<phase[j], to_lock[j], op_index[j]>>
  PROVE  TxKept(j)
<1>1. CallKept(j)
  BY OtherCallKept, Zenon DEF TypeOK
<1> QED
  BY <1>1 DEF TxKept

\* Every step of a transaction takes it nearer to its answer and moves no other.
LEMMA WorkStep ==
  ASSUME TypeOK, PhaseInv, NEW i \in Callers, Begin(i) \/ TxStep(i)
  PROVE  TxNearer(i) /\ \A j \in Callers : j # i => TxKept(j)
<1> DEFINE Goal == TxNearer(i) /\ \A j \in Callers : j # i => TxKept(j)
<1>0. i \in Nat /\ phase \in [Callers -> Phases]
      /\ to_lock \in [Callers -> SUBSET Keys] /\ op_index \in [Callers -> Nat]
  BY SchedulerAssumption DEF TypeOK
<1>1. CASE Begin(i)
  <2>1. phase[i] = "unborn"
    BY <1>1, Unborn, Zenon
  <2>2. PhasesLeft(i)' < PhasesLeft(i)
    BY <1>1, <1>0, <2>1 DEF Begin, EnterPhase, PhasesLeft, Answered
  <2>3. \A j \in Callers : j # i => TxKept(j)
    BY <1>1, <1>0, Zenon DEF Begin, EnterPhase, lmVars, TxKept, CallKept
  <2> QED
    BY <2>2, <2>3 DEF TxNearer
<1>2. CASE LockNext(i)
  <2>1. PICK k \in to_lock[i] :
          CallAcquire(i, k) /\ to_lock' = [to_lock EXCEPT ![i] = @ \ {k}]
    BY <1>2, Zenon DEF LockNext
  <2>2. phase' = phase /\ op_index' = op_index
    BY <1>2 DEF LockNext
  <2>3. /\ to_lock'[i] \subseteq to_lock[i] /\ to_lock'[i] # to_lock[i]
        /\ \A j \in Callers : j # i => to_lock'[j] = to_lock[j]
    BY <1>0, <2>1
  <2>4. LMCall(i)
    BY <1>0, <2>1 DEF LMCall
  <2>5. ASSUME NEW j \in Callers, j # i PROVE TxKept(j)
    BY <2>2, <2>3, <2>4, <2>5, OtherTxKept, Zenon
  <2> QED
    BY <2>2, <2>3, <2>5, Zenon DEF TxNearer
<1>3. ASSUME NEW p \in Phases, NEW q \in Phases, phase[i] = p,
             EnterPhase(i, q), UNCHANGED <<to_lock, op_index>>,
             UNCHANGED lmVars \/ CallReleaseAll(i),
             \/ p = "growing" /\ q \in {"aborting", "failed", "executing"}
             \/ p = "executing" /\ q = "shrinking"
             \/ p = "shrinking" /\ q = "committed"
             \/ p = "aborting" /\ q = "aborted"
      PROVE  Goal
  <2>1. PhasesLeft(i)' < PhasesLeft(i)
    BY <1>3, <1>0 DEF EnterPhase, PhasesLeft, Answered
  <2>2. ASSUME NEW j \in Callers, j # i PROVE TxKept(j)
    <3>1. UNCHANGED <<phase[j], to_lock[j], op_index[j]>>
      BY <1>3, <1>0, <2>2 DEF EnterPhase
    <3>2. CASE UNCHANGED lmVars
      BY <3>1, <3>2, Zenon DEF lmVars, TxKept, CallKept
    <3>3. CASE CallReleaseAll(i)
      BY <3>1, <3>3, <2>2, OtherTxKept, Zenon DEF LMCall
    <3> QED
      BY <1>3, <3>2, <3>3
  <2> QED
    BY <2>1, <2>2, Zenon DEF TxNearer
<1>4. CASE AbortOnRefusal(i)
  BY <1>4, <1>3, Zenon DEF AbortOnRefusal, Phases
<1>5. CASE FailOnException(i)
  BY <1>5, <1>3, Zenon DEF FailOnException, Phases
<1>6. CASE AllLocked(i)
  BY <1>6, <1>3, Zenon DEF AllLocked, Phases
<1>7. CASE ExecOp(i)
  <2>1. /\ op_index[i] <= Len(Txn[i])
        /\ op_index' = [op_index EXCEPT ![i] = @ + 1]
        /\ UNCHANGED <<lmVars, phase, to_lock>>
    BY <1>7, Zenon DEF ExecOp
  <2>2. Len(Txn[i]) \in Nat
    BY SchedulerAssumption
  <2>3. op_index[i] < op_index'[i] /\ op_index'[i] <= Len(Txn[i]) + 1
    BY <1>0, <2>1, <2>2
  <2>4. \A j \in Callers : j # i => TxKept(j)
    BY <1>0, <2>1 DEF lmVars, TxKept, CallKept
  <2> QED
    BY <2>1, <2>3, <2>4, Zenon DEF TxNearer
<1>8. CASE Shrink(i)
  BY <1>8, <1>3, Zenon DEF Shrink, Phases
<1>9. CASE ReplyCommitted(i)
  BY <1>9, <1>3, Zenon DEF ReplyCommitted, ReplyOk, Phases
<1>10. CASE ReplyAborted(i)
  BY <1>10, <1>3, Zenon DEF ReplyAborted, ReplyOk, Phases
<1>11. CASE InLockManager(i)
  <2>1. LMStep(i) /\ UNCHANGED <<phase, to_lock, op_index>>
    BY <1>11 DEF InLockManager, schedVars
  <2>2. CallNearer(i)
    BY <2>1, AcquireNearer, ReleaseNearer, Zenon DEF LMStep, TypeOK
  <2>3. ASSUME NEW j \in Callers, j # i PROVE TxKept(j)
    BY <2>1, <2>3, OtherTxKept, Zenon
  <2> QED
    BY <2>1, <2>2, <2>3, Zenon DEF TxNearer
<1> QED
  BY <1>1, <1>2, <1>4, <1>5, <1>6, <1>7, <1>8, <1>9, <1>10, <1>11, Zenon
  DEF TxStep

\* However many requests there are, whatever keys they ask for and in whatever
\* order their threads run, the scheduler takes finitely many steps: each one
\* moves one transaction towards its answer and none away from it.
THEOREM WorkBounded == Spec => BoundedWork
<1> DEFINE Bounded ==
      /\ \E i \in Callers : TxNearer(i)
      /\ \A i \in Callers :
           \/ TxNearer(i)
           \/ UNCHANGED <<phase[i], to_lock[i], op_index[i]>> /\ CallKept(i)
<1>1. ASSUME TypeOK, PhaseInv, Next PROVE Bounded
  <2>1. PICK i \in Callers : Begin(i) \/ TxStep(i)
    BY <1>1 DEF Next
  <2>2. TxNearer(i) /\ \A j \in Callers : j # i => TxKept(j)
    BY <1>1, <2>1, WorkStep
  <2> QED
    BY <2>2, Zenon DEF TxKept
<1>2. SchedulerInv /\ [Next]_vars => [Bounded]_vars
  BY <1>1, Zenon DEF SchedulerInv
<1> QED
  BY <1>2, SchedulerInvariant, PTL DEF Spec, BoundedWork
==============================================================================
