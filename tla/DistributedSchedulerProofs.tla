---------------------- MODULE DistributedSchedulerProofs ----------------------
(***************************************************************************)
(* Which messages a cluster has, what a transaction that meets no namesake *)
(* can rely on from the lock managers, and that every transaction comes to *)
(* an end; whatever the network does, for any nodes, keys and requests.    *)
(***************************************************************************)
EXTENDS DistributedScheduler, TLAPS

Asks == {"lock_req", "lock_rel", "op_req"}
Answers == {"lock_granted", "lock_denied", "op_resp"}

PendingInv == \A r \in Requests : pending_locks[r] \subseteq RemoteKeys(r)

------------------------------------------------------------------------------
(* Requests and keys.                                                      *)

\* A request is its node and its id there.
LEMMA RequestFacts ==
  /\ Origin \in [Requests -> Nodes] /\ TxId \in [Requests -> Nat]
  /\ \A r \in Requests : r = <<Origin[r], TxId[r]>>
  /\ \A r \in Requests : TxId[r] # NoTx
<1>1. ASSUME NEW r \in Requests
      PROVE  r[1] \in Nodes /\ r[2] \in Nat /\ r = <<r[1], r[2]>>
  <2>1. PICK n \in Nodes : r \in {n} \X (1 .. NumRequests[n])
    BY Zenon DEF Requests
  <2>2. NumRequests[n] \in Nat
    BY DistributedAssumption
  <2> QED
    BY <2>1, <2>2
<1>2. Origin \in [Requests -> Nodes] /\ TxId \in [Requests -> Nat]
  BY <1>1, Zenon DEF Origin, TxId
<1>3. \A r \in Requests : r = <<Origin[r], TxId[r]>>
  BY <1>1, Zenon DEF Origin, TxId
<1> QED
  BY <1>2, <1>3, DistributedAssumption

\* Local keys have the transaction's node as primary, remote keys another one.
LEMMA KeySplit ==
  ASSUME NEW r \in Requests
  PROVE  /\ LocalKeys(r) \subseteq Keys
         /\ RemoteKeys(r) \subseteq Keys
         /\ \A k \in LocalKeys(r) : Primary(k) = Origin[r]
         /\ \A k \in RemoteKeys(r) : Primary(k) # Origin[r]
<1>1. KeysOf(Txn[r]) \subseteq Keys
  <2>1. Txn[r] \in Seq(Op(Keys))
    BY DistributedAssumption
  <2>2. \A j \in DOMAIN Txn[r] : Txn[r][j] \in Op(Keys)
    BY <2>1
  <2>3. \A o \in Op(Keys) : o.key \in Keys
    BY DEF Op
  <2> QED
    BY <2>2, <2>3 DEF KeysOf
<1> QED
  BY <1>1 DEF LocalKeys, RemoteKeys, is_local, Primary

\* The next operation is a position again.
LEMMA AdvanceTypes ==
  ASSUME NEW r \in Requests, op_index \in [Requests -> Nat \ {0}], Advance(r)
  PROVE  op_index' \in [Requests -> Nat \ {0}]
BY DEF Advance

\* An operation on the store adds no key to it and removes none.
LEMMA ExecuteKeys ==
  ASSUME DOMAIN store = Keys, NEW op, Execute(op) PROVE DOMAIN store' = Keys
BY DEF Execute, StoreAppend

------------------------------------------------------------------------------
(* The messages of a cluster.  Nothing here needs ids to be unique across    *)
(* nodes: a message is told by the id and the node that asked.               *)

OpTypes == {"op_req", "op_resp"}

\* Message m is transaction r's: it asks the primary node of one of r's remote
\* keys, or answers r's node.
FromTx(m, r) ==
  /\ m.tx_id = FromUnsigned(TxId[r])
  /\ m.key \in RemoteKeys(r)
  /\ \/ m.type \in Asks /\ m.src = Origin[r] /\ m.dst = Primary(m.key)
     \/ m.type \in Answers /\ m.src = Primary(m.key) /\ m.dst = Origin[r]
  /\ m.type = "op_req" =>
       m.body.key = m.key /\ \E j \in DOMAIN Txn[r] : m.body = Txn[r][j]

NetShape == \A m \in net : \E r \in Requests : FromTx(m, r)

MessageInv == DistTypeOK /\ PendingInv /\ NetShape

------------------------------------------------------------------------------
(* Messages belong to transactions.                                        *)

\* A message has the id of the transaction that it is about.
LEMMA SenderId ==
  ASSUME NEW m, NEW r, FromTx(m, r) PROVE m.tx_id.number = TxId[r]
<1>1. FromUnsigned(TxId[r]).number = TxId[r]
  BY DEF FromUnsigned
<1> QED
  BY <1>1, Zenon DEF FromTx

\* A message is one transaction's only.
LEMMA OneSender ==
  ASSUME NEW m, NEW r \in Requests, NEW s \in Requests, FromTx(m, r), FromTx(m, s)
  PROVE  r = s
<1>1. Asks \cap Answers = {}
  BY DEF Asks, Answers
<1>2. m.tx_id.number = TxId[r] /\ m.tx_id.number = TxId[s]
  BY SenderId, Zenon
<1>3. Origin[r] = Origin[s]
  BY <1>1, Zenon DEF FromTx
<1> QED
  BY <1>2, <1>3, RequestFacts, Zenon

\* Handlers find the transaction whose message it is.
LEMMA FoundTx ==
  ASSUME NEW m, NEW r \in Requests, FromTx(m, r)
  PROVE  /\ m.type \in Asks => RequestOf(m.src, m) = r
         /\ m.type \in Answers => RequestOf(m.dst, m) = r
<1>1. Asks \cap Answers = {}
  BY DEF Asks, Answers
<1>2. m.tx_id.number = TxId[r]
  BY SenderId, Zenon
<1>3. r = <<Origin[r], TxId[r]>>
  BY RequestFacts, Zenon
<1>4. ASSUME NEW n, n = Origin[r] PROVE RequestOf(n, m) = r
  BY <1>2, <1>3, <1>4, Zenon DEF RequestOf
<1> QED
  BY <1>1, <1>4, Zenon DEF FromTx

\* A message that a transaction sends to primary nodes is its own.
LEMMA SentShape ==
  ASSUME NEW r \in Requests, NEW ks \in SUBSET RemoteKeys(r), NEW type \in Asks,
         NEW body,
         type = "op_req" => /\ \E j \in DOMAIN Txn[r] : body = Txn[r][j]
                            /\ \A k \in ks : body.key = k
  PROVE  \A m \in ToPrimaries(type, r, ks, body) :
           FromTx(m, r) /\ m.type = type /\ m.key \in ks /\ m.body = body
<1> SUFFICES ASSUME NEW k \in ks
             PROVE  LET m == Message(type, Origin[r], Primary(k), TxId[r], k, body)
                    IN  FromTx(m, r) /\ m.type = type /\ m.key = k /\ m.body = body
  BY ZenonT(30) DEF ToPrimaries
<1> DEFINE m == Message(type, Origin[r], Primary(k), TxId[r], k, body)
<1>1. /\ m.type = type /\ m.src = Origin[r] /\ m.dst = Primary(k)
      /\ m.tx_id = FromUnsigned(TxId[r]) /\ m.key = k /\ m.body = body
  BY Zenon DEF Message
<1> HIDE DEF m
<1>2. FromTx(m, r)
  BY <1>1, Zenon DEF FromTx
<1> QED
  BY <1>1, <1>2, Zenon DEF m

\* So is one about locks.
LEMMA LocksSentShape ==
  ASSUME NEW r \in Requests, NEW ks \in SUBSET RemoteKeys(r),
         NEW type \in {"lock_req", "lock_rel"}
  PROVE  \A m \in ToPrimaries(type, r, ks, Nullopt) :
           FromTx(m, r) /\ m.type = type /\ m.key \in ks
<1>1. type \in Asks /\ type # "op_req"
  BY DEF Asks
<1>2. ASSUME NEW m, m \in ToPrimaries(type, r, ks, Nullopt)
      PROVE  FromTx(m, r) /\ m.type = type /\ m.key \in ks
  <2>1. PICK k \in ks :
          m = Message(type, Origin[r], Primary(k), TxId[r], k, Nullopt)
    BY <1>2, Zenon DEF ToPrimaries
  <2>2. /\ m.type = type /\ m.src = Origin[r] /\ m.dst = Primary(k)
        /\ m.tx_id = FromUnsigned(TxId[r]) /\ m.key = k
    BY <2>1, Zenon DEF Message
  <2> QED
    BY <1>1, <2>2, Zenon DEF FromTx
<1> QED
  BY <1>2, Zenon

\* The request to execute operation op of transaction r is one message.
OneRequest(r, op) ==
  \E o : /\ ToPrimaries("op_req", r, {op.key}, op) = {o}
        /\ FromTx(o, r) /\ o.type = "op_req" /\ o.key = op.key /\ o.body = op

\* The shape of the request that an operation on a remote key sends.
LEMMA OpSentShape ==
  ASSUME NEW r \in Requests, NEW op, op.key \in RemoteKeys(r),
         \E j \in DOMAIN Txn[r] : op = Txn[r][j]
  PROVE  OneRequest(r, op)
<1> DEFINE o == Message("op_req", Origin[r], Primary(op.key), TxId[r], op.key,
                        op)
<1>1. ToPrimaries("op_req", r, {op.key}, op) = {o}
  BY DEF ToPrimaries
<1>2. /\ o.type = "op_req" /\ o.src = Origin[r] /\ o.dst = Primary(op.key)
      /\ o.tx_id = FromUnsigned(TxId[r]) /\ o.key = op.key /\ o.body = op
  BY Zenon DEF Message
<1> HIDE DEF o
<1>3. FromTx(o, r)
  BY <1>2, Zenon DEF FromTx, Asks
<1> QED
  BY <1>1, <1>2, <1>3, Zenon DEF OneRequest

\* A response goes back to the transaction that asked.
LEMMA ResponseShape ==
  ASSUME NEW m, m.type \in Asks, NEW r \in Requests, FromTx(m, r),
         NEW type \in Answers, NEW body
  PROVE  LET o == Response(type, m, body)
         IN  FromTx(o, r) /\ o.type = type /\ o.key = m.key /\ o.body = body
<1> DEFINE o == Response(type, m, body)
<1>1. Asks \cap Answers = {} /\ "op_req" \notin Answers
  BY DEF Asks, Answers
<1>2. /\ o.type = type /\ o.src = m.dst /\ o.dst = m.src
      /\ o.tx_id = FromUnsigned(m.tx_id.number) /\ o.key = m.key /\ o.body = body
  BY Zenon DEF Response, Message
<1>3. m.tx_id.number = TxId[r]
  BY SenderId, Zenon
<1> HIDE DEF o
<1>4. FromTx(o, r)
  BY <1>1, <1>2, <1>3, Zenon DEF FromTx
<1> QED
  BY <1>2, <1>4, Zenon DEF o

\* Whose message it is does not change with the state.
LEMMA FromTxConstant ==
  ASSUME NEW m, NEW r PROVE FromTx(m, r)' <=> FromTx(m, r)
BY Zenon DEF FromTx, RemoteKeys, LocalKeys, Primary, get_primary_node, is_local

\* Messages are added that have a transaction, others are removed.
LEMMA ShapeKept ==
  ASSUME NetShape,
         \A m \in net' : m \in net \/ \E r \in Requests : FromTx(m, r)
  PROVE  NetShape'
BY FromTxConstant DEF NetShape
------------------------------------------------------------------------------
(* Steps that have nothing to do with operations.                          *)

\* How a step other than of an operation may change a transaction's phase.
PhaseAside(r) ==
  \/ phase'[r] = phase[r]
  \/ /\ phase[r] # "op_wait" /\ phase'[r] \notin {"op_wait", "unborn"}
     /\ phase'[r] \in {"locking", "waiting", "aborted"} =>
          phase[r] \in {"unborn", "locking", "waiting"}

\* Operations and their messages stay as they are.
OpsAside ==
  /\ UNCHANGED <<op_index, results, pending_ops, remote_results, store>>
  /\ \A m \in net' : m.type \in OpTypes => m \in net
  /\ \A m \in net : m.type \in OpTypes => m \in net'
  /\ \A r \in Requests : PhaseAside(r)

\* The lock managers keep their types, also where ids collide.
LEMMA LockTypes ==
  ASSUME DistTypeOK, NEW r \in Requests, NEW k \in Keys,
         \/ Acquire(k, r) \/ Release(k, r) \/ ReleaseAll(r) \/ UNCHANGED lockVars
  PROVE  /\ owner' \in [Keys -> Nat \cup {NoTx}]
         /\ granted' \in [Keys -> SUBSET Requests]
<1>1. TxId[r] \in Nat
  BY RequestFacts
<1>2. /\ owner \in [Keys -> Nat \cup {NoTx}]
      /\ granted \in [Keys -> SUBSET Requests]
  BY Zenon DEF DistTypeOK
<1>3. CASE Acquire(k, r)
  BY <1>1, <1>2, <1>3 DEF Acquire
<1>4. CASE Release(k, r)
  BY <1>2, <1>4 DEF Release
<1>5. CASE ReleaseAll(r)
  BY <1>2, <1>5, Zenon DEF ReleaseAll
<1>6. CASE UNCHANGED lockVars
  BY <1>2, <1>6, Zenon DEF lockVars
<1> QED
  BY <1>3, <1>4, <1>5, <1>6, Zenon

\* So does the release of all of a transaction's locks.
LEMMA ReleaseAllTypes ==
  ASSUME DistTypeOK, NEW r \in Requests, ReleaseAll(r)
  PROVE  /\ owner' \in [Keys -> Nat \cup {NoTx}]
         /\ granted' \in [Keys -> SUBSET Requests]
BY Zenon DEF DistTypeOK, ReleaseAll

\* What a transaction sends about locks.
SendsLocks(r) ==
  \E type \in {"lock_req", "lock_rel"}, ks \in SUBSET RemoteKeys(r) :
    net' = net \cup ToPrimaries(type, r, ks, Nullopt)

\* Sending about locks keeps the messages in shape and adds no operation.
LEMMA SendsLocksOK ==
  ASSUME NetShape, NEW r \in Requests, SendsLocks(r)
  PROVE  /\ NetShape'
         /\ \A m \in net' : m.type \in OpTypes => m \in net
         /\ net \subseteq net'
<1>1. PICK type \in {"lock_req", "lock_rel"}, ks \in SUBSET RemoteKeys(r) :
        net' = net \cup ToPrimaries(type, r, ks, Nullopt)
  BY DEF SendsLocks
<1>2. type \in Asks /\ type # "op_req" /\ type \notin OpTypes
  BY DEF Asks, OpTypes
<1>3. \A m \in ToPrimaries(type, r, ks, Nullopt) : FromTx(m, r) /\ m.type = type
  BY LocksSentShape, Zenon
<1> QED
  BY <1>1, <1>2, <1>3, ShapeKept, Zenon

\* Nothing is sent.
LEMMA SendsNothing ==
  ASSUME NEW r, net' = net PROVE SendsLocks(r)
<1>1. ToPrimaries("lock_req", r, {}, Nullopt) = {}
  BY DEF ToPrimaries
<1>2. {} \in SUBSET RemoteKeys(r)
  OBVIOUS
<1> QED
  BY <1>1, <1>2 DEF SendsLocks

\* Steps of a transaction that lock, wait for locks, or release.
LockStep(r) ==
  \/ Begin(r) \/ LockLocal(r) \/ LocalRefused(r) \/ LocalThrew(r)
  \/ AskRemote(r) \/ AskRemoteThrows(r) \/ AllLocked(r)
  \/ LockTimeout(r) \/ LockTimeoutThrows(r)
  \/ Finish(r) \/ FinishThrows(r) \/ Unwind(r)

\* They keep everything in shape and leave operations alone.
LEMMA LockSteps ==
  ASSUME MessageInv, NEW r \in Requests, LockStep(r)
  PROVE  MessageInv' /\ OpsAside
<1> USE DEF MessageInv
<1> DEFINE ops == UNCHANGED <<op_index, results, pending_ops, remote_results,
                              store>>
           locks == /\ owner' \in [Keys -> Nat \cup {NoTx}]
                    /\ granted' \in [Keys -> SUBSET Requests]
           waits == /\ to_lock' \in [Requests -> SUBSET Keys]
                    /\ \A s \in Requests : to_lock'[s] \subseteq LocalKeys(s)
                    /\ pending_locks' \in [Requests -> SUBSET Keys]
                    /\ PendingInv'
           enters == \E p \in Phases : phase' = [phase EXCEPT ![r] = p]
           sound == ops /\ locks /\ waits /\ enters /\ PhaseAside(r)
                    /\ SendsLocks(r)
<1>a. /\ LocalKeys(r) \subseteq Keys /\ RemoteKeys(r) \subseteq Keys
      /\ pending_locks[r] \subseteq RemoteKeys(r)
  BY KeySplit, Zenon DEF PendingInv
<1>b. UNCHANGED <<to_lock, pending_locks>> => waits
  BY Zenon DEF DistTypeOK, PendingInv, RemoteKeys, LocalKeys
<1>c. UNCHANGED lockVars => locks
  BY Zenon DEF lockVars, DistTypeOK
<1>d. ReleaseAll(r) => locks
  BY ReleaseAllTypes
<1>e. phase' = phase => enters /\ PhaseAside(r)
  <2>1. phase = [phase EXCEPT ![r] = phase[r]] /\ phase[r] \in Phases
    BY DEF DistTypeOK
  <2> QED
    BY <2>1 DEF PhaseAside
<1>f. \A p \in Phases : EnterPhase(r, p) => enters /\ phase'[r] = p
  BY Zenon DEF EnterPhase, DistTypeOK
<1>g. \A type \in {"lock_req", "lock_rel"}, ks \in SUBSET RemoteKeys(r) :
        net' = net \cup ToPrimaries(type, r, ks, Nullopt) => SendsLocks(r)
  BY DEF SendsLocks
<1>h. net' = net => SendsLocks(r)
  BY SendsNothing
<1>1. ASSUME Begin(r) PROVE sound
  <2>1. waits
    BY <1>1, <1>a, Zenon
    DEF Begin, remoteVars, DistTypeOK, PendingInv, RemoteKeys,
       LocalKeys
  <2>2. enters /\ PhaseAside(r)
    BY <1>1, <1>f, Zenon DEF Begin, Phases, PhaseAside
  <2> QED
    BY <1>1, <1>c, <1>h, <2>1, <2>2, Zenon DEF Begin, remoteVars, opVars
<1>2. ASSUME LockLocal(r) PROVE sound
  <2>1. waits
    <3>1. PICK k \in to_lock[r] : to_lock' = [to_lock EXCEPT ![r] = @ \ {k}]
      BY <1>2, Zenon DEF LockLocal
    <3>2. /\ to_lock \in [Requests -> SUBSET Keys]
          /\ \A s \in Requests : to_lock[s] \subseteq LocalKeys(s)
      BY Zenon DEF DistTypeOK
    <3>3. /\ to_lock' \in [Requests -> SUBSET Keys]
          /\ \A s \in Requests : to_lock'[s] \subseteq to_lock[s]
      BY <3>1, <3>2
    <3>4. pending_locks' \in [Requests -> SUBSET Keys] /\ PendingInv'
      BY <1>2, Zenon DEF LockLocal, remoteVars, DistTypeOK, PendingInv,
         RemoteKeys, LocalKeys
    <3> QED
      BY <3>2, <3>3, <3>4, Zenon
  <2>2. locks
    BY <1>2, LockTypes, Zenon DEF LockLocal, DistTypeOK
  <2> QED
    BY <1>2, <1>e, <1>h, <2>1, <2>2, Zenon DEF LockLocal, remoteVars, opVars
<1>3. ASSUME LocalRefused(r) PROVE sound
  <2>1. enters /\ PhaseAside(r)
    BY <1>3, <1>f, Zenon DEF LocalRefused, Phases, PhaseAside
  <2> QED
    BY <1>3, <1>b, <1>d, <1>h, <2>1, Zenon DEF LocalRefused, remoteVars, opVars
<1>4. ASSUME LocalThrew(r) PROVE sound
  <2>1. enters /\ PhaseAside(r)
    BY <1>4, <1>f, Zenon DEF LocalThrew, Phases, PhaseAside
  <2> QED
    BY <1>4, <1>b, <1>c, <1>h, <2>1, Zenon DEF LocalThrew, remoteVars, opVars
<1>5. ASSUME NEW sent \in SUBSET RemoteKeys(r), AskFor(r, sent),
             NEW p \in {"waiting", "failed"}, EnterPhase(r, p)
      PROVE  sound
  <2>1. waits
    BY <1>5, <1>a, Zenon
    DEF AskFor, DistTypeOK, PendingInv, RemoteKeys, LocalKeys
  <2>2. enters /\ PhaseAside(r)
    BY <1>5, <1>f, Zenon DEF AskFor, Phases, PhaseAside
  <2> QED
    BY <1>5, <1>c, <1>g, <2>1, <2>2, Zenon DEF AskFor, opVars
<1>6. ASSUME AllLocked(r) PROVE sound
  <2>1. enters /\ PhaseAside(r)
    BY <1>6, <1>f, Zenon DEF AllLocked, Phases, PhaseAside
  <2> QED
    BY <1>6, <1>b, <1>c, <1>h, <2>1, Zenon DEF AllLocked, remoteVars, opVars
<1>7. ASSUME LockTimeout(r) PROVE sound
  <2>1. waits
    BY <1>7, Zenon DEF LockTimeout, DistTypeOK, PendingInv, RemoteKeys, LocalKeys
  <2>2. enters /\ PhaseAside(r)
    BY <1>7, <1>f, Zenon DEF LockTimeout, Phases, PhaseAside
  <2> QED
    BY <1>7, <1>a, <1>d, <1>g, <2>1, <2>2, Zenon DEF LockTimeout, opVars
<1>8. ASSUME LockTimeoutThrows(r) PROVE sound
  <2>1. enters /\ PhaseAside(r)
    BY <1>8, <1>f, Zenon DEF LockTimeoutThrows, Phases, PhaseAside
  <2>2. SendsLocks(r)
    BY <1>8, <1>a, <1>g, Zenon DEF LockTimeoutThrows
  <2> QED
    BY <1>8, <1>b, <1>c, <2>1, <2>2, Zenon
    DEF LockTimeoutThrows, remoteVars, opVars
<1>9. ASSUME NEW sent \in SUBSET RemoteKeys(r), ReleaseAllLocks(r, sent),
             NEW p \in {"committed", "unwinding", "failed"}, EnterPhase(r, p),
             Finishing(r) \/ phase[r] = "unwinding"
      PROVE  sound
  <2>1. enters /\ PhaseAside(r)
    BY <1>9, <1>f, Zenon DEF Finishing, Phases, PhaseAside
  <2> QED
    BY <1>9, <1>b, <1>d, <1>g, <2>1, Zenon
    DEF ReleaseAllLocks, remoteVars, opVars
<1>10. sound
  <2>1. AskRemote(r) => sound
    BY <1>5, Zenon DEF AskRemote
  <2>2. AskRemoteThrows(r) => sound
    BY <1>5, Zenon DEF AskRemoteThrows
  <2>3. Finish(r) => sound
    BY <1>9, Zenon DEF Finish
  <2>4. FinishThrows(r) => sound
    BY <1>9 DEF FinishThrows
  <2>5. Unwind(r) => sound
    BY <1>9, Zenon DEF Unwind
  <2> HIDE DEF sound
  <2> QED
    BY <1>1, <1>2, <1>3, <1>4, <1>6, <1>7, <1>8, <2>1, <2>2, <2>3, <2>4, <2>5, Zenon
       DEF LockStep
<1>11. \A s \in Requests : PhaseAside(s)
  <2> SUFFICES ASSUME NEW s \in Requests, s # r PROVE phase'[s] = phase[s]
    BY <1>10, Zenon DEF PhaseAside
  <2> QED
    BY <1>10, Zenon DEF DistTypeOK
<1>12. DistTypeOK'
  <2>1. ops /\ locks /\ waits /\ enters
    BY <1>10, Zenon
  <2> QED
    BY <2>1, Zenon DEF DistTypeOK, LocalKeys
<1>13. NetShape' /\ OpsAside
  BY <1>10, <1>11, SendsLocksOK, Zenon DEF OpsAside
<1> QED
  BY <1>10, <1>12, <1>13, Zenon

\* So do the handlers of lock messages.
LEMMA LockHandling ==
  ASSUME MessageInv, NEW m \in net,
         HandleLockRequest(m) \/ HandleLockResponse(m) \/ HandleLockRelease(m)
  PROVE  MessageInv' /\ OpsAside
<1> USE DEF MessageInv
<1>1. PICK r \in Requests : FromTx(m, r)
  BY DEF NetShape
<1>2. m.key \in Keys /\ m.type \notin OpTypes
  BY <1>1, KeySplit, Zenon DEF FromTx, OpTypes, HandleLockRequest,
     HandleLockResponse, HandleLockRelease
<1>3. CASE HandleLockRequest(m)
  <2>1. m.type \in Asks /\ RequestOf(m.src, m) = r
    BY <1>1, <1>3, FoundTx, Zenon DEF HandleLockRequest, Asks
  <2>2. PICK type \in {"lock_granted", "lock_denied"} :
          /\ net' = (net \ {m}) \cup {Response(type, m, Nullopt)}
          /\ Acquire(m.key, r) \/ UNCHANGED lockVars
    BY <1>3, <2>1, Zenon DEF HandleLockRequest
  <2>3. type \in Answers /\ type \notin OpTypes
    BY DEF Answers, OpTypes
  <2> DEFINE o == Response(type, m, Nullopt)
  <2>4. FromTx(o, r) /\ o.type = type
    BY <1>1, <2>1, <2>3, ResponseShape
  <2> HIDE DEF o
  <2>5. net' = (net \ {m}) \cup {o}
    BY <2>2 DEF o
  <2>6. NetShape'
    BY <2>4, <2>5, ShapeKept, Zenon
  <2>7. UNCHANGED <<txVars, store>>
    BY <1>3, Zenon DEF HandleLockRequest
  <2>8. OpsAside
    BY <1>2, <2>3, <2>4, <2>5, <2>7, Zenon DEF OpsAside, PhaseAside, txVars,
       remoteVars, opVars
  <2>9. /\ owner' \in [Keys -> Nat \cup {NoTx}]
        /\ granted' \in [Keys -> SUBSET Requests]
    BY <1>2, <2>2, LockTypes, Zenon
  <2>10. DistTypeOK' /\ PendingInv'
    BY <2>7, <2>9, Zenon
    DEF DistTypeOK, PendingInv, RemoteKeys, LocalKeys, txVars,
       remoteVars, opVars
  <2> QED
    BY <2>6, <2>8, <2>10
<1>4. CASE HandleLockResponse(m)
  <2>1. m.type \in Answers /\ RequestOf(m.dst, m) = r
    BY <1>1, <1>4, FoundTx, Zenon DEF HandleLockResponse, Answers
  <2> DEFINE left == IF SaysGranted(m) THEN pending_locks[r] \ {m.key} ELSE {}
  <2>2. /\ pending_locks' = [pending_locks EXCEPT ![r] = left]
        /\ net' = net \ {m}
        /\ UNCHANGED <<phase, to_lock, pending_ops, remote_results, opVars,
                       lockVars, store>>
    BY <1>4, <2>1, Zenon DEF HandleLockResponse, DistTypeOK
  <2>3. left \subseteq pending_locks[r]
    OBVIOUS
  <2> HIDE DEF left
  <2>4. PendingInv' /\ pending_locks' \in [Requests -> SUBSET Keys]
    BY <2>2, <2>3, Zenon DEF DistTypeOK, PendingInv, RemoteKeys, LocalKeys
  <2>5. DistTypeOK'
    BY <2>2, <2>4, Zenon DEF DistTypeOK, LocalKeys, opVars, lockVars
  <2>6. NetShape'
    BY <2>2, ShapeKept, Zenon
  <2>7. OpsAside
    BY <1>2, <2>2, Zenon DEF OpsAside, PhaseAside, opVars
  <2> QED
    BY <2>4, <2>5, <2>6, <2>7
<1>5. CASE HandleLockRelease(m)
  <2>1. m.type \in Asks /\ RequestOf(m.src, m) = r
    BY <1>1, <1>5, FoundTx, Zenon DEF HandleLockRelease, Asks
  <2>2. /\ Release(m.key, r) /\ net' = net \ {m}
        /\ UNCHANGED <<txVars, store>>
    BY <1>5, <2>1, Zenon DEF HandleLockRelease
  <2>3. /\ owner' \in [Keys -> Nat \cup {NoTx}]
        /\ granted' \in [Keys -> SUBSET Requests]
    BY <1>2, <2>2, LockTypes, Zenon
  <2>4. DistTypeOK' /\ PendingInv'
    BY <2>2, <2>3, Zenon
    DEF DistTypeOK, PendingInv, RemoteKeys, LocalKeys, txVars,
       remoteVars, opVars
  <2>5. NetShape'
    BY <2>2, ShapeKept
  <2>6. OpsAside
    BY <1>2, <2>2, Zenon DEF OpsAside, PhaseAside, txVars, remoteVars, opVars
  <2> QED
    BY <2>4, <2>5, <2>6
<1> QED
  BY <1>3, <1>4, <1>5, Zenon

------------------------------------------------------------------------------
(* Steps of operations.                                                    *)

OpStep(r) ==
  \/ ExecLocal(r) \/ SendOp(r) \/ SendOpThrows(r) \/ OpAnswered(r)
  \/ OpTimeout(r)

\* The operation that a transaction is about to execute.
LEMMA TheOp ==
  ASSUME MessageInv, NEW r \in Requests, HasOp(r)
  PROVE  /\ op_index[r] \in DOMAIN Txn[r] /\ CurrentOp(r) \in Op(Keys)
         /\ CurrentOp(r).key \in Keys /\ CurrentOp(r).value \in Int
<1>1. Txn[r] \in Seq(Op(Keys)) /\ op_index[r] \in Nat \ {0}
  BY DistributedAssumption, Zenon DEF MessageInv, DistTypeOK
<1>2. op_index[r] \in DOMAIN Txn[r]
  BY <1>1 DEF HasOp
<1>3. \A o \in Op(Keys) : o.key \in Keys /\ o.value \in Int
  BY DEF Op
<1> QED
  BY <1>1, <1>2, <1>3 DEF CurrentOp

\* Locks and those who wait for them stay as they are.
LEMMA LocksAside ==
  ASSUME MessageInv, UNCHANGED <<to_lock, pending_locks, lockVars>>,
         phase' \in [Requests -> Phases], op_index' \in [Requests -> Nat \ {0}],
         DOMAIN store' = Keys,
         \A m \in net' : m \in net \/ \E r \in Requests : FromTx(m, r)
  PROVE  MessageInv'
<1>1. NetShape'
  BY ShapeKept, Zenon DEF MessageInv
<1>2. DistTypeOK' /\ PendingInv'
  BY Zenon
  DEF MessageInv, DistTypeOK, PendingInv, RemoteKeys, LocalKeys, lockVars
<1> QED
  BY <1>1, <1>2, Zenon DEF MessageInv

\* Executing operations keeps everything in shape.
LEMMA OpSteps ==
  ASSUME MessageInv, NEW r \in Requests, OpStep(r) PROVE MessageInv'
<1>1. /\ phase \in [Requests -> Phases] /\ op_index \in [Requests -> Nat \ {0}]
      /\ DOMAIN store = Keys
      /\ {"executing", "op_wait"} \subseteq Phases
  BY Zenon DEF MessageInv, DistTypeOK, Phases
<1>2. CASE ExecLocal(r)
  <2>1. DOMAIN store' = Keys
    BY <1>1, <1>2, ExecuteKeys, Zenon DEF ExecLocal
  <2> QED
    BY <1>1, <1>2, <2>1, AdvanceTypes, LocksAside, Zenon
    DEF ExecLocal, remoteVars
<1>3. CASE SendOp(r)
  <2> DEFINE op == CurrentOp(r)
  <2>1. /\ net' = net \cup ToPrimaries("op_req", r, {op.key}, op)
        /\ HasOp(r) /\ {op.key} \in SUBSET RemoteKeys(r)
        /\ UNCHANGED <<to_lock, pending_locks, lockVars, store, op_index>>
        /\ phase' = [phase EXCEPT ![r] = "op_wait"]
    BY <1>3, Zenon DEF SendOp, NoteOp, EnterPhase
  <2>2. "op_req" \in Asks /\ \E j \in DOMAIN Txn[r] : op = Txn[r][j]
    BY <2>1, TheOp, Zenon DEF Asks, CurrentOp
  <2>3. \A m \in ToPrimaries("op_req", r, {op.key}, op) : FromTx(m, r)
    <3> HIDE DEF op
    <3> QED
      BY <2>1, <2>2, SentShape, Zenon
  <2> QED
    BY <1>1, <2>1, <2>3, LocksAside, Zenon
<1>4. CASE SendOpThrows(r)
  BY <1>1, <1>4, AdvanceTypes, LocksAside, Zenon DEF SendOpThrows, NoteOp
<1>5. CASE OpAnswered(r)
  <2>1. phase' \in [Requests -> Phases]
    BY <1>1, <1>5, Zenon DEF OpAnswered, EnterPhase
  <2> QED
    BY <1>1, <1>5, <2>1, AdvanceTypes, LocksAside, Zenon
    DEF OpAnswered, remoteVars
<1>6. CASE OpTimeout(r)
  BY <1>1, <1>6, LocksAside DEF OpTimeout, Advance, EnterPhase
<1> QED
  BY <1>2, <1>3, <1>4, <1>5, <1>6, Zenon DEF OpStep

\* So do the handlers of operation messages, and losses.
LEMMA OpHandling ==
  ASSUME MessageInv,
         \/ \E m \in net : \/ HandlerThrows(m)
                           \/ HandleOpRequest(m) \/ HandleOpResponse(m)
         \/ Lose \/ UNCHANGED vars
  PROVE  MessageInv'
<1>1. /\ phase \in [Requests -> Phases] /\ op_index \in [Requests -> Nat \ {0}]
      /\ DOMAIN store = Keys
  BY Zenon DEF MessageInv, DistTypeOK
<1>2. ASSUME net' \subseteq net, UNCHANGED <<txVars, lockVars, store>>
      PROVE  MessageInv'
  BY <1>1, <1>2, LocksAside, Zenon DEF txVars, remoteVars, opVars
<1>3. ASSUME NEW m \in net, HandleOpRequest(m) PROVE MessageInv'
  <2>1. PICK r \in Requests : FromTx(m, r)
    BY DEF MessageInv, NetShape
  <2>2. m.type \in Asks /\ "op_resp" \in Answers
    BY <1>3, Zenon DEF HandleOpRequest, Asks, Answers
  <2>3. PICK result : net' = (net \ {m}) \cup {Response("op_resp", m, result)}
    BY <1>3, Zenon DEF HandleOpRequest
  <2>4. FromTx(Response("op_resp", m, result), r)
    BY <2>1, <2>2, ResponseShape, Zenon
  <2>5. UNCHANGED <<to_lock, pending_locks, lockVars, phase, op_index>>
    BY <1>3, Zenon DEF HandleOpRequest, txVars, remoteVars, opVars
  <2>6. DOMAIN store' = Keys
    BY <1>1, <1>3, Zenon DEF HandleOpRequest, Execute, StoreAppend
  <2> QED
    BY <1>1, <2>3, <2>4, <2>5, <2>6, LocksAside, Zenon
<1>4. ASSUME NEW m \in net, HandleOpResponse(m) PROVE MessageInv'
  BY <1>1, <1>4, LocksAside, Zenon DEF HandleOpResponse, opVars
<1> QED
  BY <1>2, <1>3, <1>4, Zenon DEF HandlerThrows, Lose, vars

\* What a step of the cluster can be.
LEMMA StepKinds ==
  ASSUME MessageInv, [Next]_vars
  PROVE  \/ MessageInv' /\ OpsAside
         \/ \E r \in Requests : OpStep(r)
         \/ \E m \in net : HandleOpRequest(m) \/ HandleOpResponse(m)
         \/ Lose
         \/ \E m \in net : HandlerThrows(m)
<1>1. ASSUME NEW r \in Requests, Begin(r) \/ TxStep(r)
      PROVE  LockStep(r) \/ OpStep(r)
  BY <1>1, Zenon DEF TxStep, LockStep, OpStep
<1>2. UNCHANGED vars => OpsAside
  BY Zenon DEF vars, txVars, remoteVars, opVars, OpsAside, PhaseAside
<1>3. UNCHANGED vars => MessageInv'
  BY OpHandling
<1> QED
  BY <1>1, <1>2, <1>3, LockSteps, LockHandling, Zenon DEF Next, handle_peer_message

\* The invariant holds from the start.
LEMMA MessageInit == Init => MessageInv
BY DEF Init, MessageInv, DistTypeOK, Phases, PendingInv, NetShape

\* Every step preserves it.
LEMMA MessageStep == MessageInv /\ [Next]_vars => MessageInv'
BY StepKinds, OpSteps, OpHandling

\* What the cluster's transactions, locks and lists are, for any faults and
\* also when the ids of two nodes collide.
THEOREM ClusterTypeCorrect == Spec => []DistTypeOK
<1>1. MessageInv => DistTypeOK
  BY DEF MessageInv
<1> QED
  BY <1>1, MessageInit, MessageStep, PTL DEF Spec

------------------------------------------------------------------------------
(* The locks of transactions without namesakes.                            *)

Holding == {"locking", "waiting", "executing", "op_wait"}

\* A transaction owns the local keys it has asked for until it returns, and
\* none of them afterwards.
HeldOK(r) ==
  /\ phase[r] \in Holding =>
       \A k \in LocalKeys(r) \ to_lock[r] : owner[k] = TxId[r]
  /\ phase[r] \in Holding \ {"locking"} => to_lock[r] = {}
  /\ phase[r] \in {"committed", "aborted"} =>
       \A k \in LocalKeys(r) : owner[k] # TxId[r]

\* A key was granted to transactions that have it.
GrantOK(k, r) == k \in KeysOf(Txn[r]) /\ (Alone(r) => owner[k] = TxId[r])

LockInv ==
  /\ \A k \in Keys : \A r \in granted[k] : GrantOK(k, r)
  /\ \A r \in Requests : Alone(r) => HeldOK(r)

\* Nothing that is done for s changes what another transaction owns of its keys,
\* in either direction, unless it is a namesake.
OthersKeep(s) ==
  \A r \in Requests \ {s} : Alone(r) =>
    \A k \in KeysOf(Txn[r]) : owner'[k] = TxId[r] <=> owner[k] = TxId[r]

\* Whether transactions are namesakes does not change with the state.
LEMMA AloneConstant == ASSUME NEW r PROVE Alone(r)' <=> Alone(r)
BY DEF Alone, Namesakes, Primary, get_primary_node

\* Which keys are local does not either.
LEMMA LocalConstant == ASSUME NEW r PROVE LocalKeys(r)' = LocalKeys(r)
BY DEF LocalKeys, is_local, get_primary_node

\* Two transactions that share a key, or one of which has a key on the node of
\* the other, have different ids if one is alone.
LEMMA NotNamesakes ==
  ASSUME NEW r \in Requests, NEW s \in Requests, r # s, Alone(r),
         NEW k \in KeysOf(Txn[r]), k \in KeysOf(Txn[s]) \/ Primary(k) = Origin[s]
  PROVE  TxId[s] # TxId[r]
BY Zenon DEF Alone, Namesakes

\* The keys of a transaction are keys.
LEMMA KeysAreKeys ==
  ASSUME NEW r \in Requests
  PROVE  /\ KeysOf(Txn[r]) \subseteq Keys
         /\ LocalKeys(r) \subseteq KeysOf(Txn[r])
         /\ RemoteKeys(r) \subseteq KeysOf(Txn[r])
         /\ LocalKeys(r) \cap RemoteKeys(r) = {}
<1>1. LocalKeys(r) \subseteq Keys /\ RemoteKeys(r) \subseteq Keys
  BY KeySplit, Zenon
<1>2. /\ LocalKeys(r) \subseteq KeysOf(Txn[r])
      /\ RemoteKeys(r) \subseteq KeysOf(Txn[r])
      /\ LocalKeys(r) \cap RemoteKeys(r) = {}
  BY Zenon DEF LocalKeys, RemoteKeys
<1>3. KeysOf(Txn[r]) = LocalKeys(r) \cup RemoteKeys(r)
  BY Zenon DEF LocalKeys, RemoteKeys
<1> QED
  BY <1>1, <1>2, <1>3, Zenon

\* A grant.
LEMMA AcquireEffect ==
  ASSUME DistTypeOK, LockInv, NEW s \in Requests, NEW k \in KeysOf(Txn[s]),
         Acquire(k, s)
  PROVE  /\ OthersKeep(s)
         /\ \A j \in Keys : \A r \in granted'[j] : GrantOK(j, r)'
         /\ owner'[k] = TxId[s]
         /\ \A j \in Keys \ {k} : owner'[j] = owner[j]
<1>1. /\ owner' = [owner EXCEPT ![k] = TxId[s]]
      /\ granted' = [granted EXCEPT ![k] = granted[k] \cup {s}]
      /\ owner[k] \in {NoTx, TxId[s]}
  BY Zenon DEF Acquire, DistTypeOK
<1>2. /\ DOMAIN owner = Keys /\ granted \in [Keys -> SUBSET Requests]
      /\ k \in Keys
  BY KeysAreKeys, Zenon DEF DistTypeOK
<1>3. owner'[k] = TxId[s] /\ \A j \in Keys \ {k} : owner'[j] = owner[j]
  BY <1>1, <1>2, Zenon
<1>4. ASSUME NEW r \in Requests, r # s, Alone(r), k \in KeysOf(Txn[r])
      PROVE  owner'[k] # TxId[r] /\ owner[k] # TxId[r]
  <2>1. TxId[s] # TxId[r] /\ TxId[r] # NoTx
    BY <1>4, NotNamesakes, RequestFacts, Zenon
  <2> QED
    BY <1>1, <1>3, <2>1, Zenon
<1>5. OthersKeep(s)
  BY <1>3, <1>4, KeysAreKeys, Zenon DEF OthersKeep
<1>6. ASSUME NEW j \in Keys, NEW r \in granted'[j] PROVE GrantOK(j, r)'
  <2>1. r \in Requests /\ (r \in granted[j] \/ (j = k /\ r = s))
    BY <1>1, <1>2, <1>6, Zenon
  <2>2. CASE j = k /\ r = s
    BY <1>3, <2>2, Zenon DEF GrantOK
  <2>3. CASE r \in granted[j]
    <3>1. GrantOK(j, r)
      BY <2>3, Zenon DEF LockInv
    <3>2. CASE r # s
      BY <1>5, <2>1, <3>1, <3>2, AloneConstant, Zenon DEF GrantOK, OthersKeep
    <3>3. CASE r = s
      BY <1>3, <3>1, <3>3, AloneConstant, Zenon DEF GrantOK
    <3> QED
      BY <3>2, <3>3, Zenon
  <2> QED
    BY <2>1, <2>2, <2>3, Zenon
<1> QED
  BY <1>3, <1>5, <1>6, Zenon

\* A release of one key.
LEMMA ReleaseEffect ==
  ASSUME DistTypeOK, LockInv, NEW s \in Requests, NEW k \in KeysOf(Txn[s]),
         Release(k, s)
  PROVE  /\ OthersKeep(s)
         /\ \A j \in Keys : \A r \in granted'[j] : GrantOK(j, r)'
         /\ \A j \in Keys \ {k} : owner'[j] = owner[j]
<1>1. /\ owner' = [owner EXCEPT ![k] =
                     IF owner[k] = TxId[s] THEN NoTx ELSE owner[k]]
      /\ granted' = [granted EXCEPT ![k] = granted[k] \ {s}]
  BY Zenon DEF Release, DistTypeOK
<1>2. /\ DOMAIN owner = Keys /\ granted \in [Keys -> SUBSET Requests]
      /\ k \in Keys
  BY KeysAreKeys, Zenon DEF DistTypeOK
<1>3. /\ owner'[k] = IF owner[k] = TxId[s] THEN NoTx ELSE owner[k]
      /\ \A j \in Keys \ {k} : owner'[j] = owner[j]
  BY <1>1, <1>2, Zenon
<1>4. ASSUME NEW r \in Requests, r # s, Alone(r), k \in KeysOf(Txn[r])
      PROVE  owner'[k] = TxId[r] <=> owner[k] = TxId[r]
  <2>1. TxId[s] # TxId[r] /\ TxId[r] # NoTx
    BY <1>4, NotNamesakes, RequestFacts, Zenon
  <2> QED
    BY <1>3, <2>1, Zenon
<1>5. OthersKeep(s)
  BY <1>3, <1>4, KeysAreKeys, Zenon DEF OthersKeep
<1>6. ASSUME NEW j \in Keys, NEW r \in granted'[j] PROVE GrantOK(j, r)'
  <2>1. r \in Requests /\ r \in granted[j] /\ (j = k => r # s)
    BY <1>1, <1>2, <1>6, Zenon
  <2>2. GrantOK(j, r)
    BY <2>1, Zenon DEF LockInv
  <2>3. CASE r # s
    BY <1>5, <2>1, <2>2, <2>3, AloneConstant, Zenon DEF GrantOK, OthersKeep
  <2>4. CASE j # k
    BY <1>3, <2>2, <2>4, AloneConstant, Zenon DEF GrantOK
  <2> QED
    BY <2>1, <2>3, <2>4, Zenon
<1> QED
  BY <1>3, <1>5, <1>6, Zenon

\* A release of all keys on the transaction's own node.
LEMMA ReleaseAllEffect ==
  ASSUME DistTypeOK, LockInv, NEW s \in Requests, ReleaseAll(s)
  PROVE  /\ OthersKeep(s)
         /\ \A j \in Keys : \A r \in granted'[j] : GrantOK(j, r)'
         /\ \A k \in LocalKeys(s) : owner'[k] # TxId[s]
<1>1. /\ owner' = [k \in Keys |->
                     IF Primary(k) = Origin[s] /\ owner[k] = TxId[s] THEN NoTx
                     ELSE owner[k]]
      /\ granted' = [k \in Keys |->
                       IF Primary(k) = Origin[s] THEN granted[k] \ {s}
                       ELSE granted[k]]
  BY Zenon DEF ReleaseAll
<1>2. granted \in [Keys -> SUBSET Requests]
  BY Zenon DEF DistTypeOK
<1>3. ASSUME NEW k \in Keys
      PROVE  /\ Primary(k) # Origin[s] => owner'[k] = owner[k]
             /\ owner[k] # TxId[s] => owner'[k] = owner[k]
             /\ Primary(k) = Origin[s] /\ owner[k] = TxId[s] => owner'[k] = NoTx
             /\ granted'[k] \subseteq granted[k]
             /\ Primary(k) = Origin[s] => s \notin granted'[k]
  BY <1>1, Zenon
<1>4. ASSUME NEW r \in Requests, r # s, Alone(r), NEW k \in KeysOf(Txn[r])
      PROVE  owner'[k] = TxId[r] <=> owner[k] = TxId[r]
  <2>1. k \in Keys /\ TxId[r] # NoTx
    BY KeysAreKeys, RequestFacts, Zenon
  <2>2. CASE Primary(k) = Origin[s]
    <3>1. TxId[s] # TxId[r]
      BY <1>4, <2>2, NotNamesakes, Zenon
    <3> QED
      BY <1>3, <2>1, <2>2, <3>1, Zenon
  <2>3. CASE Primary(k) # Origin[s]
    BY <1>3, <2>1, <2>3, Zenon
  <2> QED
    BY <2>2, <2>3, Zenon
<1>5. OthersKeep(s)
  BY <1>4, Zenon DEF OthersKeep
<1>6. ASSUME NEW j \in Keys, NEW r \in granted'[j] PROVE GrantOK(j, r)'
  <2>1. r \in granted[j] /\ r \in Requests
    BY <1>2, <1>3, <1>6, Zenon
  <2>2. GrantOK(j, r)
    BY <2>1, Zenon DEF LockInv
  <2>3. CASE r # s
    BY <1>5, <2>1, <2>2, <2>3, AloneConstant, Zenon DEF GrantOK, OthersKeep
  <2>4. CASE r = s
    BY <1>3, <1>6, <2>2, <2>4, AloneConstant, Zenon DEF GrantOK
  <2> QED
    BY <2>3, <2>4, Zenon
<1>7. ASSUME NEW k \in LocalKeys(s) PROVE owner'[k] # TxId[s]
  <2>1. k \in Keys /\ Primary(k) = Origin[s] /\ TxId[s] # NoTx
    BY KeySplit, RequestFacts, Zenon
  <2> QED
    BY <1>3, <2>1, Zenon
<1> QED
  BY <1>5, <1>6, <1>7, Zenon

\* A step for s that keeps what s holds in order keeps the invariant.
LEMMA LocksKept ==
  ASSUME LockInv, NEW s \in Requests, OthersKeep(s), Alone(s) => HeldOK(s)',
         \A r \in Requests \ {s} :
           phase'[r] = phase[r] /\ to_lock'[r] = to_lock[r],
         \A j \in Keys : \A r \in granted'[j] : GrantOK(j, r)'
  PROVE  LockInv'
<1>1. ASSUME NEW r \in Requests, Alone(r) PROVE HeldOK(r)'
  <2>1. CASE r = s
    BY <1>1, <2>1, Zenon
  <2>2. CASE r # s
    <3>1. HeldOK(r) /\ phase'[r] = phase[r] /\ to_lock'[r] = to_lock[r]
      BY <1>1, <2>2, Zenon DEF LockInv
    <3>2. \A k \in LocalKeys(r) : owner'[k] = TxId[r] <=> owner[k] = TxId[r]
      BY <1>1, <2>2, KeysAreKeys, Zenon DEF OthersKeep
    <3> QED
      BY <3>1, <3>2, LocalConstant, Zenon DEF HeldOK
  <2> QED
    BY <2>1, <2>2, Zenon
<1> QED
  BY <1>1, AloneConstant, Zenon DEF LockInv

\* Nothing happens to the locks.
LEMMA LocksStill ==
  ASSUME LockInv, UNCHANGED lockVars, NEW s \in Requests
  PROVE  OthersKeep(s) /\ \A j \in Keys : \A r \in granted'[j] : GrantOK(j, r)'
<1>1. owner' = owner /\ granted' = granted
  BY Zenon DEF lockVars
<1>2. OthersKeep(s)
  BY <1>1, Zenon DEF OthersKeep
<1>3. ASSUME NEW j \in Keys, NEW r \in granted'[j] PROVE GrantOK(j, r)'
  BY <1>1, <1>3, AloneConstant, Zenon DEF LockInv, GrantOK
<1> QED
  BY <1>2, <1>3, Zenon

\* A transaction goes on and no lock changes.
LEMMA HeldOn ==
  ASSUME DistTypeOK, LockInv, NEW r \in Requests, UNCHANGED <<lockVars, to_lock>>,
         NEW q \in Phases, phase' = [phase EXCEPT ![r] = q],
         \/ q = "failed"
         \/ /\ q \in Holding \ {"locking"} /\ phase[r] \in Holding
            /\ phase[r] = "locking" => to_lock[r] = {}
  PROVE  LockInv'
<1>1. /\ phase'[r] = q /\ owner' = owner /\ to_lock' = to_lock
      /\ \A s \in Requests \ {r} : phase'[s] = phase[s]
  BY Zenon DEF DistTypeOK, lockVars
<1>2. Alone(r) => HeldOK(r)'
  <2>1. CASE q = "failed"
    BY <1>1, <2>1, Zenon DEF HeldOK, Holding
  <2>2. CASE q # "failed"
    <3>1. q \notin {"committed", "aborted"}
      BY <2>2, Zenon DEF Holding
    <3>2. Alone(r) => HeldOK(r)
      BY Zenon DEF LockInv
    <3>3. Alone(r) => to_lock[r] = {}
      BY <2>2, <3>2, Zenon DEF HeldOK
    <3> QED
      BY <1>1, <2>2, <3>1, <3>2, <3>3, LocalConstant, Zenon DEF HeldOK
  <2> QED
    BY <2>1, <2>2, Zenon
<1> QED
  BY <1>1, <1>2, LocksStill, LocksKept, Zenon

\* A transaction is over and has released everything on its own node.
LEMMA HeldNoMore ==
  ASSUME DistTypeOK, LockInv, NEW r \in Requests, ReleaseAll(r),
         UNCHANGED to_lock,
         NEW q \in {"aborted", "committed", "unwinding", "failed"},
         phase' = [phase EXCEPT ![r] = q]
  PROVE  LockInv'
<1>1. /\ phase'[r] = q /\ phase'[r] \notin Holding
      /\ \A s \in Requests \ {r} : phase'[s] = phase[s]
  BY Zenon DEF DistTypeOK, Holding
<1>2. /\ OthersKeep(r) /\ \A j \in Keys : \A s \in granted'[j] : GrantOK(j, s)'
      /\ \A k \in LocalKeys(r) : owner'[k] # TxId[r]
  BY ReleaseAllEffect, Zenon
<1>3. HeldOK(r)'
  BY <1>1, <1>2, LocalConstant, Zenon DEF HeldOK
<1> QED
  BY <1>1, <1>2, <1>3, LocksKept, Zenon

\* Steps of a transaction.
LEMMA LockTxSteps ==
  ASSUME DistTypeOK, LockInv, NEW r \in Requests, Begin(r) \/ TxStep(r)
  PROVE  LockInv'
<1> USE DEF EnterPhase
<1>a. /\ phase \in [Requests -> Phases] /\ to_lock \in [Requests -> SUBSET Keys]
      /\ to_lock[r] \subseteq LocalKeys(r)
  BY Zenon DEF DistTypeOK
<1>b. /\ {"failed", "waiting", "executing", "op_wait"} \subseteq Phases
      /\ {"waiting", "executing", "op_wait"} \subseteq Holding \ {"locking"}
      /\ "locking" \in Holding
  BY Zenon DEF Phases, Holding
<1>1. CASE Begin(r)
  <2>1. /\ phase'[r] = "locking" /\ to_lock'[r] = LocalKeys(r)
        /\ UNCHANGED lockVars
        /\ \A s \in Requests \ {r} :
             phase'[s] = phase[s] /\ to_lock'[s] = to_lock[s]
    BY <1>1, <1>a, Zenon DEF Begin
  <2>2. HeldOK(r)'
    BY <2>1, LocalConstant, Zenon DEF HeldOK
  <2> QED
    BY <2>1, <2>2, LocksStill, LocksKept, Zenon
<1>2. CASE LockLocal(r)
  <2>1. PICK k \in to_lock[r] :
          Acquire(k, r) /\ to_lock' = [to_lock EXCEPT ![r] = to_lock[r] \ {k}]
    BY <1>2, <1>a, Zenon DEF LockLocal
  <2>2. phase[r] = "locking" /\ phase' = phase
    BY <1>2, Zenon DEF LockLocal
  <2>3. k \in LocalKeys(r) /\ k \in KeysOf(Txn[r]) /\ k \in Keys
    BY <1>a, <2>1, KeysAreKeys, Zenon
  <2>4. /\ OthersKeep(r) /\ \A j \in Keys : \A s \in granted'[j] : GrantOK(j, s)'
        /\ owner'[k] = TxId[r] /\ \A j \in Keys \ {k} : owner'[j] = owner[j]
    BY <2>1, <2>3, AcquireEffect, Zenon
  <2>5. /\ to_lock'[r] = to_lock[r] \ {k}
        /\ \A s \in Requests \ {r} : to_lock'[s] = to_lock[s]
    BY <1>a, <2>1, Zenon
  <2>6. Alone(r) => HeldOK(r)'
    <3>1. Alone(r) => \A j \in LocalKeys(r) \ to_lock[r] : owner[j] = TxId[r]
      BY <1>b, <2>2, Zenon DEF LockInv, HeldOK
    <3>2. LocalKeys(r) \subseteq Keys
      BY KeySplit, Zenon
    <3>3. Alone(r) => \A j \in LocalKeys(r) \ to_lock'[r] : owner'[j] = TxId[r]
      BY <2>4, <2>5, <3>1, <3>2, Zenon
    <3> QED
      BY <2>2, <3>3, LocalConstant, Zenon DEF HeldOK
  <2> QED
    BY <2>2, <2>4, <2>5, <2>6, LocksKept, Zenon
<1>3. CASE LocalThrew(r)
  BY <1>3, <1>b, HeldOn, Zenon DEF LocalThrew
<1>4. CASE AskRemote(r)
  BY <1>4, <1>b, HeldOn, Zenon DEF AskRemote, AskFor
<1>5. CASE AskRemoteThrows(r)
  BY <1>5, <1>b, HeldOn, Zenon DEF AskRemoteThrows, AskFor
<1>6. CASE AllLocked(r)
  BY <1>6, <1>b, HeldOn, Zenon DEF AllLocked
<1>7. CASE LockTimeoutThrows(r)
  BY <1>7, <1>b, HeldOn, Zenon DEF LockTimeoutThrows
<1>8. CASE ExecLocal(r) \/ SendOpThrows(r)
  <2>1. phase[r] = "executing" /\ UNCHANGED <<phase, to_lock, lockVars>>
    BY <1>8, Zenon DEF ExecLocal, SendOpThrows, NoteOp
  <2>2. phase' = [phase EXCEPT ![r] = "executing"]
    BY <1>a, <2>1
  <2> QED
    BY <1>b, <2>1, <2>2, HeldOn, Zenon
<1>9. CASE SendOp(r)
  BY <1>9, <1>b, HeldOn, Zenon DEF SendOp, NoteOp
<1>10. CASE OpAnswered(r) \/ OpTimeout(r)
  BY <1>10, <1>b, HeldOn, Zenon DEF OpAnswered, OpTimeout
<1>11. CASE LocalRefused(r) \/ LockTimeout(r)
  BY <1>11, HeldNoMore, Zenon DEF LocalRefused, LockTimeout
<1>12. CASE Finish(r) \/ FinishThrows(r) \/ Unwind(r)
  BY <1>12, HeldNoMore, Zenon DEF Finish, FinishThrows, Unwind, ReleaseAllLocks
<1> QED
  BY <1>1, <1>2, <1>3, <1>4, <1>5, <1>6, <1>7, <1>8, <1>9, <1>10, <1>11, <1>12,
     Zenon DEF TxStep

\* The handlers of lock requests and releases touch a key that is not of the
\* asking transaction's node.
LEMMA LockHandlers ==
  ASSUME MessageInv, LockInv, NEW m \in net,
         HandleLockRequest(m) \/ HandleLockRelease(m)
  PROVE  LockInv'
<1>1. PICK r \in Requests : FromTx(m, r)
  BY Zenon DEF MessageInv, NetShape
<1>2. m.type \in Asks
  BY Zenon DEF HandleLockRequest, HandleLockRelease, Asks
<1>3. RequestOf(m.src, m) = r /\ m.key \in RemoteKeys(r)
  BY <1>1, <1>2, FoundTx, Zenon DEF FromTx
<1>4. /\ m.key \in KeysOf(Txn[r]) /\ m.key \notin LocalKeys(r)
      /\ LocalKeys(r) \subseteq Keys
  BY <1>3, KeysAreKeys, Zenon
<1>5. /\ Acquire(m.key, r) \/ Release(m.key, r) \/ UNCHANGED lockVars
      /\ UNCHANGED <<phase, to_lock>>
  BY <1>3, Zenon DEF HandleLockRequest, HandleLockRelease, txVars
<1>6. /\ OthersKeep(r) /\ \A j \in Keys : \A s \in granted'[j] : GrantOK(j, s)'
      /\ \A j \in Keys \ {m.key} : owner'[j] = owner[j]
  <2>1. CASE Acquire(m.key, r)
    BY <1>4, <2>1, AcquireEffect, Zenon DEF MessageInv
  <2>2. CASE Release(m.key, r)
    BY <1>4, <2>2, ReleaseEffect, Zenon DEF MessageInv
  <2>3. CASE UNCHANGED lockVars
    BY <2>3, LocksStill, Zenon DEF lockVars
  <2> QED
    BY <1>5, <2>1, <2>2, <2>3, Zenon
<1>7. Alone(r) => HeldOK(r)'
  <2>1. \A k \in LocalKeys(r) : owner'[k] = owner[k]
    BY <1>4, <1>6, Zenon
  <2>2. Alone(r) => HeldOK(r)
    BY Zenon DEF LockInv
  <2> QED
    BY <1>5, <2>1, <2>2, LocalConstant, Zenon DEF HeldOK
<1> QED
  BY <1>5, <1>6, <1>7, LocksKept, Zenon

\* Nothing happens to locks and to transactions.
LEMMA LockStill ==
  ASSUME LockInv, UNCHANGED <<lockVars, phase, to_lock>> PROVE LockInv'
<1>1. owner' = owner /\ granted' = granted /\ phase' = phase /\ to_lock' = to_lock
  BY Zenon DEF lockVars
<1>2. ASSUME NEW r \in Requests, HeldOK(r) PROVE HeldOK(r)'
  BY <1>1, <1>2, LocalConstant, Zenon DEF HeldOK
<1>3. ASSUME NEW j \in Keys, NEW r \in granted'[j] PROVE GrantOK(j, r)'
  BY <1>1, <1>3, AloneConstant, Zenon DEF LockInv, GrantOK
<1> QED
  BY <1>2, <1>3, AloneConstant, Zenon DEF LockInv

\* Every step keeps the locks in order.
LEMMA LockInvStep == MessageInv /\ LockInv /\ [Next]_vars => LockInv'
<1> SUFFICES ASSUME MessageInv, LockInv, [Next]_vars PROVE LockInv'
  OBVIOUS
<1>1. ASSUME NEW r \in Requests, Begin(r) \/ TxStep(r) PROVE LockInv'
  BY <1>1, LockTxSteps, Zenon DEF MessageInv
<1>2. ASSUME NEW m \in net, handle_peer_message(m) PROVE LockInv'
  <2>1. CASE HandleLockRequest(m) \/ HandleLockRelease(m)
    BY <2>1, LockHandlers, Zenon
  <2>2. CASE HandlerThrows(m) \/ HandleLockResponse(m) \/ HandleOpRequest(m)
             \/ HandleOpResponse(m)
    BY <2>2, LockStill, Zenon DEF HandlerThrows, HandleLockResponse,
       HandleOpRequest, HandleOpResponse, txVars
  <2> QED
    BY <1>2, <2>1, <2>2, Zenon DEF handle_peer_message
<1>3. CASE Lose
  BY <1>3, LockStill, Zenon DEF Lose, txVars
<1>4. CASE UNCHANGED vars
  BY <1>4, LockStill, Zenon DEF vars, txVars
<1> QED
  BY <1>1, <1>2, <1>3, <1>4, Zenon DEF Next

\* The locks are in order throughout.
LEMMA LockInvariant == Spec => [](MessageInv /\ LockInv)
<1>1. Init => LockInv
  <2> SUFFICES ASSUME Init PROVE LockInv
    OBVIOUS
  <2>1. \A r \in Requests : phase[r] = "unborn"
    BY Zenon DEF Init
  <2>2. \A r \in Requests : HeldOK(r)
    BY <2>1, Zenon DEF HeldOK, Holding
  <2>3. \A k \in Keys : granted[k] = {}
    BY Zenon DEF Init
  <2> QED
    BY <2>2, <2>3, Zenon DEF LockInv
<1>2. MessageInv /\ LockInv /\ [Next]_vars => (MessageInv /\ LockInv)'
  BY LockInvStep, MessageStep, Zenon
<1> QED
  BY <1>1, <1>2, MessageInit, PTL DEF Spec

\* A transaction keeps what primary nodes granted it until it gives it back,
\* whatever comes late, unless it has a namesake (handle_lock_request,
\* handle_lock_release, LockManager::release and release_all).
THEOREM GrantsLast == Spec => []GrantsKept
<1>1. LockInv => GrantsKept
  BY Zenon DEF LockInv, GrantOK, GrantsKept
<1> QED
  BY <1>1, LockInvariant, PTL

\* A transaction that returned and has no namesake has no lock left on its own
\* node (release_all_locks, and release_all on the ways out of
\* acquire_all_locks).
THEOREM LocalLocksReturned == Spec => []ReturnedFreesLocal
<1>1. LockInv => ReturnedFreesLocal
  BY Zenon DEF LockInv, HeldOK, ReturnedFreesLocal
<1> QED
  BY <1>1, LockInvariant, PTL

\* Operations on local keys of a transaction without namesakes run under their
\* locks, whatever peers ask of the node (execute_with_distributed_support).
THEOREM LocalTwoPhase == Spec => AloneOpsLocked
<1> DEFINE locked == \A r \in Requests :
              Alone(r) /\ ExecLocal(r) => owner[CurrentOp(r).key] = TxId[r]
<1>1. LockInv => locked
  <2> SUFFICES ASSUME LockInv, NEW r \in Requests, Alone(r), ExecLocal(r)
               PROVE  owner[CurrentOp(r).key] = TxId[r]
    BY Zenon
  <2>1. phase[r] = "executing" /\ CurrentOp(r).key \in LocalKeys(r)
    BY Zenon DEF ExecLocal
  <2>2. HeldOK(r)
    BY Zenon DEF LockInv
  <2> QED
    BY <2>1, <2>2, Zenon DEF HeldOK, Holding
<1>2. LockInv /\ [Next]_vars => [locked]_vars
  BY <1>1, Zenon
<1>3. Spec => [][locked]_vars
  BY <1>2, LockInvariant, PTL DEF Spec
<1> QED
  BY <1>3 DEF AloneOpsLocked

------------------------------------------------------------------------------
(* Bounded transactions                                                    *)

\* A transaction that waits for an operation has one.
AwaitsOp == \A r \in Requests : phase[r] = "op_wait" => HasOp(r)

\* A step that moves only r, and moves it nearer.
Moves(r) == TxNearer(r) /\ \A s \in Requests \ {r} : TxKept(s)

\* A later phase is entered.
LEMMA PhaseMoves ==
  ASSUME DistTypeOK, AwaitsOp, NEW r \in Requests,
         NEW p \in Phases, NEW q \in Phases, phase[r] = p,
         phase' = [phase EXCEPT ![r] = q],
         \/ p = "unborn" /\ q = "locking"
         \/ p = "locking"
            /\ q \in {"waiting", "executing", "aborted", "failed"}
         \/ p = "waiting" /\ q \in {"executing", "aborted", "failed"}
         \/ p = "executing" /\ q \in {"unwinding", "committed"}
         \/ p = "unwinding" /\ q = "failed",
         op_index' = op_index, \A s \in Requests \ {r} : to_lock'[s] = to_lock[s]
  PROVE  Moves(r) /\ AwaitsOp'
<1>1. phase \in [Requests -> Phases]
  BY Zenon DEF DistTypeOK
<1>2. PhasesLeft(r)' < PhasesLeft(r)
  BY <1>1 DEF PhasesLeft, Answered
<1>3. \A s \in Requests \ {r} : TxKept(s)
  BY <1>1, Zenon DEF TxKept
<1>4. \A s \in Requests : phase'[s] = "op_wait" => HasOp(s)'
  BY <1>1, Zenon DEF AwaitsOp, HasOp
<1> QED
  BY <1>2, <1>3, <1>4, Zenon DEF Moves, TxNearer, AwaitsOp

\* An operation is begun, or done with.
LEMMA OpMoves ==
  ASSUME DistTypeOK, AwaitsOp, NEW r \in Requests, HasOp(r), UNCHANGED to_lock,
         \/ /\ phase[r] = "executing" /\ phase' = [phase EXCEPT ![r] = "op_wait"]
            /\ UNCHANGED op_index
         \/ /\ phase[r] = "executing" /\ UNCHANGED phase /\ Advance(r)
         \/ /\ phase[r] = "op_wait" /\ phase' = [phase EXCEPT ![r] = "executing"]
            /\ Advance(r)
  PROVE  Moves(r) /\ AwaitsOp'
<1>1. /\ phase \in [Requests -> Phases] /\ op_index \in [Requests -> Nat]
      /\ op_index[r] \in Nat /\ op_index[r] <= Len(Txn[r]) /\ Len(Txn[r]) \in Nat
  BY DistributedAssumption DEF DistTypeOK, HasOp
<1>2. PhasesLeft(r)' = PhasesLeft(r)
  BY <1>1 DEF PhasesLeft, Answered
<1>3. OpStepsLeft(r)' \in 0 .. OpStepsLeft(r) - 1
  <2>1. PICK d \in Nat : d = Len(Txn[r]) - op_index[r]
    BY <1>1
  <2>2. Len(Txn[r]) + 1 - op_index[r] = d + 1
    BY <1>1, <2>1
  <2>3. CASE phase'[r] = "op_wait"
    <3>1. phase[r] = "executing" /\ op_index'[r] = op_index[r]
      BY <1>1, <2>3, Zenon
    <3>2. OpStepsLeft(r) = 2 * (d + 1) + 1 /\ OpStepsLeft(r)' = 2 * (d + 1) + 0
      BY <2>2, <2>3, <3>1, Zenon DEF OpStepsLeft
    <3> QED
      BY <3>2
  <2>4. CASE phase'[r] # "op_wait"
    <3>1. op_index'[r] = op_index[r] + 1
      BY <1>1, <2>4, Zenon DEF Advance
    <3>2. Len(Txn[r]) + 1 - op_index'[r] = d
      BY <1>1, <2>1, <3>1
    <3>3. OpStepsLeft(r)' = 2 * d + 1
      BY <2>4, <3>2, Zenon DEF OpStepsLeft
    <3>4. OpStepsLeft(r) \in {2 * (d + 1), 2 * (d + 1) + 1}
      BY <2>2 DEF OpStepsLeft
    <3> QED
      BY <3>3, <3>4
  <2> QED
    BY <2>3, <2>4, Zenon
<1>4. \A s \in Requests \ {r} : TxKept(s)
  BY <1>1, Zenon DEF TxKept, Advance
<1>5. \A s \in Requests : phase'[s] = "op_wait" => HasOp(s)'
  BY <1>1, Zenon DEF AwaitsOp, HasOp, Advance
<1> QED
  BY <1>2, <1>3, <1>4, <1>5, Zenon DEF Moves, TxNearer, AwaitsOp

\* Every step of a coordinating thread moves its transaction nearer.
LEMMA TxMoves ==
  ASSUME DistTypeOK, AwaitsOp, NEW r \in Requests, Begin(r) \/ TxStep(r)
  PROVE  Moves(r) /\ AwaitsOp'
<1> DEFINE Goal == Moves(r) /\ AwaitsOp'
<1>0. to_lock \in [Requests -> SUBSET Keys]
  BY Zenon DEF DistTypeOK
<1> USE DEF EnterPhase, opVars, Phases
<1>1. CASE Begin(r)
  <2>1. \A s \in Requests \ {r} : to_lock'[s] = to_lock[s]
    BY <1>0, <1>1, Zenon DEF Begin
  <2> QED
    BY <1>1, <2>1, PhaseMoves, Zenon DEF Begin
<1>2. CASE LockLocal(r)
  <2>1. PICK k \in to_lock[r] : to_lock' = [to_lock EXCEPT ![r] = @ \ {k}]
    BY <1>2, Zenon DEF LockLocal
  <2>2. UNCHANGED <<phase, op_index>>
    BY <1>2, Zenon DEF LockLocal
  <2>3. to_lock'[r] \subseteq to_lock[r] /\ to_lock'[r] # to_lock[r]
    BY <1>0, <2>1
  <2>4. PhasesLeft(r)' = PhasesLeft(r)
    BY <2>2 DEF PhasesLeft
  <2>5. \A s \in Requests \ {r} : TxKept(s)
    BY <1>0, <2>1, <2>2, Zenon DEF TxKept
  <2>6. \A s \in Requests : phase'[s] = "op_wait" => HasOp(s)'
    BY <2>2, Zenon DEF AwaitsOp, HasOp
  <2> QED
    BY <2>3, <2>4, <2>5, <2>6, Zenon DEF Moves, TxNearer, AwaitsOp
<1>3. CASE LocalRefused(r) \/ LocalThrew(r)
  BY <1>3, PhaseMoves, Zenon DEF LocalRefused, LocalThrew
<1>4. CASE AskRemote(r) \/ AskRemoteThrows(r)
  BY <1>4, PhaseMoves, Zenon DEF AskRemote, AskRemoteThrows, AskFor
<1>5. CASE AllLocked(r)
  BY <1>5, PhaseMoves, Zenon DEF AllLocked
<1>6. CASE LockTimeout(r) \/ LockTimeoutThrows(r)
  BY <1>6, PhaseMoves, Zenon DEF LockTimeout, LockTimeoutThrows
<1>7. CASE ExecLocal(r) \/ SendOp(r) \/ SendOpThrows(r)
  BY <1>7, OpMoves, Zenon DEF ExecLocal, SendOp, SendOpThrows, NoteOp
<1>8. CASE OpAnswered(r) \/ OpTimeout(r)
  <2>1. phase[r] = "op_wait" => HasOp(r)
    BY DEF AwaitsOp
  <2> QED
    BY <1>8, <2>1, OpMoves, Zenon DEF OpAnswered, OpTimeout
<1>9. CASE Finish(r) \/ FinishThrows(r)
  BY <1>9, PhaseMoves, Zenon DEF Finish, FinishThrows, Finishing,
     ReleaseAllLocks
<1>10. CASE Unwind(r)
  BY <1>10, PhaseMoves, Zenon DEF Unwind, ReleaseAllLocks
<1> QED
  BY <1>1, <1>2, <1>3, <1>4, <1>5, <1>6, <1>7, <1>8, <1>9, <1>10, Zenon
  DEF TxStep

\* Handlers and losses move no transaction.
LEMMA OthersMoveNone ==
  ASSUME Lose \/ \E m \in net : handle_peer_message(m)
  PROVE  UNCHANGED <<phase, to_lock, op_index>>
BY Zenon DEF Lose, handle_peer_message, HandlerThrows, HandleLockRequest,
   HandleLockResponse, HandleLockRelease, HandleOpRequest, HandleOpResponse,
   txVars, opVars
\* Under every fault, and also when ids collide, each transaction of a cluster
\* is answered after a bounded number of steps of its thread, whatever peers
\* and the network do; an answered one does not move again.
THEOREM TransactionsBounded == Spec => BoundedTransactions
<1> DEFINE Bounded == \A r \in Requests : /\ TxStep(r) => TxNearer(r)
                                          /\ TxNearer(r) \/ TxKept(r)
<1>1. Init => AwaitsOp
  BY Zenon DEF Init, AwaitsOp
<1>2. ASSUME UNCHANGED <<phase, to_lock, op_index>>
      PROVE  (\A r \in Requests : TxKept(r)) /\ (AwaitsOp => AwaitsOp')
  BY <1>2, Zenon DEF TxKept, AwaitsOp, HasOp
<1>3. ASSUME DistTypeOK, AwaitsOp, Next
      PROVE  AwaitsOp' /\ \A r \in Requests : TxNearer(r) \/ TxKept(r)
  <2>1. ASSUME NEW r \in Requests, Begin(r) \/ TxStep(r)
        PROVE  AwaitsOp' /\ \A s \in Requests : TxNearer(s) \/ TxKept(s)
    BY <1>3, <2>1, TxMoves, Zenon DEF Moves
  <2>2. CASE Lose \/ \E m \in net : handle_peer_message(m)
    BY <1>2, <1>3, <2>2, OthersMoveNone
  <2> QED
    BY <1>3, <2>1, <2>2, Zenon DEF Next
<1>4. ASSUME DistTypeOK, AwaitsOp, NEW r \in Requests, TxStep(r)
      PROVE  TxNearer(r)
  BY <1>4, TxMoves DEF Moves
<1>5. DistTypeOK /\ AwaitsOp /\ [Next]_vars => AwaitsOp'
  BY <1>2, <1>3 DEF vars, txVars, opVars
<1>6. DistTypeOK /\ AwaitsOp /\ [Next]_vars => [Bounded]_vars
  BY <1>3, <1>4
<1> QED
  BY <1>1, <1>5, <1>6, ClusterTypeCorrect, PTL DEF Spec, BoundedTransactions
==============================================================================
