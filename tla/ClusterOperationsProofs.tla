----------------------- MODULE ClusterOperationsProofs -----------------------
(***************************************************************************)
(* What a cluster does with operations, whatever the network does: no      *)
(* append is executed twice, and no result is made up.                     *)
(***************************************************************************)
EXTENDS DistributedSchedulerProofs

------------------------------------------------------------------------------
(* Appends happen at most once.                                            *)

\* What an append does to a list.
LEMMA ListAppend ==
  ASSUME NEW list \in Seq(Int), NEW v \in Int
  PROVE  /\ Append(list, v) \in Seq(Int)
         /\ Has(Append(list, v), v)
         /\ ~Has(list, v) => Once(Append(list, v), v)
         /\ \A w : Has(list, w) => Has(Append(list, v), w)
         /\ \A w : w # v /\ Has(Append(list, v), w) => Has(list, w)
         /\ \A w : w # v /\ Once(list, w) => Once(Append(list, v), w)
<1>1. /\ Append(list, v) \in Seq(Int)
      /\ DOMAIN Append(list, v) = DOMAIN list \cup {Len(list) + 1}
      /\ Len(list) + 1 \notin DOMAIN list
      /\ \A i \in DOMAIN list : Append(list, v)[i] = list[i]
      /\ Append(list, v)[Len(list) + 1] = v
  OBVIOUS
<1> QED
  BY <1>1 DEF Has, Once

\* The operation was sent or executed.
Begun(r, j) == op_index[r] > j \/ (op_index[r] = j /\ phase[r] = "op_wait")

UnderWay(op) == \E m \in net : m.type = "op_req" /\ m.body = op

InStore(op) == Has(store[op.key], op.value)

\* An append is on its way or done, never both, and neither before its turn.
AppendOK(r, j) ==
  LET op == Txn[r][j] IN
    ~IsRead(op) =>
      /\ Once(store[op.key], op.value)
      /\ UnderWay(op) => ~InStore(op)
      /\ UnderWay(op) \/ InStore(op) => Begun(r, j)

OnceInv ==
  /\ \A k \in Keys : store[k] \in Seq(Int)
  /\ \A r \in Requests : \A j \in DOMAIN Txn[r] : AppendOK(r, j)
  /\ \A m, o \in net :
       /\ m.type = "op_req" /\ o.type = "op_req"
       /\ m.body = o.body /\ ~IsRead(m.body)
       => m = o
  /\ \A r \in Requests :
       phase[r] \in {"unborn", "locking", "waiting", "aborted"} => op_index[r] = 1

\* Transactions consist of operations, each of its own effect.
LEMMA TxnOps ==
  ASSUME NEW r \in Requests, NEW j \in DOMAIN Txn[r]
  PROVE  /\ j \in Nat \ {0} /\ Txn[r][j] \in Op(Keys)
         /\ Txn[r][j].key \in Keys /\ Txn[r][j].value \in Int
<1>1. Txn[r] \in Seq(Op(Keys))
  BY DistributedAssumption
<1>2. \A o \in Op(Keys) : o.key \in Keys /\ o.value \in Int
  BY DEF Op
<1> QED
  BY <1>1, <1>2

\* Two appends that differ, differ in the key or in the value.
LEMMA AppendsDiffer ==
  ASSUME NEW o \in Op(Keys), NEW p \in Op(Keys), ~IsRead(o), ~IsRead(p),
         o.key = p.key, o.value = p.value
  PROVE  o = p
BY DEF Op, IsRead

\* What executing an operation does to the lists.
LEMMA ExecuteEffect ==
  ASSUME DOMAIN store = Keys, \A k \in Keys : store[k] \in Seq(Int),
         NEW op \in Op(Keys), Execute(op)
  PROVE  /\ DOMAIN store' = Keys /\ \A k \in Keys : store'[k] \in Seq(Int)
         /\ \A p \in Op(Keys) : InStore(p) => InStore(p)'
         /\ IsRead(op) => store' = store
         /\ ~IsRead(op) => InStore(op)'
         /\ ~IsRead(op) /\ ~InStore(op) => Once(store'[op.key], op.value)
         /\ \A p \in Op(Keys) : ~IsRead(p) /\ p # op =>
              /\ InStore(p)' => InStore(p)
              /\ Once(store[p.key], p.value) => Once(store'[p.key], p.value)
<1>1. op.key \in Keys /\ op.value \in Int
  BY DEF Op
<1>2. CASE IsRead(op)
  BY <1>2 DEF Execute, InStore
<1>3. CASE ~IsRead(op)
  <2>1. store' = [store EXCEPT ![op.key] = Append(store[op.key], op.value)]
    BY <1>3 DEF Execute, StoreAppend
  <2>2. /\ DOMAIN store' = Keys
        /\ store'[op.key] = Append(store[op.key], op.value)
        /\ \A k \in Keys \ {op.key} : store'[k] = store[k]
    BY <1>1, <2>1
  <2>3. store[op.key] \in Seq(Int)
    BY <1>1
  <2>4. /\ store'[op.key] \in Seq(Int)
        /\ Has(store'[op.key], op.value)
        /\ ~Has(store[op.key], op.value) => Once(store'[op.key], op.value)
        /\ \A w : Has(store[op.key], w) => Has(store'[op.key], w)
        /\ \A w : w # op.value /\ Has(store'[op.key], w) => Has(store[op.key], w)
        /\ \A w : w # op.value /\ Once(store[op.key], w)
                  => Once(store'[op.key], w)
    BY <1>1, <2>2, <2>3, ListAppend
  <2>5. ASSUME NEW p \in Op(Keys)
        PROVE  /\ InStore(p) => InStore(p)'
               /\ ~IsRead(p) /\ p # op =>
                    /\ InStore(p)' => InStore(p)
                    /\ Once(store[p.key], p.value) => Once(store'[p.key], p.value)
    <3>1. p.key \in Keys
      BY DEF Op
    <3>2. CASE p.key # op.key
      BY <2>2, <3>1, <3>2 DEF InStore
    <3>3. CASE p.key = op.key
      <4>1. ~IsRead(p) /\ p # op => p.value # op.value
        BY <1>3, <3>3, AppendsDiffer
      <4> QED
        BY <2>4, <3>3, <4>1, ZenonT(30) DEF InStore
    <3> QED
      BY <3>2, <3>3
  <2>6. /\ InStore(op)'
        /\ ~InStore(op) => Once(store'[op.key], op.value)
    BY <2>4 DEF InStore
  <2>7. \A k \in Keys : store'[k] \in Seq(Int)
    BY <2>2, <2>4, Zenon
  <2> QED
    BY <1>3, <2>2, <2>5, <2>6, <2>7
<1> QED
  BY <1>2, <1>3

\* A step that executes nothing, sends no operation and goes on to no earlier
\* one.
LEMMA OnceKept ==
  ASSUME MessageInv, OnceInv, store' = store,
         \A m \in net' : m.type = "op_req" => m \in net,
         \A r \in Requests : \A j \in DOMAIN Txn[r] : Begun(r, j) => Begun(r, j)',
         \A r \in Requests :
           phase'[r] \in {"unborn", "locking", "waiting", "aborted"} =>
             op_index'[r] = 1
  PROVE  OnceInv'
<1>1. \A op : UnderWay(op)' => UnderWay(op)
  BY DEF UnderWay
<1>2. \A op : InStore(op)' <=> InStore(op)
  BY DEF InStore
<1>3. ASSUME NEW r \in Requests, NEW j \in DOMAIN Txn[r] PROVE AppendOK(r, j)'
  <2>1. AppendOK(r, j) /\ (Begun(r, j) => Begun(r, j)')
    BY DEF OnceInv
  <2> QED
    BY <1>1, <1>2, <2>1, Zenon DEF AppendOK
<1> QED
  BY <1>3 DEF OnceInv

\* An operation is executed, on its own node or on the primary's.
LEMMA OnceExecuted ==
  ASSUME MessageInv, OnceInv, UniqueValues,
         NEW r \in Requests, NEW j \in DOMAIN Txn[r], Execute(Txn[r][j]),
         ~IsRead(Txn[r][j]) => ~InStore(Txn[r][j]) /\ ~UnderWay(Txn[r][j])',
         \A m \in net' : m.type = "op_req" => m \in net,
         \A s \in Requests : \A i \in DOMAIN Txn[s] : Begun(s, i) => Begun(s, i)',
         Begun(r, j)',
         \A s \in Requests :
           phase'[s] \in {"unborn", "locking", "waiting", "aborted"} =>
             op_index'[s] = 1
  PROVE  OnceInv'
<1> DEFINE op == Txn[r][j]
<1>1. op \in Op(Keys)
  BY TxnOps
<1>2. CASE IsRead(op)
  <2>1. store' = store
    BY <1>2 DEF Execute
  <2> QED
    BY <2>1, OnceKept
<1>3. CASE ~IsRead(op)
  <2>1. /\ \A k \in Keys : store'[k] \in Seq(Int)
        /\ InStore(op)' /\ Once(store'[op.key], op.value)
        /\ \A p \in Op(Keys) : ~IsRead(p) /\ p # op =>
             /\ InStore(p)' => InStore(p)
             /\ Once(store[p.key], p.value) => Once(store'[p.key], p.value)
    <3>1. DOMAIN store = Keys /\ \A k \in Keys : store[k] \in Seq(Int)
      BY Zenon DEF MessageInv, DistTypeOK, OnceInv
    <3> HIDE DEF op
    <3>2. Execute(op) /\ ~InStore(op)
      BY <1>3, Zenon DEF op
    <3> QED
      BY <1>1, <1>3, <3>1, <3>2, ExecuteEffect, ZenonT(30)
  <2>2. \A p : UnderWay(p)' => UnderWay(p)
    BY DEF UnderWay
  <2>3. ASSUME NEW s \in Requests, NEW i \in DOMAIN Txn[s]
        PROVE  AppendOK(s, i)'
    <3>1. CASE Txn[s][i] = op
      <4>1. s = r /\ i = j
        BY <1>3, <3>1, ZenonT(30) DEF UniqueValues
      <4> QED
        BY <1>3, <2>1, <4>1, Zenon DEF AppendOK
    <3>2. CASE Txn[s][i] # op
      <4>1. AppendOK(s, i) /\ (Begun(s, i) => Begun(s, i)')
        BY Zenon DEF OnceInv
      <4>2. Txn[s][i] \in Op(Keys)
        BY TxnOps, Zenon
      <4> HIDE DEF op
      <4> QED
        BY <2>1, <2>2, <3>2, <4>1, <4>2, Zenon DEF AppendOK
    <3> QED
      BY <3>1, <3>2
  <2> QED
    BY <2>1, <2>3, Zenon DEF OnceInv
<1> QED
  BY <1>2, <1>3

\* A transaction sends its next operation.
LEMMA OnceSent ==
  ASSUME MessageInv, OnceInv, UniqueValues, NEW r \in Requests, SendOp(r)
  PROVE  OnceInv'
<1>a. PICK j, op : j = op_index[r] /\ op = CurrentOp(r)
  OBVIOUS
<1>1. /\ phase[r] = "executing" /\ HasOp(r) /\ {op.key} \in SUBSET RemoteKeys(r)
      /\ net' = net \cup ToPrimaries("op_req", r, {op.key}, op)
      /\ phase' = [phase EXCEPT ![r] = "op_wait"]
      /\ UNCHANGED <<op_index, store>>
  BY <1>a DEF SendOp, NoteOp, EnterPhase
<1>2. j \in DOMAIN Txn[r] /\ op = Txn[r][j] /\ j \in Nat
  BY <1>1, <1>a, TheOp, TxnOps, ZenonT(30) DEF CurrentOp
<1>3. phase \in [Requests -> Phases] /\ op_index \in [Requests -> Nat \ {0}]
  BY DEF MessageInv, DistTypeOK
<1>4. PICK o : net' = net \cup {o} /\ o.type = "op_req" /\ o.body = op
  <2> DEFINE o == Message("op_req", Origin[r], Primary(op.key), TxId[r], op.key, op)
  <2>1. ToPrimaries("op_req", r, {op.key}, op) = {o}
    BY DEF ToPrimaries
  <2>2. o.type = "op_req" /\ o.body = op
    BY Zenon DEF Message
  <2> QED
    BY <1>1, <2>1, <2>2
<1>5. ~Begun(r, j)
  BY <1>1, <1>2, <1>a DEF Begun
<1>6. ~IsRead(op) => ~UnderWay(op) /\ ~InStore(op)
  BY <1>2, <1>5, ZenonT(30) DEF OnceInv, AppendOK
<1>7. Begun(r, j)'
  BY <1>1, <1>3, <1>a DEF Begun
<1>8. \A s \in Requests : \A i \in DOMAIN Txn[s] : Begun(s, i) => Begun(s, i)'
  BY <1>1, <1>3 DEF Begun
<1>9. \A p : InStore(p)' <=> InStore(p)
  BY <1>1 DEF InStore
<1>10. \A p : p # op /\ UnderWay(p)' => UnderWay(p)
  BY <1>4 DEF UnderWay
<1>11. ASSUME NEW s \in Requests, NEW i \in DOMAIN Txn[s] PROVE AppendOK(s, i)'
  <2>1. AppendOK(s, i) /\ (Begun(s, i) => Begun(s, i)')
    BY <1>8 DEF OnceInv
  <2>2. CASE Txn[s][i] = op
    <3>1. ~IsRead(op) => s = r /\ i = j
      BY <1>2, <2>2 DEF UniqueValues
    <3>2. ~IsRead(op) => Begun(s, i)' /\ ~InStore(op)'
      BY <1>6, <1>7, <1>9, <3>1
    <3>3. ~IsRead(op) => Once(store'[op.key], op.value)
      BY <1>1, <2>1, <2>2, Zenon DEF AppendOK
    <3> QED
      BY <2>2, <3>2, <3>3 DEF AppendOK
  <2>3. CASE Txn[s][i] # op
    BY <1>1, <1>9, <1>10, <2>1, <2>3, ZenonT(30) DEF AppendOK
  <2> QED
    BY <2>2, <2>3
<1>12. ASSUME NEW m \in net', NEW q \in net', m.type = "op_req",
              q.type = "op_req", m.body = q.body, ~IsRead(m.body)
       PROVE  m = q
  <2>1. CASE m.body = op
    BY <1>4, <1>6, <1>12, <2>1, Zenon DEF UnderWay
  <2>2. CASE m.body # op
    BY <1>4, <1>12, <2>2, ZenonT(30) DEF OnceInv
  <2> QED
    BY <2>1, <2>2
<1>13. \A s \in Requests :
         phase'[s] \in {"unborn", "locking", "waiting", "aborted"} =>
           op_index'[s] = 1
  BY <1>1, <1>3 DEF OnceInv
<1> QED
  BY <1>1, <1>11, <1>12, <1>13, Zenon DEF OnceInv

\* A handler executes an operation that was under way.
LEMMA OnceHandled ==
  ASSUME MessageInv, OnceInv, UniqueValues, NEW m \in net, HandleOpRequest(m)
  PROVE  OnceInv'
<1>1. PICK r \in Requests : FromTx(m, r)
  BY DEF MessageInv, NetShape
<1>2. m.type = "op_req" /\ Execute(m.body) /\ UNCHANGED <<phase, op_index>>
  BY DEF HandleOpRequest, txVars, opVars
<1>3. PICK j \in DOMAIN Txn[r] : m.body = Txn[r][j]
  BY <1>1, <1>2, Zenon DEF FromTx
<1>4. PICK o : net' = (net \ {m}) \cup {o} /\ o.type = "op_resp"
  <2>1. PICK result : net' = (net \ {m}) \cup {Response("op_resp", m, result)}
    BY DEF HandleOpRequest
  <2>2. Response("op_resp", m, result).type = "op_resp"
    BY DEF Response, Message
  <2> QED
    BY <2>1, <2>2
<1>5. UnderWay(m.body) /\ AppendOK(r, j)
  BY <1>2, <1>3, Zenon DEF UnderWay, OnceInv
<1>6. ~IsRead(m.body) => ~InStore(m.body) /\ Begun(r, j)
  BY <1>3, <1>5, Zenon DEF AppendOK
<1>7. ~IsRead(m.body) => ~UnderWay(m.body)'
  BY <1>2, <1>4, Zenon DEF UnderWay, OnceInv
<1>8. /\ \A q \in net' : q.type = "op_req" => q \in net
      /\ \A s \in Requests : \A i \in DOMAIN Txn[s] : Begun(s, i)' <=> Begun(s, i)
      /\ \A s \in Requests :
           phase'[s] \in {"unborn", "locking", "waiting", "aborted"} =>
             op_index'[s] = 1
  BY <1>2, <1>4, Zenon DEF Begun, OnceInv
<1>9. CASE IsRead(m.body)
  <2>1. store' = store
    BY <1>2, <1>9 DEF Execute
  <2> QED
    BY <1>8, <2>1, OnceKept, Zenon
<1>10. CASE ~IsRead(m.body)
  BY <1>2, <1>3, <1>6, <1>7, <1>8, <1>10, OnceExecuted, ZenonT(30)
<1> QED
  BY <1>9, <1>10

\* Every step keeps appends from happening twice.
LEMMA OnceStep ==
  ASSUME UniqueValues PROVE MessageInv /\ OnceInv /\ [Next]_vars => OnceInv'
<1> SUFFICES ASSUME MessageInv, OnceInv, [Next]_vars PROVE OnceInv'
  OBVIOUS
<1> DEFINE early == {"unborn", "locking", "waiting", "aborted"}
<1>a. phase \in [Requests -> Phases] /\ op_index \in [Requests -> Nat \ {0}]
  BY DEF MessageInv, DistTypeOK
<1>b. \A r \in Requests : phase[r] \in early => op_index[r] = 1
  BY DEF OnceInv
<1>c. \A r \in Requests : \A j \in DOMAIN Txn[r] : j \in Nat
  BY TxnOps
<1>1. ASSUME OpsAside PROVE OnceInv'
  <2>1. \A m \in net' : m.type = "op_req" => m \in net
    BY <1>1 DEF OpsAside, OpTypes
  <2>2. \A r \in Requests : PhaseAside(r) /\ op_index'[r] = op_index[r]
    BY <1>1 DEF OpsAside
  <2>3. \A r \in Requests : \A j \in DOMAIN Txn[r] : Begun(r, j) => Begun(r, j)'
    BY <2>2, Zenon DEF Begun, PhaseAside
  <2>4. \A r \in Requests : phase'[r] \in early => op_index'[r] = 1
    BY <1>b, <2>2, Zenon DEF PhaseAside
  <2> QED
    BY <1>1, <2>1, <2>3, <2>4, OnceKept, ZenonT(30) DEF OpsAside
<1>2. ASSUME NEW r \in Requests, Advance(r), phase[r] \in {"executing", "op_wait"},
             phase' = [phase EXCEPT ![r] = "executing"]
      PROVE  /\ \A s \in Requests : \A j \in DOMAIN Txn[s] :
                  Begun(s, j) => Begun(s, j)'
             /\ \A s \in Requests : phase'[s] \in early => op_index'[s] = 1
             /\ \A j : j = op_index[r] => Begun(r, j)'
  <2>1. op_index' = [op_index EXCEPT ![r] = op_index[r] + 1]
    BY <1>2 DEF Advance
  <2>2. \A s \in Requests : \A j \in DOMAIN Txn[s] : Begun(s, j) => Begun(s, j)'
    BY <1>2, <1>a, <1>c, <2>1 DEF Begun
  <2>3. \A s \in Requests : phase'[s] \in early => op_index'[s] = 1
    BY <1>2, <1>a, <1>b, <2>1
  <2>4. \A j : j = op_index[r] => Begun(r, j)'
    <3>1. op_index'[r] > op_index[r]
      BY <1>a, <2>1
    <3> QED
      BY <3>1, Zenon DEF Begun
  <2> QED
    BY <2>2, <2>3, <2>4, Zenon
<1>3. ASSUME NEW r \in Requests, OpStep(r) PROVE OnceInv'
  <2>1. CASE ExecLocal(r)
    <3>a. PICK j, op : j = op_index[r] /\ op = CurrentOp(r)
      OBVIOUS
    <3>1. /\ HasOp(r) /\ Execute(op) /\ Advance(r) /\ net' = net
          /\ phase[r] = "executing" /\ phase' = phase
      BY <2>1, <3>a, Zenon DEF ExecLocal, Execute
    <3>2. phase' = [phase EXCEPT ![r] = "executing"]
      BY <1>a, <3>1
    <3>3. j \in DOMAIN Txn[r] /\ op = Txn[r][j]
      BY <3>1, <3>a, TheOp, ZenonT(30) DEF CurrentOp
    <3>4. ~Begun(r, j)
      BY <1>a, <3>1, <3>a DEF Begun
    <3>5. ~IsRead(op) => ~InStore(op) /\ ~UnderWay(op)
      BY <3>3, <3>4, Zenon DEF OnceInv, AppendOK
    <3>6. UnderWay(op)' <=> UnderWay(op)
      BY <3>1 DEF UnderWay
    <3>7. /\ \A s \in Requests : \A i \in DOMAIN Txn[s] :
               Begun(s, i) => Begun(s, i)'
          /\ Begun(r, j)'
          /\ \A s \in Requests : phase'[s] \in early => op_index'[s] = 1
      BY <1>2, <3>1, <3>2, <3>a, Zenon
    <3>8. /\ Execute(Txn[r][j])
          /\ ~IsRead(Txn[r][j]) =>
               ~InStore(Txn[r][j]) /\ ~UnderWay(Txn[r][j])'
          /\ \A m \in net' : m.type = "op_req" => m \in net
      BY <3>1, <3>3, <3>5, <3>6, Zenon
    <3> QED
      BY <3>3, <3>7, <3>8, OnceExecuted, ZenonT(30)
  <2>2. CASE SendOp(r)
    BY <2>2, OnceSent
  <2>3. CASE SendOpThrows(r) \/ OpAnswered(r) \/ OpTimeout(r)
    <3>1. /\ phase[r] \in {"executing", "op_wait"} /\ Advance(r)
          /\ phase' = [phase EXCEPT ![r] = "executing"]
          /\ UNCHANGED <<store, net>>
      BY <1>a, <2>3, ZenonT(30) DEF SendOpThrows, NoteOp, OpAnswered, OpTimeout, EnterPhase
    <3> QED
      BY <1>2, <3>1, OnceKept, Zenon
  <2> QED
    BY <1>3, <2>1, <2>2, <2>3 DEF OpStep
<1>4. ASSUME net' \subseteq net, UNCHANGED <<store, phase, op_index>>
      PROVE  OnceInv'
  BY <1>4, <1>b, OnceKept DEF Begun
<1>5. ASSUME NEW m \in net, HandleOpResponse(m) PROVE OnceInv'
  BY <1>4, <1>5 DEF HandleOpResponse, opVars
<1>6. ASSUME Lose \/ \E m \in net : HandlerThrows(m) PROVE OnceInv'
  BY <1>4, <1>6 DEF Lose, HandlerThrows, txVars, opVars
<1> QED
  BY <1>1, <1>3, <1>5, <1>6, OnceHandled, StepKinds

\* No append of a workload with unique values is executed twice, and none of an
\* aborted transaction is executed at all, whatever is lost, late, reordered or
\* thrown (execute_remote_operation sends a request once).
THEOREM AppendsOnce ==
  ASSUME UniqueValues PROVE Spec => []AppendsAtMostOnce
<1>1. Init => OnceInv
  <2> SUFFICES ASSUME Init PROVE OnceInv
    OBVIOUS
  <2>1. /\ store = [k \in Keys |-> <<>>] /\ net = {}
        /\ store \in [Keys -> Seq(Int)]
    BY DEF Init
  <2>2. /\ phase = [r \in Requests |-> "unborn"]
        /\ op_index = [r \in Requests |-> 1]
    BY Zenon DEF Init
  <2>3. \A k \in Keys : \A v : ~Has(store[k], v) /\ Once(store[k], v)
    BY <2>1 DEF Has, Once
  <2>4. ASSUME NEW r \in Requests, NEW j \in DOMAIN Txn[r] PROVE AppendOK(r, j)
    BY <2>1, <2>3, TxnOps, Zenon DEF AppendOK, InStore, UnderWay
  <2> QED
    BY <2>1, <2>2, <2>4 DEF OnceInv
<1>2. MessageInv /\ OnceInv => AppendsAtMostOnce
  <2> SUFFICES ASSUME OnceInv, NEW r \in Requests, NEW j \in DOMAIN Txn[r],
                      ~IsRead(Txn[r][j])
               PROVE  /\ Once(store[Txn[r][j].key], Txn[r][j].value)
                      /\ phase[r] = "aborted" =>
                           ~Has(store[Txn[r][j].key], Txn[r][j].value)
    BY Zenon DEF AppendsAtMostOnce
  <2> DEFINE op == Txn[r][j]
  <2>1. store[op.key] \in Seq(Int) /\ j \in Nat \ {0}
    BY TxnOps, Zenon DEF OnceInv
  <2>2. Once(store[op.key], op.value) /\ (InStore(op) => Begun(r, j))
    BY Zenon DEF OnceInv, AppendOK
  <2>3. phase[r] = "aborted" => ~InStore(op)
    <3>1. phase[r] = "aborted" => op_index[r] = 1 /\ phase[r] # "op_wait"
      BY Zenon DEF OnceInv
    <3>2. ~(1 > j)
      BY <2>1
    <3>3. phase[r] = "aborted" => ~(op_index[r] > j)
      BY <3>1, <3>2, Zenon
    <3> QED
      BY <2>2, <3>1, <3>3, Zenon DEF Begun
  <2> HIDE DEF op
  <2> QED
    BY <2>2, <2>3, Zenon DEF InStore, op
<1>3. MessageInv /\ OnceInv /\ [Next]_vars => (MessageInv /\ OnceInv)'
  BY OnceStep, MessageStep
<1> QED
  BY <1>1, <1>2, <1>3, MessageInit, PTL DEF Spec
------------------------------------------------------------------------------
(* Results are what lists had.                                             *)

Values == Seq(Int) \cup {Nullopt}
Entry == [key : Keys, value : Values, pos : Nat]

\* The list of key k had the value v, or was absent.
Old(v, k) ==
  v = Nullopt \/ \E n \in 0 .. Len(store[k]) : v = SubSeq(store[k], 1, n)

ListInv ==
  /\ \A k \in Keys : store[k] \in Seq(Int)
  /\ \A m \in net : m.type = "op_resp" => m.body \in Values /\ Old(m.body, m.key)
  /\ pending_ops \in [Requests -> SUBSET Keys]
  /\ remote_results \in [Requests -> [Keys -> Values \cup {NoResult}]]
  /\ \A r \in Requests : \A k \in Keys :
       remote_results[r][k] = NoResult \/ Old(remote_results[r][k], k)
  /\ results \in [Requests -> Seq(Entry)]
  /\ \A r \in Requests : \A i \in DOMAIN results[r] :
       Old(results[r][i].value, results[r][i].key)

\* The beginnings of a list are beginnings of the longer list.
LEMMA AppendPrefix ==
  ASSUME NEW list \in Seq(Int), NEW v \in Int, NEW n \in 0 .. Len(list)
  PROVE  /\ n \in 0 .. Len(Append(list, v))
         /\ SubSeq(Append(list, v), 1, n) = SubSeq(list, 1, n)
OBVIOUS

\* A list and the empty list are beginnings of it.
LEMMA ListPrefix ==
  ASSUME NEW list \in Seq(Int)
  PROVE  /\ Len(list) \in 0 .. Len(list) /\ list = SubSeq(list, 1, Len(list))
         /\ 0 \in 0 .. Len(list) /\ <<>> = SubSeq(list, 1, 0)
OBVIOUS

\* The entries of a list to which one is appended.
LEMMA AppendedEntries ==
  ASSUME NEW s \in Seq(Entry), NEW e \in Entry
  PROVE  /\ Append(s, e) \in Seq(Entry)
         /\ \A i \in DOMAIN Append(s, e) :
              Append(s, e)[i] = e \/ (i \in DOMAIN s /\ Append(s, e)[i] = s[i])
         /\ \A i \in DOMAIN s : i \in DOMAIN Append(s, e)
                                /\ Append(s, e)[i] = s[i]
         /\ \E i \in DOMAIN Append(s, e) : Append(s, e)[i] = e
<1>1. /\ Append(s, e) \in Seq(Entry)
      /\ DOMAIN Append(s, e) = DOMAIN s \cup {Len(s) + 1}
      /\ \A i \in DOMAIN s : Append(s, e)[i] = s[i]
      /\ Append(s, e)[Len(s) + 1] = e
  OBVIOUS
<1> QED
  BY <1>1, Zenon

\* Executing an operation makes nothing that a list had unhad.
LEMMA OldKept ==
  ASSUME DOMAIN store = Keys, \A k \in Keys : store[k] \in Seq(Int),
         NEW op \in Op(Keys), Execute(op)
  PROVE  /\ \A k \in Keys : store'[k] \in Seq(Int)
         /\ \A k \in Keys : \A v : Old(v, k) => Old(v, k)'
<1>1. \A k \in Keys : store'[k] \in Seq(Int)
  BY ExecuteEffect, Zenon
<1>2. op.key \in Keys /\ op.value \in Int
  BY DEF Op
<1>3. ASSUME NEW k \in Keys
      PROVE  \/ store'[k] = store[k]
             \/ \E v \in Int : store'[k] = Append(store[k], v)
  <2>1. CASE IsRead(op)
    BY <2>1, Zenon DEF Execute
  <2>2. CASE ~IsRead(op)
    <3>1. store' = [store EXCEPT ![op.key] = Append(store[op.key], op.value)]
      BY <1>2, <2>2, Zenon DEF Execute, StoreAppend
    <3> QED
      BY <1>2, <3>1, Zenon
  <2> QED
    BY <2>1, <2>2, Zenon
<1>4. ASSUME NEW k \in Keys, NEW v, Old(v, k) PROVE Old(v, k)'
  <2>1. CASE store'[k] = store[k]
    BY <1>4, <2>1, Zenon DEF Old
  <2>2. ASSUME NEW w \in Int, store'[k] = Append(store[k], w) PROVE Old(v, k)'
    <3>1. store[k] \in Seq(Int)
      BY Zenon
    <3>2. CASE v = Nullopt
      BY <3>2, Zenon DEF Old
    <3>3. ASSUME NEW n \in 0 .. Len(store[k]), v = SubSeq(store[k], 1, n)
          PROVE  Old(v, k)'
      <4>1. /\ n \in 0 .. Len(Append(store[k], w))
            /\ v = SubSeq(Append(store[k], w), 1, n)
        BY <3>1, <3>3, AppendPrefix, Zenon
      <4> QED
        BY <2>2, <4>1, Zenon DEF Old
    <3> QED
      BY <1>4, <3>2, <3>3, Zenon DEF Old
  <2> QED
    BY <1>3, <2>1, <2>2, Zenon
<1> QED
  BY <1>1, <1>4, Zenon

\* What a read finds is what the list has.
LEMMA GetIsOld ==
  ASSUME NEW k \in Keys, store[k] \in Seq(Int)
  PROVE  /\ StoreGet(store, k) \in Values /\ Old(StoreGet(store, k), k)
         /\ Old(<<>>, k)
BY ListPrefix, Zenon DEF StoreGet, Values, Old

\* Lists grow, and messages and results are added that lists had.
LEMMA ListsKept ==
  ASSUME ListInv, MessageInv, \A k \in Keys : store'[k] \in Seq(Int),
         \A k \in Keys : \A v : Old(v, k) => Old(v, k)',
         \A m \in net' : m.type = "op_resp" =>
           m \in net \/ (m.body \in Values /\ Old(m.body, m.key)'),
         pending_ops' \in [Requests -> SUBSET Keys],
         remote_results' \in [Requests -> [Keys -> Values \cup {NoResult}]],
         \A r \in Requests : \A k \in Keys :
           \/ remote_results'[r][k] = remote_results[r][k]
           \/ Old(remote_results[r][k], k)',
         results' \in [Requests -> Seq(Entry)],
         \A r \in Requests : \A i \in DOMAIN results'[r] :
           \/ i \in DOMAIN results[r] /\ results'[r][i] = results[r][i]
           \/ Old(results[r][i].value, results[r][i].key)'
  PROVE  ListInv'
<1>1. ASSUME NEW m \in net', m.type = "op_resp"
      PROVE  m.body \in Values /\ Old(m.body, m.key)'
  <2>1. CASE m \in net
    <3>1. PICK r \in Requests : FromTx(m, r)
      BY <2>1, Zenon DEF MessageInv, NetShape
    <3>2. m.key \in Keys
      BY <3>1, KeySplit, Zenon DEF FromTx
    <3> QED
      BY <1>1, <2>1, <3>2, Zenon DEF ListInv
  <2> QED
    BY <1>1, <2>1, Zenon
<1>2. ASSUME NEW r \in Requests, NEW k \in Keys
      PROVE  remote_results'[r][k] = NoResult \/ Old(remote_results[r][k], k)'
  BY Zenon DEF ListInv
<1>3. ASSUME NEW r \in Requests, NEW i \in DOMAIN results'[r]
      PROVE  Old(results[r][i].value, results[r][i].key)'
  <2>1. CASE i \in DOMAIN results[r] /\ results'[r][i] = results[r][i]
    <3>1. results[r] \in Seq(Entry)
      BY Zenon DEF ListInv
    <3>2. results[r][i] \in Entry
      BY <2>1, <3>1
    <3>3. results[r][i].key \in Keys /\ Old(results[r][i].value, results[r][i].key)
      BY <2>1, <3>2, Zenon DEF ListInv, Entry
    <3> QED
      BY <2>1, <3>3, Zenon
  <2> QED
    BY <1>3, <2>1, Zenon
<1> QED
  BY <1>1, <1>2, <1>3, Zenon DEF ListInv

\* The store stays as it is.
LEMMA StoreStill ==
  ASSUME ListInv, store' = store
  PROVE  /\ \A k \in Keys : store'[k] \in Seq(Int)
         /\ \A k \in Keys : \A v : Old(v, k) => Old(v, k)'
BY Zenon DEF ListInv, Old

\* A result is added to those of transaction r, which stands at an operation.
LEMMA ListPushed ==
  ASSUME ListInv, MessageInv, NEW r \in Requests, HasOp(r),
         NEW v \in Values, Push(r, v), NEW k, k = CurrentOp(r).key, Old(v, k)'
  PROVE  /\ results' \in [Requests -> Seq(Entry)]
         /\ \A s \in Requests : \A i \in DOMAIN results'[s] :
              \/ i \in DOMAIN results[s] /\ results'[s][i] = results[s][i]
              \/ Old(results[s][i].value, results[s][i].key)'
<1> DEFINE e == [key |-> CurrentOp(r).key, value |-> v, pos |-> op_index[r]]
<1>1. results \in [Requests -> Seq(Entry)] /\ results[r] \in Seq(Entry)
  BY Zenon DEF ListInv
<1>2. results' = [results EXCEPT ![r] = Append(results[r], e)]
  BY <1>1, Zenon DEF Push
<1>3. op_index[r] \in Nat /\ CurrentOp(r).key \in Keys
  BY TheOp, TxnOps, Zenon
<1>4. e \in Entry /\ e.value = v /\ e.key = k
  BY <1>3, Zenon DEF Entry
<1> HIDE DEF e
<1>5. /\ Append(results[r], e) \in Seq(Entry)
      /\ \A i \in DOMAIN Append(results[r], e) :
           \/ Append(results[r], e)[i] = e
           \/ i \in DOMAIN results[r] /\ Append(results[r], e)[i] = results[r][i]
  BY <1>1, <1>4, AppendedEntries, Zenon
<1>6. /\ results' \in [Requests -> Seq(Entry)]
      /\ results'[r] = Append(results[r], e)
      /\ \A s \in Requests \ {r} : results'[s] = results[s]
  BY <1>1, <1>2, <1>5, Zenon
<1>7. ASSUME NEW s \in Requests, NEW i \in DOMAIN results'[s]
      PROVE  \/ i \in DOMAIN results[s] /\ results'[s][i] = results[s][i]
             \/ Old(results[s][i].value, results[s][i].key)'
  BY <1>4, <1>5, <1>6, <1>7, Zenon
<1> QED
  BY <1>6, <1>7, Zenon

\* A transaction that waits for an operation has one on a remote key.
WaitInv ==
  \A r \in Requests : phase[r] = "op_wait" =>
    HasOp(r) /\ CurrentOp(r).key \in RemoteKeys(r)

\* Handlers do not change that, nor do steps aside of operations.
LEMMA WaitKept ==
  ASSUME WaitInv, op_index' = op_index,
         \A r \in Requests : phase'[r] = "op_wait" => phase[r] = "op_wait"
  PROVE  WaitInv'
BY LocalConstant, Zenon DEF WaitInv, HasOp, CurrentOp, RemoteKeys

\* Every step keeps it.
LEMMA WaitStep ==
  ASSUME MessageInv, WaitInv, [Next]_vars PROVE WaitInv'
<1>a. phase \in [Requests -> Phases] /\ op_index \in [Requests -> Nat \ {0}]
  BY Zenon DEF MessageInv, DistTypeOK
<1>1. CASE OpsAside
  BY <1>1, WaitKept, Zenon DEF OpsAside, PhaseAside
<1>2. ASSUME NEW r \in Requests, SendOp(r) PROVE WaitInv'
  <2>1. /\ HasOp(r) /\ CurrentOp(r).key \in RemoteKeys(r) /\ op_index' = op_index
        /\ \A s \in Requests \ {r} : phase'[s] = phase[s]
    BY <1>2, <1>a, Zenon DEF SendOp, NoteOp, EnterPhase
  <2> QED
    BY <2>1, LocalConstant, Zenon DEF WaitInv, HasOp, CurrentOp, RemoteKeys
<1>3. ASSUME NEW r \in Requests,
             \/ ExecLocal(r) \/ SendOpThrows(r) \/ OpAnswered(r) \/ OpTimeout(r)
      PROVE  WaitInv'
  <2>1. Advance(r) /\ \A s \in Requests \ {r} : phase'[s] = phase[s]
    BY <1>3, <1>a, Zenon DEF ExecLocal, SendOpThrows, NoteOp, OpAnswered,
       OpTimeout, EnterPhase
  <2>2. phase'[r] # "op_wait"
    BY <1>3, <1>a, Zenon DEF ExecLocal, SendOpThrows, NoteOp, OpAnswered,
       OpTimeout, EnterPhase
  <2>3. \A s \in Requests \ {r} : op_index'[s] = op_index[s]
    BY <1>a, <2>1, Zenon DEF Advance
  <2> QED
    BY <2>1, <2>2, <2>3, LocalConstant, Zenon
    DEF WaitInv, HasOp, CurrentOp, RemoteKeys
<1>4. CASE UNCHANGED <<phase, op_index>>
  BY <1>4, WaitKept, Zenon
<1>5. ASSUME NEW m \in net, \/ HandleOpRequest(m) \/ HandleOpResponse(m)
                            \/ HandlerThrows(m)
      PROVE  UNCHANGED <<phase, op_index>>
  BY <1>5, Zenon DEF HandleOpRequest, HandleOpResponse, HandlerThrows, txVars,
     opVars
<1>6. Lose => UNCHANGED <<phase, op_index>>
  BY Zenon DEF Lose, txVars, opVars
<1> QED
  BY <1>1, <1>2, <1>3, <1>4, <1>5, <1>6, StepKinds, Zenon DEF OpStep

\* Every step makes results only of what lists had.
LEMMA ListStep ==
  ASSUME MessageInv, WaitInv, ListInv, [Next]_vars PROVE ListInv'
<1>a. /\ DOMAIN store = Keys /\ \A k \in Keys : store[k] \in Seq(Int)
      /\ pending_ops \in [Requests -> SUBSET Keys]
      /\ remote_results \in [Requests -> [Keys -> Values \cup {NoResult}]]
      /\ results \in [Requests -> Seq(Entry)]
  BY Zenon DEF MessageInv, DistTypeOK, ListInv
<1>b. "op_req" # "op_resp"
  OBVIOUS
<1>1. ASSUME UNCHANGED <<results, pending_ops, remote_results, store>>,
             \A m \in net' : m.type = "op_resp" => m \in net
      PROVE  ListInv'
  BY <1>a, <1>1, StoreStill, ListsKept, Zenon
<1>2. CASE OpsAside
  BY <1>1, <1>2, Zenon DEF OpsAside, OpTypes
<1>3. ASSUME NEW r \in Requests, ExecLocal(r) PROVE ListInv'
  <2>1. PICK op : op = CurrentOp(r)
    OBVIOUS
  <2>2. /\ HasOp(r) /\ Execute(op) /\ UNCHANGED <<pending_ops, remote_results, net>>
        /\ IF IsRead(op) THEN Push(r, StoreGet(store, op.key))
           ELSE UNCHANGED results
    BY <1>3, <2>1, Zenon DEF ExecLocal, remoteVars, Execute
  <2>3. op \in Op(Keys) /\ op.key \in Keys
    BY <2>1, <2>2, TheOp, Zenon
  <2>4. /\ \A k \in Keys : store'[k] \in Seq(Int)
        /\ \A k \in Keys : \A v : Old(v, k) => Old(v, k)'
    BY <1>a, <2>2, <2>3, OldKept, Zenon
  <2>5. /\ results' \in [Requests -> Seq(Entry)]
        /\ \A s \in Requests : \A i \in DOMAIN results'[s] :
             \/ i \in DOMAIN results[s] /\ results'[s][i] = results[s][i]
             \/ Old(results[s][i].value, results[s][i].key)'
    <3>1. CASE IsRead(op)
      <4>1. PICK v : v = StoreGet(store, op.key)
        OBVIOUS
      <4>2. v \in Values /\ Old(v, op.key) /\ Push(r, v)
        BY <1>a, <2>2, <2>3, <3>1, <4>1, GetIsOld, Zenon
      <4>3. PICK k : k = op.key
        OBVIOUS
      <4>4. Old(v, k)' /\ k = CurrentOp(r).key
        BY <2>1, <2>3, <2>4, <4>2, <4>3, Zenon
      <4> QED
        BY <2>2, <4>2, <4>4, ListPushed, Zenon
    <3>2. CASE ~IsRead(op)
      BY <1>a, <2>2, <3>2, Zenon
    <3> QED
      BY <3>1, <3>2, Zenon
  <2> QED
    BY <1>a, <2>2, <2>4, <2>5, ListsKept, Zenon
<1>4. ASSUME NEW r \in Requests, SendOp(r) PROVE ListInv'
  <2>1. PICK op : op = CurrentOp(r)
    OBVIOUS
  <2>2. /\ HasOp(r) /\ op.key \in RemoteKeys(r)
        /\ net' = net \cup ToPrimaries("op_req", r, {op.key}, op)
        /\ pending_ops' = [pending_ops EXCEPT ![r] = pending_ops[r] \cup {op.key}]
        /\ UNCHANGED <<results, remote_results, store>>
    BY <1>4, <1>a, <2>1, Zenon DEF SendOp, NoteOp
  <2>3. op.key \in Keys /\ \E j \in DOMAIN Txn[r] : op = Txn[r][j]
    BY <2>1, <2>2, TheOp, Zenon DEF CurrentOp
  <2>4. OneRequest(r, op)
    BY <2>2, <2>3, OpSentShape, Zenon
  <2>5. \A m \in net' : m.type = "op_resp" => m \in net
    BY <1>b, <2>2, <2>4, Zenon DEF OneRequest
  <2>6. pending_ops' \in [Requests -> SUBSET Keys]
    BY <1>a, <2>2, <2>3, Zenon
  <2> QED
    BY <1>a, <2>2, <2>5, <2>6, StoreStill, ListsKept, Zenon
<1>5. ASSUME NEW r \in Requests, SendOpThrows(r) \/ OpTimeout(r) PROVE ListInv'
  <2>1. PICK op : op = CurrentOp(r)
    OBVIOUS
  <2>2. /\ HasOp(r)
        /\ \/ pending_ops' = [pending_ops EXCEPT ![r] =
                                pending_ops[r] \cup {op.key}]
           \/ pending_ops' = [pending_ops EXCEPT ![r] = pending_ops[r] \ {op.key}]
        /\ UNCHANGED <<results, remote_results, store, net>>
    BY <1>5, <1>a, <2>1, Zenon DEF SendOpThrows, NoteOp, OpTimeout, WaitInv
  <2>3. op.key \in Keys
    BY <2>1, <2>2, TheOp, Zenon
  <2>4. pending_ops' \in [Requests -> SUBSET Keys]
    <3>1. pending_ops[r] \cup {op.key} \in SUBSET Keys
      BY <1>a, <2>3, Zenon
    <3>2. pending_ops[r] \ {op.key} \in SUBSET Keys
      BY <1>a, Zenon
    <3>3. PICK left \in SUBSET Keys :
            pending_ops' = [pending_ops EXCEPT ![r] = left]
      BY <2>2, <3>1, <3>2, Zenon
    <3> QED
      BY <1>a, <3>3, Zenon
  <2> QED
    BY <1>a, <2>2, <2>4, StoreStill, ListsKept, Zenon
<1>6. ASSUME NEW r \in Requests, OpAnswered(r) PROVE ListInv'
  <2>1. PICK k, v : k = CurrentOp(r).key /\ v = remote_results[r][k]
    OBVIOUS
  <2>2. /\ HasOp(r) /\ UNCHANGED <<pending_ops, remote_results, store, net>>
        /\ IF v # NoResult THEN Push(r, v) ELSE UNCHANGED results
    BY <1>6, <2>1, Zenon DEF OpAnswered, remoteVars, WaitInv
  <2>3. k \in Keys
    BY <2>1, <2>2, TheOp, Zenon
  <2>4. /\ results' \in [Requests -> Seq(Entry)]
        /\ \A s \in Requests : \A i \in DOMAIN results'[s] :
             \/ i \in DOMAIN results[s] /\ results'[s][i] = results[s][i]
             \/ Old(results[s][i].value, results[s][i].key)'
    <3>1. CASE v # NoResult
      <4>1. v \in Values /\ Old(v, k)
        BY <2>1, <2>3, <3>1, Zenon DEF ListInv
      <4>2. Old(v, k)' /\ Push(r, v)
        BY <2>2, <2>3, <3>1, <4>1, StoreStill, Zenon
      <4> QED
        BY <2>1, <2>2, <4>1, <4>2, ListPushed, Zenon
    <3>2. CASE v = NoResult
      BY <1>a, <2>2, <3>2, Zenon
    <3> QED
      BY <3>1, <3>2, Zenon
  <2> QED
    BY <1>a, <2>2, <2>4, StoreStill, ListsKept, Zenon
<1>7. ASSUME NEW m \in net, HandleOpRequest(m) PROVE ListInv'
  <2>1. PICK r \in Requests : FromTx(m, r)
    BY Zenon DEF MessageInv, NetShape
  <2>2. PICK v : v = IF IsRead(m.body) THEN StoreGet(store, m.key) ELSE Nullopt
    OBVIOUS
  <2>3. /\ m.type = "op_req" /\ Execute(m.body)
        /\ net' = (net \ {m}) \cup {Response("op_resp", m, v)}
        /\ UNCHANGED <<pending_ops, remote_results, results>>
    BY <1>7, <2>2, Zenon DEF HandleOpRequest, txVars, remoteVars, opVars
  <2>4. PICK j \in DOMAIN Txn[r] : m.body = Txn[r][j]
    BY <2>1, <2>3, Zenon DEF FromTx
  <2>5. m.body \in Op(Keys) /\ m.key \in Keys
    BY <2>1, <2>4, TxnOps, KeySplit, Zenon DEF FromTx
  <2>6. /\ \A k \in Keys : store'[k] \in Seq(Int)
        /\ \A k \in Keys : \A w : Old(w, k) => Old(w, k)'
    BY <1>a, <2>3, <2>5, OldKept, Zenon
  <2>7. v \in Values /\ Old(v, m.key)
    BY <1>a, <2>2, <2>5, GetIsOld, Zenon DEF Values, Old
  <2>8. m.type \in Asks /\ "op_resp" \in Answers
    BY <2>3, Zenon DEF Asks, Answers
  <2>9. PICK o : o = Response("op_resp", m, v)
    OBVIOUS
  <2>10. o.key = m.key /\ o.body = v
    BY <2>1, <2>8, <2>9, ResponseShape
  <2>11. \A q \in net' : q.type = "op_resp" =>
           q \in net \/ (q.body \in Values /\ Old(q.body, q.key)')
    <3>1. Old(o.body, o.key)'
      BY <2>5, <2>6, <2>7, <2>10, Zenon
    <3> QED
      BY <2>3, <2>7, <2>9, <2>10, <3>1, Zenon
  <2> QED
    BY <1>a, <2>3, <2>6, <2>11, ListsKept, Zenon
<1>8. ASSUME NEW m \in net, HandleOpResponse(m) PROVE ListInv'
  <2>1. PICK r \in Requests : FromTx(m, r)
    BY Zenon DEF MessageInv, NetShape
  <2>2. m.type = "op_resp" /\ m.type \in Answers
    BY <1>8, Zenon DEF HandleOpResponse, Answers
  <2>3. RequestOf(m.dst, m) = r
    BY <2>1, <2>2, FoundTx, Zenon
  <2>4. PICK v, k : /\ v = (IF m.body = Nullopt THEN <<>> ELSE m.body)
                    /\ k = m.key
    OBVIOUS
  <2>5. k \in Keys
    BY <2>1, <2>4, KeySplit, Zenon DEF FromTx
  <2>6. /\ remote_results' =
             [remote_results EXCEPT ![r] = [remote_results[r] EXCEPT ![k] = v]]
        /\ pending_ops' = [pending_ops EXCEPT ![r] = pending_ops[r] \ {k}]
        /\ net' = net \ {m}
        /\ UNCHANGED <<results, store>>
    BY <1>8, <1>a, <2>3, <2>4, Zenon DEF HandleOpResponse, opVars
  <2>7. v \in Values /\ Old(v, k)
    <3>1. <<>> \in Seq(Int)
      OBVIOUS
    <3>2. m.body \in Values /\ Old(m.body, k) /\ Old(<<>>, k)
      BY <1>a, <2>2, <2>4, <2>5, GetIsOld, Zenon DEF ListInv
    <3> QED
      BY <2>4, <3>1, <3>2, Zenon DEF Values
  <2>8. /\ remote_results' \in [Requests -> [Keys -> Values \cup {NoResult}]]
        /\ \A s \in Requests : \A j \in Keys :
             remote_results'[s][j] = remote_results[s][j] \/ (j = k /\
             remote_results'[s][j] = v)
    BY <1>a, <2>5, <2>6, <2>7, Zenon
  <2>9. \A s \in Requests : \A j \in Keys :
          \/ remote_results'[s][j] = remote_results[s][j]
          \/ Old(remote_results[s][j], j)'
    <3>1. Old(v, k)'
      BY <2>5, <2>6, <2>7, StoreStill, Zenon
    <3> QED
      BY <2>8, <3>1, Zenon
  <2>10. pending_ops' \in [Requests -> SUBSET Keys]
    BY <1>a, <2>6, Zenon
  <2> QED
    BY <1>a, <2>6, <2>8, <2>9, <2>10, StoreStill, ListsKept, Zenon
<1>9. CASE Lose \/ \E m \in net : HandlerThrows(m)
  BY <1>1, <1>9, Zenon DEF Lose, HandlerThrows, txVars, remoteVars, opVars
<1> QED
  BY <1>2, <1>3, <1>4, <1>5, <1>6, <1>7, <1>8, <1>9, StepKinds, Zenon DEF OpStep

\* What the invariants of operations are at the start.
LEMMA ListInit == Init => WaitInv /\ ListInv
<1> SUFFICES ASSUME Init PROVE WaitInv /\ ListInv
  OBVIOUS
<1>1. \A r \in Requests : phase[r] # "op_wait"
  BY Zenon DEF Init
<1>2. \A k \in Keys : store[k] \in Seq(Int)
  BY DEF Init
<1>3. /\ pending_ops \in [Requests -> SUBSET Keys]
      /\ remote_results \in [Requests -> [Keys -> Values \cup {NoResult}]]
      /\ \A r \in Requests : \A k \in Keys : remote_results[r][k] = NoResult
      /\ net = {}
  BY Zenon DEF Init
<1>4. /\ results \in [Requests -> Seq(Entry)]
      /\ \A r \in Requests : DOMAIN results[r] = {}
  BY DEF Init
<1> QED
  BY <1>1, <1>2, <1>3, <1>4, Zenon DEF WaitInv, ListInv

\* The invariants of operations hold throughout.
LEMMA ListInvariant == Spec => [](MessageInv /\ WaitInv /\ ListInv)
<1>1. MessageInv /\ WaitInv /\ ListInv /\ [Next]_vars =>
        (MessageInv /\ WaitInv /\ ListInv)'
  BY MessageStep, WaitStep, ListStep, Zenon
<1> QED
  BY <1>1, MessageInit, ListInit, PTL DEF Spec

\* Whatever is lost, late or stands in for another response, a result is a
\* value that the list of its key had before (handle_operation_request,
\* handle_operation_response, execute_remote_operation).
THEOREM ResultsNotMadeUp == Spec => []ReadsSeeTheList
<1>1. ListInv => ReadsSeeTheList
  BY Zenon DEF ListInv, Old, ReadsSeeTheList
<1> QED
  BY <1>1, ListInvariant, PTL
==============================================================================
