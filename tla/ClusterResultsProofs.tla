------------------------- MODULE ClusterResultsProofs -------------------------
(***************************************************************************)
(* The results of a transaction in a cluster are those of its operations,  *)
(* on each key as long as no operation on that key was skipped: then at    *)
(* most one request or response about the key is under way, that of the    *)
(* operation the transaction waits for.                                    *)
(***************************************************************************)
EXTENDS ClusterOperationsProofs


ResultAt(r, j) == \E i \in DOMAIN results[r] : results[r][i].pos = j

\* The operations of r before position n on the remote key k have results.
Unskipped(r, n, k) ==
  k \in RemoteKeys(r) =>
    \A i \in DOMAIN Txn[r] : i < n /\ Txn[r][i].key = k => ResultAt(r, i)

\* The value v has what transaction r appended to key k before operation n.
SeesOwn(r, n, k, v) ==
  \A j \in DOMAIN Txn[r] : j < n /\ IsAppendTo(Txn[r][j], k) =>
    v # Nullopt /\ Has(v, Txn[r][j].value)

\* The appends to k before the current operation were executed.
DoneBefore(r, k) ==
  \A j \in DOMAIN Txn[r] : j < op_index[r] /\ IsAppendTo(Txn[r][j], k) =>
    InStore(Txn[r][j])

\* The current operation was executed, and v is what it returned.
OpDone(r, v) ==
  /\ ~IsRead(CurrentOp(r)) => InStore(CurrentOp(r))
  /\ IsRead(CurrentOp(r)) => SeesOwn(r, op_index[r], CurrentOp(r).key, v)

OpMsg(m, r, k) == m.type \in OpTypes /\ m.key = k /\ FromTx(m, r)

WaitsFor(r, k) == phase[r] = "op_wait" /\ CurrentOp(r).key = k

\* The request or the response of the current operation is under way, or
\* neither when the response has arrived.
WaitOK(r, k) ==
  /\ \A m, o \in net : OpMsg(m, r, k) /\ OpMsg(o, r, k) => m = o
  /\ \A m \in net : OpMsg(m, r, k) =>
       /\ m.type = "op_req" => m.body = CurrentOp(r)
       /\ m.type = "op_resp" => OpDone(r, m.body)
  /\ k \notin pending_ops[r] => /\ \A m \in net : ~OpMsg(m, r, k)
                                /\ OpDone(r, remote_results[r][k])

\* As long as no operation on the key was skipped, at most the current one is
\* under way, and the earlier ones are done.
KeyOK(r, k) ==
  Unskipped(r, op_index[r], k) =>
    /\ DoneBefore(r, k)
    /\ WaitsFor(r, k) => WaitOK(r, k)
    /\ ~WaitsFor(r, k) => \A m \in net : ~OpMsg(m, r, k)

ResultOK(r, e) ==
  /\ e.pos \in DOMAIN Txn[r] /\ e.pos < op_index[r]
  /\ e.key = Txn[r][e.pos].key
  /\ Unskipped(r, e.pos, e.key) =>
       /\ ~IsRead(Txn[r][e.pos]) => InStore(Txn[r][e.pos])
       /\ IsRead(Txn[r][e.pos]) => SeesOwn(r, e.pos, e.key, e.value)

OwnTx(r) ==
  /\ \A i \in DOMAIN results[r] : ResultOK(r, results[r][i])
  /\ \A k \in Keys : KeyOK(r, k)

OwnInv == \A r \in Requests : OwnTx(r)

\* Executing operations takes nothing out of the lists.
StoreGrows == \A p \in Op(Keys) : InStore(p) => InStore(p)'

\* Which keys are remote does not change with the state.
LEMMA RemoteConstant == ASSUME NEW r PROVE RemoteKeys(r)' = RemoteKeys(r)
BY LocalConstant, Zenon DEF RemoteKeys

\* Whose message it is does not either.
LEMMA OpMsgConstant ==
  ASSUME NEW m, NEW r, NEW k PROVE OpMsg(m, r, k)' <=> OpMsg(m, r, k)
BY FromTxConstant, Zenon DEF OpMsg

\* Results that stay, stay sound.
LEMMA ResultsKept ==
  ASSUME NEW r \in Requests, OwnTx(r), StoreGrows,
         results'[r] = results[r], op_index'[r] = op_index[r]
  PROVE  /\ \A i \in DOMAIN results'[r] : ResultOK(r, results[r][i])'
         /\ \A n, k : Unskipped(r, n, k)' <=> Unskipped(r, n, k)
<1>1. \A j : ResultAt(r, j)' <=> ResultAt(r, j)
  BY Zenon DEF ResultAt
<1>2. \A n, k : Unskipped(r, n, k)' <=> Unskipped(r, n, k)
  BY <1>1, RemoteConstant, Zenon DEF Unskipped
<1>3. ASSUME NEW e, ResultOK(r, e) PROVE ResultOK(r, e)'
  <2>1. Txn[r][e.pos] \in Op(Keys)
    BY <1>3, TxnOps, Zenon DEF ResultOK
  <2> QED
    BY <1>2, <1>3, <2>1, Zenon DEF ResultOK, StoreGrows
<1>4. ASSUME NEW i \in DOMAIN results'[r] PROVE ResultOK(r, results[r][i])'
  <2>1. PICK e : e = results[r][i]
    OBVIOUS
  <2>2. results'[r][i] = e /\ ResultOK(r, e)
    BY <1>4, <2>1, Zenon DEF OwnTx
  <2> QED
    BY <1>3, <2>2, Zenon
<1> QED
  BY <1>2, <1>4, Zenon

\* A key about which nothing new is under way stays sound.
LEMMA KeyKept ==
  ASSUME MessageInv, WaitInv, NEW r \in Requests, NEW k \in Keys, OwnTx(r),
         StoreGrows, results'[r] = results[r], op_index'[r] = op_index[r],
         \/ phase'[r] = phase[r]
         \/ phase[r] # "op_wait" /\ phase'[r] # "op_wait",
         k \in pending_ops'[r] <=> k \in pending_ops[r],
         remote_results'[r][k] = remote_results[r][k],
         \A m \in net' : OpMsg(m, r, k) => m \in net
  PROVE  KeyOK(r, k)'
<1>1. CurrentOp(r)' = CurrentOp(r)
  BY Zenon DEF CurrentOp
<1>2. WaitsFor(r, k)' <=> WaitsFor(r, k)
  BY <1>1, Zenon DEF WaitsFor
<1>3. Unskipped(r, op_index[r], k)' => Unskipped(r, op_index[r], k)
  <2>1. PICK n : n = op_index[r]
    OBVIOUS
  <2>2. Unskipped(r, n, k)' <=> Unskipped(r, n, k)
    BY ResultsKept, Zenon
  <2> QED
    BY <2>1, <2>2, Zenon
<1>4. DoneBefore(r, k) => DoneBefore(r, k)'
  BY TxnOps, Zenon DEF DoneBefore, StoreGrows
<1>5. ASSUME WaitsFor(r, k), NEW v, OpDone(r, v) PROVE OpDone(r, v)'
  <2>1. CurrentOp(r) \in Op(Keys)
    BY <1>5, TheOp, Zenon DEF WaitsFor, WaitInv
  <2> QED
    BY <1>1, <1>5, <2>1, Zenon DEF OpDone, StoreGrows
<1>6. ASSUME WaitsFor(r, k), WaitOK(r, k) PROVE WaitOK(r, k)'
  <2>1. \A m, o \in net' : OpMsg(m, r, k)' /\ OpMsg(o, r, k)' => m = o
    BY <1>6, OpMsgConstant, Zenon DEF WaitOK
  <2>2. \A m \in net' : OpMsg(m, r, k)' =>
          /\ m.type = "op_req" => m.body = CurrentOp(r)
          /\ m.type = "op_resp" => OpDone(r, m.body)'
    BY <1>5, <1>6, OpMsgConstant, Zenon DEF WaitOK
  <2>3. k \notin pending_ops'[r] => /\ \A m \in net' : ~OpMsg(m, r, k)'
                                    /\ OpDone(r, remote_results[r][k])'
    <3>1. PICK v : v = remote_results[r][k]
      OBVIOUS
    <3>2. k \notin pending_ops[r] =>
            (\A m \in net : ~OpMsg(m, r, k)) /\ OpDone(r, v)'
      BY <1>5, <1>6, <3>1, Zenon DEF WaitOK
    <3>3. v = remote_results'[r][k]
      BY <3>1, Zenon
    <3> QED
      BY <3>2, <3>3, OpMsgConstant, Zenon
  <2> QED
    BY <1>1, <2>1, <2>2, <2>3, Zenon DEF WaitOK
<1>7. KeyOK(r, k)
  BY Zenon DEF OwnTx
<1>8. ASSUME Unskipped(r, op_index[r], k)'
      PROVE  /\ DoneBefore(r, k)'
             /\ WaitsFor(r, k)' => WaitOK(r, k)'
             /\ ~WaitsFor(r, k)' => \A m \in net' : ~OpMsg(m, r, k)'
  <2>1. /\ DoneBefore(r, k) /\ (WaitsFor(r, k) => WaitOK(r, k))
        /\ ~WaitsFor(r, k) => \A m \in net : ~OpMsg(m, r, k)
    BY <1>3, <1>7, <1>8, Zenon DEF KeyOK
  <2> QED
    BY <1>2, <1>4, <1>6, <2>1, OpMsgConstant, Zenon
<1> QED
  BY <1>8, Zenon DEF KeyOK

\* What a step leaves alone of transaction r.
TxAside(r) ==
  /\ \/ phase'[r] = phase[r]
     \/ phase[r] # "op_wait" /\ phase'[r] # "op_wait"
  /\ op_index'[r] = op_index[r] /\ results'[r] = results[r]
  /\ pending_ops'[r] = pending_ops[r] /\ remote_results'[r] = remote_results[r]
  /\ \A m \in net' : m.type \in OpTypes /\ FromTx(m, r) => m \in net

\* It stays sound while others execute operations.
LEMMA OwnKept ==
  ASSUME MessageInv, WaitInv, NEW r \in Requests, OwnTx(r), StoreGrows, TxAside(r)
  PROVE  OwnTx(r)'
<1>1. \A i \in DOMAIN results'[r] : ResultOK(r, results[r][i])'
  BY ResultsKept, Zenon DEF TxAside
<1>2. ASSUME NEW k \in Keys PROVE KeyOK(r, k)'
  BY KeyKept, Zenon DEF TxAside, OpMsg
<1> QED
  BY <1>1, <1>2, Zenon DEF OwnTx

\* So do all but the one whose operation a step is about.
LEMMA OwnOthers ==
  ASSUME MessageInv, WaitInv, OwnInv, NEW r \in Requests, OwnTx(r)', StoreGrows,
         \A s \in Requests \ {r} :
           /\ phase'[s] = phase[s] /\ op_index'[s] = op_index[s]
           /\ pending_ops'[s] = pending_ops[s]
           /\ remote_results'[s] = remote_results[s]
           /\ results'[s] = results[s],
         \A m \in net' : m \in net \/ FromTx(m, r)
  PROVE  OwnInv'
<1>1. ASSUME NEW s \in Requests, s # r PROVE OwnTx(s)'
  <2>1. \A m \in net' : FromTx(m, s) => m \in net
    BY <1>1, OneSender, Zenon
  <2>2. TxAside(s)
    BY <1>1, <2>1, Zenon DEF TxAside
  <2> QED
    BY <2>2, OwnKept, Zenon DEF OwnInv
<1> QED
  BY <1>1, Zenon DEF OwnInv

\* Executing does so.
LEMMA ExecuteGrows ==
  ASSUME MessageInv, ListInv, NEW op \in Op(Keys), Execute(op)
  PROVE  StoreGrows /\ (~IsRead(op) => InStore(op)')
BY ExecuteEffect, Zenon DEF MessageInv, DistTypeOK, ListInv, StoreGrows

\* The result of the current operation op, with value v.
EntryOf(r, op, v) == [key |-> op.key, value |-> v, pos |-> op_index[r]]

\* The value v may be the result of the current operation.
GoodValue(r, op, v) ==
  Unskipped(r, op_index[r], op.key) =>
    /\ ~IsRead(op) => InStore(op)'
    /\ IsRead(op) => SeesOwn(r, op_index[r], op.key, v)

\* How the results of r change when it goes on to the next operation.
Goes(r, op) ==
  \/ results'[r] = results[r]
  \/ \E v \in Values : /\ results'[r] = Append(results[r], EntryOf(r, op, v))
                       /\ GoodValue(r, op, v)

\* The results of a transaction that goes on.
LEMMA GoesEntries ==
  ASSUME ListInv, MessageInv, NEW r \in Requests, HasOp(r), NEW op,
         op = CurrentOp(r), Goes(r, op)
  PROVE  /\ \A i \in DOMAIN results'[r] :
              \/ i \in DOMAIN results[r] /\ results'[r][i] = results[r][i]
              \/ \E v : /\ results'[r][i] = EntryOf(r, op, v)
                        /\ GoodValue(r, op, v)
         /\ \A i \in DOMAIN results[r] :
              i \in DOMAIN results'[r] /\ results'[r][i] = results[r][i]
<1>1. CASE results'[r] = results[r]
  BY <1>1, Zenon
<1>2. ASSUME NEW v \in Values, GoodValue(r, op, v),
             results'[r] = Append(results[r], EntryOf(r, op, v))
      PROVE  /\ \A i \in DOMAIN results'[r] :
                  \/ i \in DOMAIN results[r] /\ results'[r][i] = results[r][i]
                  \/ results'[r][i] = EntryOf(r, op, v)
             /\ \A i \in DOMAIN results[r] :
                  i \in DOMAIN results'[r] /\ results'[r][i] = results[r][i]
  <2>1. PICK e : e = EntryOf(r, op, v)
    OBVIOUS
  <2>2. op_index[r] \in Nat /\ op.key \in Keys
    BY TheOp, TxnOps, Zenon
  <2>3. e \in Entry
    BY <2>1, <2>2, Zenon DEF EntryOf, Entry
  <2>4. results[r] \in Seq(Entry)
    BY Zenon DEF ListInv
  <2>5. /\ \A i \in DOMAIN Append(results[r], e) :
             \/ Append(results[r], e)[i] = e
             \/ /\ i \in DOMAIN results[r]
                /\ Append(results[r], e)[i] = results[r][i]
        /\ \A i \in DOMAIN results[r] :
             /\ i \in DOMAIN Append(results[r], e)
             /\ Append(results[r], e)[i] = results[r][i]
    BY <2>3, <2>4, AppendedEntries, Zenon
  <2>6. results'[r] = Append(results[r], e)
    BY <1>2, <2>1, Zenon
  <2> QED
    BY <2>1, <2>5, <2>6, Zenon
<1> QED
  BY <1>1, <1>2, Zenon DEF Goes

\* Positions around the current one.
LEMMA Around ==
  ASSUME NEW r \in Requests, NEW n \in Nat
  PROVE  /\ \A j \in DOMAIN Txn[r] : j < n + 1 <=> j < n \/ j = n
         /\ ~(n < n) /\ n < n + 1
         /\ \A j, i \in DOMAIN Txn[r] : j < n /\ i < j => i < n
<1>1. \A j \in DOMAIN Txn[r] : j \in Nat
  BY TxnOps
<1> QED
  BY <1>1

\* A transaction goes on past its current operation.
LEMMA OwnAdvanced ==
  ASSUME MessageInv, ListInv, NEW r \in Requests, OwnTx(r), HasOp(r),
         NEW op, op = CurrentOp(r), NEW n, n = op_index[r],
         Advance(r), phase'[r] = "executing",
         StoreGrows, net' = net, Goes(r, op),
         /\ Unskipped(r, n, op.key)
         /\ ResultAt(r, n)' \/ op.key \in LocalKeys(r)
         => /\ ~IsRead(op) => InStore(op)'
            /\ \A m \in net : ~OpMsg(m, r, op.key)
  PROVE  OwnTx(r)'
<1>1. n = op_index[r]
  OBVIOUS
<1>2. /\ n \in DOMAIN Txn[r] /\ n \in Nat /\ op = Txn[r][n]
      /\ op.key \in Keys /\ op \in Op(Keys)
  BY <1>1, TheOp, TxnOps, Zenon DEF CurrentOp
<1>3. op_index'[r] = n + 1
  BY <1>1, Zenon DEF Advance, MessageInv, DistTypeOK
<1>a. /\ \A j \in DOMAIN Txn[r] : j < n + 1 <=> j < n \/ j = n
      /\ ~(n < n) /\ n < n + 1
      /\ \A j, i \in DOMAIN Txn[r] : j < n /\ i < j => i < n
  BY <1>2, Around, Zenon
<1>4. \A v : EntryOf(r, op, v).pos = n /\ EntryOf(r, op, v).key = op.key
             /\ EntryOf(r, op, v).value = v
  BY <1>1, Zenon DEF EntryOf
<1>b. /\ \A i \in DOMAIN results'[r] :
           \/ i \in DOMAIN results[r] /\ results'[r][i] = results[r][i]
           \/ \E v : /\ results'[r][i] = EntryOf(r, op, v)
                     /\ GoodValue(r, op, v)
      /\ \A i \in DOMAIN results[r] :
           i \in DOMAIN results'[r] /\ results'[r][i] = results[r][i]
  BY GoesEntries, Zenon
<1>5. ASSUME NEW j, j # n PROVE ResultAt(r, j)' <=> ResultAt(r, j)
  <2>1. \A i \in DOMAIN results'[r] :
          \/ i \in DOMAIN results[r] /\ results'[r][i] = results[r][i]
          \/ results'[r][i].pos = n
    BY <1>4, <1>b, Zenon
  <2> QED
    BY <1>5, <1>b, <2>1, Zenon DEF ResultAt
<1>6. ASSUME NEW l, \A i \in DOMAIN Txn[r] : i < l => i # n, NEW k
      PROVE  Unskipped(r, l, k)' <=> Unskipped(r, l, k)
  BY <1>5, <1>6, RemoteConstant, Zenon DEF Unskipped
<1>7. ASSUME NEW k PROVE Unskipped(r, n, k)' <=> Unskipped(r, n, k)
  BY <1>6, <1>a, Zenon
<1>8. ASSUME NEW k \in Keys PROVE KeyOK(r, k)'
  <2> SUFFICES ASSUME Unskipped(r, n + 1, k)'
               PROVE  DoneBefore(r, k)' /\ \A m \in net : ~OpMsg(m, r, k)
    <3>1. ~WaitsFor(r, k)'
      BY Zenon DEF WaitsFor
    <3> QED
      BY <1>3, <3>1, OpMsgConstant, Zenon DEF KeyOK
  <2>1. Unskipped(r, n, k)
    <3>1. Unskipped(r, n, k)'
      BY <1>a, Zenon DEF Unskipped
    <3> QED
      BY <1>7, <3>1, Zenon
  <2>2. /\ DoneBefore(r, k)
        /\ ~WaitsFor(r, k) => \A m \in net : ~OpMsg(m, r, k)
    BY <1>1, <2>1, Zenon DEF OwnTx, KeyOK
  <2>3. ASSUME NEW j \in DOMAIN Txn[r], j < n, IsAppendTo(Txn[r][j], k)
        PROVE  InStore(Txn[r][j])'
    BY <1>1, <2>2, <2>3, TxnOps, Zenon DEF DoneBefore, StoreGrows
  <2>4. CASE k # op.key
    <3>1. ~WaitsFor(r, k)
      BY <2>4, Zenon DEF WaitsFor
    <3>2. ~IsAppendTo(Txn[r][n], k)
      BY <1>2, <2>4, Zenon DEF IsAppendTo
    <3>3. DoneBefore(r, k)'
      BY <1>3, <1>a, <2>3, <3>2, Zenon DEF DoneBefore
    <3> QED
      BY <2>2, <3>1, <3>3, Zenon
  <2>5. CASE k = op.key
    <3>1. ResultAt(r, n)' \/ k \in LocalKeys(r)
      <4>1. CASE k \in RemoteKeys(r)
        <5>1. k \in RemoteKeys(r)'
          BY <4>1, RemoteConstant, Zenon
        <5>2. n < n + 1 /\ Txn[r][n].key = k
          BY <1>2, <1>a, <2>5, Zenon
        <5> QED
          BY <1>2, <5>1, <5>2, Zenon DEF Unskipped
      <4>2. CASE k \notin RemoteKeys(r)
        <5>1. k \in KeysOf(Txn[r])
          BY <1>2, <2>5, Zenon DEF KeysOf
        <5> QED
          BY <4>2, <5>1, Zenon DEF RemoteKeys
      <4> QED
        BY <4>1, <4>2, Zenon
    <3>2. /\ ~IsRead(op) => InStore(op)'
          /\ \A m \in net : ~OpMsg(m, r, k)
      BY <1>1, <2>1, <2>5, <3>1, Zenon
    <3>3. IsAppendTo(Txn[r][n], k) => InStore(Txn[r][n])'
      BY <1>2, <3>2, Zenon DEF IsAppendTo, IsRead
    <3>4. DoneBefore(r, k)'
      BY <1>3, <1>a, <2>3, <3>3, Zenon DEF DoneBefore
    <3> QED
      BY <3>2, <3>4, Zenon
  <2> QED
    BY <2>4, <2>5, Zenon
<1>9. ASSUME NEW e, ResultOK(r, e) PROVE ResultOK(r, e)'
  <2>1. e.pos \in DOMAIN Txn[r] /\ e.pos < n
    BY <1>1, <1>9, Zenon DEF ResultOK
  <2>2. Txn[r][e.pos] \in Op(Keys) /\ e.pos < n + 1
    BY <1>a, <2>1, TxnOps, Zenon
  <2>3. Unskipped(r, e.pos, e.key)' => Unskipped(r, e.pos, e.key)
    <3>1. PICK l, k : l = e.pos /\ k = e.key
      OBVIOUS
    <3>2. \A i \in DOMAIN Txn[r] : i < l => i # n
      BY <1>a, <2>1, <3>1, Zenon
    <3>3. Unskipped(r, l, k)' <=> Unskipped(r, l, k)
      BY <1>6, <3>2, Zenon
    <3> QED
      BY <3>1, <3>3, Zenon
  <2>4. e.pos < op_index'[r]
    BY <1>3, <2>2, Zenon
  <2>5. InStore(Txn[r][e.pos]) => InStore(Txn[r][e.pos])'
    BY <2>2, Zenon DEF StoreGrows
  <2> QED
    BY <1>9, <2>3, <2>4, <2>5, Zenon DEF ResultOK
<1>10. ASSUME NEW v, GoodValue(r, op, v), NEW e, e = EntryOf(r, op, v)
       PROVE  ResultOK(r, e)'
  <2>1. e.pos = n /\ e.key = op.key /\ e.value = v
    BY <1>4, <1>10, Zenon
  <2>2. Unskipped(r, n, op.key)' => /\ ~IsRead(op) => InStore(op)'
                                    /\ IsRead(op) => SeesOwn(r, n, op.key, v)
    BY <1>1, <1>7, <1>10, Zenon DEF GoodValue
  <2> QED
    BY <1>2, <1>3, <1>a, <2>1, <2>2, Zenon DEF ResultOK
<1>11. ASSUME NEW i \in DOMAIN results'[r] PROVE ResultOK(r, results[r][i])'
  <2>1. PICK e : e = results'[r][i]
    OBVIOUS
  <2>2. ResultOK(r, e)'
    BY <1>9, <1>10, <1>11, <1>b, <2>1, Zenon DEF OwnTx
  <2> QED
    BY <2>1, <2>2, Zenon
<1> QED
  BY <1>8, <1>11, Zenon DEF OwnTx

\* A result that is pushed is the only change to results.
LEMMA PushGoes ==
  ASSUME ListInv, NEW r \in Requests, NEW op, op = CurrentOp(r), NEW v, Push(r, v)
  PROVE  /\ results'[r] = Append(results[r], EntryOf(r, op, v))
         /\ \A s \in Requests \ {r} : results'[s] = results[s]
BY Zenon DEF ListInv, Push, EntryOf

\* A skipped operation has no result.
LEMMA NoResultYet ==
  ASSUME MessageInv, NEW r \in Requests, OwnTx(r), HasOp(r),
         results'[r] = results[r], NEW n, n = op_index[r]
  PROVE  ~ResultAt(r, n)'
<1>1. n \in Nat
  BY TheOp, TxnOps, Zenon
<1>2. ~(n < n)
  BY <1>1
<1> QED
  BY <1>2, Zenon DEF OwnTx, ResultOK, ResultAt

\* The store that stays has what it had.
LEMMA StillGrows == ASSUME store' = store PROVE StoreGrows
BY Zenon DEF StoreGrows, InStore

\* A read of a list that has the transaction's own appends sees them.
LEMMA ReadSeesOwn ==
  ASSUME ListInv, NEW r \in Requests, NEW k \in Keys, DoneBefore(r, k)
  PROVE  SeesOwn(r, op_index[r], k, StoreGet(store, k))
<1>1. store[k] \in Seq(Int) /\ store[k] # Nullopt
  BY OperationsAssumption, Zenon DEF ListInv
<1>2. ASSUME NEW j \in DOMAIN Txn[r], j < op_index[r], IsAppendTo(Txn[r][j], k)
      PROVE  /\ StoreGet(store, k) # Nullopt
             /\ Has(StoreGet(store, k), Txn[r][j].value)
  <2>1. Has(store[k], Txn[r][j].value)
    BY <1>2, Zenon DEF DoneBefore, InStore, IsAppendTo
  <2>2. store[k] # <<>>
    BY <2>1 DEF Has
  <2> QED
    BY <1>1, <2>1, <2>2, Zenon DEF StoreGet
<1> QED
  BY <1>2, Zenon DEF SeesOwn

\* Steps aside of operations.
LEMMA OwnAside ==
  ASSUME MessageInv, WaitInv, OwnInv, OpsAside PROVE OwnInv'
<1>1. ASSUME NEW r \in Requests PROVE OwnTx(r)'
  <2>1. TxAside(r)
    BY Zenon DEF OpsAside, PhaseAside, TxAside
  <2>2. StoreGrows
    BY StillGrows, Zenon DEF OpsAside
  <2> QED
    BY <2>1, <2>2, OwnKept, Zenon DEF OwnInv
<1> QED
  BY <1>1, Zenon DEF OwnInv

\* Messages are dropped.
LEMMA OwnLost ==
  ASSUME MessageInv, WaitInv, OwnInv, net' \subseteq net,
         UNCHANGED <<phase, op_index, results, pending_ops, remote_results,
                     store>>
  PROVE  OwnInv'
<1>1. ASSUME NEW r \in Requests PROVE OwnTx(r)'
  <2>1. TxAside(r)
    BY Zenon DEF TxAside
  <2> QED
    BY <2>1, OwnKept, StillGrows, Zenon DEF OwnInv
<1> QED
  BY <1>1, Zenon DEF OwnInv

\* An operation on the transaction's own node.
LEMMA OwnExec ==
  ASSUME MessageInv, WaitInv, ListInv, OwnInv, NEW r \in Requests, ExecLocal(r)
  PROVE  OwnInv'
<1>1. PICK op, n : op = CurrentOp(r) /\ n = op_index[r]
  OBVIOUS
<1>2. /\ phase[r] = "executing" /\ HasOp(r) /\ op.key \in LocalKeys(r)
      /\ Advance(r) /\ Execute(op)
      /\ UNCHANGED <<phase, pending_ops, remote_results, net>>
      /\ IF IsRead(op) THEN Push(r, StoreGet(store, op.key))
         ELSE UNCHANGED results
  BY <1>1, Zenon DEF ExecLocal, Execute, remoteVars
<1>3. op \in Op(Keys) /\ op.key \in Keys
  BY <1>1, <1>2, TheOp, Zenon
<1>4. StoreGrows /\ (~IsRead(op) => InStore(op)')
  BY <1>2, <1>3, ExecuteGrows, Zenon
<1>5. OwnTx(r) /\ KeyOK(r, op.key)
  BY <1>3, Zenon DEF OwnInv, OwnTx
<1>6. Goes(r, op) /\ \A s \in Requests \ {r} : results'[s] = results[s]
  <2>1. CASE IsRead(op)
    <3>1. PICK v : v = StoreGet(store, op.key)
      OBVIOUS
    <3>2. v \in Values
      BY <1>3, <3>1, GetIsOld, Zenon DEF ListInv
    <3>3. GoodValue(r, op, v)
      BY <1>3, <1>5, <2>1, <3>1, ReadSeesOwn, Zenon DEF KeyOK, GoodValue
    <3>4. Push(r, v)
      BY <1>2, <2>1, <3>1, Zenon
    <3> QED
      BY <1>1, <3>2, <3>3, <3>4, PushGoes, Zenon DEF Goes
  <2>2. CASE ~IsRead(op)
    BY <1>2, <2>2, Zenon DEF Goes
  <2> QED
    BY <2>1, <2>2, Zenon
<1>7. \A m \in net : ~OpMsg(m, r, op.key)
  BY <1>2, Zenon DEF OpMsg, FromTx, RemoteKeys
<1>8. phase'[r] = "executing" /\ net' = net
  BY <1>2, Zenon
<1>9. OwnTx(r)'
  BY <1>1, <1>2, <1>4, <1>5, <1>6, <1>7, <1>8, OwnAdvanced, Zenon
<1>10. \A s \in Requests \ {r} : op_index'[s] = op_index[s]
  BY <1>2, Zenon DEF Advance, MessageInv, DistTypeOK
<1> QED
  BY <1>2, <1>4, <1>6, <1>9, <1>10, OwnOthers, Zenon

\* An operation is skipped: the request was not sent, or nobody answered.
LEMMA OwnSkipped ==
  ASSUME MessageInv, WaitInv, ListInv, OwnInv, NEW r \in Requests,
         SendOpThrows(r) \/ OpTimeout(r)
  PROVE  OwnInv'
<1>1. PICK op, n : op = CurrentOp(r) /\ n = op_index[r]
  OBVIOUS
<1>2. /\ HasOp(r) /\ op.key \in RemoteKeys(r) /\ Advance(r)
      /\ UNCHANGED <<results, remote_results, store, net>>
  BY <1>1, Zenon DEF SendOpThrows, NoteOp, OpTimeout, WaitInv
<1>3. /\ phase'[r] = "executing"
      /\ \A s \in Requests \ {r} : phase'[s] = phase[s]
  BY Zenon DEF SendOpThrows, NoteOp, OpTimeout, EnterPhase, MessageInv, DistTypeOK
<1>4. \A s \in Requests \ {r} : pending_ops'[s] = pending_ops[s]
  BY Zenon DEF SendOpThrows, NoteOp, OpTimeout, ListInv
<1>5. \A s \in Requests \ {r} : op_index'[s] = op_index[s]
  BY <1>2, Zenon DEF Advance, MessageInv, DistTypeOK
<1>6. OwnTx(r) /\ StoreGrows /\ Goes(r, op)
  BY <1>2, StillGrows, Zenon DEF OwnInv, Goes
<1>7. ~ResultAt(r, n)' /\ op.key \notin LocalKeys(r)
  BY <1>1, <1>2, <1>6, NoResultYet, Zenon DEF RemoteKeys
<1>8. OwnTx(r)'
  BY <1>1, <1>2, <1>3, <1>6, <1>7, OwnAdvanced, Zenon
<1> QED
  BY <1>2, <1>3, <1>4, <1>5, <1>6, <1>8, OwnOthers, Zenon

\* The response has come, and the transaction goes on.
LEMMA OwnAnswered ==
  ASSUME MessageInv, WaitInv, ListInv, OwnInv, NEW r \in Requests, OpAnswered(r)
  PROVE  OwnInv'
<1>1. PICK op, n, v : /\ op = CurrentOp(r) /\ n = op_index[r]
                      /\ v = remote_results[r][op.key]
  OBVIOUS
<1>2. /\ phase[r] = "op_wait" /\ HasOp(r) /\ op.key \notin pending_ops[r]
      /\ IF v # NoResult THEN Push(r, v) ELSE UNCHANGED results
      /\ Advance(r) /\ phase' = [phase EXCEPT ![r] = "executing"]
      /\ UNCHANGED <<pending_ops, remote_results, store, net>>
  BY <1>1, Zenon DEF OpAnswered, EnterPhase, remoteVars, WaitInv
<1>3. op \in Op(Keys) /\ op.key \in Keys
  BY <1>1, <1>2, TheOp, Zenon
<1>4. OwnTx(r) /\ KeyOK(r, op.key) /\ StoreGrows
  BY <1>2, <1>3, StillGrows, Zenon DEF OwnInv, OwnTx
<1>5. WaitsFor(r, op.key)
  BY <1>1, <1>2, Zenon DEF WaitsFor
<1>6. Unskipped(r, n, op.key) =>
        OpDone(r, v) /\ \A m \in net : ~OpMsg(m, r, op.key)
  BY <1>1, <1>2, <1>4, <1>5, Zenon DEF KeyOK, WaitOK
<1>7. Unskipped(r, n, op.key) => (~IsRead(op) => InStore(op)')
  BY <1>1, <1>3, <1>4, <1>6, Zenon DEF OpDone, StoreGrows
<1>8. GoodValue(r, op, v)
  BY <1>1, <1>6, <1>7, Zenon DEF GoodValue, OpDone
<1>9. Goes(r, op) /\ \A s \in Requests \ {r} : results'[s] = results[s]
  <2>1. CASE v # NoResult
    <3>1. v \in Values
      BY <1>1, <1>3, <2>1, Zenon DEF ListInv
    <3>2. Push(r, v) /\ op = CurrentOp(r)
      BY <1>1, <1>2, <2>1, Zenon
    <3>3. /\ results'[r] = Append(results[r], EntryOf(r, op, v))
          /\ \A s \in Requests \ {r} : results'[s] = results[s]
      BY <3>2, PushGoes, Zenon
    <3> QED
      BY <1>8, <3>1, <3>3, Zenon DEF Goes
  <2>2. CASE v = NoResult
    BY <1>2, <2>2, Zenon DEF Goes
  <2> QED
    BY <2>1, <2>2, Zenon
<1>10. /\ phase'[r] = "executing" /\ net' = net
       /\ \A s \in Requests \ {r} :
            phase'[s] = phase[s] /\ op_index'[s] = op_index[s]
  BY <1>2, Zenon DEF Advance, MessageInv, DistTypeOK
<1>11. OwnTx(r)'
  BY <1>1, <1>2, <1>4, <1>6, <1>7, <1>9, <1>10, OwnAdvanced, Zenon
<1> QED
  BY <1>2, <1>4, <1>9, <1>10, <1>11, OwnOthers, Zenon

\* The next operation is sent to a primary node.
LEMMA OwnSent ==
  ASSUME MessageInv, WaitInv, ListInv, OwnInv, NEW r \in Requests, SendOp(r)
  PROVE  OwnInv'
<1>1. PICK op, n : op = CurrentOp(r) /\ n = op_index[r]
  OBVIOUS
<1>2. /\ phase[r] = "executing" /\ HasOp(r) /\ op.key \in RemoteKeys(r)
      /\ net' = net \cup ToPrimaries("op_req", r, {op.key}, op)
      /\ pending_ops' = [pending_ops EXCEPT ![r] = pending_ops[r] \cup {op.key}]
      /\ phase' = [phase EXCEPT ![r] = "op_wait"]
      /\ UNCHANGED <<op_index, results, remote_results, store>>
  BY <1>1, Zenon DEF SendOp, NoteOp, EnterPhase, ListInv
<1>3. op.key \in Keys /\ \E j \in DOMAIN Txn[r] : op = Txn[r][j]
  BY <1>1, <1>2, TheOp, Zenon DEF CurrentOp
<1>4. PICK o : /\ net' = net \cup {o} /\ FromTx(o, r)
               /\ o.type = "op_req" /\ o.key = op.key /\ o.body = op
  <2>1. OneRequest(r, op)
    BY <1>2, <1>3, OpSentShape, Zenon
  <2> QED
    BY <1>2, <2>1, Zenon DEF OneRequest
<1>5. OwnTx(r) /\ StoreGrows
  BY <1>2, StillGrows, Zenon DEF OwnInv
<1>6. /\ phase'[r] = "op_wait" /\ op.key \in pending_ops'[r]
      /\ \A s \in Requests \ {r} :
           phase'[s] = phase[s] /\ pending_ops'[s] = pending_ops[s]
  BY <1>2, Zenon DEF MessageInv, DistTypeOK, ListInv
<1>7. CurrentOp(r)' = op
  BY <1>1, <1>2, Zenon DEF CurrentOp
<1>8. /\ \A i \in DOMAIN results'[r] : ResultOK(r, results[r][i])'
      /\ \A k : Unskipped(r, n, k)' <=> Unskipped(r, n, k)
  BY <1>2, <1>5, ResultsKept, Zenon
<1>9. ASSUME NEW k \in Keys PROVE KeyOK(r, k)'
  <2> SUFFICES ASSUME Unskipped(r, n, k)'
               PROVE  /\ DoneBefore(r, k)'
                      /\ WaitsFor(r, k)' => WaitOK(r, k)'
                      /\ ~WaitsFor(r, k)' => \A m \in net' : ~OpMsg(m, r, k)'
    BY <1>1, <1>2, Zenon DEF KeyOK
  <2>1. DoneBefore(r, k) /\ \A m \in net : ~OpMsg(m, r, k)
    <3>1. ~WaitsFor(r, k)
      BY <1>2, Zenon DEF WaitsFor
    <3> QED
      BY <1>1, <1>5, <1>8, <3>1, Zenon DEF OwnTx, KeyOK
  <2>2. DoneBefore(r, k)'
    BY <1>2, <1>5, <2>1, TxnOps, Zenon DEF DoneBefore, StoreGrows
  <2>3. WaitsFor(r, k)' <=> k = op.key
    BY <1>6, <1>7, Zenon DEF WaitsFor
  <2>4. \A m \in net' : OpMsg(m, r, k)' => m = o /\ k = op.key
    BY <1>4, <2>1, OpMsgConstant, Zenon DEF OpMsg
  <2>5. k = op.key => WaitOK(r, k)'
    <3>1. o.type # "op_resp"
      BY <1>4
    <3> QED
      BY <1>4, <1>6, <1>7, <2>4, <3>1, Zenon DEF WaitOK
  <2> QED
    BY <2>2, <2>3, <2>4, <2>5, Zenon
<1>10. OwnTx(r)'
  BY <1>8, <1>9, Zenon DEF OwnTx
<1> QED
  BY <1>2, <1>4, <1>5, <1>6, <1>10, OwnOthers, Zenon

\* A primary node executes an operation and answers.
LEMMA OwnHandled ==
  ASSUME MessageInv, WaitInv, ListInv, OwnInv, NEW m \in net, HandleOpRequest(m)
  PROVE  OwnInv'
<1>1. PICK r \in Requests : FromTx(m, r)
  BY Zenon DEF MessageInv, NetShape
<1>2. PICK p, v, n : /\ p = m.body /\ n = op_index[r]
                     /\ v = IF IsRead(p) THEN StoreGet(store, m.key) ELSE Nullopt
  OBVIOUS
<1>3. /\ m.type = "op_req" /\ Execute(p)
      /\ net' = (net \ {m}) \cup {Response("op_resp", m, v)}
      /\ UNCHANGED <<phase, op_index, results, pending_ops, remote_results>>
  BY <1>2, Zenon DEF HandleOpRequest, txVars, remoteVars, opVars
<1>4. p \in Op(Keys) /\ m.key \in Keys
  <2>1. PICK j \in DOMAIN Txn[r] : p = Txn[r][j]
    BY <1>1, <1>2, <1>3, Zenon DEF FromTx
  <2> QED
    BY <1>1, <2>1, TxnOps, KeySplit, Zenon DEF FromTx
<1>5. StoreGrows /\ (~IsRead(p) => InStore(p)')
  BY <1>3, <1>4, ExecuteGrows, Zenon
<1>6. PICK o : /\ net' = (net \ {m}) \cup {o} /\ FromTx(o, r)
               /\ o.type = "op_resp" /\ o.key = m.key /\ o.body = v
  <2>1. m.type \in Asks /\ "op_resp" \in Answers
    BY <1>3, Zenon DEF Asks, Answers
  <2>2. PICK o : o = Response("op_resp", m, v)
    OBVIOUS
  <2>3. FromTx(o, r) /\ o.type = "op_resp" /\ o.key = m.key /\ o.body = v
    BY <1>1, <2>1, <2>2, ResponseShape
  <2> QED
    BY <1>3, <2>2, <2>3, Zenon
<1>7. OwnTx(r) /\ OpMsg(m, r, m.key)
  BY <1>1, <1>3, Zenon DEF OwnInv, OpMsg, OpTypes
<1>8. /\ \A i \in DOMAIN results'[r] : ResultOK(r, results[r][i])'
      /\ \A k : Unskipped(r, n, k)' <=> Unskipped(r, n, k)
  BY <1>3, <1>5, <1>7, ResultsKept, Zenon
<1>9. ASSUME NEW k \in Keys, k # m.key PROVE KeyOK(r, k)'
  <2>1. \A q \in net' : OpMsg(q, r, k) => q \in net
    BY <1>6, <1>9, Zenon DEF OpMsg
  <2> QED
    BY <1>3, <1>5, <1>7, <2>1, KeyKept, Zenon
<1>10. ASSUME NEW k, k = m.key PROVE KeyOK(r, k)'
  <2> SUFFICES ASSUME Unskipped(r, n, k)'
               PROVE  DoneBefore(r, k)' /\ WaitsFor(r, k)' /\ WaitOK(r, k)'
    BY <1>2, <1>3, Zenon DEF KeyOK
  <2>1. KeyOK(r, k) /\ Unskipped(r, n, k)
    BY <1>4, <1>7, <1>8, <1>10, Zenon DEF OwnTx
  <2>2. DoneBefore(r, k) /\ WaitsFor(r, k) /\ WaitOK(r, k)
    BY <1>2, <1>7, <1>10, <2>1, Zenon DEF KeyOK
  <2>3. DoneBefore(r, k)'
    BY <1>3, <1>5, <2>2, TxnOps, Zenon DEF DoneBefore, StoreGrows
  <2>4. CurrentOp(r) = p /\ CurrentOp(r)' = p
    <3>1. CurrentOp(r) = p
      BY <1>2, <1>3, <1>7, <1>10, <2>2, Zenon DEF WaitOK
    <3> QED
      BY <1>3, <3>1, Zenon DEF CurrentOp
  <2>5. WaitsFor(r, k)'
    BY <1>3, <2>2, <2>4, Zenon DEF WaitsFor
  <2>6. p.key = k
    BY <2>2, <2>4, Zenon DEF WaitsFor
  <2>7. \A q \in net' : OpMsg(q, r, k)' => q = o
    BY <1>6, <1>7, <1>10, <2>2, OpMsgConstant, Zenon DEF WaitOK
  <2>8. IsRead(p) => SeesOwn(r, op_index[r], k, v)
    BY <1>2, <1>4, <1>10, <2>2, ReadSeesOwn, Zenon
  <2>9. OpDone(r, v)'
    BY <1>3, <1>5, <2>4, <2>6, <2>8, Zenon DEF OpDone
  <2>10. k \in pending_ops'[r]
    BY <1>3, <1>7, <1>10, <2>2, Zenon DEF WaitOK
  <2>11. o.type # "op_req"
    BY <1>6
  <2> QED
    BY <1>6, <2>3, <2>5, <2>7, <2>9, <2>10, <2>11, Zenon DEF WaitOK
<1>11. OwnTx(r)'
  BY <1>8, <1>9, <1>10, Zenon DEF OwnTx
<1> QED
  BY <1>3, <1>5, <1>6, <1>11, OwnOthers, Zenon

\* A response reaches the transaction that waits for it.
LEMMA OwnResponse ==
  ASSUME MessageInv, WaitInv, ListInv, OwnInv, NEW m \in net, HandleOpResponse(m)
  PROVE  OwnInv'
<1>1. PICK r \in Requests : FromTx(m, r)
  BY Zenon DEF MessageInv, NetShape
<1>2. m.type = "op_resp" /\ m.type \in Answers
  BY Zenon DEF HandleOpResponse, Answers
<1>3. RequestOf(m.dst, m) = r
  BY <1>1, <1>2, FoundTx, Zenon
<1>4. PICK v, key, n : /\ v = (IF m.body = Nullopt THEN <<>> ELSE m.body)
                       /\ key = m.key /\ n = op_index[r]
  OBVIOUS
<1>5. /\ remote_results' =
           [remote_results EXCEPT ![r] = [remote_results[r] EXCEPT ![key] = v]]
      /\ pending_ops' = [pending_ops EXCEPT ![r] = pending_ops[r] \ {key}]
      /\ net' = net \ {m}
      /\ UNCHANGED <<phase, op_index, results, store>>
  BY <1>3, <1>4, Zenon DEF HandleOpResponse, opVars, ListInv
<1>6. key \in Keys
  BY <1>1, <1>4, KeySplit, Zenon DEF FromTx
<1>7. /\ remote_results'[r][key] = v /\ pending_ops'[r] = pending_ops[r] \ {key}
      /\ \A k \in Keys \ {key} : remote_results'[r][k] = remote_results[r][k]
      /\ \A s \in Requests \ {r} : /\ remote_results'[s] = remote_results[s]
                                   /\ pending_ops'[s] = pending_ops[s]
  BY <1>5, <1>6, Zenon DEF ListInv
<1>8. OwnTx(r) /\ OpMsg(m, r, key) /\ StoreGrows
  BY <1>1, <1>2, <1>4, <1>5, StillGrows, Zenon DEF OwnInv, OpMsg, OpTypes
<1>9. /\ \A i \in DOMAIN results'[r] : ResultOK(r, results[r][i])'
      /\ \A k : Unskipped(r, n, k)' <=> Unskipped(r, n, k)
  BY <1>5, <1>8, ResultsKept, Zenon
<1>10. ASSUME NEW k \in Keys, k # key PROVE KeyOK(r, k)'
  BY <1>5, <1>7, <1>8, <1>10, KeyKept, Zenon
<1>11. KeyOK(r, key)'
  <2> SUFFICES ASSUME Unskipped(r, n, key)'
               PROVE  DoneBefore(r, key)' /\ WaitsFor(r, key)' /\ WaitOK(r, key)'
    BY <1>4, <1>5, Zenon DEF KeyOK
  <2>1. KeyOK(r, key) /\ Unskipped(r, n, key)
    BY <1>6, <1>8, <1>9, Zenon DEF OwnTx
  <2>2. DoneBefore(r, key) /\ WaitsFor(r, key) /\ WaitOK(r, key)
    BY <1>4, <1>8, <2>1, Zenon DEF KeyOK
  <2>3. DoneBefore(r, key)'
    BY <1>5, <1>8, <2>2, TxnOps, Zenon DEF DoneBefore, StoreGrows
  <2>4. CurrentOp(r)' = CurrentOp(r)
    BY <1>5, Zenon DEF CurrentOp
  <2>5. WaitsFor(r, key)'
    BY <1>5, <2>2, <2>4, Zenon DEF WaitsFor
  <2>6. OpDone(r, v)
    <3>1. OpDone(r, m.body)
      BY <1>2, <1>8, <2>2, Zenon DEF WaitOK
    <3> QED
      BY <1>4, <3>1, Zenon DEF OpDone, SeesOwn
  <2>7. OpDone(r, v)'
    BY <1>5, <2>4, <2>6, Zenon DEF OpDone, InStore
  <2>8. \A q \in net' : ~OpMsg(q, r, key)'
    BY <1>5, <1>8, <2>2, OpMsgConstant, Zenon DEF WaitOK
  <2>9. OpDone(r, remote_results[r][key])'
    BY <1>7, <2>7, Zenon
  <2> QED
    BY <2>3, <2>5, <2>8, <2>9, Zenon DEF WaitOK
<1>12. OwnTx(r)'
  BY <1>9, <1>10, <1>11, Zenon DEF OwnTx
<1> QED
  BY <1>5, <1>7, <1>8, <1>12, OwnOthers, Zenon

\* Nothing has happened at the start.
LEMMA OwnInit == Init => OwnInv
<1> SUFFICES ASSUME Init, NEW r \in Requests PROVE OwnTx(r)
  BY Zenon DEF OwnInv
<1>1. phase[r] = "unborn" /\ op_index[r] = 1 /\ results[r] = <<>> /\ net = {}
  BY Zenon DEF Init
<1>2. DOMAIN results[r] = {}
  BY <1>1
<1>3. \A j \in DOMAIN Txn[r] : ~(j < 1)
  BY TxnOps
<1>4. \A k \in Keys : KeyOK(r, k)
  BY <1>1, <1>3, Zenon DEF KeyOK, DoneBefore, WaitsFor
<1> QED
  BY <1>2, <1>4, Zenon DEF OwnTx

\* Every step keeps results with their operations.
LEMMA OwnStep ==
  ASSUME MessageInv, WaitInv, ListInv, OwnInv, [Next]_vars PROVE OwnInv'
<1>1. ASSUME NEW r \in Requests, OpStep(r) PROVE OwnInv'
  BY <1>1, OwnExec, OwnSent, OwnSkipped, OwnAnswered, Zenon DEF OpStep
<1>2. CASE Lose \/ \E m \in net : HandlerThrows(m)
  BY <1>2, OwnLost, Zenon DEF Lose, HandlerThrows, txVars, remoteVars, opVars
<1> QED
  BY <1>1, <1>2, StepKinds, OwnAside, OwnHandled, OwnResponse, Zenon

\* Whatever is lost, late, reordered or thrown, a result on a key on which no
\* earlier operation of the transaction was skipped is that of its operation
\* (execute_remote_operation, handle_operation_response).
THEOREM OwnResults == Spec => []ResultsAreOwn
<1>1. MessageInv /\ ListInv /\ OwnInv => ResultsAreOwn
  <2> SUFFICES ASSUME ListInv, OwnInv, NEW r \in Requests,
                      NEW i \in DOMAIN results[r], NEW e, e = results[r][i],
                      NoneSkipped(r, e.pos)
               PROVE  LET op == Txn[r][e.pos] IN
                        /\ ~IsRead(op) => Has(store[op.key], op.value)
                        /\ IsRead(op) => \A j \in 1 .. e.pos - 1 :
                             IsAppendTo(Txn[r][j], e.key) =>
                               e.value # Nullopt /\ Has(e.value, Txn[r][j].value)
    BY Zenon DEF ResultsAreOwn
  <2>1. ResultOK(r, e) /\ e.pos \in DOMAIN Txn[r]
    BY Zenon DEF OwnInv, OwnTx, ResultOK
  <2>2. \A j : j \in 1 .. e.pos - 1 <=> j \in DOMAIN Txn[r] /\ j < e.pos
    <3>1. DOMAIN Txn[r] = 1 .. Len(Txn[r]) /\ Len(Txn[r]) \in Nat
      BY DistributedAssumption
    <3> QED
      BY <2>1, <3>1
  <2>3. Unskipped(r, e.pos, e.key)
    BY <2>1, <2>2, Zenon DEF Unskipped, NoneSkipped, ResultOK, ResultAt
  <2> QED
    BY <2>1, <2>2, <2>3, Zenon DEF ResultOK, SeesOwn, InStore
<1>2. /\ MessageInv /\ WaitInv /\ ListInv /\ OwnInv /\ [Next]_vars
      => (MessageInv /\ WaitInv /\ ListInv /\ OwnInv)'
  BY MessageStep, WaitStep, ListStep, OwnStep, Zenon
<1> QED
  BY <1>1, <1>2, MessageInit, ListInit, OwnInit, PTL DEF Spec
==============================================================================
