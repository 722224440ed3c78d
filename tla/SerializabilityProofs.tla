------------------------ MODULE SerializabilityProofs ------------------------
(***************************************************************************)
(* The scheduler implements SerialTransactions.  First what operations     *)
(* append, what reads see and where their results are (Operations,         *)
(* TransactionMessageHandler), by induction over sets of positions; then   *)
(* the results that a transaction has so far; then, action by action, what *)
(* a step of the scheduler is for the abstract specification.              *)
(***************************************************************************)
EXTENDS TwoPLSchedulerProofs, WellFoundedInduction

------------------------------------------------------------------------------
(* Induction                                                               *)

\* The order of the natural numbers is well founded.
LEMMA NatOrder ==
  \E R : IsWellFoundedOn(R, Nat) /\ \A x, y \in Nat : x < y => <<x, y>> \in R
<1>1. IsWellFoundedOn(OpToRel(<, Nat), Nat)
  BY NatLessThanWellFounded, Zenon
<1>2. \A x, y \in Nat : x < y => <<x, y>> \in OpToRel(<, Nat)
  BY DEF OpToRel
<1> QED
  BY <1>1, <1>2, Zenon

\* A set of natural numbers that is not empty has a least one.
LEMMA NatLeast ==
  ASSUME NEW T, T \subseteq Nat, T # {}
  PROVE  \E x \in T : \A y \in T : x <= y
<1>1. PICK R : /\ IsWellFoundedOn(R, Nat)
               /\ \A x, y \in Nat : x < y => <<x, y>> \in R
  BY NatOrder
<1>2. IsWellFoundedOn(R, Nat)
  BY <1>1
<1>3. PICK x \in T : \A y \in T : ~(<<y, x>> \in R)
  BY <1>2, WFMin, Zenon
<1>4. ASSUME NEW y \in T PROVE x <= y
  <2>1. ~(y < x)
    BY <1>1, <1>3, Zenon
  <2> QED
    BY <2>1
<1> QED
  BY <1>4

\* A set that has 0, and n + 1 with every n, has all of them.
LEMMA SetInduction ==
  ASSUME NEW T, 0 \in T, \A n \in Nat : n \in T => n + 1 \in T
  PROVE  Nat \subseteq T
<1> SUFFICES ASSUME ~(Nat \subseteq T) PROVE FALSE
  OBVIOUS
<1> DEFINE B == Nat \ T
<1>1. B \subseteq Nat /\ B # {}
  OBVIOUS
<1>2. PICK b \in B : \A y \in B : b <= y
  BY <1>1, NatLeast, Zenon
<1>3. b # 0 /\ b - 1 \in Nat /\ b - 1 \notin B
  BY <1>2
<1> QED
  BY <1>3, <1>2

\* Positions up to the next one.
LEMMA RunsOn ==
  ASSUME NEW m \in Nat
  PROVE  /\ \A n \in 1 .. m + 1 : n <= m => n \in 1 .. m
         /\ \A n \in 1 .. m + 1 : n > m => n = m + 1
         /\ 1 .. m \subseteq 1 .. m + 1 /\ m + 1 \in 1 .. m + 1
         /\ 1 \in 1 .. m + 1
OBVIOUS

\* The position after one of a list's, and the positions before it.
LEMMA NextPosition ==
  ASSUME NEW m \in Nat, NEW n \in 1 .. m
  PROVE  /\ n + 1 \in 1 .. m + 1 /\ n + 1 - 1 = n
         /\ \A j \in 1 .. m : j < n + 1 => j = n \/ j < n
         /\ \A j \in 1 .. m : j < n => j < n + 1
OBVIOUS

------------------------------------------------------------------------------
(* Appends                                                                 *)

\* What is appended from position j on: the equation of the recursive function
\* in AppendedTo, which some function satisfies.
LEMMA AppendedStep ==
  ASSUME NEW tx, NEW k, NEW to \in Nat
  PROVE  /\ AppendedTo(tx, k, to + 1, to) = <<>>
         /\ \A j \in 1 .. to :
              /\ IsAppendTo(tx[j], k) => AppendedTo(tx, k, j, to) =
                   <<tx[j].value>> \o AppendedTo(tx, k, j + 1, to)
              /\ ~IsAppendTo(tx[j], k) => AppendedTo(tx, k, j, to) =
                   AppendedTo(tx, k, j + 1, to)
<1> DEFINE Step(f, j) == IF j > to THEN <<>>
                         ELSE IF IsAppendTo(tx[j], k)
                              THEN <<tx[j].value>> \o f[j + 1]
                         ELSE f[j + 1]
           Last(m) == (to + 1 - m) .. (to + 1)
           T == {m \in Nat : m <= to =>
                   \E f : f = [j \in Last(m) |-> Step(f, j)]}
<1>1. 0 \in T
  <2> DEFINE f == [j \in Last(0) |-> <<>>]
  <2>1. \A j \in Last(0) : j = to + 1 /\ j > to
    OBVIOUS
  <2>2. f = [j \in Last(0) |-> Step(f, j)]
    BY <2>1
  <2> QED
    BY <2>2, Zenon
<1>2. ASSUME NEW m \in Nat, m \in T PROVE m + 1 \in T
  <2> SUFFICES ASSUME m + 1 <= to
               PROVE  \E g : g = [j \in Last(m + 1) |-> Step(g, j)]
    OBVIOUS
  <2>1. PICK f : f = [j \in Last(m) |-> Step(f, j)]
    BY <1>2
  <2> DEFINE g == [j \in Last(m + 1) |-> Step(f, j)]
  <2>2. ASSUME NEW j \in Last(m + 1), j <= to PROVE g[j + 1] = f[j + 1]
    <3>1. j + 1 \in Last(m) /\ j + 1 \in Last(m + 1)
      BY <2>2
    <3>2. f[j + 1] = Step(f, j + 1)
      <4> HIDE DEF Step
      <4> QED
        BY <2>1, <3>1, Zenon
    <3> HIDE DEF Step
    <3> QED
      BY <3>1, <3>2
  <2>3. ASSUME NEW j \in Last(m + 1) PROVE Step(f, j) = Step(g, j)
    <3>1. CASE j > to
      BY <3>1
    <3>2. CASE j <= to
      <4>1. g[j + 1] = f[j + 1]
        BY <3>2, <2>2, Zenon
      <4> HIDE DEF g
      <4> QED
        BY <4>1
    <3> QED
      BY <3>1, <3>2
  <2>4. g = [j \in Last(m + 1) |-> Step(g, j)]
    <3> HIDE DEF Step
    <3> QED
      BY <2>3
  <2> QED
    BY <2>4, Zenon
<1> HIDE DEF T
<1>3. to \in T
  BY <1>1, <1>2, SetInduction
<1>4. Last(to) = 1 .. to + 1
  OBVIOUS
<1> DEFINE F(f) == [j \in 1 .. to + 1 |-> Step(f, j)]
           rest == CHOOSE f : f = F(f)
<1>5. \E f : f = F(f)
  <2>1. PICK f : f = [j \in Last(to) |-> Step(f, j)]
    BY <1>3 DEF T
  <2>2. f = F(f)
    BY <1>4, <2>1, Zenon
  <2> HIDE DEF F
  <2> QED
    BY <2>2
<1>6. rest = F(rest)
  <2> HIDE DEF F
  <2> QED
    BY <1>5, Zenon
<1>7. \A j : AppendedTo(tx, k, j, to) = rest[j]
  BY Zenon DEF AppendedTo
<1> HIDE DEF rest
<1>8. ASSUME NEW j \in 1 .. to + 1 PROVE rest[j] = Step(rest, j)
  <2> HIDE DEF Step
  <2> QED
    BY <1>6
<1>9. rest[to + 1] = <<>>
  <2>1. rest[to + 1] = Step(rest, to + 1) /\ to + 1 > to
    <3> HIDE DEF Step
    <3> QED
      BY <1>8
  <2> QED
    BY <2>1
<1>10. ASSUME NEW j \in 1 .. to
       PROVE  /\ IsAppendTo(tx[j], k) => rest[j] = <<tx[j].value>> \o rest[j + 1]
              /\ ~IsAppendTo(tx[j], k) => rest[j] = rest[j + 1]
  <2>1. rest[j] = Step(rest, j) /\ ~(j > to)
    <3> HIDE DEF Step
    <3> QED
      BY <1>8
  <2> QED
    BY <2>1
<1> QED
  BY <1>7, <1>9, <1>10, Zenon

\* The appends are a list of integers.
LEMMA AppendedType ==
  ASSUME NEW ks, NEW tx \in Seq(Op(ks)), NEW k, NEW to \in Nat, to <= Len(tx),
         NEW from \in 1 .. to + 1
  PROVE  AppendedTo(tx, k, from, to) \in Seq(Int)
<1> DEFINE A(j) == AppendedTo(tx, k, j, to)
           T == {m \in Nat : m <= to => A(to + 1 - m) \in Seq(Int)}
<1>1. /\ A(to + 1) = <<>>
      /\ \A j \in 1 .. to :
           /\ IsAppendTo(tx[j], k) => A(j) = <<tx[j].value>> \o A(j + 1)
           /\ ~IsAppendTo(tx[j], k) => A(j) = A(j + 1)
  BY AppendedStep, Zenon
<1>2. \A j \in 1 .. to : tx[j].value \in Int
  <2>1. \A j \in 1 .. to : tx[j] \in Op(ks)
    OBVIOUS
  <2> QED
    BY <2>1 DEF Op
<1> HIDE DEF A
<1>3. 0 \in T
  <2>1. to + 1 - 0 = to + 1 /\ <<>> \in Seq(Int)
    OBVIOUS
  <2> QED
    BY <1>1, <2>1, Zenon
<1>4. ASSUME NEW m \in Nat, m \in T PROVE m + 1 \in T
  <2> SUFFICES ASSUME m + 1 <= to PROVE A(to + 1 - (m + 1)) \in Seq(Int)
    OBVIOUS
  <2>1. PICK j \in 1 .. to : j = to + 1 - (m + 1)
    OBVIOUS
  <2>2. A(j + 1) \in Seq(Int)
    <3>1. j + 1 = to + 1 - m
      BY <2>1
    <3> QED
      BY <1>4, <3>1
  <2>3. A(j) \in Seq(Int)
    <3>1. CASE IsAppendTo(tx[j], k)
      <4>1. <<tx[j].value>> \in Seq(Int)
        BY <1>2
      <4>2. A(j) = <<tx[j].value>> \o A(j + 1)
        BY <1>1, <3>1
      <4> QED
        BY <2>2, <4>1, <4>2
    <3>2. CASE ~IsAppendTo(tx[j], k)
      BY <1>1, <2>2, <3>2, Zenon
    <3> QED
      BY <3>1, <3>2
  <2> QED
    BY <2>1, <2>3
<1> HIDE DEF T
<1>5. to + 1 - from \in T
  BY <1>3, <1>4, SetInduction
<1>6. to + 1 - (to + 1 - from) = from
  OBVIOUS
<1> QED
  BY <1>5, <1>6 DEF A, T

\* Nothing is appended to a key that the transaction does not name.
LEMMA NothingAppended ==
  ASSUME NEW ks, NEW tx \in Seq(Op(ks)), NEW k, k \notin KeysOf(tx),
         NEW from \in 1 .. Len(tx) + 1
  PROVE  AppendedTo(tx, k, from, Len(tx)) = <<>>
<1> DEFINE to == Len(tx)
           A(j) == AppendedTo(tx, k, j, to)
           T == {m \in Nat : m <= to => A(to + 1 - m) = <<>>}
<1>1. to \in Nat /\ \A j \in 1 .. to : ~IsAppendTo(tx[j], k)
  BY DEF KeysOf, IsAppendTo
<1>2. /\ A(to + 1) = <<>>
      /\ \A j \in 1 .. to : A(j) = A(j + 1)
  BY <1>1, AppendedStep, Zenon
<1> HIDE DEF A, to
<1>3. 0 \in T
  <2>1. to + 1 - 0 = to + 1
    BY <1>1
  <2> QED
    BY <1>2, <2>1
<1>4. ASSUME NEW m \in Nat, m \in T PROVE m + 1 \in T
  <2> SUFFICES ASSUME m + 1 <= to PROVE A(to + 1 - (m + 1)) = <<>>
    OBVIOUS
  <2>1. PICK j \in 1 .. to : j = to + 1 - (m + 1)
    BY <1>1
  <2>2. A(j + 1) = <<>>
    <3>1. j + 1 = to + 1 - m
      BY <1>1, <2>1
    <3> QED
      BY <1>1, <1>4, <3>1
  <2> QED
    BY <1>1, <1>2, <2>1, <2>2
<1> HIDE DEF T
<1>5. to + 1 - from \in T
  BY <1>1, <1>3, <1>4, SetInduction DEF to
<1>6. to + 1 - (to + 1 - from) = from /\ to + 1 - from <= to
  BY <1>1 DEF to
<1>7. A(from) = <<>>
  BY <1>5, <1>6 DEF T
<1> QED
  BY <1>7 DEF A, to

\* Concatenation of lists is associative.
LEMMA ListsJoin ==
  ASSUME NEW s \in Seq(Int), NEW t \in Seq(Int), NEW u \in Seq(Int)
  PROVE  (s \o t) \o u = s \o (t \o u)
  BY SMTT(30)

\* Nothing is joined to a list.
LEMMA NothingJoined ==
  ASSUME NEW s \in Seq(Int) PROVE s \o <<>> = s
  OBVIOUS

\* The element of a set that has no other.
LEMMA OnlyOne ==
  ASSUME NEW S, NEW x, S = {x} PROVE (CHOOSE c \in S : TRUE) = x /\ S # {}
  OBVIOUS

\* A list with one more element.
LEMMA ListGrows ==
  ASSUME NEW S, NEW s \in Seq(S), NEW x
  PROVE  /\ x \in S => Append(s, x) \in Seq(S)
         /\ Len(s) \in Nat /\ Len(Append(s, x)) = Len(s) + 1
         /\ Append(s, x)[Len(s) + 1] = x
         /\ \A j \in 1 .. Len(s) : Append(s, x)[j] = s[j]
  OBVIOUS

\* A value before a list is a value after the list before it.
LEMMA PushBack ==
  ASSUME NEW s \in Seq(Int), NEW v \in Int, NEW a \in Seq(Int)
  PROVE  s \o (<<v>> \o a) = Append(s, v) \o a
<1>1. Append(s, v) = s \o <<v>> /\ <<v>> \in Seq(Int)
  OBVIOUS
<1>2. (s \o <<v>>) \o a = s \o (<<v>> \o a)
  BY <1>1, ListsJoin, Zenon
<1> QED
  BY <1>1, <1>2, Zenon

\* Running the next operation leaves the same lists for the end.
LEMMA NextRuns ==
  ASSUME NEW ks, NEW tx \in Seq(Op(ks)), NEW k, NEW to \in Nat, to <= Len(tx),
         NEW n \in 1 .. to, NEW s \in Seq(Int)
  PROVE  /\ IsAppendTo(tx[n], k) => s \o AppendedTo(tx, k, n, to) =
              Append(s, tx[n].value) \o AppendedTo(tx, k, n + 1, to)
         /\ ~IsAppendTo(tx[n], k) => s \o AppendedTo(tx, k, n, to) =
              s \o AppendedTo(tx, k, n + 1, to)
<1> DEFINE a == AppendedTo(tx, k, n + 1, to)
           v == tx[n].value
<1>1. a \in Seq(Int)
  BY AppendedType
<1>2. v \in Int
  <2>1. tx[n] \in Op(ks)
    OBVIOUS
  <2> QED
    BY <2>1 DEF Op
<1>3. CASE IsAppendTo(tx[n], k)
  <2>1. AppendedTo(tx, k, n, to) = <<v>> \o a
    BY <1>3, AppendedStep, Zenon
  <2> HIDE DEF a, v
  <2>2. s \o (<<v>> \o a) = Append(s, v) \o a
    BY <1>1, <1>2, PushBack, Zenon
  <2> QED
    BY <1>3, <2>1, <2>2, Zenon DEF a, v
<1>4. CASE ~IsAppendTo(tx[n], k)
  BY <1>4, AppendedStep, Zenon
<1> QED
  BY <1>3, <1>4, Zenon

\* What a read of the list s returns.
Seen(s) == IF s = <<>> THEN Nullopt ELSE s

\* What a read sees depends on the list of its key only.
LEMMA SeenList ==
  ASSUME NEW tx, NEW from, NEW j, NEW db, tx[j].key \in DOMAIN db
  PROVE  SeenAt(tx, from, j, db) =
           Seen(db[tx[j].key] \o AppendedTo(tx, tx[j].key, from, j - 1))
  BY DEF SeenAt, StoreGet, Seen

------------------------------------------------------------------------------
(* Reads                                                                   *)

\* Reads are counted one by one: the equation of the recursive function in
\* ReadsUpTo, which some function satisfies.
LEMMA ReadsCounted ==
  ASSUME NEW ks, NEW tx \in Seq(Op(ks))
  PROVE  /\ ReadsUpTo(tx, 0) = 0
         /\ \A j \in 1 .. Len(tx) :
              /\ ReadsUpTo(tx, j) \in Nat /\ ReadsUpTo(tx, j - 1) \in Nat
              /\ IsRead(tx[j]) => ReadsUpTo(tx, j) = ReadsUpTo(tx, j - 1) + 1
              /\ ~IsRead(tx[j]) => ReadsUpTo(tx, j) = ReadsUpTo(tx, j - 1)
<1> DEFINE Step(f, n) == IF n = 0 THEN 0
                         ELSE IF IsRead(tx[n]) THEN f[n - 1] + 1
                         ELSE f[n - 1]
           T == {m \in Nat : m <= Len(tx) =>
                   \E f : f = [n \in 0 .. m |-> Step(f, n)]}
           F(f) == [n \in 0 .. Len(tx) |-> Step(f, n)]
           reads == CHOOSE f : f = F(f)
<1>1. 0 \in T
  <2> DEFINE f == [n \in 0 .. 0 |-> 0]
  <2>1. f = [n \in 0 .. 0 |-> Step(f, n)]
    OBVIOUS
  <2> QED
    BY <2>1, Zenon
<1>2. ASSUME NEW m \in Nat, m \in T PROVE m + 1 \in T
  <2> SUFFICES ASSUME m + 1 <= Len(tx)
               PROVE  \E g : g = [n \in 0 .. m + 1 |-> Step(g, n)]
    OBVIOUS
  <2>1. PICK f : f = [n \in 0 .. m |-> Step(f, n)]
    BY <1>2
  <2> DEFINE g == [n \in 0 .. m + 1 |-> Step(f, n)]
  <2>2. ASSUME NEW n \in 0 .. m + 1, n # 0 PROVE g[n - 1] = f[n - 1]
    <3>1. n - 1 \in 0 .. m /\ n - 1 \in 0 .. m + 1
      BY <2>2
    <3> HIDE DEF Step
    <3> QED
      BY <2>1, <3>1
  <2>3. ASSUME NEW n \in 0 .. m + 1 PROVE Step(f, n) = Step(g, n)
    <3>1. CASE n = 0
      BY <3>1
    <3>2. CASE n # 0
      <4>1. g[n - 1] = f[n - 1]
        BY <2>2, <3>2, Zenon
      <4> HIDE DEF g
      <4> QED
        BY <4>1
    <3> QED
      BY <3>1, <3>2
  <2>4. g = [n \in 0 .. m + 1 |-> Step(g, n)]
    <3> HIDE DEF Step
    <3> QED
      BY <2>3
  <2> QED
    BY <2>4, Zenon
<1>3. Len(tx) \in T
  <2> HIDE DEF T
  <2> QED
    BY <1>1, <1>2, SetInduction
<1>4. \E f : f = F(f)
  <2>1. PICK f : f = F(f)
    BY <1>3
  <2> HIDE DEF F
  <2> QED
    BY <2>1
<1>5. reads = F(reads)
  <2> HIDE DEF F
  <2> QED
    BY <1>4, Zenon
<1>6. \A j : ReadsUpTo(tx, j) = reads[j]
  BY Zenon DEF ReadsUpTo
<1> HIDE DEF reads
<1>7. ASSUME NEW n \in 0 .. Len(tx) PROVE reads[n] = Step(reads, n)
  <2> HIDE DEF Step
  <2> QED
    BY <1>5
<1>8. reads[0] = 0
  BY <1>7
<1>9. ASSUME NEW j \in 1 .. Len(tx)
      PROVE  /\ IsRead(tx[j]) => reads[j] = reads[j - 1] + 1
             /\ ~IsRead(tx[j]) => reads[j] = reads[j - 1]
  <2>1. reads[j] = Step(reads, j) /\ j # 0
    <3> HIDE DEF Step
    <3> QED
      BY <1>7
  <2> QED
    BY <2>1
<1> DEFINE N == {m \in Nat : m <= Len(tx) => reads[m] \in Nat}
<1>10. 0 \in N
  BY <1>8
<1>11. ASSUME NEW m \in Nat, m \in N PROVE m + 1 \in N
  <2> SUFFICES ASSUME m + 1 <= Len(tx) PROVE reads[m + 1] \in Nat
    OBVIOUS
  <2>1. PICK j \in 1 .. Len(tx) : j = m + 1 /\ j - 1 = m
    OBVIOUS
  <2>2. reads[j - 1] \in Nat
    BY <1>11, <2>1
  <2>3. reads[j] \in Nat
    BY <1>9, <2>2
  <2> QED
    BY <2>1, <2>3
<1>12. \A m \in 0 .. Len(tx) : reads[m] \in Nat
  <2>1. Nat \subseteq N
    <3> HIDE DEF N
    <3> QED
      BY <1>10, <1>11, SetInduction
  <2> QED
    BY <2>1
<1>13. \A j \in 1 .. Len(tx) : reads[j] \in Nat /\ reads[j - 1] \in Nat
  BY <1>12
<1>14. ASSUME NEW j \in 1 .. Len(tx)
       PROVE  /\ IsRead(tx[j]) => ReadsUpTo(tx, j) = ReadsUpTo(tx, j - 1) + 1
              /\ ~IsRead(tx[j]) => ReadsUpTo(tx, j) = ReadsUpTo(tx, j - 1)
              /\ ReadsUpTo(tx, j) \in Nat /\ ReadsUpTo(tx, j - 1) \in Nat
  <2>1. ReadsUpTo(tx, j) = reads[j] /\ ReadsUpTo(tx, j - 1) = reads[j - 1]
    BY <1>6, Zenon
  <2> QED
    BY <1>9, <1>13, <2>1, Zenon
<1> QED
  BY <1>6, <1>8, <1>14, Zenon

\* What a scheduler returns for a read.
ReadResult(keys) == [key : keys, value : Seq(Int) \cup {Nullopt}]

\* The results with one more.
LEMMA ResultAdded ==
  ASSUME NEW s \in Seq(ReadResult(Keys)), NEW x
  PROVE  /\ Append(s, x)[Len(s) + 1] = x
         /\ \A j \in 1 .. Len(s) : Append(s, x)[j] = s[j]
BY ListGrows

\* The cursor of createReply finds every read's own result, if the results are
\* those of the transaction's reads, in their order.
LEMMA RepliesWithResults ==
  ASSUME NEW ks, NEW tx \in Seq(Op(ks)), NEW reads \in Seq(ReadResult(ks)),
         \A j \in ReadPositions(tx) :
           /\ ReadsUpTo(tx, j) \in 1 .. Len(reads)
           /\ reads[ReadsUpTo(tx, j)].key = tx[j].key
  PROVE  createReply(tx, reads) =
           [j \in ReadPositions(tx) |-> reads[ReadsUpTo(tx, j)].value]
<1> DEFINE D == 0 .. Len(tx)
           Move(cur, j) == IF j = 0 THEN 1
                           ELSE IF ResultFor(tx[j], reads, cur[j - 1])
                                THEN cur[j - 1] + 1
                                ELSE cur[j - 1]
           F(cur) == [j \in D |-> Move(cur, j)]
           curRead == CHOOSE cur : cur = F(cur)
           count == [j \in D |-> ReadsUpTo(tx, j) + 1]
<1>1. \A j \in D : j # 0 => j \in 1 .. Len(tx) /\ j - 1 \in D
  OBVIOUS
<1>2. ASSUME NEW j \in D, j # 0
      PROVE  ResultFor(tx[j], reads, ReadsUpTo(tx, j - 1) + 1) <=> IsRead(tx[j])
  <2>1. CASE IsRead(tx[j])
    <3>1. j \in ReadPositions(tx)
      BY <1>1, <1>2, <2>1 DEF ReadPositions
    <3>2. ReadsUpTo(tx, j) = ReadsUpTo(tx, j - 1) + 1
      BY <1>1, <1>2, <2>1, ReadsCounted
    <3> QED
      BY <2>1, <3>1, <3>2 DEF ResultFor
  <2>2. CASE ~IsRead(tx[j])
    BY <2>2 DEF ResultFor
  <2> QED
    BY <2>1, <2>2
<1>3. count = F(count)
  <2>1. ASSUME NEW j \in D PROVE ReadsUpTo(tx, j) + 1 = Move(count, j)
    <3>1. CASE j = 0
      BY <3>1, ReadsCounted
    <3>2. CASE j # 0
      <4>1. count[j - 1] = ReadsUpTo(tx, j - 1) + 1
        BY <1>1, <3>2
      <4> HIDE DEF count
      <4>2. Move(count, j) = IF IsRead(tx[j]) THEN ReadsUpTo(tx, j - 1) + 1 + 1
                             ELSE ReadsUpTo(tx, j - 1) + 1
        BY <1>2, <3>2, <4>1
      <4>3. j \in 1 .. Len(tx)
        BY <1>1, <3>2
      <4> HIDE DEF Move
      <4> QED
        BY <4>2, <4>3, ReadsCounted
    <3> QED
      BY <3>1, <3>2, Zenon
  <2> HIDE DEF Move
  <2> QED
    BY <2>1
<1>4. curRead = F(curRead)
  <2>1. \E cur : cur = F(cur)
    <3> HIDE DEF F, count
    <3> QED
      BY <1>3
  <2> HIDE DEF F
  <2> QED
    BY <2>1, Zenon
<1>5. createReply(tx, reads) =
        [j \in ReadPositions(tx) |->
           IF ResultFor(tx[j], reads, curRead[j - 1])
           THEN reads[curRead[j - 1]].value
           ELSE Nullopt]
  BY Zenon DEF createReply
<1> HIDE DEF curRead
<1>6. ASSUME NEW j \in D PROVE curRead[j] = Move(curRead, j)
  <2> HIDE DEF Move, D
  <2>1. F(curRead)[j] = Move(curRead, j)
    BY Zenon
  <2> HIDE DEF F
  <2> QED
    BY <1>4, <2>1, Zenon
<1> DEFINE T == {n \in Nat : n \in D => curRead[n] = ReadsUpTo(tx, n) + 1}
<1>7. 0 \in T
  BY <1>6, ReadsCounted
<1>8. ASSUME NEW n \in Nat, n \in T PROVE n + 1 \in T
  <2> SUFFICES ASSUME n + 1 \in D
               PROVE  curRead[n + 1] = ReadsUpTo(tx, n + 1) + 1
    OBVIOUS
  <2>1. PICK j \in 1 .. Len(tx) : j = n + 1 /\ j - 1 = n /\ j # 0 /\ j \in D
    OBVIOUS
  <2>2. curRead[j - 1] = ReadsUpTo(tx, j - 1) + 1
    BY <1>8, <2>1
  <2>3. curRead[j] = Move(curRead, j)
    BY <1>6, <2>1
  <2>4. Move(curRead, j) = IF IsRead(tx[j]) THEN ReadsUpTo(tx, j - 1) + 1 + 1
                           ELSE ReadsUpTo(tx, j - 1) + 1
    BY <1>2, <2>1, <2>2
  <2> HIDE DEF Move
  <2>5. curRead[j] = ReadsUpTo(tx, j) + 1
    BY <2>3, <2>4, ReadsCounted, Zenon
  <2> QED
    BY <2>1, <2>5
<1>9. Nat \subseteq T
  <2> HIDE DEF T
  <2>1. \A n \in Nat : n \in T => n + 1 \in T
    BY <1>8, Zenon
  <2> QED
    BY <1>7, <2>1, SetInduction, Zenon
<1>10. ASSUME NEW j \in ReadPositions(tx)
       PROVE  /\ ResultFor(tx[j], reads, curRead[j - 1])
              /\ curRead[j - 1] = ReadsUpTo(tx, j)
  <2>1. j \in 1 .. Len(tx) /\ IsRead(tx[j]) /\ j \in D /\ j # 0 /\ j - 1 \in Nat
    BY DEF ReadPositions
  <2>2. curRead[j - 1] = ReadsUpTo(tx, j - 1) + 1
    BY <1>1, <1>9, <2>1
  <2> QED
    BY <1>2, <2>1, <2>2, ReadsCounted, Zenon
<1> QED
  BY <1>5, <1>10, Zenon

\* The operations of a sequence of operations.
LEMMA OpAt ==
  ASSUME NEW ks
  PROVE  /\ \A tx \in Seq(Op(ks)) : \A j \in 1 .. Len(tx) : tx[j] \in Op(ks)
         /\ \A op \in Op(ks) : /\ op.type \in {"READ", "APPEND"}
                               /\ op.key \in ks /\ op.value \in Int
<1>1. \A op \in Op(ks) : /\ op.type \in {"READ", "APPEND"}
                         /\ op.key \in ks /\ op.value \in Int
  BY DEF Op
<1> QED
  BY <1>1

\* The positions of a transaction's reads, and their keys.
LEMMA ReadAt ==
  ASSUME NEW i \in Callers, NEW j \in ReadPositions(Txn[i])
  PROVE  /\ j \in 1 .. Len(Txn[i]) /\ IsRead(Txn[i][j])
         /\ Txn[i][j].key \in KeysOf(Txn[i]) /\ Txn[i][j].key \in Keys
<1>1. j \in 1 .. Len(Txn[i]) /\ IsRead(Txn[i][j])
  BY TxnShape, Zenon DEF ReadPositions
<1> QED
  BY <1>1, TxnKeys, Zenon

\* Stores with the same list for a key.
SameList(k, db1, db2) ==
  k \in DOMAIN db1 /\ k \in DOMAIN db2 /\ db1[k] = db2[k]

\* Whatever runs before operation j of transaction i, it sees the same in both.
SeesSame(i, j, db1, db2) ==
  \A n : SeenAt(Txn[i], n, j, db1) = SeenAt(Txn[i], n, j, db2)

\* A read sees the same in stores that have the same list for its key.
LEMMA SeenSame ==
  ASSUME NEW i \in Callers, NEW j \in ReadPositions(Txn[i]), NEW db1, NEW db2,
         SameList(Txn[i][j].key, db1, db2)
  PROVE  SeesSame(i, j, db1, db2)
BY SeenList DEF SameList, SeesSame

\* All reads of a transaction are before its end.
LEMMA ReadsBeforeEnd ==
  ASSUME NEW i \in Callers, NEW j \in ReadPositions(Txn[i])
  PROVE  j \in Nat /\ j < Len(Txn[i]) + 1
<1>1. j \in 1 .. Len(Txn[i]) /\ Len(Txn[i]) \in Nat
  BY ReadAt, TxnShape, Zenon
<1> QED
  BY <1>1

------------------------------------------------------------------------------
(* The results of a transaction                                            *)

\* The results are those of the reads before op_index, in their order.
ResultsOK(i) ==
  /\ results[i] \in Seq(ReadResult(Keys))
  /\ op_index[i] \in 1 .. Len(Txn[i]) + 1
  /\ phase[i] \in {"unborn", "growing"} => op_index[i] = 1
  /\ phase[i] \in {"shrinking", "committed"} => op_index[i] = Len(Txn[i]) + 1
  /\ Len(results[i]) = ReadsUpTo(Txn[i], op_index[i] - 1)
  /\ \A j \in ReadPositions(Txn[i]) : j < op_index[i] =>
       /\ ReadsUpTo(Txn[i], j) \in 1 .. Len(results[i])
       /\ results[i][ReadsUpTo(Txn[i], j)].key = Txn[i][j].key

ResultsInv == store \in [Keys -> Seq(Int)] /\ \A i \in Callers : ResultsOK(i)

\* No operation ran yet.
LEMMA ResultsInit == Init => ResultsInv
<1> SUFFICES ASSUME Init, NEW i \in Callers PROVE ResultsOK(i)
  BY DEF ResultsInv, Init
<1>1. Txn[i] \in Seq(Op(Keys)) /\ op_index[i] = 1 /\ results[i] = <<>>
      /\ phase[i] = "unborn"
  BY SchedulerAssumption DEF Init
<1>2. ReadsUpTo(Txn[i], 0) = 0 /\ 1 - 1 = 0
  BY <1>1, ReadsCounted
<1>3. \A j \in ReadPositions(Txn[i]) : ~(j < 1)
  BY <1>1 DEF ReadPositions
<1> QED
  BY <1>1, <1>2, <1>3 DEF ResultsOK

\* An operation adds its result, if it is a read.
LEMMA ResultsExec ==
  ASSUME TypeOK, ResultsInv, NEW i \in Callers, ExecOp(i) PROVE ResultsInv'
<1> DEFINE tx == Txn[i]
           res == results[i]
<1>1. PICK n : n = op_index[i]
  OBVIOUS
<1>2. /\ tx \in Seq(Op(Keys)) /\ n \in 1 .. Len(tx) /\ phase[i] = "executing"
      /\ phase' = phase /\ op_index' = [op_index EXCEPT ![i] = n + 1]
      /\ res \in Seq(ReadResult(Keys)) /\ Len(res) = ReadsUpTo(tx, n - 1)
  <2>1. /\ n \in 1 .. Len(tx) + 1 /\ n <= Len(tx) /\ phase[i] = "executing"
        /\ phase' = phase /\ op_index' = [op_index EXCEPT ![i] = @ + 1]
        /\ res \in Seq(ReadResult(Keys)) /\ Len(res) = ReadsUpTo(tx, n - 1)
    BY <1>1, Zenon DEF ExecOp, ResultsInv, ResultsOK
  <2>2. tx \in Seq(Op(Keys)) /\ Len(tx) \in Nat
    BY TxnShape, Zenon
  <2>3. n \in 1 .. Len(tx)
    BY <2>1, <2>2, RunsOn, Zenon
  <2> QED
    BY <1>1, <2>1, <2>2, <2>3, Zenon
<1>3. PICK op : op = tx[n]
  OBVIOUS
<1>4. op \in Op(Keys) /\ op.key \in Keys /\ op.value \in Int
  <2>1. op \in Op(Keys)
    BY <1>2, <1>3
  <2> QED
    BY <2>1 DEF Op
<1>5. ASSUME NEW c \in Callers, c # i, results'[c] = results[c] PROVE ResultsOK(c)'
  <2>1. op_index'[c] = op_index[c]
    BY <1>2, <1>5, Zenon DEF TypeOK
  <2> QED
    BY <1>2, <1>5, <2>1, Zenon DEF ResultsInv, ResultsOK
<1>6. /\ op_index'[i] = n + 1 /\ n + 1 \in 1 .. Len(tx) + 1
      /\ op_index'[i] - 1 = n /\ phase'[i] = "executing"
      /\ \A j \in ReadPositions(tx) : j < n + 1 => j = n \/ j < n
  <2>1. Len(tx) \in Nat /\ ReadPositions(tx) \subseteq 1 .. Len(tx)
    BY TxnShape, Zenon DEF ReadPositions
  <2>2. op_index'[i] = n + 1 /\ phase'[i] = "executing"
    BY <1>2, Zenon DEF TypeOK
  <2>3. /\ n + 1 \in 1 .. Len(tx) + 1 /\ n + 1 - 1 = n
        /\ \A j \in ReadPositions(tx) : j < n + 1 => j = n \/ j < n
    BY <1>2, <2>1, NextPosition, Zenon
  <2>4. op_index'[i] - 1 = n
    <3>1. n \in Nat
      BY <1>2, <2>1
    <3> QED
      BY <2>2, <3>1
  <2> QED
    BY <2>2, <2>3, <2>4, Zenon
<1>7. \A j \in ReadPositions(tx) : j < n =>
        /\ ReadsUpTo(tx, j) \in 1 .. Len(res)
        /\ res[ReadsUpTo(tx, j)].key = tx[j].key
  BY <1>1, Zenon DEF ResultsInv, ResultsOK
<1>8. CASE IsRead(op)
  <2> DEFINE new == [key |-> op.key, value |-> StoreGet(store, op.key)]
  <2>1. results' = [results EXCEPT ![i] = Append(res, new)] /\ store' = store
    BY <1>1, <1>3, <1>8, Zenon DEF ExecOp
  <2>2. new \in ReadResult(Keys)
    BY <1>4 DEF ResultsInv, StoreGet, ReadResult
  <2>a. new.key = op.key
    OBVIOUS
  <2> HIDE DEF new
  <2>3. /\ results'[i] = Append(res, new) /\ results'[i] \in Seq(ReadResult(Keys))
        /\ Len(results'[i]) = Len(res) + 1 /\ results'[i][Len(res) + 1] = new
        /\ \A x \in 1 .. Len(res) : results'[i][x] = res[x]
    <3>1. results'[i] = Append(res, new)
      BY <2>1, Zenon DEF TypeOK
    <3> QED
      BY <1>2, <2>2, <3>1, ListGrows
  <2>4. ReadsUpTo(tx, n) = Len(res) + 1 /\ Len(res) \in Nat
    BY <1>2, <1>3, <1>8, ReadsCounted, Zenon
  <2>b. 1 .. Len(res) \subseteq 1 .. Len(res) + 1
        /\ Len(res) + 1 \in 1 .. Len(res) + 1
    BY <2>4, RunsOn, Zenon
  <2>5. ASSUME NEW j \in ReadPositions(tx), j < n + 1
        PROVE  /\ ReadsUpTo(tx, j) \in 1 .. Len(res) + 1
               /\ results'[i][ReadsUpTo(tx, j)].key = tx[j].key
    <3>1. CASE j = n
      BY <1>3, <2>a, <2>b, <2>3, <2>4, <3>1, Zenon
    <3>2. CASE j # n
      <4>1. j < n
        BY <1>6, <2>5, <3>2, Zenon
      <4>2. ReadsUpTo(tx, j) \in 1 .. Len(res)
            /\ res[ReadsUpTo(tx, j)].key = tx[j].key
        BY <1>7, <4>1, Zenon
      <4> QED
        BY <2>b, <2>3, <4>2, Zenon
    <3> QED
      BY <3>1, <3>2, Zenon
  <2>6. ResultsOK(i)'
    <3>1. /\ phase'[i] = "executing"
          /\ Len(results'[i]) = ReadsUpTo(tx, op_index'[i] - 1)
      <4>1. Len(results'[i]) = ReadsUpTo(tx, n)
        BY <2>3, <2>4, Zenon
      <4> QED
        BY <1>6, <4>1, Zenon
    <3>2. \A j \in ReadPositions(tx) : j < op_index'[i] =>
            /\ ReadsUpTo(tx, j) \in 1 .. Len(results'[i])
            /\ results'[i][ReadsUpTo(tx, j)].key = tx[j].key
      BY <1>6, <2>3, <2>5, Zenon
    <3>3. results'[i] \in Seq(ReadResult(Keys)) /\ op_index'[i] \in 1 .. Len(tx) + 1
      BY <1>6, <2>3, Zenon
    <3> QED
      BY <3>1, <3>2, <3>3, Zenon DEF ResultsOK
  <2>7. \A c \in Callers : c # i => results'[c] = results[c]
    BY <2>1, Zenon DEF TypeOK
  <2> QED
    BY <1>5, <2>1, <2>6, <2>7 DEF ResultsInv
<1>9. CASE ~IsRead(op)
  <2>1. results' = results /\ store' = StoreAppend(store, op.key, op.value)
    BY <1>1, <1>3, <1>9, Zenon DEF ExecOp
  <2>2. store' \in [Keys -> Seq(Int)]
    BY <1>4, <2>1 DEF ResultsInv, StoreAppend
  <2>3. ReadsUpTo(tx, n) = Len(res)
    BY <1>2, <1>3, <1>9, ReadsCounted, Zenon
  <2>4. ASSUME NEW j \in ReadPositions(tx), j < n + 1 PROVE j < n
    BY <1>3, <1>6, <1>9, <2>4, Zenon DEF ReadPositions
  <2>5. ResultsOK(i)'
    <3>1. /\ phase'[i] = "executing"
          /\ Len(results'[i]) = ReadsUpTo(tx, op_index'[i] - 1)
      BY <1>6, <2>1, <2>3, Zenon
    <3>2. \A j \in ReadPositions(tx) : j < op_index'[i] =>
            /\ ReadsUpTo(tx, j) \in 1 .. Len(results'[i])
            /\ results'[i][ReadsUpTo(tx, j)].key = tx[j].key
      BY <1>6, <1>7, <2>1, <2>4, Zenon
    <3>3. results'[i] \in Seq(ReadResult(Keys)) /\ op_index'[i] \in 1 .. Len(tx) + 1
      BY <1>2, <1>6, <2>1, Zenon
    <3> QED
      BY <3>1, <3>2, <3>3, Zenon DEF ResultsOK
  <2> QED
    BY <1>5, <2>1, <2>2, <2>5 DEF ResultsInv
<1> QED
  BY <1>8, <1>9

\* Every step keeps the results in order.
LEMMA ResultsNext == TypeOK /\ ResultsInv /\ PhaseInv /\ [Next]_vars => ResultsInv'
<1> SUFFICES ASSUME TypeOK, ResultsInv, PhaseInv, [Next]_vars PROVE ResultsInv'
  OBVIOUS
<1>1. ASSUME UNCHANGED <<op_index, results, store>>,
             NEW i \in Callers, NEW p, phase' = [phase EXCEPT ![i] = p],
             p \in {"unborn", "growing"} => op_index[i] = 1,
             p \in {"shrinking", "committed"} => op_index[i] = Len(Txn[i]) + 1
      PROVE  ResultsInv'
  BY <1>1, Zenon DEF ResultsInv, ResultsOK, TypeOK
<1>2. ASSUME UNCHANGED <<phase, op_index, results, store>> PROVE ResultsInv'
  BY <1>2, Zenon DEF ResultsInv, ResultsOK
<1>3. ASSUME NEW i \in Callers, Begin(i) PROVE ResultsInv'
  <2>1. phase[i] = "unborn"
    BY <1>3, Unborn, Zenon
  <2>2. op_index[i] = 1
    BY <2>1, Zenon DEF ResultsInv, ResultsOK
  <2> QED
    BY <1>1, <1>3, <2>2, Zenon DEF Begin, EnterPhase
<1>4. ASSUME NEW i \in Callers, LockNext(i) \/ InLockManager(i) PROVE ResultsInv'
  BY <1>2, <1>4 DEF LockNext, InLockManager, schedVars
<1>5. ASSUME NEW i \in Callers, AbortOnRefusal(i) \/ FailOnException(i)
                                \/ AllLocked(i) \/ ReplyAborted(i)
      PROVE  ResultsInv'
  BY <1>1, <1>5, Zenon
  DEF AbortOnRefusal, FailOnException, AllLocked, ReplyAborted,
     ReplyOk, EnterPhase
<1>6. ASSUME NEW i \in Callers, Shrink(i) PROVE ResultsInv'
  <2>1. op_index[i] = Len(Txn[i]) + 1
    <3>1. op_index[i] \in 1 .. Len(Txn[i]) + 1 /\ op_index[i] > Len(Txn[i])
      BY <1>6, Zenon DEF ResultsInv, ResultsOK, Shrink
    <3> QED
      BY <3>1, TxnShape, RunsOn, Zenon
  <2> QED
    BY <1>1, <1>6, <2>1, Zenon DEF Shrink, EnterPhase
<1>7. ASSUME NEW i \in Callers, ReplyCommitted(i) PROVE ResultsInv'
  <2>1. op_index[i] = Len(Txn[i]) + 1
    BY <1>7, Zenon DEF ResultsInv, ResultsOK, ReplyCommitted
  <2> QED
    BY <1>1, <1>7, <2>1, Zenon DEF ReplyCommitted, ReplyOk, EnterPhase
<1>8. CASE UNCHANGED vars
  BY <1>2, <1>8 DEF vars, schedVars
<1> QED
  BY <1>3, <1>4, <1>5, <1>6, <1>7, <1>8, ResultsExec DEF Next, TxStep

------------------------------------------------------------------------------
(* Serializability                                                         *)

\* A transaction that executes is alone on its keys.
LEMMA AloneOnKeys ==
  ASSUME SchedulerInv, NEW i \in Callers, NEW k \in KeysOf(Txn[i]),
         phase[i] = "executing"
                \/ (phase[i] = "growing" /\ to_lock[i] = {}
                    /\ Returned(i, {"none", "acquired"}))
  PROVE  RunningOn(k) \subseteq {i}
<1>1. \A c \in Callers : TxOf[c] = c
  BY SchedulerAssumption, Zenon
<1>2. k \in granted[i]
  BY Zenon DEF SchedulerInv, PhaseInv, PhaseOK
<1>3. ASSUME NEW c \in RunningOn(k) PROVE c \in Callers /\ k \in granted[c]
  BY Zenon DEF RunningOn, SchedulerInv, PhaseInv, PhaseOK
<1>4. \A c \in Callers : k \in granted[c] => owner[k] = c
  BY <1>1, Zenon DEF SchedulerInv, LockInv, GrantInv
<1> QED
  BY <1>2, <1>3, <1>4, Zenon

\* The list that the transactions past their lock point will leave.
LEMMA SerialList ==
  ASSUME SchedulerInv, ResultsInv, NEW k \in Keys
  PROVE  /\ RunningOn(k) = {} => SerialDb[k] = store[k]
         /\ \A i \in RunningOn(k) : SerialDb[k] =
              store[k] \o AppendedTo(Txn[i], k, op_index[i], Len(Txn[i]))
<1>1. ASSUME NEW i \in RunningOn(k)
      PROVE  SerialDb[k] =
               store[k] \o AppendedTo(Txn[i], k, op_index[i], Len(Txn[i]))
  <2>1. RunningOn(k) = {i} /\ i \in Callers
    <3>1. i \in Callers /\ k \in KeysOf(Txn[i]) /\ phase[i] = "executing"
      BY Zenon DEF RunningOn
    <3>2. RunningOn(k) \subseteq {i}
      BY <3>1, AloneOnKeys, Zenon
    <3> QED
      BY <1>1, <3>1, <3>2, Zenon
  <2>2. (CHOOSE c \in RunningOn(k) : TRUE) = i /\ RunningOn(k) # {}
    BY <2>1, OnlyOne, Zenon
  <2>3. k \in DOMAIN store
    BY Zenon DEF ResultsInv
  <2>4. SerialDb[k] = AfterOps(Txn[i], op_index[i], store)[k]
    BY <2>2, Zenon DEF SerialDb
  <2> QED
    BY <2>3, <2>4, Zenon DEF AfterOps
<1> QED
  BY <1>1, Zenon DEF SerialDb

\* The list that they will leave is the same if the same transactions run on
\* its key and neither the list nor what they have to do changes.
LEMMA SerialListKept ==
  ASSUME NEW k \in Keys, RunningOn(k)' = RunningOn(k), store'[k] = store[k],
         \A c \in RunningOn(k) : op_index'[c] = op_index[c],
         k \in DOMAIN store, k \in DOMAIN store'
  PROVE  SerialDb'[k] = SerialDb[k]
<1>1. PICK c : c = CHOOSE d \in RunningOn(k) : TRUE
  BY Zenon
<1>2. c = CHOOSE d \in RunningOn(k)' : TRUE
  BY <1>1, Zenon
<1>3. RunningOn(k) # {} => op_index'[c] = op_index[c]
  BY <1>1, Zenon
<1> QED
  BY <1>1, <1>2, <1>3, ZenonT(30) DEF SerialDb, AfterOps

\* The lists of the abstract specification are lists of integers.
LEMMA SerialListType ==
  ASSUME SchedulerInv, ResultsInv, NEW k \in Keys PROVE SerialDb[k] \in Seq(Int)
<1>1. CASE RunningOn(k) = {}
  BY <1>1, SerialList, Zenon DEF ResultsInv
<1>2. CASE RunningOn(k) # {}
  <2>1. PICK i \in RunningOn(k) : i \in Callers
    BY <1>2, Zenon DEF RunningOn
  <2>2. PICK s \in Seq(Int) : s = AppendedTo(Txn[i], k, op_index[i], Len(Txn[i]))
    <3>1. Txn[i] \in Seq(Op(Keys)) /\ op_index[i] \in 1 .. Len(Txn[i]) + 1
      BY <2>1, SchedulerAssumption, Zenon DEF ResultsInv, ResultsOK
    <3>2. Len(Txn[i]) \in Nat /\ Len(Txn[i]) <= Len(Txn[i])
      BY <3>1
    <3> QED
      BY <3>1, <3>2, AppendedType, Zenon
  <2>3. SerialDb[k] = store[k] \o s /\ store[k] \in Seq(Int)
    BY <2>1, <2>2, SerialList, Zenon DEF ResultsInv
  <2> QED
    BY <2>3
<1> QED
  BY <1>1, <1>2

\* The operators of the abstract specification are the scheduler's.
LEMMA SerialOperators ==
  /\ \A tx, k, from, to :
       Serial!AppendedTo(tx, k, from, to) = AppendedTo(tx, k, from, to)
  /\ \A tx, from, db : Serial!AfterOps(tx, from, db) = AfterOps(tx, from, db)
  /\ \A tx, from, j, db : Serial!SeenAt(tx, from, j, db) = SeenAt(tx, from, j, db)
  /\ \A tx : Serial!ReadPositions(tx) = ReadPositions(tx)
<1>1. \A op, k : Serial!IsAppendTo(op, k) = IsAppendTo(op, k)
  BY DEF Serial!IsAppendTo, IsAppendTo
<1>2. \A tx, k, from, to :
        Serial!AppendedTo(tx, k, from, to) = AppendedTo(tx, k, from, to)
  BY Zenon DEF Serial!AppendedTo, AppendedTo, Serial!IsAppendTo, IsAppendTo
<1>3. \A tx, from, db : Serial!AfterOps(tx, from, db) = AfterOps(tx, from, db)
  BY <1>2 DEF Serial!AfterOps, AfterOps
<1>4. \A tx, from, j, db : Serial!SeenAt(tx, from, j, db) = SeenAt(tx, from, j, db)
  BY <1>2 DEF Serial!SeenAt, SeenAt, Serial!StoreGet, StoreGet
<1>5. \A tx : Serial!ReadPositions(tx) = ReadPositions(tx)
  BY DEF Serial!ReadPositions, ReadPositions, Serial!IsRead, IsRead
<1> QED
  BY <1>2, <1>3, <1>4, <1>5, ZenonT(30)

\* Steps that leave a transaction's reads as they are.
LEMMA ReadsKept ==
  ASSUME NEW i \in Callers, ResultsInv, DOMAIN store' = Keys,
         op_index'[i] = op_index[i], results'[i] = results[i],
         reply'[i] = reply[i],
         phase'[i] = phase[i],
         phase[i] \in {"executing", "shrinking"} =>
           \A k \in KeysOf(Txn[i]) : store'[k] = store[k] \/ op_index[i] > Len(Txn[i])
  PROVE  SerialReads'[i] = SerialReads[i]
<1>1. CASE phase[i] \in {"executing", "shrinking"}
  <2>1. ASSUME NEW j \in ReadPositions(Txn[i]), ~(j < op_index[i])
        PROVE  SeenAt(Txn[i], op_index[i], j, store)' = SeenAt(Txn[i], op_index[i], j, store)
    <3>1. Txn[i][j].key \in KeysOf(Txn[i]) /\ Txn[i][j].key \in Keys
      BY ReadAt, Zenon
    <3>2. ~(op_index[i] > Len(Txn[i]))
      <4>1. op_index[i] > Len(Txn[i]) => op_index[i] = Len(Txn[i]) + 1
        BY TxnShape, RunsOn, Zenon DEF ResultsInv, ResultsOK
      <4> QED
        BY <2>1, <4>1, ReadsBeforeEnd, Zenon
    <3>3. store'[Txn[i][j].key] = store[Txn[i][j].key]
      BY <1>1, <3>1, <3>2, Zenon
    <3>4. PICK n : n = op_index[i] /\ n = op_index'[i]
      BY Zenon
    <3>5. SeenAt(Txn[i], n, j, store') = SeenAt(Txn[i], n, j, store)
      <4>1. Txn[i][j].key \in DOMAIN store /\ Txn[i][j].key \in DOMAIN store'
        BY <3>1, Zenon DEF ResultsInv
      <4>2. SameList(Txn[i][j].key, store', store)
        BY <3>3, <4>1, Zenon DEF SameList
      <4>3. SeesSame(i, j, store', store)
        BY <4>2, SeenSame, Zenon
      <4> QED
        BY <4>3, Zenon DEF SeesSame
    <3> QED
      BY <3>4, <3>5, Zenon
  <2> QED
    BY <1>1, <2>1, Zenon DEF SerialReads
<1>2. CASE phase[i] \notin {"executing", "shrinking"}
  BY <1>2, Zenon DEF SerialReads
<1> QED
  BY <1>1, <1>2, Zenon

\* What the abstract specification knows of a phase.
StatusIn(p) ==
  IF p \in {"executing", "shrinking", "committed"} THEN "committed"
  ELSE IF p \in {"aborting", "aborted", "failed"} THEN "aborted"
  ELSE "open"

\* A change of phase, as the abstract specification sees it.
LEMMA StatusMoves ==
  ASSUME TypeOK, NEW i \in Callers, NEW p, phase' = [phase EXCEPT ![i] = p]
  PROVE  SerialStatus' = [SerialStatus EXCEPT ![i] = StatusIn(p)]
<1>1. /\ SerialStatus = [c \in Callers |-> StatusIn(phase[c])]
      /\ SerialStatus' = [c \in Callers |-> StatusIn(phase'[c])]
  BY Zenon DEF SerialStatus, StatusIn
<1>2. \A c \in Callers : phase'[c] = IF c = i THEN p ELSE phase[c]
  BY Zenon DEF TypeOK
<1> QED
  BY <1>1, <1>2

\* Lists and reads are the same if every transaction that runs on a key does
\* and nothing was executed.
LEMMA SerialKept ==
  ASSUME TypeOK, ResultsInv, UNCHANGED <<op_index, results, store>>,
         NEW i \in Callers, NEW p, phase' = [phase EXCEPT ![i] = p],
         phase[i] = "executing" <=> p = "executing",
         SerialReads'[i] = SerialReads[i],
         \A c \in Callers : c # i => reply'[c] = reply[c]
  PROVE  SerialDb' = SerialDb /\ SerialReads' = SerialReads
<1>1. \A c \in Callers : c # i => phase'[c] = phase[c]
  BY Zenon DEF TypeOK
<1>2. \A k : RunningOn(k)' = RunningOn(k)
  BY Zenon DEF RunningOn, TypeOK
<1>3. SerialDb' = SerialDb
  <2>1. ASSUME NEW k \in Keys PROVE SerialDb'[k] = SerialDb[k]
    <3>1. k \in DOMAIN store /\ k \in DOMAIN store'
      BY Zenon DEF ResultsInv
    <3> QED
      BY <1>2, <3>1, SerialListKept, Zenon
  <2> QED
    BY <2>1, Zenon DEF SerialDb
<1>4. \A c \in Callers : SerialReads'[c] = SerialReads[c]
  <2>1. ASSUME NEW c \in Callers, c # i PROVE SerialReads'[c] = SerialReads[c]
    <3>1. DOMAIN store' = Keys
      BY Zenon DEF ResultsInv
    <3> QED
      BY <1>1, <2>1, <3>1, ReadsKept, ZenonT(30)
  <2> QED
    BY <2>1, Zenon
<1>5. SerialReads' = SerialReads
  BY <1>4, Zenon DEF SerialReads
<1> QED
  BY <1>3, <1>5, Zenon

\* Phases in which nothing has been read.
NotRead == {"unborn", "growing", "aborting", "aborted", "failed"}

\* A transaction is born, refused, answered after an abort, or fails.
LEMMA SerialAbort ==
  ASSUME SchedulerInv, ResultsInv, NEW i \in Callers,
         \/ Begin(i) \/ AbortOnRefusal(i) \/ FailOnException(i)
         \/ ReplyAborted(i)
  PROVE  [Serial!Next]_(Serial!serialVars)
<1>1. PICK p \in NotRead :
        /\ phase[i] \in NotRead /\ phase' = [phase EXCEPT ![i] = p]
        /\ \/ StatusIn(p) = StatusIn(phase[i])
           \/ StatusIn(phase[i]) = "open" /\ StatusIn(p) = "aborted"
  <2>1. CASE Begin(i)
    <3>1. phase[i] = "unborn"
      BY <2>1, Unborn, Zenon DEF SchedulerInv
    <3> QED
      BY <2>1, <3>1, Zenon DEF Begin, EnterPhase, NotRead, StatusIn
  <2>2. CASE AbortOnRefusal(i)
    BY <2>2, Zenon DEF AbortOnRefusal, EnterPhase, NotRead, StatusIn
  <2>3. CASE FailOnException(i)
    BY <2>3, Zenon DEF FailOnException, EnterPhase, NotRead, StatusIn
  <2>4. CASE ReplyAborted(i)
    BY <2>4, Zenon DEF ReplyAborted, ReplyOk, EnterPhase, NotRead, StatusIn
  <2> QED
    BY <2>1, <2>2, <2>3, <2>4, ZenonT(30)
<1>2. /\ UNCHANGED <<op_index, results, store>>
      /\ \A c \in Callers : c # i => reply'[c] = reply[c]
  BY ZenonT(30)
  DEF Begin, AbortOnRefusal, FailOnException, ReplyAborted, ReplyOk,
     SchedulerInv, TypeOK
<1>3. phase'[i] = p
  BY <1>1, Zenon DEF SchedulerInv, TypeOK
<1>4. SerialReads'[i] = <<>> /\ SerialReads[i] = <<>>
  BY <1>1, <1>3, Zenon DEF SerialReads, NotRead
<1>5. TypeOK /\ (phase[i] = "executing" <=> p = "executing")
  BY <1>1, Zenon DEF SchedulerInv, NotRead
<1>6. SerialDb' = SerialDb /\ SerialReads' = SerialReads
  BY <1>1, <1>2, <1>4, <1>5, SerialKept, Zenon
<1>7. SerialStatus' = [SerialStatus EXCEPT ![i] = StatusIn(p)]
  BY <1>1, <1>5, StatusMoves, Zenon
<1>8. SerialStatus[i] = StatusIn(phase[i]) /\ DOMAIN SerialStatus = Callers
  BY Zenon DEF SerialStatus, StatusIn
<1>9. CASE StatusIn(p) = StatusIn(phase[i])
  <2>1. SerialStatus' = SerialStatus
    BY <1>7, <1>8, <1>9, Zenon DEF SerialStatus
  <2> QED
    BY <1>6, <2>1, Zenon DEF Serial!serialVars
<1>10. CASE StatusIn(phase[i]) = "open" /\ StatusIn(p) = "aborted"
  <2>1. Serial!Abort(i)
    BY <1>6, <1>7, <1>8, <1>10, ZenonT(30) DEF Serial!Abort
  <2> QED
    BY <2>1, Zenon DEF Serial!Next
<1> QED
  BY <1>1, <1>9, <1>10, Zenon

\* The transaction's locks are complete: it runs, all at once.
LEMMA SerialCommit ==
  ASSUME SchedulerInv, ResultsInv, NEW i \in Callers, AllLocked(i)
  PROVE  Serial!Commit(i)
<1> DEFINE tx == Txn[i]
<1>1. /\ UNCHANGED <<op_index, results, reply, store>>
      /\ phase[i] = "growing" /\ phase' = [phase EXCEPT ![i] = "executing"]
      /\ to_lock[i] = {} /\ Returned(i, {"none", "acquired"})
  BY Zenon DEF AllLocked, EnterPhase
<1>2. /\ tx \in Seq(Op(Keys)) /\ op_index[i] = 1 /\ op_index'[i] = 1
      /\ phase'[i] = "executing" /\ \A c \in Callers : c # i => phase'[c] = phase[c]
      /\ store \in [Keys -> Seq(Int)] /\ KeysOf(tx) \subseteq Keys
  BY <1>1, TxnKeys, SchedulerAssumption, Zenon
  DEF ResultsInv, ResultsOK, SchedulerInv,
     TypeOK
<1>3. ASSUME NEW k \in KeysOf(tx)
      PROVE  RunningOn(k) = {} /\ RunningOn(k)' = {i} /\ SerialDb[k] = store[k]
  <2>1. RunningOn(k) \subseteq {i}
    BY <1>1, AloneOnKeys, Zenon
  <2>2. RunningOn(k) = {}
    BY <1>1, <2>1, Zenon DEF RunningOn
  <2>3. RunningOn(k)' = {i}
    BY <1>2, <2>2, Zenon DEF RunningOn
  <2>4. k \in Keys
    BY <1>2, Zenon
  <2> QED
    BY <2>2, <2>3, <2>4, SerialList, ZenonT(30)
<1>4. ASSUME NEW k \in Keys
      PROVE  SerialDb'[k] = AfterOps(tx, 1, SerialDb)[k]
  <2>1. AfterOps(tx, 1, SerialDb)[k] =
          SerialDb[k] \o AppendedTo(tx, k, 1, Len(tx))
    BY Zenon DEF AfterOps, SerialDb
  <2>2. CASE k \in KeysOf(tx)
    <3>1. (CHOOSE c \in RunningOn(k)' : TRUE) = i
      BY <1>3, <2>2, OnlyOne, Zenon
    <3>2. SerialDb'[k] = store[k] \o AppendedTo(tx, k, 1, Len(tx))
      BY <1>1, <1>2, <1>3, <2>2, <3>1, Zenon DEF SerialDb, AfterOps
    <3> QED
      BY <1>3, <2>1, <2>2, <3>2, Zenon
  <2>3. CASE k \notin KeysOf(tx)
    <3>1. RunningOn(k)' = RunningOn(k)
      BY <1>1, <1>2, <2>3, Zenon DEF RunningOn
    <3>2. SerialDb'[k] = SerialDb[k]
      BY <1>1, <1>2, <3>1, SerialListKept, Zenon
    <3>3. 1 \in 1 .. Len(tx) + 1
      BY TxnShape, RunsOn, Zenon
    <3>4. AppendedTo(tx, k, 1, Len(tx)) = <<>>
      BY <1>2, <2>3, <3>3, NothingAppended, Zenon
    <3>5. SerialDb[k] \in Seq(Int)
      BY SerialListType, Zenon
    <3>6. SerialDb[k] \o <<>> = SerialDb[k]
      BY <3>5, NothingJoined, Zenon
    <3> QED
      BY <2>1, <3>2, <3>4, <3>6, Zenon
  <2> QED
    BY <2>2, <2>3, Zenon
<1>5. SerialDb' = AfterOps(tx, 1, SerialDb)
  BY <1>4, Zenon DEF SerialDb, AfterOps
<1>6. ASSUME NEW j \in ReadPositions(tx)
      PROVE  SerialReads'[i][j] = SeenAt(tx, 1, j, SerialDb)
  <2>1. /\ tx[j].key \in KeysOf(tx) /\ tx[j].key \in Keys
        /\ j \in 1 .. Len(tx) /\ Len(tx) \in Nat
    BY ReadAt, TxnShape, Zenon
  <2>2. SerialReads'[i][j] = SeenAt(tx, 1, j, store)
    <3>1. ~(j < 1)
      BY <2>1
    <3>2. ~(j < op_index'[i])
      BY <1>2, <3>1, Zenon
    <3>3. SerialReads'[i][j] = SeenAt(tx, op_index'[i], j, store')
      BY <1>2, <3>2, Zenon DEF SerialReads
    <3> QED
      BY <1>1, <1>2, <3>3, Zenon
  <2>3. SerialDb[tx[j].key] = store[tx[j].key]
    BY <1>3, <2>1, Zenon
  <2>4. tx[j].key \in DOMAIN SerialDb /\ tx[j].key \in DOMAIN store
    BY <1>2, <2>1, Zenon DEF SerialDb
  <2>5. SameList(tx[j].key, store, SerialDb)
    BY <2>3, <2>4, Zenon DEF SameList
  <2>6. SeesSame(i, j, store, SerialDb)
    BY <2>5, SeenSame, Zenon
  <2> QED
    BY <2>2, <2>6, Zenon DEF SeesSame
<1>7. SerialReads'[i] = [j \in ReadPositions(tx) |-> SeenAt(tx, 1, j, SerialDb)]
  BY <1>2, <1>6, ZenonT(30) DEF SerialReads
<1>8. \A c \in Callers : c # i => SerialReads'[c] = SerialReads[c]
  <2>1. DOMAIN store' = Keys
    BY <1>1, <1>2, Zenon
  <2> QED
    BY <1>1, <1>2, <2>1, ReadsKept, Zenon
<1>9. SerialReads' = [SerialReads EXCEPT ![i] =
                       [j \in ReadPositions(tx) |-> SeenAt(tx, 1, j, SerialDb)]]
  BY <1>7, <1>8, ZenonT(30) DEF SerialReads
<1>10. SerialStatus' = [SerialStatus EXCEPT ![i] = "committed"]
  BY <1>1, StatusMoves, ZenonT(30) DEF StatusIn, SchedulerInv
<1>11. SerialStatus[i] = "open"
  BY <1>1, Zenon DEF SerialStatus
<1> QED
  BY <1>5, <1>9, <1>10, <1>11, SerialOperators, Zenon DEF Serial!Commit

\* The store after an operation.
LEMMA StoreAfter ==
  ASSUME SchedulerInv, ResultsInv, NEW i \in Callers, ExecOp(i),
         NEW n, n = op_index[i]
  PROVE  /\ n \in 1 .. Len(Txn[i]) /\ phase[i] = "executing"
         /\ Txn[i] \in Seq(Op(Keys)) /\ Txn[i][n].key \in KeysOf(Txn[i])
         /\ op_index'[i] = n + 1 /\ UNCHANGED <<phase, reply>>
         /\ \A c \in Callers : c # i =>
              op_index'[c] = op_index[c] /\ results'[c] = results[c]
         /\ \A k \in Keys : store'[k] = IF IsAppendTo(Txn[i][n], k)
                                       THEN Append(store[k], Txn[i][n].value)
                                       ELSE store[k]
         /\ DOMAIN store' = Keys
<1>1. /\ n \in 1 .. Len(Txn[i]) /\ phase[i] = "executing"
      /\ Txn[i] \in Seq(Op(Keys)) /\ Txn[i][n].key \in KeysOf(Txn[i])
      /\ op_index'[i] = n + 1 /\ UNCHANGED <<phase, reply>>
      /\ \A c \in Callers : c # i => op_index'[c] = op_index[c]
  <2>1. Txn[i] \in Seq(Op(Keys)) /\ Len(Txn[i]) \in Nat
    BY TxnShape, Zenon
  <2>2. n \in 1 .. Len(Txn[i])
    <3>1. n \in 1 .. Len(Txn[i]) + 1
      BY Zenon DEF ResultsInv, ResultsOK
    <3>2. n <= Len(Txn[i])
      BY Zenon DEF ExecOp
    <3> QED
      BY <2>1, <3>1, <3>2, RunsOn, Zenon
  <2>3. Txn[i][n].key \in KeysOf(Txn[i])
    BY <2>2, TxnKeys, Zenon
  <2> QED
    BY <2>1, <2>2, <2>3, Zenon DEF ExecOp, SchedulerInv, TypeOK
<1>2. PICK op \in Op(Keys) : op = Txn[i][n]
  BY <1>1, OpAt, Zenon
<1>3. op.type \in {"READ", "APPEND"}
  BY OpAt, Zenon
<1>4. CASE IsRead(op)
  BY <1>1, <1>2, <1>4, ZenonT(30)
  DEF ExecOp, IsRead, IsAppendTo, SchedulerInv, TypeOK
<1>5. CASE ~IsRead(op)
  <2>1. store' = [store EXCEPT ![op.key] = Append(@, op.value)] /\ results' = results
    BY <1>2, <1>5, ZenonT(30) DEF ExecOp, StoreAppend
  <2>2. \A k \in Keys : store'[k] = IF IsAppendTo(op, k)
                                  THEN Append(store[k], op.value) ELSE store[k]
    BY <1>3, <1>5, <2>1, Zenon DEF IsRead, IsAppendTo, SchedulerInv, TypeOK
  <2> QED
    BY <1>1, <1>2, <2>1, <2>2, ZenonT(30) DEF SchedulerInv, TypeOK
<1> QED
  BY <1>4, <1>5, Zenon

\* An operation runs: the lists that will be left are the same.
LEMMA SerialExecDb ==
  ASSUME SchedulerInv, ResultsInv, SchedulerInv', ResultsInv',
         NEW i \in Callers, ExecOp(i)
  PROVE  SerialDb' = SerialDb
<1>1. PICK n : n = op_index[i]
  OBVIOUS
<1> DEFINE tx == Txn[i]
           Left(c, k, m) == AppendedTo(Txn[c], k, m, Len(Txn[c]))
<1>2. /\ n \in 1 .. Len(tx) /\ phase[i] = "executing" /\ tx \in Seq(Op(Keys))
      /\ tx[n].key \in KeysOf(tx) /\ op_index'[i] = n + 1 /\ phase' = phase
      /\ \A c \in Callers : c # i => op_index'[c] = op_index[c]
      /\ \A k \in Keys : store'[k] = IF IsAppendTo(tx[n], k)
                                    THEN Append(store[k], tx[n].value)
                                    ELSE store[k]
  BY <1>1, StoreAfter, Zenon
<1>3. ASSUME NEW k \in Keys PROVE SerialDb'[k] = SerialDb[k]
  <2>1. RunningOn(k)' = RunningOn(k)
    BY <1>2, Zenon DEF RunningOn
  <2>2. CASE i \in RunningOn(k)
    <3>1. RunningOn(k) = {i}
      <4>1. k \in KeysOf(Txn[i]) /\ phase[i] = "executing"
        BY <2>2, Zenon DEF RunningOn
      <4>2. RunningOn(k) \subseteq {i}
        BY <4>1, AloneOnKeys, Zenon
      <4> QED
        BY <2>2, <4>2, Zenon
    <3>2. SerialDb[k] = store[k] \o Left(i, k, n)
      BY <1>1, <2>2, SerialList, ZenonT(30)
    <3>3. (CHOOSE c \in RunningOn(k)' : TRUE) = i /\ RunningOn(k)' # {}
      BY <2>1, <3>1, OnlyOne, Zenon
    <3>4. SerialDb'[k] = store'[k] \o Left(i, k, n + 1)
      <4>1. k \in DOMAIN store'
        BY Zenon DEF ResultsInv
      <4>2. SerialDb'[k] = AfterOps(tx, n + 1, store')[k]
        BY <1>2, <3>3, Zenon DEF SerialDb, AfterOps
      <4> QED
        BY <4>1, <4>2, Zenon DEF AfterOps
    <3>5. store[k] \in Seq(Int) /\ Len(tx) \in Nat /\ Len(tx) <= Len(tx)
      <4>1. store[k] \in Seq(Int) /\ Len(tx) \in Nat
        BY TxnShape, Zenon DEF ResultsInv
      <4> QED
        BY <4>1
    <3>6. /\ IsAppendTo(tx[n], k) => store[k] \o Left(i, k, n) =
               Append(store[k], tx[n].value) \o Left(i, k, n + 1)
          /\ ~IsAppendTo(tx[n], k) => store[k] \o Left(i, k, n) =
               store[k] \o Left(i, k, n + 1)
      BY <1>2, <3>5, NextRuns, ZenonT(30)
    <3>7. store[k] \o Left(i, k, n) = store'[k] \o Left(i, k, n + 1)
      <4>1. CASE IsAppendTo(tx[n], k)
        <5>1. store'[k] = Append(store[k], tx[n].value)
          BY <1>2, <4>1, Zenon
        <5> QED
          BY <3>6, <4>1, <5>1, Zenon
      <4>2. CASE ~IsAppendTo(tx[n], k)
        <5>1. store'[k] = store[k]
          BY <1>2, <4>2, Zenon
        <5> QED
          BY <3>6, <4>2, <5>1, Zenon
      <4> QED
        BY <4>1, <4>2, Zenon
    <3> QED
      BY <3>2, <3>4, <3>7, Zenon
  <2>3. CASE i \notin RunningOn(k)
    <3>1. store'[k] = store[k]
      BY <1>2, <2>3, Zenon DEF RunningOn, IsAppendTo
    <3>2. \A c \in RunningOn(k) : op_index'[c] = op_index[c]
      BY <1>2, <2>3, Zenon DEF RunningOn
    <3>3. k \in DOMAIN store /\ k \in DOMAIN store'
      BY Zenon DEF ResultsInv
    <3> QED
      BY <2>1, <3>1, <3>2, <3>3, SerialListKept, Zenon
  <2> QED
    BY <2>2, <2>3, Zenon
<1> QED
  BY <1>3, Zenon DEF SerialDb

\* An operation runs: what has been read, and will be, is the same.
LEMMA SerialExecReads ==
  ASSUME SchedulerInv, ResultsInv, NEW i \in Callers, ExecOp(i)
  PROVE  SerialReads' = SerialReads
<1>1. PICK n : n = op_index[i]
  OBVIOUS
<1> DEFINE tx == Txn[i]
<1>2. /\ n \in 1 .. Len(tx) /\ phase[i] = "executing" /\ tx \in Seq(Op(Keys))
      /\ tx[n].key \in KeysOf(tx) /\ op_index'[i] = n + 1
      /\ UNCHANGED <<phase, reply>>
      /\ \A c \in Callers : c # i =>
           op_index'[c] = op_index[c] /\ results'[c] = results[c]
      /\ \A k \in Keys : store'[k] = IF IsAppendTo(tx[n], k)
                                    THEN Append(store[k], tx[n].value)
                                    ELSE store[k]
      /\ DOMAIN store' = Keys
  BY <1>1, StoreAfter, ZenonT(30)
<1>3. ASSUME NEW c \in Callers, c # i PROVE SerialReads'[c] = SerialReads[c]
  <2>1. ASSUME phase[c] = "executing", NEW k \in KeysOf(Txn[c])
        PROVE  store'[k] = store[k]
    <3>1. RunningOn(k) \subseteq {c}
      BY <2>1, AloneOnKeys, Zenon
    <3>2. k # tx[n].key
      BY <1>2, <1>3, <3>1, Zenon DEF RunningOn
    <3>3. k \in Keys
      BY TxnKeys, Zenon
    <3> QED
      BY <1>2, <3>2, <3>3, Zenon DEF IsAppendTo
  <2>2. phase[c] = "shrinking" => op_index[c] > Len(Txn[c])
    <3>1. Len(Txn[c]) \in Nat
      BY TxnShape, Zenon
    <3>2. Len(Txn[c]) + 1 > Len(Txn[c])
      BY <3>1
    <3> QED
      BY <3>2, Zenon DEF ResultsInv, ResultsOK
  <2> QED
    BY <1>2, <1>3, <2>1, <2>2, ReadsKept, Zenon
<1>4. SerialReads'[i] = SerialReads[i]
  <2>1. /\ SerialReads[i] = [j \in ReadPositions(tx) |->
             IF j < n THEN results[i][ReadsUpTo(tx, j)].value
             ELSE SeenAt(tx, n, j, store)]
        /\ SerialReads'[i] = [j \in ReadPositions(tx) |->
             IF j < n + 1 THEN results'[i][ReadsUpTo(tx, j)].value
             ELSE SeenAt(tx, n + 1, j, store')]
    BY <1>1, <1>2, Zenon DEF SerialReads
  <2>2. ASSUME NEW j \in ReadPositions(tx), j < n
        PROVE  results'[i][ReadsUpTo(tx, j)] = results[i][ReadsUpTo(tx, j)]
    <3>1. /\ ReadsUpTo(tx, j) \in 1 .. Len(results[i])
          /\ results[i] \in Seq(ReadResult(Keys))
      BY <1>1, <2>2, Zenon DEF ResultsInv, ResultsOK
    <3>2. \/ results' = results
          \/ \E x : results'[i] = Append(results[i], x)
      BY ZenonT(30) DEF ExecOp, SchedulerInv, TypeOK
    <3>3. CASE results' = results
      BY <3>3, Zenon
    <3>4. CASE \E x : results'[i] = Append(results[i], x)
      <4>1. PICK x : results'[i] = Append(results[i], x)
        BY <3>4, Zenon
      <4>2. \A y \in 1 .. Len(results[i]) :
              Append(results[i], x)[y] = results[i][y]
        BY <3>1, ResultAdded, Zenon
      <4> QED
        BY <3>1, <4>1, <4>2, Zenon
    <3> QED
      BY <3>2, <3>3, <3>4, Zenon
  <2>3. ASSUME n \in ReadPositions(tx)
        PROVE  results'[i][ReadsUpTo(tx, n)].value = SeenAt(tx, n, n, store)
    <3>1. PICK k \in Keys : k = tx[n].key
      BY <1>2, TxnKeys, Zenon
    <3>2. IsRead(tx[n])
      BY <2>3, Zenon DEF ReadPositions
    <3>3. results'[i] = Append(results[i], [key |-> k, value |-> StoreGet(store, k)])
      BY <1>1, <3>1, <3>2, Zenon DEF ExecOp, SchedulerInv, TypeOK
    <3>4. /\ results[i] \in Seq(ReadResult(Keys))
          /\ ReadsUpTo(tx, n) = Len(results[i]) + 1
      <4>1. /\ results[i] \in Seq(ReadResult(Keys))
            /\ Len(results[i]) = ReadsUpTo(tx, n - 1)
        BY <1>1, Zenon DEF ResultsInv, ResultsOK
      <4>2. ReadsUpTo(tx, n) = ReadsUpTo(tx, n - 1) + 1
        BY <1>2, <3>2, ReadsCounted, Zenon
      <4> QED
        BY <4>1, <4>2, Zenon
    <3>5. results'[i][ReadsUpTo(tx, n)].value = StoreGet(store, k)
      <4> DEFINE x == [key |-> k, value |-> StoreGet(store, k)]
      <4>1. x.value = StoreGet(store, k)
        OBVIOUS
      <4> HIDE DEF x
      <4>2. Append(results[i], x)[Len(results[i]) + 1] = x
        BY <3>4, ResultAdded, Zenon
      <4>3. results'[i] = Append(results[i], x)
        BY <3>3, Zenon DEF x
      <4> QED
        BY <3>4, <4>1, <4>2, <4>3, Zenon
    <3>6. AppendedTo(tx, k, n, n - 1) = <<>>
      <4>1. n - 1 \in Nat /\ (n - 1) + 1 = n
        <5>1. n \in 1 .. Len(tx) /\ Len(tx) \in Nat
          BY <1>2, TxnShape, Zenon
        <5> HIDE DEF tx
        <5> QED
          BY <5>1
      <4>2. AppendedTo(tx, k, (n - 1) + 1, n - 1) = <<>>
        BY <4>1, AppendedStep, Zenon
      <4> QED
        BY <4>1, <4>2, Zenon
    <3>7. store[k] \in Seq(Int) /\ k \in DOMAIN store
      BY Zenon DEF ResultsInv
    <3>8. store[k] \o <<>> = store[k]
      BY <3>7, NothingJoined, Zenon
    <3>9. SeenAt(tx, n, n, store) = Seen(store[k])
      BY <3>1, <3>6, <3>7, <3>8, SeenList, Zenon
    <3> QED
      BY <3>5, <3>9, Zenon DEF StoreGet, Seen
  <2>4. ASSUME NEW j \in ReadPositions(tx), j > n
        PROVE  SeenAt(tx, n + 1, j, store') = SeenAt(tx, n, j, store)
    <3>1. PICK k \in Keys : k = tx[j].key /\ j \in 1 .. Len(tx)
      BY ReadAt, Zenon
    <3>2. /\ j - 1 \in Nat /\ j - 1 <= Len(tx) /\ n \in 1 .. j - 1
          /\ store[k] \in Seq(Int) /\ k \in DOMAIN store /\ k \in DOMAIN store'
      <4>1. n \in 1 .. Len(tx) /\ Len(tx) \in Nat
        BY <1>2, TxnShape, Zenon
      <4>2. /\ j - 1 \in Nat /\ j - 1 <= Len(tx) /\ n \in 1 .. j - 1
        <5> HIDE DEF tx
        <5> QED
          BY <2>4, <3>1, <4>1
      <4>3. store[k] \in Seq(Int) /\ k \in DOMAIN store
        BY <3>1, Zenon DEF ResultsInv
      <4>4. k \in DOMAIN store'
        BY <1>2, <3>1, <4>3, Zenon
      <4> QED
        BY <4>2, <4>3, <4>4, Zenon
    <3>3. /\ IsAppendTo(tx[n], k) => store[k] \o AppendedTo(tx, k, n, j - 1) =
               Append(store[k], tx[n].value) \o AppendedTo(tx, k, n + 1, j - 1)
          /\ ~IsAppendTo(tx[n], k) => store[k] \o AppendedTo(tx, k, n, j - 1) =
               store[k] \o AppendedTo(tx, k, n + 1, j - 1)
      BY <1>2, <3>2, NextRuns, ZenonT(30)
    <3>4. store[k] \o AppendedTo(tx, k, n, j - 1)
            = store'[k] \o AppendedTo(tx, k, n + 1, j - 1)
      <4>1. CASE IsAppendTo(tx[n], k)
        <5>1. store'[k] = Append(store[k], tx[n].value)
          BY <1>2, <4>1, Zenon
        <5> QED
          BY <3>3, <4>1, <5>1, ZenonT(30)
      <4>2. CASE ~IsAppendTo(tx[n], k)
        <5>1. store'[k] = store[k]
          BY <1>2, <4>2, Zenon
        <5> QED
          BY <3>3, <4>2, <5>1, ZenonT(30)
      <4> QED
        BY <4>1, <4>2, Zenon
    <3> QED
      BY <3>1, <3>2, <3>4, SeenList, ZenonT(30)
  <2>5. n \in Nat /\ \A j \in ReadPositions(tx) : j \in Nat
    <3>1. n \in 1 .. Len(tx) /\ Len(tx) \in Nat
      BY <1>2, TxnShape, Zenon
    <3>2. n \in Nat
      BY <3>1
    <3> QED
      BY <3>2, ReadsBeforeEnd, Zenon
  <2> DEFINE Was(j) == IF j < n THEN results[i][ReadsUpTo(tx, j)].value
                       ELSE SeenAt(tx, n, j, store)
             Is(j) == IF j < n + 1 THEN results'[i][ReadsUpTo(tx, j)].value
                      ELSE SeenAt(tx, n + 1, j, store')
  <2>6. ASSUME NEW j \in ReadPositions(tx) PROVE Is(j) = Was(j)
    <3>1. CASE j < n
      <4>1. j < n + 1
        BY <2>5, <3>1
      <4> QED
        BY <2>2, <3>1, <4>1, Zenon
    <3>2. CASE j = n
      <4>1. j < n + 1 /\ ~(j < n)
        BY <2>5, <3>2
      <4> QED
        BY <2>3, <3>2, <4>1, Zenon
    <3>3. CASE j > n
      <4>1. ~(j < n + 1) /\ ~(j < n)
        BY <2>5, <3>3
      <4> QED
        BY <2>4, <3>3, <4>1, Zenon
    <3>4. j < n \/ j = n \/ j > n
      BY <2>5
    <3> QED
      BY <3>1, <3>2, <3>3, <3>4, Zenon
  <2>7. /\ SerialReads[i] = [j \in ReadPositions(tx) |-> Was(j)]
        /\ SerialReads'[i] = [j \in ReadPositions(tx) |-> Is(j)]
    BY <2>1, Zenon
  <2> HIDE DEF Was, Is
  <2> QED
    BY <2>6, <2>7, Zenon
<1> QED
  BY <1>3, <1>4, ZenonT(30) DEF SerialReads

\* The last operation ran: the lists are what was promised.
LEMMA SerialShrink ==
  ASSUME SchedulerInv, ResultsInv, NEW i \in Callers, Shrink(i)
  PROVE  UNCHANGED <<SerialDb, SerialStatus, SerialReads>>
<1>1. /\ UNCHANGED <<op_index, results, reply, store>>
      /\ phase[i] = "executing" /\ phase' = [phase EXCEPT ![i] = "shrinking"]
      /\ op_index[i] > Len(Txn[i])
  BY Zenon DEF Shrink, EnterPhase
<1>2. /\ phase'[i] = "shrinking" /\ \A c \in Callers : c # i => phase'[c] = phase[c]
      /\ Txn[i] \in Seq(Op(Keys)) /\ op_index[i] = Len(Txn[i]) + 1
  <2>1. op_index[i] \in 1 .. Len(Txn[i]) + 1
    BY Zenon DEF ResultsInv, ResultsOK
  <2>2. op_index[i] = Len(Txn[i]) + 1 /\ Txn[i] \in Seq(Op(Keys))
    BY <1>1, <2>1, TxnShape, RunsOn, Zenon
  <2> QED
    BY <1>1, <2>2, Zenon DEF SchedulerInv, TypeOK
<1>3. ASSUME NEW k \in Keys PROVE SerialDb'[k] = SerialDb[k]
  <2>1. CASE i \in RunningOn(k)
    <3>1. RunningOn(k) = {i}
      <4>1. k \in KeysOf(Txn[i]) /\ phase[i] = "executing"
        BY <2>1, Zenon DEF RunningOn
      <4>2. RunningOn(k) \subseteq {i}
        BY <4>1, AloneOnKeys, Zenon
      <4> QED
        BY <2>1, <4>2, Zenon
    <3>2. RunningOn(k)' = {}
      BY <1>2, <3>1, Zenon DEF RunningOn
    <3>3. SerialDb'[k] = store[k]
      BY <1>1, <3>2, Zenon DEF SerialDb
    <3>4. AppendedTo(Txn[i], k, op_index[i], Len(Txn[i])) = <<>>
      <4>1. Len(Txn[i]) \in Nat
        BY TxnShape, Zenon
      <4>2. AppendedTo(Txn[i], k, Len(Txn[i]) + 1, Len(Txn[i])) = <<>>
        BY <4>1, AppendedStep, Zenon
      <4> QED
        BY <1>2, <4>2, Zenon
    <3>5. store[k] \in Seq(Int)
      BY Zenon DEF ResultsInv
    <3>6. store[k] \o <<>> = store[k]
      BY <3>5, NothingJoined, Zenon
    <3> QED
      BY <2>1, <3>3, <3>4, <3>6, SerialList, ZenonT(30)
  <2>2. CASE i \notin RunningOn(k)
    <3>1. RunningOn(k)' = RunningOn(k)
      BY <1>1, <1>2, <2>2, Zenon DEF RunningOn
    <3>2. k \in DOMAIN store /\ k \in DOMAIN store'
      BY <1>1, Zenon DEF ResultsInv
    <3> QED
      BY <1>1, <3>1, <3>2, SerialListKept, Zenon
  <2> QED
    BY <2>1, <2>2, Zenon
<1>4. SerialDb' = SerialDb
  BY <1>3, ZenonT(30) DEF SerialDb
<1>5. SerialReads'[i] = SerialReads[i]
  <2>1. \A j \in ReadPositions(Txn[i]) : j < op_index[i]
    BY <1>2, ReadsBeforeEnd, Zenon
  <2> QED
    BY <1>1, <1>2, <2>1, Zenon DEF SerialReads
<1>6. \A c \in Callers : c # i => SerialReads'[c] = SerialReads[c]
  <2>1. DOMAIN store' = Keys
    BY <1>1, Zenon DEF ResultsInv
  <2> QED
    BY <1>1, <1>2, <2>1, ReadsKept, Zenon
<1>7. SerialReads' = SerialReads
  BY <1>5, <1>6, ZenonT(30) DEF SerialReads
<1>8. SerialStatus' = SerialStatus
  BY <1>1, <1>2, Zenon DEF SerialStatus
<1> QED
  BY <1>4, <1>7, <1>8, Zenon

\* The reply tells what was read.
LEMMA SerialReply ==
  ASSUME SchedulerInv, ResultsInv, NEW i \in Callers, ReplyCommitted(i)
  PROVE  UNCHANGED <<SerialDb, SerialStatus, SerialReads>>
<1>1. /\ UNCHANGED <<op_index, results, store>>
      /\ phase[i] = "shrinking" /\ phase' = [phase EXCEPT ![i] = "committed"]
      /\ reply'[i].reads = createReply(Txn[i], results[i])
      /\ \A c \in Callers : c # i => reply'[c] = reply[c]
  BY ZenonT(30) DEF ReplyCommitted, ReplyOk, EnterPhase, SchedulerInv, TypeOK
<1>2. /\ phase'[i] = "committed" /\ Txn[i] \in Seq(Op(Keys))
      /\ op_index[i] = Len(Txn[i]) + 1 /\ results[i] \in Seq(ReadResult(Keys))
  BY <1>1, SchedulerAssumption, Zenon
  DEF ResultsInv, ResultsOK, SchedulerInv, TypeOK
<1>3. \A j \in ReadPositions(Txn[i]) : j < op_index[i]
  BY <1>2, ReadsBeforeEnd, Zenon
<1>4. createReply(Txn[i], results[i]) =
        [j \in ReadPositions(Txn[i]) |->
           results[i][ReadsUpTo(Txn[i], j)].value]
  <2>1. \A j \in ReadPositions(Txn[i]) :
          /\ ReadsUpTo(Txn[i], j) \in 1 .. Len(results[i])
          /\ results[i][ReadsUpTo(Txn[i], j)].key = Txn[i][j].key
    BY <1>3, Zenon DEF ResultsInv, ResultsOK
  <2> QED
    BY <1>2, <2>1, RepliesWithResults, ZenonT(30)
<1>5. SerialReads'[i] = SerialReads[i]
  BY <1>1, <1>2, <1>3, <1>4, Zenon DEF SerialReads
<1>6. SerialDb' = SerialDb /\ SerialReads' = SerialReads
  BY <1>1, <1>5, SerialKept, ZenonT(30) DEF SchedulerInv
<1>7. SerialStatus' = SerialStatus
  BY <1>1, <1>2, Zenon DEF SerialStatus, SchedulerInv, TypeOK
<1> QED
  BY <1>6, <1>7, Zenon

\* A step that the abstract specification does not see.
LEMMA SerialStutter ==
  ASSUME ResultsInv, TypeOK, UNCHANGED <<phase, op_index, results, reply, store>>
  PROVE  UNCHANGED <<SerialDb, SerialStatus, SerialReads>>
<1>1. SerialStatus' = SerialStatus
  BY Zenon DEF SerialStatus
<1>2. SerialReads' = SerialReads
  <2>1. \A c \in Callers : SerialReads'[c] = SerialReads[c]
    BY ReadsKept, ZenonT(30) DEF TypeOK
  <2> QED
    BY <2>1, ZenonT(30) DEF SerialReads
<1>3. ASSUME NEW k \in Keys PROVE SerialDb'[k] = SerialDb[k]
  <2>1. RunningOn(k)' = RunningOn(k)
    BY Zenon DEF RunningOn
  <2>2. k \in DOMAIN store /\ k \in DOMAIN store'
    BY Zenon DEF ResultsInv
  <2> QED
    BY <2>1, <2>2, SerialListKept, Zenon
<1> QED
  BY <1>1, <1>2, <1>3, Zenon DEF SerialDb

\* Every step of the scheduler is a step of the abstract specification or none.
LEMMA SerialStep ==
  SchedulerInv /\ ResultsInv /\ SchedulerInv' /\ ResultsInv' /\ [Next]_vars
    => [Serial!Next]_(Serial!serialVars)
<1> SUFFICES ASSUME SchedulerInv, ResultsInv, SchedulerInv', ResultsInv', [Next]_vars
             PROVE  [Serial!Next]_(Serial!serialVars)
  OBVIOUS
<1> USE DEF Serial!serialVars
<1>1. ASSUME NEW i \in Callers, LockNext(i) \/ InLockManager(i)
      PROVE  UNCHANGED Serial!serialVars
  BY <1>1, SerialStutter, Zenon DEF LockNext, InLockManager, schedVars, SchedulerInv
<1>2. CASE UNCHANGED vars
  BY <1>2, SerialStutter, Zenon DEF vars, schedVars, SchedulerInv
<1>3. ASSUME NEW i \in Callers, AllLocked(i) PROVE Serial!Next
  BY <1>3, SerialCommit, Zenon DEF Serial!Next
<1>4. ASSUME NEW i \in Callers, ExecOp(i) PROVE UNCHANGED Serial!serialVars
  <2>1. SerialStatus' = SerialStatus
    BY <1>4, Zenon DEF ExecOp, SerialStatus
  <2> QED
    BY <1>4, <2>1, SerialExecDb, SerialExecReads, ZenonT(30)
<1>5. ASSUME NEW i \in Callers, Shrink(i) \/ ReplyCommitted(i)
      PROVE  UNCHANGED Serial!serialVars
  BY <1>5, SerialShrink, SerialReply, Zenon
<1> QED
  BY <1>1, <1>2, <1>3, <1>4, <1>5, SerialAbort, ZenonT(30) DEF Next, TxStep

\* The scheduler is serializable ("Ensures serializability", README.md): for
\* any number of requests, whatever their operations, what it does to the store
\* and what it replies is what transactions do that run alone, each in one
\* step, or not at all.
THEOREM SchedulerSerializable == Spec => Serializable
<1>1. Init => Serial!Init
  <2> SUFFICES ASSUME Init PROVE Serial!Init
    OBVIOUS
  <2>1. \A k : RunningOn(k) = {}
    BY Zenon DEF Init, RunningOn
  <2> QED
    BY <2>1, Zenon DEF Init, Serial!Init, SerialDb, SerialStatus, SerialReads
<1>2. SchedulerInv /\ ResultsInv /\ [Next]_vars => ResultsInv'
  BY ResultsNext DEF SchedulerInv
<1> QED
  BY <1>1, <1>2, ResultsInit, SchedulerInvariant, SerialStep, PTL
  DEF Spec, Serializable, Serial!Spec
==============================================================================
