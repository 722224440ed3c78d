--------------------- MODULE DistributedCoordinatorProofs ---------------------
(***************************************************************************)
(* Routing in a cluster of any size, for any keys and any reconfiguration, *)
(* and the lock messages, for any keys and transaction ids.                *)
(***************************************************************************)
EXTENDS DistributedCoordinator, FiniteSetTheorems, WellFoundedInduction, TLAPS

------------------------------------------------------------------------------
(* Sorting                                                                 *)

\* A set of natural numbers that is not empty has a least one.
LEMMA LeastId ==
  ASSUME NEW T, T \subseteq Nat, T # {}
  PROVE  \E x \in T : \A y \in T : x <= y
<1> DEFINE R == OpToRel(<, Nat)
<1>1. IsWellFoundedOn(R, Nat)
  BY NatLessThanWellFounded, Zenon
<1>2. \A x, y \in Nat : x < y => <<x, y>> \in R
  BY DEF OpToRel
<1> HIDE DEF R
<1>3. PICK x \in T : \A y \in T : ~(<<y, x>> \in R)
  BY <1>1, WFMin, Zenon
<1>4. ASSUME NEW y \in T PROVE x <= y
  <2>1. ~(y < x)
    BY <1>2, <1>3, Zenon
  <2> QED
    BY <2>1
<1> QED
  BY <1>4

\* Each place of the sorted list has an id: the one with as many smaller ids
\* as there are places before it.
LEMMA IdAtEachPlace ==
  ASSUME NEW ids, ids \subseteq Nat, IsFiniteSet(ids),
         NEW m \in Nat, m < Cardinality(ids)
  PROVE  \E x \in ids : Cardinality({y \in ids : y < x}) = m
<1> DEFINE Below(x) == {y \in ids : y < x}
           Bad == {i \in Nat : /\ i < Cardinality(ids)
                               /\ ~ \E x \in ids : Cardinality(Below(x)) = i}
<1> SUFFICES ASSUME Bad # {} PROVE FALSE
  BY DEF Bad
<1>1. Cardinality(ids) \in Nat
  BY FS_CardinalityType
<1>2. Bad \subseteq Nat
  OBVIOUS
<1>3. PICK b \in Bad : \A i \in Bad : b <= i
  BY <1>2, LeastId, Zenon
<1>4. /\ b \in Nat /\ b < Cardinality(ids)
      /\ ~ \E x \in ids : Cardinality(Below(x)) = b
  BY <1>3
<1> HIDE DEF Bad
<1>5. ASSUME NEW T, T \subseteq ids, T # {}
      PROVE  \E x \in T : \A y \in T : x <= y
  <2>1. T \subseteq Nat
    BY <1>5
  <2> QED
    BY <2>1, <1>5, LeastId, Zenon
<1>6. CASE b = 0
  <2>1. ids # {}
    BY <1>1, <1>6, <1>4, FS_EmptySet
  <2>2. PICK x \in ids : \A y \in ids : x <= y
    BY <2>1, <1>5
  <2>3. Below(x) = {}
    <3>1. \A y \in ids : x <= y /\ x \in Nat /\ y \in Nat
      BY <2>2, Zenon
    <3>2. \A y \in ids : ~(y < x)
      BY <3>1
    <3> QED
      BY <3>2, Zenon
  <2>4. Cardinality(Below(x)) = 0
    BY <2>3, FS_EmptySet
  <2> QED
    BY <2>4, <1>6, <1>4
<1>7. CASE b # 0
  <2>1. b - 1 \in Nat /\ b - 1 < Cardinality(ids) /\ b - 1 \notin Bad
    BY <1>1, <1>3, <1>7, <1>4
  <2>2. PICK x \in ids : Cardinality(Below(x)) = b - 1
    BY <2>1 DEF Bad
  <2> DEFINE upTo == Below(x) \cup {x}
             above == ids \ upTo
  <2>3. IsFiniteSet(Below(x)) /\ x \notin Below(x)
    BY FS_Subset
  <2>4. Cardinality(upTo) = b
    <3>1. Cardinality(upTo) = Cardinality(Below(x)) + 1
      BY <2>3, FS_AddElement, Zenon
    <3> QED
      BY <2>2, <3>1, <1>4
  <2>5. upTo # ids
    <3>1. Cardinality(upTo) # Cardinality(ids)
      BY <2>4, <1>4, <1>1
    <3> QED
      BY <3>1, Zenon
  <2>6. above # {}
    BY <2>5
  <2>7. PICK z \in above : \A y \in above : z <= y
    BY <2>6, <1>5
  <2>8. Below(z) = upTo
    <3>1. \A y \in ids : y \in upTo <=> y < x \/ y = x
      OBVIOUS
    <3>2. z \in Nat /\ x \in Nat /\ ~(z < x \/ z = x)
      BY <3>1
    <3>3. ASSUME NEW y \in ids PROVE y < z <=> y \in upTo
      <4>1. y \in Nat
        OBVIOUS
      <4>2. y \notin upTo => z <= y
        BY <2>7
      <4> HIDE DEF upTo, above
      <4> QED
        BY <3>1, <3>2, <4>1, <4>2
    <3> QED
      BY <3>3, Zenon
  <2> QED
    BY <2>4, <2>8, <1>4
<1> QED
  BY <1>6, <1>7

\* std::sort and std::unique leave a list of the ids, as long as there are ids.
LEMMA SortedList ==
  ASSUME NEW ids, ids \subseteq Nat, IsFiniteSet(ids)
  PROVE  Sorted(ids) \in Seq(Nat) /\ Len(Sorted(ids)) = Cardinality(ids)
<1> DEFINE N == Cardinality(ids)
           At(i) == CHOOSE x \in ids : Cardinality({y \in ids : y < x}) = i - 1
<1>1. N \in Nat
  BY FS_CardinalityType
<1>2. ASSUME NEW i \in 1 .. N PROVE At(i) \in Nat
  <2>1. i - 1 \in Nat /\ i - 1 < N
    BY <1>1
  <2>2. \E x \in ids : Cardinality({y \in ids : y < x}) = i - 1
    BY <2>1, IdAtEachPlace, Zenon
  <2>3. At(i) \in ids
    BY <2>2, Zenon
  <2> QED
    BY <2>3
<1>3. Sorted(ids) = [i \in 1 .. N |-> At(i)]
  BY Zenon DEF Sorted
<1> HIDE DEF N, At
<1>4. Sorted(ids) \in [1 .. N -> Nat]
  BY <1>2, <1>3
<1>5. Sorted(ids) \in Seq(Nat) /\ Len(Sorted(ids)) = N
  <2> DEFINE s == Sorted(ids)
  <2> HIDE DEF s
  <2>1. s \in [1 .. N -> Nat]
    BY <1>4 DEF s
  <2>2. s \in Seq(Nat) /\ Len(s) = N
    BY <1>1, <2>1
  <2> QED
    BY <2>2 DEF s
<1> QED
  BY <1>5 DEF N

------------------------------------------------------------------------------
(* Routing                                                                 *)

\* The lists that nodes build or are given are not empty, so the routing does
\* not divide by zero, and a node's coordinator knows it by its number.
RoutingInv ==
  /\ CoordTypeOK
  /\ \A n \in started \cap Nat : local_node_id[n] = n

\* start's list is a finite set of ids that has the node's own.
LEMMA NodeIdsFinite ==
  ASSUME NEW n \in Names, OwnIdParses(n)
  PROVE  /\ NodeIds(n, Names \ {n}) \in SUBSET Nat
         /\ IsFiniteSet(NodeIds(n, Names \ {n}))
         /\ NodeIds(n, Names \ {n}) # {}
<1> DEFINE others == (Names \ {n}) \ {NoNumber}
           ids == {PeerId(p) : p \in others}
<1>1. IsFiniteSet(others)
  BY CoordinatorAssumption, FS_Subset
<1>2. IsFiniteSet(ids)
  <2>1. ids = {PeerId(p) : p \in others}
    OBVIOUS
  <2> HIDE DEF others
  <2> DEFINE f == [p \in others |-> PeerId(p)]
  <2>2. f \in Surjection(others, ids)
    BY DEF Surjection
  <2> QED
    BY <1>1, <2>2, FS_Surjection
<1>3. ids \in SUBSET Nat
  BY CoordinatorAssumption DEF PeerId
<1>4. OwnId(n) \in Nat
  BY CoordinatorAssumption DEF OwnId
<1>5. NodeIds(n, Names \ {n}) = {OwnId(n)} \cup ids
  BY DEF NodeIds
<1>6. IsFiniteSet({OwnId(n)} \cup ids)
  BY <1>2, FS_AddElement
<1> QED
  BY <1>3, <1>4, <1>5, <1>6

\* The lists stay well formed from step to step.
LEMMA RoutingInvariant == Spec => []RoutingInv
<1>1. Init => RoutingInv
  BY CoordinatorAssumption DEF Init, RoutingInv, CoordTypeOK
<1>2. RoutingInv /\ [Next]_coordVars => RoutingInv'
  <2> SUFFICES ASSUME RoutingInv, [Next]_coordVars PROVE RoutingInv'
    OBVIOUS
  <2>1. ASSUME NEW n \in Names, Start(n) PROVE RoutingInv'
    <3>1. OwnId(n) \in 0 .. ID_MODULUS - 1 /\ (n \in Nat => OwnId(n) = n)
      <4>1. CASE n = NoNumber
        BY <4>1, CoordinatorAssumption DEF OwnId
      <4>2. CASE n # NoNumber
        <5>1. n \in Nat
          BY <4>2, CoordinatorAssumption
        <5>2. n < ID_MODULUS
          BY <2>1, <4>2 DEF Start, OwnIdParses
        <5> QED
          BY <4>2, <5>1, <5>2, CoordinatorAssumption DEF OwnId
      <4> QED
        BY <4>1, <4>2
    <3> DEFINE ids == NodeIds(n, Names \ {n})
    <3>2. ids \in SUBSET Nat /\ IsFiniteSet(ids) /\ ids # {}
      BY <2>1, NodeIdsFinite DEF Start
    <3> DEFINE list == Sorted(ids)
    <3>3. /\ started' = started \cup {n}
          /\ local_node_id' = [local_node_id EXCEPT ![n] = OwnId(n)]
          /\ all_nodes' = [all_nodes EXCEPT ![n] = list]
      BY <2>1 DEF Start
    <3> HIDE DEF ids
    <3>4. list \in Seq(Nat) /\ Len(list) = Cardinality(ids)
      BY <3>2, SortedList
    <3>5. Cardinality(ids) # 0
      BY <3>2, FS_EmptySet
    <3> HIDE DEF list
    <3>6. list # <<>>
      BY <3>4, <3>5
    <3> QED
      BY <3>1, <3>3, <3>4, <3>6 DEF RoutingInv, CoordTypeOK
  <2>2. ASSUME NEW n \in Names, NEW nodes \in NodeLists, set_nodes(n, nodes)
        PROVE  RoutingInv'
    BY <2>2, CoordinatorAssumption DEF set_nodes, RoutingInv, CoordTypeOK
  <2>3. CASE CreateMessage \/ Carry \/ UNCHANGED coordVars
    BY <2>3 DEF CreateMessage, Carry, coordVars, RoutingInv,
       CoordTypeOK
  <2> QED
    BY <2>1, <2>2, <2>3 DEF Next
<1> QED
  BY <1>1, <1>2, PTL DEF Spec

\* Every node of a settled cluster numbered from 0 routes a key to the same
\* node of the cluster, which alone takes it for local.
THEOREM RoutingCorrect == Spec => []RoutingAgrees
<1>1. RoutingInv => RoutingAgrees
  <2> SUFFICES ASSUME RoutingInv, Settled, NEW k \in Keys
               PROVE  OnePrimary(k)
    BY DEF RoutingAgrees
  <2> DEFINE N == Cardinality(Names)
             size == Len(all_nodes[0])
             p == Hash(k) % size
  <2>1. N \in Nat /\ Names = 0 .. N - 1 /\ started = Names
    BY CoordinatorAssumption, FS_CardinalityType DEF Settled
  <2>2. N # 0
    BY <2>1, CoordinatorAssumption
  <2>3. 0 \in Names
    BY <2>1, <2>2
  <2>4. size \in Nat \ {0} /\ size <= N
    BY <2>1, <2>3
       DEF Settled, RoutingInv, CoordTypeOK
  <2>5. Hash(k) \in Nat
    BY CoordinatorAssumption DEF Hash
  <2>6. p \in Names
    BY <2>1, <2>4, <2>5
  <2>7. \A n \in Names : get_primary_node(all_nodes[n], k) = p
    BY <2>3 DEF Settled, get_primary_node
  <2>8. \A n \in Names : local_node_id[n] = n
    BY <2>1 DEF RoutingInv
  <2> QED
    BY <2>6, <2>7, <2>8 DEF OnePrimary, is_local
<1> QED
  BY <1>1, RoutingInvariant, PTL

\* What the coordinators hold keeps its type: in particular no node that has
\* started has an empty list, by whose length get_primary_node divides.
THEOREM CoordTypeCorrect == Spec => []CoordTypeOK
<1>1. RoutingInv => CoordTypeOK
  BY DEF RoutingInv
<1> QED
  BY <1>1, RoutingInvariant, PTL

------------------------------------------------------------------------------
(* The messages                                                            *)

\* A message has the fields its create function gave it, with the numbers it
\* was created from.
RequestAsMade(m) ==
  /\ DOMAIN m = {"type", "tx_id", "key", "timestamp"}
  /\ m["type"] = "LOCK_REQUEST"
  /\ made = <<"request", m["tx_id"].number, m["key"].number,
              m["timestamp"].number>>

ResponseAsMade(m) ==
  /\ DOMAIN m = {"type", "tx_id", "granted"}
  /\ m["type"] = "LOCK_GRANTED"
  /\ made = <<"response", m["tx_id"].number, m["granted"]>>

ReleaseAsMade(m) == DOMAIN m = {"type", "tx_id", "key"}

MessageInv ==
  msg # NoMessage =>
    RequestAsMade(msg) \/ ResponseAsMade(msg) \/ ReleaseAsMade(msg)

\* Writing a number out and parsing it again may change its kind, and never
\* its value.
LEMMA ReparsedNumber ==
  ASSUME NEW json
  PROVE  Reparsed(json).number = json.number
BY DEF Reparsed, FromSigned

\* The create functions build one of the three shapes and carrying a message
\* keeps its shape.
LEMMA MessageInvariant == Spec => []MessageInv
<1>1. Init => MessageInv
  BY DEF Init, MessageInv
<1>2. MessageInv /\ [Next]_coordVars => MessageInv'
  <2> SUFFICES ASSUME MessageInv, [Next]_coordVars PROVE MessageInv'
    OBVIOUS
  <2>1. CASE CreateMessage
    <3>1. PICK t \in TxIds, k \in Keys, ts \in TxIds, g \in BOOLEAN :
            \/ /\ msg' = create_lock_request(t, k, ts)
               /\ made' = <<"request", t, k, ts>>
            \/ /\ msg' = create_lock_response(t, g)
               /\ made' = <<"response", t, g>>
            \/ msg' = create_lock_release(t, k)
      BY <2>1 DEF CreateMessage
    <3> QED
      BY <3>1 DEF create_lock_request, create_lock_response,
         create_lock_release, FromUnsigned, FromSigned, MessageInv,
         RequestAsMade, ResponseAsMade, ReleaseAsMade
  <2>2. CASE Carry
    <3>1. /\ msg # NoMessage /\ made' = made
          /\ msg' = [f \in DOMAIN msg |->
                       IF f \in {"tx_id", "key", "timestamp"}
                       THEN Reparsed(msg[f]) ELSE msg[f]]
      BY <2>2 DEF Carry
    <3>2. /\ DOMAIN msg' = DOMAIN msg
          /\ \A f \in DOMAIN msg \cap {"tx_id", "key", "timestamp"} :
               msg'[f].number = msg[f].number
          /\ \A f \in DOMAIN msg \cap {"type", "granted"} : msg'[f] = msg[f]
      BY <3>1, ReparsedNumber
    <3>3. RequestAsMade(msg) => RequestAsMade(msg)'
      BY <3>1, <3>2 DEF RequestAsMade
    <3>4. ResponseAsMade(msg) => ResponseAsMade(msg)'
      BY <3>1, <3>2 DEF ResponseAsMade
    <3>5. ReleaseAsMade(msg) => ReleaseAsMade(msg)'
      BY <3>2 DEF ReleaseAsMade
    <3> QED
      BY <3>1, <3>3, <3>4, <3>5 DEF MessageInv
  <2>3. CASE \/ \E n \in Names : Start(n)
             \/ \E n \in Names, nodes \in NodeLists : set_nodes(n, nodes)
             \/ UNCHANGED coordVars
    BY <2>3, Zenon DEF Start, set_nodes, coordVars, MessageInv, RequestAsMade,
       ResponseAsMade, ReleaseAsMade
  <2> QED
    BY <2>1, <2>2, <2>3 DEF Next
<1> QED
  BY <1>1, <1>2, PTL DEF Spec

\* What a parse function accepts is a message of its kind with the values that
\* the create function was given, for any numbers and however often the message
\* was written to a socket and read back.
THEOREM ParsingCorrect == Spec => []ParsedAsMade
<1>1. MessageInv => ParsedAsMade
  BY DEF MessageInv, RequestAsMade, ResponseAsMade, ReleaseAsMade,
     ParsedAsMade, parse_lock_request, parse_lock_response
<1> QED
  BY <1>1, MessageInvariant, PTL
==============================================================================
