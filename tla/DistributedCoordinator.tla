------------------------ MODULE DistributedCoordinator ------------------------
(***************************************************************************)
(* The coordinators of a cluster: TwoPLScheduler::start gives each node    *)
(* its own list of nodes, set_nodes replaces it.  Beside the routing, the  *)
(* lock messages that DistributedCoordinator creates and parses, with one  *)
(* of them under way.                                                      *)
(***************************************************************************)
EXTENDS Routing, JsonNumbers

CONSTANTS
  Names,       \* the node_ids of the init messages
  NodeLists,   \* lists that set_nodes may be given: none is empty
  Keys,
  TxIds,       \* transaction ids and timestamps
  NoMessage

ASSUME CoordinatorAssumption ==
  /\ ID_MODULUS \in Nat \ {0}
  /\ SIZE_MODULUS \in Nat \ {0}
  /\ NoNumber \notin Nat
  /\ Names \subseteq Nat \cup {NoNumber}
  /\ IsFiniteSet(Names) /\ Names # {}
  /\ NodeLists \subseteq Seq(Nat) \ {<<>>}
  /\ Keys \subseteq Int

VARIABLES
  started,          \* the nodes that have a coordinator
  local_node_id,    \* per node, as its coordinator knows it
  all_nodes,        \* per node, the coordinator's list
  made,             \* the values the message under way was created from
  msg               \* the message under way

coordVars == <<started, local_node_id, all_nodes, made, msg>>

Init ==
  /\ started = {}
  /\ local_node_id = [n \in Names |-> 0]
  /\ all_nodes = [n \in Names |-> <<>>]
  /\ made = NoMessage
  /\ msg = NoMessage

------------------------------------------------------------------------------

\* Mutant: the list was already moved elsewhere when the coordinator got it.
StartWithMovedList(n) ==
  /\ n \notin started
  /\ Names # {n}
  /\ OwnIdParses(n)
  /\ \A p \in Names \ {n} : PeerIdParses(p)
  /\ started' = started \cup {n}
  /\ local_node_id' = [local_node_id EXCEPT ![n] = OwnId(n)]
  /\ UNCHANGED <<all_nodes, made, msg>>

\* init reached node n: _peerIds are the other names.
Start(n) ==
  /\ n \notin started
  /\ Names # {n}
  /\ OwnIdParses(n)
  /\ \A p \in Names \ {n} : PeerIdParses(p)
  /\ started' = started \cup {n}
  /\ local_node_id' = [local_node_id EXCEPT ![n] = OwnId(n)]
  /\ all_nodes' = [all_nodes EXCEPT ![n] = Sorted(NodeIds(n, Names \ {n}))]
  /\ UNCHANGED <<made, msg>>

set_nodes(n, nodes) ==
  /\ n \in started
  /\ all_nodes' = [all_nodes EXCEPT ![n] = nodes]
  /\ UNCHANGED <<started, local_node_id, made, msg>>

create_lock_request(tx_id, key, timestamp) ==
  [type |-> "LOCK_REQUEST", tx_id |-> FromUnsigned(tx_id),
   key |-> FromSigned(key), timestamp |-> FromUnsigned(timestamp)]

\* Denials are of type LOCK_GRANTED too.
create_lock_response(tx_id, granted) ==
  [type |-> "LOCK_GRANTED", tx_id |-> FromUnsigned(tx_id), granted |-> granted]

create_lock_release(tx_id, key) ==
  [type |-> "LOCK_RELEASE", tx_id |-> FromUnsigned(tx_id),
   key |-> FromSigned(key)]

\* Mutant: the timestamp is not asked for, like the type.
RequestWithoutTimestamp(m) ==
  /\ {"tx_id", "key"} \subseteq DOMAIN m
  /\ as_uint64(m.tx_id) /\ as_int64(m.key)

\* parse_lock_request returns true: the fields are there and as_uint64 and
\* as_int64 do not throw.
parse_lock_request(m) ==
  /\ {"tx_id", "key", "timestamp"} \subseteq DOMAIN m
  /\ as_uint64(m.tx_id) /\ as_int64(m.key) /\ as_uint64(m.timestamp)

parse_lock_response(m) ==
  {"tx_id", "granted"} \subseteq DOMAIN m /\ as_uint64(m.tx_id)

CreateMessage ==
  /\ msg = NoMessage
  /\ \E t \in TxIds, k \in Keys, ts \in TxIds, g \in BOOLEAN :
       \/ /\ msg' = create_lock_request(t, k, ts)
          /\ made' = <<"request", t, k, ts>>
       \/ /\ msg' = create_lock_response(t, g)
          /\ made' = <<"response", t, g>>
       \/ /\ msg' = create_lock_release(t, k)
          /\ made' = <<"release", t, k>>
  /\ UNCHANGED <<started, local_node_id, all_nodes>>

\* Peer::send writes the message out as text, Peer::receive parses it.
Carry ==
  /\ msg # NoMessage
  /\ msg' = [f \in DOMAIN msg |->
               IF f \in {"tx_id", "key", "timestamp"} THEN Reparsed(msg[f])
               ELSE msg[f]]
  /\ UNCHANGED <<started, local_node_id, all_nodes, made>>

Next ==
  \/ \E n \in Names : Start(n)
  \/ \E n \in Names, nodes \in NodeLists : set_nodes(n, nodes)
  \/ CreateMessage
  \/ Carry

Spec == Init /\ [][Next]_coordVars

------------------------------------------------------------------------------
(* Properties                                                              *)

CoordTypeOK ==
  /\ started \subseteq Names
  /\ local_node_id \in [Names -> 0 .. ID_MODULUS - 1]
  /\ all_nodes \in [Names -> Seq(Nat)]
  /\ \A n \in started : all_nodes[n] # <<>>

\* The nodes of a cluster numbered from 0 have all started, and none is being
\* reconfigured apart from the others.
Settled ==
  /\ started = Names
  /\ Names = 0 .. Cardinality(Names) - 1
  /\ Cardinality(Names) <= ID_MODULUS
  /\ \A a, b \in Names : all_nodes[a] = all_nodes[b]
  /\ \A a \in Names : Len(all_nodes[a]) <= Cardinality(Names)

\* Exactly one node takes a key for its own (is_local), and it is the node to
\* which every other node sends the requests for the key.
OnePrimary(k) ==
  \E p \in Names :
    /\ is_local(local_node_id[p], all_nodes[p], k)
    /\ \A n \in Names :
         /\ get_primary_node(all_nodes[n], k) = p
         /\ n # p => ~is_local(local_node_id[n], all_nodes[n], k)

\* "Each key has exactly one primary node" (DistributedCoordinator.h) once the
\* cluster has settled, although each node builds its list from an init message
\* that treats it apart from its peers, and for negative keys too.
RoutingAgrees == Settled => \A k \in Keys : OnePrimary(k)

\* "The node ID that is primary for this key" (DistributedCoordinator.h): the
\* primary node of a key is a node of the list.
PrimaryIsListed ==
  \A n \in started : \A k \in Keys :
    \E i \in DOMAIN all_nodes[n] :
      all_nodes[n][i] = get_primary_node(all_nodes[n], k)

\* A message that a parse function accepts is of the kind it parses, although
\* neither looks at the type, and holds the values it was created from,
\* wherever it travelled.
ParsedAsMade ==
  msg # NoMessage =>
    /\ parse_lock_request(msg) =>
         /\ msg.type = "LOCK_REQUEST"
         /\ made = <<"request", msg.tx_id.number, msg.key.number,
                     msg.timestamp.number>>
    /\ parse_lock_response(msg) =>
         /\ msg.type = "LOCK_GRANTED"
         /\ made = <<"response", msg.tx_id.number, msg.granted>>
==============================================================================
