------------------------------- MODULE Routing -------------------------------
(***************************************************************************)
(* The node list that TwoPLScheduler::start builds from the names in an    *)
(* init message, and how DistributedCoordinator routes a key over it.      *)
(*                                                                         *)
(* A name "n<i>" is the number i; any other name is NoNumber.              *)
(***************************************************************************)
EXTENDS Integers, FiniteSets, Sequences

CONSTANTS
  NoNumber,      \* a name that does not start with 'n'
  SIZE_MODULUS,  \* 2^64: size_t holds 0 .. SIZE_MODULUS - 1
  INT_MAX,       \* 2^31 - 1: the largest int
  ID_MODULUS     \* 2^16: Peer::id holds 0 .. ID_MODULUS - 1

\* from_chars reports a number that is out of range; stoi throws if it is no
\* int, and the conversion to Peer::id wraps around.
OwnIdParses(name) == name = NoNumber \/ name < ID_MODULUS
OwnId(name) == IF name = NoNumber THEN 0 ELSE name
PeerIdParses(name) == name = NoNumber \/ name <= INT_MAX
PeerId(name) == name % ID_MODULUS

\* The local id and the peers' ids.
NodeIds(name, peers) ==
  {OwnId(name)} \cup {PeerId(p) : p \in peers \ {NoNumber}}

\* Sorted and without duplicates.
Sorted(ids) ==
  [i \in 1 .. Cardinality(ids) |->
     CHOOSE x \in ids : Cardinality({y \in ids : y < x}) = i - 1]

\* std::hash of an integer is its conversion to size_t.
Hash(key) == key % SIZE_MODULUS

\* Mutant: the index runs to the number of nodes.
PrimaryOneTooFar(all_nodes, key) ==
  Hash(key) % (Len(all_nodes) + 1)

\* An index into the list stands for the node.
get_primary_node(all_nodes, key) == Hash(key) % Len(all_nodes)

is_local(local_id, all_nodes, key) ==
  get_primary_node(all_nodes, key) = local_id
==============================================================================
