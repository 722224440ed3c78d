------------------------ MODULE MCDistributedScheduler ------------------------
(***************************************************************************)
(* Small instances of DistributedScheduler for TLC: even keys are node 0's *)
(* and odd keys node 1's.  No two appends have the same value.             *)
(***************************************************************************)
EXTENDS DistributedScheduler

\* Two transactions on node 0 and one on node 1: the first of each draws id 1.
TwoAndOne == [n \in Nodes |-> 2 - n]
OneEach == [n \in Nodes |-> 1]
OneOnly == [n \in Nodes |-> 1 - n]

\* The transactions of each node, in the order in which it begins them.
PerNode(lists) == [r \in Requests |-> lists[r[1] + 1][r[2]]]

\* Ids meet: the requests with id 1 share key 1.  Id 2 crosses both.
Crossing == PerNode(<<<<<<AppendOp(1, 11), AppendOp(0, 12)>>,
                        <<ReadOp(1), AppendOp(0, 21)>>>>,
                      <<<<AppendOp(1, 31)>>>>>>)

\* Ids do not meet: the requests with id 1 are local to different nodes.
Apart == PerNode(<<<<<<AppendOp(0, 11)>>,
                     <<ReadOp(0), AppendOp(1, 21), ReadOp(1)>>>>,
                   <<<<AppendOp(1, 31)>>>>>>)

------------------------------------------------------------------------------
(* What the code does otherwise than documented.                           *)

\* One transaction with a remote key.
Single == PerNode(<<<<<<AppendOp(1, 11), ReadOp(1)>>>>, <<>>>>)

\* Two with the same id, and one key.
SameId == PerNode(<<<<<<AppendOp(1, 11)>>>>, <<<<AppendOp(1, 21)>>>>>>)

\* Different ids, and one key.
OtherId == PerNode(<<<<<<ReadOp(0)>>, <<AppendOp(1, 11)>>>>,
                     <<<<AppendOp(1, 21)>>>>>>)
==============================================================================
