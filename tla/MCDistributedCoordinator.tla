----------------------- MODULE MCDistributedCoordinator -----------------------
(***************************************************************************)
(* Small instances of DistributedCoordinator for TLC.                      *)
(***************************************************************************)
EXTENDS DistributedCoordinator

\* A cluster that shrinks to two nodes and grows back, with a node listed twice.
ShrinkAndGrow == {<<0, 1>>, <<0, 1, 2>>, <<1, 0, 1>>}
SomeKeys == -2 .. 3
==============================================================================
