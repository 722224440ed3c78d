--------------------------- MODULE MCTwoPLScheduler ---------------------------
(***************************************************************************)
(* Small instances of TwoPLScheduler for TLC.                              *)
(***************************************************************************)
EXTENDS TwoPLScheduler

RequestIds == 1 .. NumRequests
OwnIds == [i \in RequestIds |-> i]

\* Two transactions that write what the other reads, and a third key whose
\* entry one of them can be creating while the other already owns a lock.
CrossedTxn == << <<AppendOp("x", 1), ReadOp("y"), AppendOp("x", 2)>>,
                 <<AppendOp("y", 3), ReadOp("x"), ReadOp("z"), ReadOp("y")>> >>

\* Three transactions that share a key: one can take it when another gave up on
\* it and cleans up while the third owns it.  The first and the last conflict in
\* both directions, and the second can be creating an entry meanwhile.
ThreeTxn == << <<AppendOp("x", 1), ReadOp("y"), AppendOp("x", 2)>>,
               <<AppendOp("z", 3), ReadOp("x")>>,
               <<AppendOp("y", 4), ReadOp("x")>> >>
==============================================================================
