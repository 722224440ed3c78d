---------------------------- MODULE MCLockManager ----------------------------
(***************************************************************************)
(* Small instances of LockManager for TLC.                                 *)
(***************************************************************************)
EXTENDS LockManager, TLC

CONSTANTS c1, c2

\* Every caller runs a transaction of its own.
OwnIds == [c \in Callers |-> c]

\* Callers are interchangeable when each is its own transaction id, and keys
\* always are.
CallerKeySymmetry == Permutations(Callers) \cup Permutations(Keys)

\* Ids as next_tx_id hands them out, smaller for the older transaction.
NumberedIds == (c1 :> 1) @@ (c2 :> 2)
==============================================================================
