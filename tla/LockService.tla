----------------------------- MODULE LockService -----------------------------
(***************************************************************************)
(* What LockManager promises its callers: an exclusive lock per key, which *)
(* is granted in one step, to a caller that finds it free or already its   *)
(* own, and which is freed only after the caller gave it back.             *)
(***************************************************************************)
CONSTANTS Callers, Keys, TxOf, NoTx

VARIABLES
  owner,     \* per key, the transaction that owns the lock
  granted    \* per caller, the keys it holds

serviceVars == <<owner, granted>>

Init ==
  /\ owner = [k \in Keys |-> NoTx]
  /\ granted = [c \in Callers |-> {}]

Grant(c, k) ==
  /\ owner[k] \in {NoTx, TxOf[c]}
  /\ owner' = [owner EXCEPT ![k] = TxOf[c]]
  /\ granted' = [granted EXCEPT ![c] = @ \cup {k}]

\* The caller asks for some of its keys to be released.
GiveBack(c, given) ==
  /\ granted' = [granted EXCEPT ![c] = @ \ given]
  /\ UNCHANGED owner

\* The lock becomes free: nobody who was granted it still counts on it.
Free(k) ==
  /\ owner[k] # NoTx
  /\ \A c \in Callers : k \notin granted[c]
  /\ owner' = [owner EXCEPT ![k] = NoTx]
  /\ UNCHANGED granted

Next ==
  \/ \E c \in Callers, k \in Keys : Grant(c, k)
  \/ \E c \in Callers : \E given \in SUBSET Keys : GiveBack(c, given)
  \/ \E k \in Keys : Free(k)

Spec == Init /\ [][Next]_serviceVars
==============================================================================
