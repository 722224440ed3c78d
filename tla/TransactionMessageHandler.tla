---------------------- MODULE TransactionMessageHandler ----------------------
(***************************************************************************)
(* How the handler of "txn" messages turns the scheduler's result list     *)
(* into the reply (lib/src/system/TransactionMessageHandler.cpp).          *)
(***************************************************************************)
EXTENDS Operations

\* The cursor points at a result for the read's key.
ResultFor(op, reads, cur) ==
  IsRead(op) /\ cur <= Len(reads) /\ reads[cur].key = op.key

\* createReply: the value put in place of every read of tx.  The cursor into
\* reads moves only past a result whose key matches.
createReply(tx, reads) ==
  LET curRead[j \in 0 .. Len(tx)] ==
        IF j = 0 THEN 1
        ELSE IF ResultFor(tx[j], reads, curRead[j - 1])
             THEN curRead[j - 1] + 1
             ELSE curRead[j - 1]
  IN  [j \in ReadPositions(tx) |->
         IF ResultFor(tx[j], reads, curRead[j - 1])
         THEN reads[curRead[j - 1]].value
         ELSE Nullopt]
==============================================================================
