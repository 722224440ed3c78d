SPECIFICATION FairSpec
CONSTANTS
  NumRequests = 2
  Callers <- RequestIds
  TxIds <- RequestIds
  TxOf <- OwnIds
  Txn <- CrossedTxn
  Keys = {"x", "y", "z"}
  MAX_SPINS = 1
  MAX_YIELDS = 1
  NoTx = NoTx
  NoKey = NoKey
  NoCaller = NoCaller
  Nullopt = Nullopt
CHECK_DEADLOCK FALSE
PROPERTIES
  EveryTxAnswered
