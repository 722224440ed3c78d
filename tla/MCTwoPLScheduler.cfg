SPECIFICATION Spec
CONSTANTS
  NumRequests = 3
  Callers <- RequestIds
  TxIds <- RequestIds
  TxOf <- OwnIds
  Txn <- ThreeTxn
  Keys = {"x", "y", "z"}
  MAX_SPINS = 1
  MAX_YIELDS = 0
  NoTx = NoTx
  NoKey = NoKey
  NoCaller = NoCaller
  Nullopt = Nullopt
CHECK_DEADLOCK FALSE
INVARIANT
  OkReleasesAll
PROPERTIES
  Strict2PL
  BoundedWork
  Serializable
