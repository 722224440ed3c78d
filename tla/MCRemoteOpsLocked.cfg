SPECIFICATION Spec
CONSTANTS
  NumNodes = 2
  Keys = {0, 1}
  NumRequests <- TwoAndOne
  Txn <- OtherId
  Nullopt = Nullopt
  NoTx = NoTx
  NoResult = NoResult
  NoNumber = NoNumber
  SIZE_MODULUS = 16
  INT_MAX = 7
  ID_MODULUS = 4
  INT64_MAX = 1
CHECK_DEADLOCK FALSE
PROPERTY
  RemoteOpsLocked
