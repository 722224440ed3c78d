SPECIFICATION Spec
CONSTANTS
  Names = {0, 1, 2}
  NodeLists <- ShrinkAndGrow
  Keys <- SomeKeys
  TxIds = {1, 3}
  NoMessage = NoMessage
  NoNumber = NoNumber
  SIZE_MODULUS = 16
  INT_MAX = 7
  ID_MODULUS = 4
  INT64_MAX = 2
INVARIANTS
  CoordTypeOK
  RoutingAgrees
  ParsedAsMade
