SPECIFICATION FairSpec
CONSTANTS
  Lines = {1, 2, 3, 4, 5, 6, 7}
  TypeOf <- SevenTypes
  BodyOf <- SevenBodies
  POOL_SIZE = 2
  INT_MODULUS = 16
  None = None
CHECK_DEADLOCK FALSE
INVARIANTS
  NodeTypeOK
  RepliesMatch
  StartedBeforeWork
PROPERTY
  RequestsAnswered
