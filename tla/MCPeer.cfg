SPECIFICATION FairSpec
CONSTANTS
  Callers = {"a", "b"}
  Calls <- TwoCallers
  Oversized = {"large"}
  CONN_RETRIES = 3
  Connect = "connect"
  Garbage = Garbage
CHECK_DEADLOCK FALSE
INVARIANTS
  PeerTypeOK
  ResponsesMatch
PROPERTY
  ConstructionEnds
