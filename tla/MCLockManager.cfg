SPECIFICATION LMSpec
CONSTANTS
  c1 = c1
  c2 = c2
  Callers = {c1, c2}
  Keys = {k1, k2}
  TxIds = {c1, c2}
  TxOf <- OwnIds
  MAX_SPINS = 1
  MAX_YIELDS = 1
  NoTx = NoTx
  NoKey = NoKey
  NoCaller = NoCaller
SYMMETRY CallerKeySymmetry
INVARIANTS
  LMTypeOK
  Exclusion
  OwnerTracked
  HoldersAreTold
  SomeCallRuns
PROPERTIES
  ImplementsLockService
  BoundedCalls
