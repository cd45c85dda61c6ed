SPECIFICATION FairSpec
CONSTANTS
  Hooks <- MCHooks
  Kind <- MCKind
  Key <- MCKey
  Workers = {w1, w2}
  BatchSize = 2
  MaxRetries = 2
  MaxAttempts = 2
  MaxFaults = 1
  MaxLate = 2
  NoHook = NoHook
INVARIANTS
  TypeOK
  ClaimedByOneWorker
  GivesUpOnlyAfterRetries
PROPERTIES
  ImplementsDelivery
  StoredSettles
CHECK_DEADLOCK FALSE
