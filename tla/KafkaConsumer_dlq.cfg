SPECIFICATION Spec
CONSTANTS
  Webhooks = {created, updated, poison}
  Poison = {poison}
  Creations = {created}
  Consumers = {c1, c2}
  NoConsumer = NoConsumer
  MaxAttempts = 2
  MaxLog = 3
  MaxFaults = 0
INVARIANTS
  PassedIsHandledOrParked
CHECK_DEADLOCK FALSE
