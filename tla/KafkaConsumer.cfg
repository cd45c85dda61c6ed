SPECIFICATION FairSpec
CONSTANTS
  Webhooks = {created, updated, poison}
  Poison = {poison}
  Creations = {created}
  Consumers = {c1, c2}
  NoConsumer = NoConsumer
  MaxAttempts = 2
  MaxLog = 3
  MaxFaults = 2
INVARIANTS
  TypeOK
  PassedIsSettled
PROPERTIES
  HandledInOrder
  EverythingSettles
CHECK_DEADLOCK FALSE
