SPECIFICATION FairSpec
CONSTANTS
  MaxEvents = 4
  Rejected = {2}
  Unreadable = {3}
  MaxFaults = 3
INVARIANTS
  TopicInCommitOrder
  PassedIsTried
  
PROPERTIES
  SearchableInTheEnd
CHECK_DEADLOCK FALSE
