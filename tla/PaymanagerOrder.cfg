SPECIFICATION Spec
CONSTANTS
  Jobs <- MCJobs
  Op <- MCOp
  Arg <- MCArg
  Key <- MCKey
  MaxFaults = 1
INVARIANTS
  TypeOK
  EventsExplainOrder
  CaptureIsRecorded
PROPERTIES
  FinalStaysFinal
CHECK_DEADLOCK FALSE
