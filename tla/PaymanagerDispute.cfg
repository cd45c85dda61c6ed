SPECIFICATION Spec
CONSTANTS
  opened1 = opened1
  opened2 = opened2
  reopened = reopened
  won = won
  evidence1 = evidence1
  submit1 = submit1
  submit2 = submit2
  NoDispute = NoDispute
  NoId = NoId
  Jobs <- MCJobs
  Op <- MCOp
  Arg <- MCArg
  Key <- MCKey
  MaxFaults = 1
SYMMETRY MCSymmetry
INVARIANTS
  TypeOK
  OneChangePerEvent
  SubmissionIsRecorded
PROPERTIES
  DecisionKept
CHECK_DEADLOCK FALSE
