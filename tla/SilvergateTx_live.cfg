SPECIFICATION FairSpec
CONSTANTS
  t1 = t1
  t2 = t2
  k1 = k1
  k2 = k2
  k3 = k3
  Txs <- MCTwoTxs
  Reqs = {r1, r2, r3}
  Keys <- MCKeys
  TxAmounts <- MCTxAmounts
  Args <- MCTwoArgs
  FaultKinds = {"db_error"}
  MaxFaults = 2
  NoReq = NoReq
  NoKey = NoKey
PROPERTIES
  RequestsEnd
  CaptureResolves
  RefusedRefundReleased
  ImplementsCardAccount
CHECK_DEADLOCK FALSE
