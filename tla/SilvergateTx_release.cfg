SPECIFICATION Spec
CONSTANTS
  t1 = t1
  t2 = t2
  k1 = k1
  k2 = k2
  k3 = k3
  Txs <- MCTxs
  Reqs = {r1, r2, r3, r4}
  Keys <- MCKeys
  TxAmounts <- MCTxAmounts
  Args <- MCArgs
  FaultKinds = {"lost_ack"}
  MaxFaults = 1
  NoReq = NoReq
  NoKey = NoKey
SYMMETRY ReqSymmetry
INVARIANT ReleaseSafeToRetry
CHECK_DEADLOCK FALSE
