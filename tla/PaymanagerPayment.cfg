SPECIFICATION Spec
CONSTANTS
  p1 = p1
  Txs <- MCTxs
  TxAmounts = {2}
  Reqs = {r1, r2, r3}
  Args <- MCArgs
  FaultKinds = {"call_down", "call_lost", "db_error", "lost_ack", "hook_lost", "crash"}
  MaxFaults = 3
  NoReq = NoReq
INVARIANTS
  PaymentNeverAhead
  RefundsCountedOnce
  AgreeWhenQuiet
SYMMETRY Sym
CHECK_DEADLOCK FALSE
