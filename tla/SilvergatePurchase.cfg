SPECIFICATION Spec
CONSTANTS
  c1 = c1
  c2 = c2
  c3 = c3
  c4 = c4
  Calls <- MCCalls
  Key <- MCKey
  Body <- MCBody
  Prices = {100, 200}
  MaxEdits = 1
  MaxFaults = 1
SYMMETRY MCSymmetry
INVARIANTS
  OnePurchasePerKey
  OrphanHoldsHaveReason
  UncapturedIsReported
PROPERTIES
  PriceFrozenOnceBought
CHECK_DEADLOCK FALSE
