CONSTANTS
  Payins = {p1}
  MaxExpiries = 1
  BatchLimit = 2
  MaxCrashes = 0
SPECIFICATION Spec
INVARIANTS
  RefundedBeforeSuccessFails
CHECK_DEADLOCK FALSE
