CONSTANTS
  Payments = {p1, p2}
  Unrouted = {}
  UsedStatuses = {"completed", "on_hold"}
  Copies = {1}
  MaxExpiries = 0
  BatchLimit = 2
  MaxCrashes = 0
SPECIFICATION FairSpec
PROPERTIES
  EveryPayoutIsDisposed
CHECK_DEADLOCK FALSE
