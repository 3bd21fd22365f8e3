CONSTANTS
  Payments = {p1}
  Unrouted = {}
  UsedStatuses = {"processing", "on_hold", "completed", "failed", "refunded", "submission_failed"}
  Copies = {1}
  MaxExpiries = 0
  BatchLimit = 1
  MaxCrashes = 0
SPECIFICATION Spec
INVARIANTS
  SettledOnNotification
CHECK_DEADLOCK FALSE
