CONSTANTS
  Payments = {p1}
  Unrouted = {}
  UsedStatuses = {"on_hold", "completed", "failed", "refunded"}
  Copies = {1}
  MaxExpiries = 1
  BatchLimit = 2
  MaxCrashes = 0
SPECIFICATION FairReconSpec
PROPERTIES
  MatchedWhenRecordsAgree
  DiscrepancyFollowsRecords
  ProviderOutcomeIsLearned
CHECK_DEADLOCK FALSE
