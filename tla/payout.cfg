CONSTANTS
  Payments = {p1}
  Unrouted = {}
  UsedStatuses = {"processing", "on_hold", "completed", "failed", "refunded", "submission_failed"}
  Copies = {1, 2}
  MaxExpiries = 1
  BatchLimit = 1
  MaxCrashes = 1
SPECIFICATION Spec
INVARIANTS
  TypeOK
  PayableBounded
  SettledOnlyWhenConfirmed
  ReleasedOnlyWhenReturned
  PaidPayoutIsNotFailed
  SagaAgreesOnSuccess
  FailureIsCarriedOut
  WaitingSagaHasDeadline
  BlockedOnlyAfterOutcome
PROPERTIES
  OutcomeIsFinal
  CreatedOnlyWhileReserved
  OneOutcomeAnnounced
  LostSubmissionStaysPending
CHECK_DEADLOCK FALSE
