CONSTANTS
  Payins = {p1}
  MaxExpiries = 1
  BatchLimit = 2
  MaxCrashes = 1
SPECIFICATION FairSpec
INVARIANTS
  TypeOK
  SucceededOnlyWhenReceived
  SagaFollowsReceipt
  OneOutcomeUnlessRepeated
  RefusedReceiptWasOverruled
PROPERTIES
  SucceededIsFinal
  CreatedOnlyWhileOpen
  ReconcilerCatchesUp
CHECK_DEADLOCK FALSE
