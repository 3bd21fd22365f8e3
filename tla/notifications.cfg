CONSTANTS
  MaxEndpoints = 2
  URLs = {u1, u2}
  Dispatchers = {d1, d2}
  MaxActive = 1
  BatchSize = 1
  MaxAttempts = 3
  MaxEvents = 1
  MaxFaults = 2
SPECIFICATION FairSpec
INVARIANTS
  TypeOK
  EndpointsWithinLimit
  OutcomeIsEarned
PROPERTIES
  DeliveredIsFinal
  EveryDeliveryIsSettled
CHECK_DEADLOCK FALSE
