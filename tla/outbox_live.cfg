CONSTANTS
  Aggregates = {a1, a2}
  Topics = {t1}
  Relays = {r1}
  BatchSize = 2
  MaxAttempts = 2
  Refused = {1}
  MaxRows = 2
  MaxLoss = 1
SPECIFICATION FairSpec
PROPERTIES
  EveryEventIsHandled
CHECK_DEADLOCK FALSE
