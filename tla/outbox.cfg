CONSTANTS
  Aggregates = {a1, a2}
  Topics = {t1}
  Relays = {r1, r2}
  BatchSize = 2
  MaxAttempts = 2
  Refused = {}
  MaxRows = 2
  MaxLoss = 1
SPECIFICATION Spec
SYMMETRY Symmetry
INVARIANTS
  TypeOK
  TopicKeepsOrder
  NothingIsLost
PROPERTIES
  ImplementsDelivery
CHECK_DEADLOCK FALSE
