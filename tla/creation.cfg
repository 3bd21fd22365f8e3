CONSTANTS
  Tenants = {t1, t2}
  Keys = {k1, k2, k3}
  QuoteHeaders = {x1, x2}
  Amounts = {1, 2}
  Refs = {r1}
  MaxQuotes = 2
  MaxPayments = 3
  MaxRows = 4
SPECIFICATION Spec
SYMMETRY Symmetry
INVARIANTS
  TypeOK
  AcceptedQuoteIsHonoured
  RefundsWithinAmount
  PayoutKeyNamesOnePayment
PROPERTIES
  QuoteIsDecidedOnce
CHECK_DEADLOCK FALSE
