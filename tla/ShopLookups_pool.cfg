\* A checkout, a service-area check and a lookup by domain on two connections.
SPECIFICATION FairSpec
CONSTANTS
  Checkouts = {k1}
  Lookups = {s1}
  Resolvers = {r1}
  Connections = {c1, c2}
  TimesOut = TRUE
  MaxWrites = 1
  MaxLapses = 1
  FaultBudget = 1
INVARIANTS TenantOfTransaction StaleByLateFill
PROPERTY AllAnswered
CHECK_DEADLOCK FALSE
