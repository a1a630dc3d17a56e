\* A retry, and a second order of the same customer that wants the coupons too.
SPECIFICATION FairSpec
CONSTANTS
  r1 = r1  r2 = r2  r3 = r3
  alice = alice  bob = bob  k1 = k1  k2 = k2  c1 = c1  c2 = c2
  Requests = {r1, r2, r3}
  Products = {1, 2}
  Coupons = {c1, c2}
  Customer <- OneCustomer
  Key <- Keys
  Basket <- ApartBaskets
  Codes <- CrossedCodes
  TotalLimit <- ScarceTotal
  CustomerLimit <- ScarceEach
  FirstOrderOnly = {c2}
  Allowances = {0, 1, 2}
  Prices = {1}
  FaultBudget = 1
INVARIANTS
  OrderComplete
  PhantomsOnlyByFailure
PROPERTIES
  ImplementsOrderBook
  AllAnswered
CHECK_DEADLOCK FALSE
