\* A request, its retry and another customer want the same products; coupons
\* are plentiful, and the shop edits prices.
SPECIFICATION Spec
CONSTANTS
  r1 = r1  r2 = r2  r3 = r3
  alice = alice  bob = bob  k1 = k1  k2 = k2  c1 = c1  c2 = c2
  Requests = {r1, r2, r3}
  Products = {1, 2}
  Coupons = {c1, c2}
  Customer <- TwoCustomers
  Key <- Keys
  Basket <- SharedBaskets
  Codes <- OneCode
  TotalLimit <- Plenty
  CustomerLimit <- Plenty
  FirstOrderOnly = {}
  Allowances = {1}
  Prices = {1, 2}
  FaultBudget = 1
INVARIANTS
  RepeatsNeverConflict
  PricesHeld
  OnlyCouponDeadlocks
CHECK_DEADLOCK FALSE
