\* Four handlers of one customer, two sessions at most.
SPECIFICATION Spec
CONSTANTS
  Handlers = {h1, h2, h3, h4}
  MaxSessions = 2
  Required = TRUE
  Fallback = TRUE
  MaxLapses = 1
  FaultBudget = 1
INVARIANTS RotationIsAChain LogoutEnds LoggedOutIsOut CapTakesTheSurplus
CHECK_DEADLOCK FALSE
