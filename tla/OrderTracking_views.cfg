\* Two views at the same time of a tracked and an untracked order.
SPECIFICATION FairSpec
CONSTANTS
  v1 = v1  v2 = v2
  Viewers = {v1, v2}
  Orders = {1, 2}
  Tracked = {1}
  ListCap = 2
  FaultBudget = 1
INVARIANT StatusJustified
PROPERTIES EndLostOnlyToStaleViews DeliveryArrives
CHECK_DEADLOCK FALSE
