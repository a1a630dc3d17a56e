SPECIFICATION FairSpec
CONSTANTS
  Requests = {a1, a2}
  Verifications = {v1, v2}
  Customers = {c1, c2}
  Movers = {c2}
  Leavers = {c1}
  Channels = {"phone"}
  Resend = 0
  Ttl = 1
  Window = 1
  MaxPerWindow = 1
  MaxAttempts = 1
  Recent = 2
  MaxConcurrent = 2
  MaxTime = 0
  FaultBudget = 0
INVARIANTS ReplaysOverlap SessionsOfHolder
CHECK_DEADLOCK FALSE
PROPERTIES AllAnswered
