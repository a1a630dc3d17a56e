SPECIFICATION Spec
SYMMETRY Symmetric
CONSTANTS
  Requests = {a1, a2, a3}
  Verifications = {v1}
  Customers = {c1}
  Movers = {}
  Leavers = {}
  Channels = {"phone", "email"}
  Resend = 1
  Ttl = 1
  Window = 1
  MaxPerWindow = 1
  MaxAttempts = 1
  Recent = 2
  MaxConcurrent = 2
  MaxTime = 2
  FaultBudget = 1
INVARIANTS
  SendsBounded
  LiveCodeAccepted
CHECK_DEADLOCK FALSE
