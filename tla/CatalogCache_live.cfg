\* Fairness: readers and pollers whose queries and commands may fail.
SPECIFICATION CacheFairSpec
CONSTANTS
  r1 = r1  r2 = r2  r3 = r3
  Readers = {r1, r2}
  Tables = {"catalog"}
  Items = {"products", "revision"}
  MaxVersion = 1
  MaxBumps = 0
  MaxPolls = 1
  EntryFaultBudget = 1
  GenFaultBudget = 0
  LapseBudget = 1
INVARIANT SingleFlight
PROPERTIES ReadsEnd CacheCatchesUp
CHECK_DEADLOCK FALSE
