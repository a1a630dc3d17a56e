\* Product lists (swr) and pollers, with every kind of failure.
SPECIFICATION CacheSpec
CONSTANTS
  r1 = r1  r2 = r2  r3 = r3
  Readers = {r1, r2}
  Tables = {"catalog"}
  Items = {"products", "revision"}
  MaxVersion = 1
  MaxBumps = 1
  MaxPolls = 1
  EntryFaultBudget = 1
  GenFaultBudget = 1
  LapseBudget = 0
SYMMETRY Symmetric
INVARIANTS EntriesOfTheirGeneration FreshAfterInvalidation
CHECK_DEADLOCK FALSE
