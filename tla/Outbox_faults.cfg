\* Two processes, every kind of fault, and a database that may refuse to
\* dead-letter.
SPECIFICATION FairSpec
CONSTANTS
  Messages = {m1, m2}
  Workers = {w1, w2}
  BatchSize = 2
  MaxRetries = 2
  DeadLetter = {TRUE, FALSE}
  Faults = {"crash", "database", "stop", "slow"}
  FaultBudget = 1
INVARIANTS
  AttemptRunsOnce
PROPERTIES
  OrphansOnlyByFailure
  EverySettled
  ImplementsQueue
CHECK_DEADLOCK FALSE
