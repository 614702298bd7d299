SPECIFICATION FairSpec
CONSTANTS
  Base = 4
  MaxFds = 9
  MaxRetries = 3
INVARIANTS
  TypeOK
  NeverOutOfFds
  LeakBound
PROPERTIES
  KeepsPromise
  Returns
CHECK_DEADLOCK FALSE
