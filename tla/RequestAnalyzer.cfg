SPECIFICATION FairSpec
CONSTANTS
  Threads = {t1, t2, t3}
  THREAD_COUNT_LIMIT = 2
  MaxDue = 2
INVARIANTS
  TypeOK
  Accounting
  ThreadCount
PROPERTIES
  AllReported
  KeepsTally
