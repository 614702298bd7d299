SPECIFICATION FairSpec
CONSTANTS
  MEMORY_SIZE = 6
  PageSize = 2
  VgaFirst = 2
  VgaEnd = 4
  Digits = {0, 1}
  inject_bits = 5
  bits_per_once = 2
  wait_sec_between_inject = 2
  MaxElapsed = 6
INVARIANTS
  TypeOK
  FreshRoundsPaced
  CountCoversFlips
  VgaIntact
PROPERTIES
  Ends
CHECK_DEADLOCK FALSE
