SPECIFICATION Spec
CONSTANTS
  g1 = g1
  g2 = g2
  NoGuest = NoGuest
  Guests = {g1, g2}
  MaxDom = 3
  Prompt = TRUE
  ATTACABLE_BYTES = 2
  Addrs = {a1, a2}
  Experiments <- TwoAndNone
  MaxForkFails = 1
  MaxInits = 3
PROPERTIES
  NewIdIsDomId
CHECK_DEADLOCK FALSE
