SPECIFICATION Spec
CONSTANTS
  g1 = g1
  g2 = g2
  NoGuest = NoGuest
  Guests = {g1, g2}
  MaxDom = 3
  Holes = FALSE
  Prompt = TRUE
  Addrs = {a1}
  MaxForkFails = 0
  Algorithm <- AllSimple
  Contains <- Exact
  Octet = 172
  RunsPerSlice = 2
  Slices = 1
  Slide = 1
  WaitSecs = 1
INVARIANTS
  NoSurvivorLogged
PROPERTIES
  KeepsLedger
  FreshVictim
SYMMETRY Sym
