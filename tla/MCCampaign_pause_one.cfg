SPECIFICATION FairSpec
CONSTANTS
  g1 = g1
  g2 = g2
  NoGuest = NoGuest
  Guests = {g1}
  MaxDom = 4
  Holes = FALSE
  Prompt = FALSE
  Addrs = {a1}
  MaxForkFails = 1
  Octet = 172
  RunsPerSlice = 1
  Slices = 3
  Slide = 1
  WaitSecs = 1
  Algorithm <- AllPause
  Contains <- Exact
INVARIANTS
  TypeOK
  CountIsTotalDamage
  LinesPerRun
PROPERTIES
  FreshVictim
  EndsUnlessMisled
