SPECIFICATION FairSpec
CONSTANTS
  g1 = g1
  g2 = g2
  NoGuest = NoGuest
  Guests = {g1, g2}
  MaxDom = 3
  Holes = FALSE
  Prompt = TRUE
  Addrs = {a1}
  MaxForkFails = 0
  Algorithm <- AllPause
  Contains <- Prefix
  Octet = 172
  RunsPerSlice = 1
  Slices = 1
  Slide = 1
  WaitSecs = 1
INVARIANTS
  PausedHasPauser
PROPERTIES
  EndsUnlessMisled
