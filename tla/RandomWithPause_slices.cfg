SPECIFICATION FairSpec
CONSTANTS
  NoGuest = NoGuest
  Guests = {g1}
  GUEST_NAME = g1
  MaxDom = 4
  Prompt = FALSE
  Slices = 2
  BITS_SLICE = 1
  EX_COUNT = 1
  Runs = 2
  FirstDom = 1
  MaxForkFails = 1
INVARIANTS
  TypeOK
  InjectsIntoPausedGuest
  OnlyTargetPaused
  SliceStartsFresh
PROPERTIES
  CampaignEnds
