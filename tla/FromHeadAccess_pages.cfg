SPECIFICATION FairSpec
CONSTANTS
  NoGuest = NoGuest
  Guests = {g1}
  GUEST = g1
  MaxDom = 4
  Prompt = TRUE
  Pages = 3
  EX_COUNT = 3
INVARIANTS
  TypeOK
  NoLivingGuestLogged
  LinesCoverDamage
PROPERTIES
  ProgramEnds
