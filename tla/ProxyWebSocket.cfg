SPECIFICATION FairSpec
CONSTANTS
  None = None
  Request = {r1, r2, r3}
  Early = TRUE
  Pinging = FALSE
  MaxQueue = 2
INVARIANTS
  NeverReplayed
  OwnAnswer
  NobodyWaitsInVain
PROPERTIES
  TurnEnds
CHECK_DEADLOCK FALSE
