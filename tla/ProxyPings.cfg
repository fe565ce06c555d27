SPECIFICATION Spec
CONSTANTS
  None = None
  Request = {r1, r2, r3}
  Early = TRUE
  Pinging = TRUE
  MaxQueue = 2
INVARIANTS
  NobodyWaitsInVain
CHECK_DEADLOCK FALSE
