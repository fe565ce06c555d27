SPECIFICATION Spec
CONSTANTS
  NoLock = NoLock
  Torn = Torn
  Proc = {p1, p2, p3}
  Session = {s1}
  Mortal = TRUE
INVARIANTS
  SyncIsExclusive
CHECK_DEADLOCK FALSE
