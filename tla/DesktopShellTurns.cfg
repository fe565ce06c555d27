SPECIFICATION WorkSpec
CONSTANTS
  None = None
  Adapter = {a}
  Thread = {t1}
  Turn = {u1}
  Call = {c1}
  Op = {o1}
  Release = {r1}
  FirstOp = o1
  FirstRelease = r1
  FirstTurn = u1
  Vetoes = {}
  Remembered = 1
  MaxQueue = 1
INVARIANTS
  TurnsFinish
CHECK_DEADLOCK FALSE
