SPECIFICATION MCSpec
CONSTANTS
  None = None
  Adapter = {a}
  Thread = {t1}
  Turn = {u1, u2}
  Call = {c1}
  Op = {o1, o2}
  Release = {r1, r2}
  FirstOp = o1
  FirstRelease = r1
  FirstTurn = u1
  Vetoes = {a}
  Remembered = 1
  MaxQueue = 1
INVARIANTS
  WorkIsFinished
  ReportIsTrue
PROPERTIES
  LetGoIsFinal
  RequestIsAnswered
CHECK_DEADLOCK FALSE
