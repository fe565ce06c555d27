SPECIFICATION Spec
CONSTANTS
  None = None
  Adapter = {a}
  Thread = {t1, t2}
  Workspace = {w}
  Cwd <- OneWorkspace
  Starting = {w}
  Call = {c1}
  Token = {k1, k2}
  MaxQueue = 1
  Lingering = TRUE
  Failing = {}
  Rival = {r1, r2}
  Wanted = {t}
  Ask = {c}
  Unsteady = {r1, r2}
SYMMETRY Interchangeable
INVARIANTS
  ForwardedIsLeased
CHECK_DEADLOCK FALSE
