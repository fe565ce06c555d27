SPECIFICATION FairSpec
CONSTANTS
  launch = launch
  child = child
  stranger = stranger
  grandchild = grandchild
  None = None
  Proc = {launch, stranger}
  Ancestors <- TwoRoots
  Name = {"feature"}
  Id = {i1, i2}
  Token = {t1, t2}
  Thread = {c}
  Tampering = TRUE
INVARIANTS
  UniqueLiveName
  UniqueChatLink
  RegisteredIsMarked
PROPERTIES
  RemovalSparesWork
  TombstonesStay
  AttachIsAnswered
CHECK_DEADLOCK FALSE
