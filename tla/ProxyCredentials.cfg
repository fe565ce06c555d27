SPECIFICATION FairSpec
CONSTANTS
  None = None
  Handler = {h1, h2}
  MaxIssued = 3
INVARIANTS
  TypeOK
  ServedOnce
  RetryIsFresh
  PresentedIsUnspent
  LoginStaysUsable
PROPERTIES
  RequestIsAnswered
CHECK_DEADLOCK FALSE
