SPECIFICATION Spec
CONSTANTS
  launch = launch
  child = child
  stranger = stranger
  grandchild = grandchild
  None = None
  Proc = {launch, child, grandchild, stranger}
  Ancestors <- TwoTrees
  Name = {"feature"}
  Id = {i1}
  Token = {t1, t2, t3}
  Thread = {}
  Tampering = FALSE
SYMMETRY Interchangeable
INVARIANTS
  TypeOK
  OwnerHoldsLease
  OneTreePerLease
PROPERTIES
  LeaseIsStable
  ImplementsContract
CHECK_DEADLOCK FALSE
