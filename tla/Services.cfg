SPECIFICATION Spec
CONSTANTS
  Workers = {w1, w2}
  None = None
  ann = ann
  bob = bob
  firstTerms = firstTerms
  newTerms = newTerms
  n1 = n1
  n2 = n2
  op = op
  eth = eth
INVARIANTS TypeOK ClaimsHold ReadingsStayTrue WalksReachAll
PROPERTIES CommunitiesAreKept
SYMMETRY Symmetry
CHECK_DEADLOCK FALSE
