SPECIFICATION Spec
CONSTANTS
  Requests = {r1}
  Addresses = {a1, a2}
  n1 = n1
  n2 = n2
  n3 = n3
  Nullifiers <- TwoNullifiers
  V0 <- OnlyN1
  MultiNullifier = TRUE
  Passports <- RotatingPassports
  MaxTries = 5
  MaxTime = 1
  MayCrash = FALSE
  None = None
INVARIANTS RetryingHelps
