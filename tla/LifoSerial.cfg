SPECIFICATION FairSpec
CONSTANTS
  Requests = {r1}
  Addresses = {a1, a2}
  n1 = n1
  n2 = n2
  n3 = n3
  Nullifiers <- ThreeNullifiers
  V0 <- OnlyN1
  MultiNullifier = TRUE
  Passports <- TwoProviderPassports
  MaxTries = 5
  MaxTime = 2
  MayCrash = FALSE
  None = None
INVARIANTS NoLiveDoubleCredit
PROPERTIES RequestsEnd
