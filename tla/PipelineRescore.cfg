SPECIFICATION FairSpec
CONSTANTS
  w1 = w1
  w2 = w2
  b1 = b1
  p1 = p1
  p2 = p2
  old = old
  new = new
  other = other
  None = None
  Workers = {w1, w2}
  Batches = {b1}
  Credentials = {old}
  Providers = {p1}
  ProviderOf <- ThreeStamps
  ExpiresAt <- Expiries
  Genuine = {old}
  MaxTime = 0
  MayCrash = FALSE
  MayFail = TRUE
PROPERTIES RecalculationIsIdempotent ProcessingEnds
