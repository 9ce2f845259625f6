SPECIFICATION Spec
CONSTANTS
  w1 = w1
  w2 = w2
  b1 = b1
  p1 = p1
  p2 = p2
  old = old
  new = new
  other = other
  None = None
  Workers = {w1, w2}
  Batches = {}
  Credentials = {old, new}
  Providers = {p1}
  ProviderOf <- ThreeStamps
  ExpiresAt <- Expiries
  Genuine = {old, new}
  MaxTime = 1
  MayCrash = TRUE
  MayFail = TRUE
SYMMETRY Symmetry
INVARIANTS
  TypeOK
  IInv
  OnlyAcceptedStampsCount
  SoloRequestsHeal
  DoneScoresAreInHistory
  ScoresExpireWithTheirStamps
