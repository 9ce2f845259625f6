SPECIFICATION Spec
CONSTANTS
  Requests = {r1, r2}
  Revokers = {v1}
  Providers = {CoinbaseProvider, Github}
  Coinbase = CoinbaseProvider
  Proofs = {C1, C2, G1}
  ProviderOf <- SmallProviderOf
  MaxRows = 2
  MayCrash = TRUE
  None = None
  CoinbaseProvider = CoinbaseProvider
  Github = Github
  C1 = C1
  C2 = C2
  G1 = G1
INVARIANTS
  TypeOK
  OnlyFailedReplacementsLoseStamps
  RecordedRunsRevokedAll
PROPERTIES
  GoneStaysGone
SYMMETRY Symmetry
