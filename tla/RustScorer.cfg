SPECIFICATION Spec
CONSTANTS
  Requests = {r1, r2}
  Addresses = {alice, bob}
  Providers = {google, github}
  Credentials = {a1, a2, b1}
  HolderOf <- MCHolderOf
  ProviderOf <- MCProviderOf
  ExpiresAt <- MCExpiresAt
  Uploads <- MCUploads
  Place <- MCPlace
  Nullifiers = {n1, n2}
  PoolSizes = {2, 3}
  MaxTime = 1
  None = None
  alice = alice
  bob = bob
  google = google
  github = github
  a1 = a1
  a2 = a2
  b1 = b1
  n1 = n1
  n2 = n2
  r1 = r1
  r2 = r2
INVARIANTS TypeOK CreditsAreLinked NoStaleScore SomebodyMoves
SYMMETRY Symmetry
PROPERTIES UploadsLoseNothing
