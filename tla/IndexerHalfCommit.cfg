SPECIFICATION FaultySpec
CONSTANTS
  Chains = {Op, Eth}
  Conns = {k1, k2}
  Events <- TwoChains
  MaxBlock = 4
  QueryBlocks = 2
  MaxRequests = 0
  CancelMidway = TRUE
  MayError = FALSE
  MayCrash = FALSE
  None = None
  Op = Op
  Eth = Eth
  Ann = Ann
  Bob = Bob
INVARIANTS
  LoggedStakesAreApplied
