SPECIFICATION FairSpec
CONSTANTS
  Chains = {Op}
  Conns = {k1, k2}
  Events <- OneChain
  MaxBlock = 6
  QueryBlocks = 3
  MaxRequests = 2
  CancelMidway = FALSE
  MayError = FALSE
  MayCrash = TRUE
  None = None
  Op = Op
  Eth = Eth
  Ann = Ann
  Bob = Bob
INVARIANTS
  TypeOK
  AppliedOnce
  CheckedBlocksAreLogged
  LoggedStakesAreApplied
PROPERTIES
  LastBlockGrows
  LedgerSpec
  EventsAreLogged
  ReindexRequestsAreTaken
