SPECIFICATION HistorySpec
CONSTANTS
  Scorings = {w1, w2}
  Old = Old
  None = None
INVARIANTS
  HistoriesAreReadable
CHECK_DEADLOCK FALSE
