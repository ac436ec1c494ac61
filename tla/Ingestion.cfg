SPECIFICATION Spec
CONSTANTS
  Runs <- MCRuns
  Sources <- MCSources
  Records <- MCRecords
  Overlap = 2
  MaxCatchup = 3
  Lookback = 1
  PageLimit = 2
  BatchSize = 2
  SemanticThreshold = 25
  BorderlineThreshold = 30
  MaxTime = 3
  MaxWindows = 2
  MaxFailures = 1
INVARIANTS
  NoSilentGap
  JournalComplete
  RankIsHonest
PROPERTIES
  CursorNeverFalls
CHECK_DEADLOCK FALSE
