SPECIFICATION FairSpec
CONSTANTS
  Flows = {scheduled, manual1}
  ByHand = {manual1}
  Modes = {"dates", "open_window"}
  MaxCatchup = 2
  MaxDay = 5
  MaxManual = 1
  MaxFailures = 2
  MaxEvictions = 1
  NoRun = NoRun
  Orphan = Orphan
INVARIANTS
  BoundaryIsHonest
  OneHarvest
PROPERTIES
  CatchesUp
