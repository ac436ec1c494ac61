SPECIFICATION FairSpec
CONSTANTS
  j1 = j1
  j2 = j2
  w1 = w1
  w2 = w2
  w3 = w3
  Jobs = {j1, j2}
  Workers = {w1, w2, w3}
  NBlocks = 1
  MaxAttempts = 2
  BatchSize = 2
  ChannelOf <- TwoLaneJobs
  Lane <- TwoLaneWorkers
  FairLanes = {"group"}
  DryWorkers = {w3}
  Faults = {"lost_reply", "db_error"}
  MaxCrashes = 1
  MaxRetries = 0
  NoWorker = NoWorker
  NoJob = NoJob
INVARIANTS
  ExclusiveSending
  SentOnce
PROPERTIES
  LoggedBlockNotResent
  KeepsPromise
  FairLaneSettles
