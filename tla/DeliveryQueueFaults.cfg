SPECIFICATION Spec
CONSTANTS
  j1 = j1
  j2 = j2
  w1 = w1
  w2 = w2
  w3 = w3
  Jobs = {j1}
  Workers = {w1, w2}
  NBlocks = 2
  MaxAttempts = 2
  BatchSize = 1
  ChannelOf <- OneLaneJobs
  Lane <- OneLaneWorkers
  FairLanes = {}
  DryWorkers = {}
  Faults = {"slow", "lost_reply", "db_error"}
  MaxCrashes = 1
  MaxRetries = 1
  NoWorker = NoWorker
  NoJob = NoJob
SYMMETRY WorkerSymmetry
INVARIANTS
  AttemptsBounded
  SentIsComplete
PROPERTIES
  FinalLeftWithCause
