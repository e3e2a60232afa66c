SPECIFICATION FairSpec
CONSTANTS
  j1 = j1
  j2 = j2
  w1 = w1
  w2 = w2
  t1 = t1
  t2 = t2
  t3 = t3
  Jobs = {j1}
  TypeOf <- ChatterJobs
  Workers = {w1}
  Handles <- ChatterOnly
  Tasks = {t1, t2}
  WorkerOf <- Pair
  Types <- BothTypes
  DbFaults = TRUE
  MaxRestarts <- NeverRestarted
  MaxAttempts = 2
  Lease = 1
  NoWorker = NoWorker
  NoLease = NoLease
  NoJob = NoJob
PROPERTIES EveryJobEnds
