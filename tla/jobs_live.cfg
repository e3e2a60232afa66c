SPECIFICATION FairSpec
CONSTANTS
  j1 = j1
  j2 = j2
  w1 = w1
  w2 = w2
  t1 = t1
  t2 = t2
  t3 = t3
  Jobs = {j1, j2}
  TypeOf <- OneOfEach
  Workers = {w1, w2}
  Handles <- OwnTypeOnly
  Tasks = {t1, t2}
  WorkerOf <- OneEach
  Types <- BothTypes
  DbFaults = FALSE
  MaxRestarts <- OnceRestarted
  MaxAttempts = 2
  Lease = 1
  NoWorker = NoWorker
  NoLease = NoLease
  NoJob = NoJob
PROPERTIES EveryJobEnds
