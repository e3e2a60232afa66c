SPECIFICATION Spec
CONSTANTS
  j1 = j1
  j2 = j2
  w1 = w1
  w2 = w2
  t1 = t1
  t2 = t2
  t3 = t3
  Jobs = {j1}
  TypeOf <- ChatterJobs
  Workers = {w1, w2}
  Handles <- ChatterOnly
  Tasks = {t1, t2, t3}
  WorkerOf <- TwoAndOne
  Types <- BothTypes
  DbFaults = TRUE
  MaxRestarts <- OneRestarted
  MaxAttempts = 2
  Lease = 1
  NoWorker = NoWorker
  NoLease = NoLease
  NoJob = NoJob
INVARIANTS TypeOK LeaseDiscipline AttemptBudget NoDoubleExecution
PROPERTIES SettledForGood LoneTaskKeepsJob ImplementsLifecycle
SYMMETRY PairSymmetry
