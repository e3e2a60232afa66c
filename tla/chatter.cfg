SPECIFICATION Spec
CONSTANTS
  s1 = s1
  s2 = s2
  t1 = t1
  t2 = t2
  q1 = q1
  q2 = q2
  b1 = b1
  b2 = b2
  Servers = {s1}
  Tasks = {t1, t2}
  Home <- AllAtHome
  Clients = {q1, q2}
  Keys = {k1}
  Bodies = {b1, b2}
  Says <- SameOrNot
  Runs = {r1, r2}
  NoRun = NoRun
  Providers = 1
  MaxAttempts = 2
  MaxCrashes = 1
  MayReset = TRUE
CHECK_DEADLOCK FALSE
INVARIANTS TypeOK JobSuccessMeansSaved AcceptedIsBacked KeyKeepsItsRun ToldWhatIsSaved CacheAheadOnlyAtWork
PROPERTIES CompletionIsDurable WorkComesToAnEnd
