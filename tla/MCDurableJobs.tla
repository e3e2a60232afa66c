---------------------------- MODULE MCDurableJobs ----------------------------
(***************************************************************************)
(* Small deployments of the durable queue for TLC.                         *)
(***************************************************************************)
EXTENDS DurableJobs, TLC

CONSTANTS j1, j2, w1, w2, t1, t2, t3

(* The delays written out in JobTable are those of the code's formula, for *)
(* every attempt the configuration allows (ai_job_max_attempts <= 10).     *)
ASSUME RetryDelayIsCapped ==
  \A n \in 0 .. 10 :
    LET backoff == 2 ^ (IF n > 0 THEN n - 1 ELSE 0)
    IN  RetryDelay(n) = IF backoff < 60 THEN backoff ELSE 60

(* main.py starts an engine worker and a chatter worker on the one table.  *)
BothTypes == {"datum_engine_run", "chatter_ai_run"}
OwnTypeOnly ==
  [w \in Workers |-> IF w = w1 THEN {"chatter_ai_run"} ELSE {"datum_engine_run"}]
ChatterOnly == [w \in Workers |-> {"chatter_ai_run"}]

OneOfEach == [j \in Jobs |-> IF j = j1 THEN "chatter_ai_run" ELSE "datum_engine_run"]
ChatterJobs == [j \in Jobs |-> "chatter_ai_run"]

NeverRestarted == [w \in Workers |-> 0]
OnceRestarted == [w \in Workers |-> 1]
OneRestarted == [w \in Workers |-> IF w = w1 THEN 1 ELSE 0]

(* worker_concurrency tasks share the id of a worker.                      *)
TwoAndOne == [t \in Tasks |-> IF t = t3 THEN w2 ELSE w1]
OneEach == [t \in Tasks |-> IF t = t1 THEN w1 ELSE w2]
(* The two tasks of w1 are interchangeable; no liveness is checked with it.*)
PairSymmetry == Permutations({t1, t2})
Pair == [t \in Tasks |-> w1]
==============================================================================
