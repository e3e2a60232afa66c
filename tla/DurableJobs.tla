----------------------------- MODULE DurableJobs -----------------------------
(***************************************************************************)
(* The durable job queue of src/shared/queue/durable_jobs.py: the ai_jobs  *)
(* table in Neon (DurableJobRepository) and the asyncio tasks of the       *)
(* DurableJobWorkers that poll it.  One action is one transaction of the   *)
(* repository, or one step of a task between two transactions.             *)
(*                                                                         *)
(* A worker is one DurableJobWorker: the engine's and the chatter's poll   *)
(* the same table, each with a handler for its own job type only.  All the *)
(* tasks of a worker share its worker_id; a restarted process makes a new  *)
(* one.                                                                    *)
(***************************************************************************)
EXTENDS JobTable

CONSTANTS
  Jobs,         (* idempotency keys                                        *)
  Workers,      (* DurableJobWorker objects                                *)
  Tasks,        (* the polling tasks of all workers                        *)
  WorkerOf,     (* the worker a task belongs to                            *)
  Types,        (* job types                                               *)
  TypeOf,       (* the type each job is enqueued with                      *)
  Handles,      (* the types each worker has a handler for                 *)
  NoJob,        (* a task that holds no job                                *)
  DbFaults,     (* may a call to the database raise?                       *)
  MaxRestarts   (* bound: restarts of each worker's process                *)

ASSUME TasksAssumption == WorkerOf \in [Tasks -> Workers]
ASSUME TypesAssumption ==
  /\ TypeOf \in [Jobs -> Types]
  /\ Handles \in [Workers -> SUBSET Types]
ASSUME NoJobAssumption == NoJob \notin Jobs
ASSUME NoWorkerAssumption == NoWorker \notin Workers \X Nat
ASSUME FaultsAssumption ==
  /\ DbFaults \in BOOLEAN
  /\ MaxRestarts \in [Workers -> Nat]

VARIABLES
  rows,         (* the ai_jobs table                                       *)
  ahead,        (* per job, the jobs before it in the claim's ORDER BY     *)
  tasks,        (* the local state of run_once in every task               *)
  gen,          (* how many times the worker was restarted                 *)
  ran,          (* history: did a handler start since the job was enqueued *)
  steady        (* history: were all renewals in time, all answers received *)

vars == <<rows, ahead, tasks, gen, ran, steady>>

WorkerIds == Workers \X Nat
WorkerId(w) == <<w, gen[w]>>
MyId(t) == WorkerId(WorkerOf[t])
Supported(t, j) == TypeOf[j] \in Handles[WorkerOf[t]]

(***************************************************************************)
(* A task of DurableJobWorker: `pc` is the call it makes next, `heart` is  *)
(* whether its _renew_lease task is alive.                                 *)
(***************************************************************************)
TaskRecords ==
  [pc : {"polling", "rejecting", "handling", "completing", "failing", "dead"},
   job : Jobs \cup {NoJob}, attempt : Nat,
   result : Results \cup {"none"}, heart : BOOLEAN]

TaskAt(pc) == [pc |-> pc, job |-> NoJob, attempt |-> 0,
               result |-> "none", heart |-> FALSE]
Polling == TaskAt("polling")
Dead == TaskAt("dead")

At(t, pc) == tasks[t].pc = pc
Go(t, pc) == tasks' = [tasks EXCEPT ![t].pc = pc]
Become(t, task) == tasks' = [tasks EXCEPT ![t] = task]
SetRow(j, row) == rows' = [rows EXCEPT ![j] = row]

(***************************************************************************)
(* ORDER BY available_at, created_at.  A row whose available_at is set to  *)
(* `delay` from now goes behind the rows available no later than that.     *)
(***************************************************************************)
Requeued(j, delay) ==
  [k \in Jobs |->
     IF k = j THEN {i \in Jobs \ {j} : rows[i].state # "absent" /\ rows[i].delay <= delay}
     ELSE IF rows[k].state # "absent" /\ rows[k].delay > delay THEN ahead[k] \cup {j}
     ELSE ahead[k] \ {j}]

FirstClaimable(j) ==
  /\ Claimable(rows[j])
  /\ \A k \in ahead[j] : ~Claimable(rows[k])

------------------------------------------------------------------------------
(***************************************************************************)
(* DurableJobRepository.enqueue, by a service (a new run, an idempotent    *)
(* replay) or by recover_active_runs.  All of them pass                    *)
(* reactivate_terminal=True.                                               *)
(***************************************************************************)
Enqueue(j) ==
  LET row == EnqueuedRow(rows[j], TRUE)
  IN  /\ SetRow(j, row)
      /\ IF row = rows[j] THEN UNCHANGED <<ahead, ran>>
         ELSE ahead' = Requeued(j, 0) /\ ran' = [ran EXCEPT ![j] = FALSE]
      /\ UNCHANGED <<tasks, gen, steady>>

(* run_once, its claim and the branch on the handler.  A claim that finds  *)
(* the attempts used up fails the job and returns None.                    *)
ClaimedTask(t, j) ==
  IF Exhausted(rows[j]) THEN Polling
  ELSE [TaskAt(IF Supported(t, j) THEN "handling" ELSE "rejecting") EXCEPT
          !.job = j, !.attempt = rows[j].attempts + 1, !.heart = Supported(t, j)]

Claim(t, j) ==
  /\ At(t, "polling")
  /\ FirstClaimable(j)
  /\ SetRow(j, ClaimedRow(rows[j], MyId(t)))
  /\ Become(t, ClaimedTask(t, j))
  /\ ran' = [ran EXCEPT ![j] = @ \/ (~Exhausted(rows[j]) /\ Supported(t, j))]
  /\ UNCHANGED <<ahead, gen, steady>>

(* One round of _renew_lease: a heartbeat refused ends the renewals.       *)
Heartbeat(t) ==
  LET j == tasks[t].job
  IN  /\ tasks[t].heart
      /\ SetRow(j, HeartbeatRow(rows[j], MyId(t)))
      /\ tasks' = [tasks EXCEPT ![t].heart = OwnedBy(rows[j], MyId(t))]
      /\ UNCHANGED <<ahead, gen, ran, steady>>

HandlerReturns(t, result) ==
  /\ At(t, "handling")
  /\ Become(t, [tasks[t] EXCEPT !.pc = "completing", !.result = result])
  /\ UNCHANGED <<rows, ahead, gen, ran, steady>>

(* The handler raised, or asked for a state no job may be completed with.  *)
HandlerRaises(t) ==
  /\ At(t, "handling")
  /\ Go(t, "failing")
  /\ UNCHANGED <<rows, ahead, gen, ran, steady>>

CompletedRows(t) ==
  LET j == tasks[t].job
  IN  SetRow(j, CompletedRow(rows[j], MyId(t), tasks[t].result))

Complete(t) ==
  /\ At(t, "completing")
  /\ CompletedRows(t)
  /\ Become(t, Polling)
  /\ UNCHANGED <<ahead, gen, ran, steady>>

(* retry_or_fail and, when the job goes back to the queue, its new place.  *)
RetriedRows(t) ==
  LET j == tasks[t].job
      row == RetriedRow(rows[j], MyId(t))
  IN  /\ SetRow(j, row)
      /\ ahead' = IF row.state = "queued" /\ rows[j].state = "running"
                  THEN Requeued(j, row.delay)
                  ELSE ahead

RetryOrFail(t) ==
  /\ At(t, "failing") \/ At(t, "rejecting")
  /\ RetriedRows(t)
  /\ Become(t, Polling)
  /\ UNCHANGED <<gen, ran, steady>>

------------------------------------------------------------------------------
(***************************************************************************)
(* The database raises.  The transaction is rolled back, or it committed   *)
(* and only the answer was lost.                                           *)
(***************************************************************************)

(* claim raises: nothing in run_once or _work catches it; the task ends,   *)
(* and nothing starts it again.                                            *)
PollFails(t) ==
  /\ DbFaults
  /\ At(t, "polling")
  /\ \/ UNCHANGED rows
     \/ \E j \in Jobs : FirstClaimable(j) /\ SetRow(j, ClaimedRow(rows[j], MyId(t)))
  /\ Become(t, Dead)
  /\ UNCHANGED <<ahead, gen, ran, steady>>

(* heartbeat raises: _renew_lease ends, its exception unseen until the     *)
(* `finally` of run_once.                                                  *)
RenewalDies(t) ==
  /\ DbFaults
  /\ tasks[t].heart
  /\ tasks' = [tasks EXCEPT ![t].heart = FALSE]
  /\ steady' = FALSE
  /\ UNCHANGED <<rows, ahead, gen, ran>>

(* complete raises: run_once treats it as a failure of the handler.        *)
CompleteFails(t) ==
  /\ DbFaults
  /\ At(t, "completing")
  /\ UNCHANGED rows \/ CompletedRows(t)
  /\ Go(t, "failing")
  /\ steady' = FALSE
  /\ UNCHANGED <<ahead, gen, ran>>

(* retry_or_fail raises out of run_once and ends the task.                 *)
RetryFails(t) ==
  /\ DbFaults
  /\ At(t, "failing") \/ At(t, "rejecting")
  /\ UNCHANGED <<rows, ahead>> \/ RetriedRows(t)
  /\ Become(t, Dead)
  /\ UNCHANGED <<gen, ran, steady>>

------------------------------------------------------------------------------
(***************************************************************************)
(* The process stops (stop() cancels every task, which keeps its lease) or *)
(* crashes, and is started again with a worker_id of its own.              *)
(***************************************************************************)
Restart(w) ==
  /\ gen[w] < MaxRestarts[w]
  /\ gen' = [gen EXCEPT ![w] = @ + 1]
  /\ tasks' = [t \in Tasks |-> IF WorkerOf[t] = w THEN Polling ELSE tasks[t]]
  /\ UNCHANGED <<rows, ahead, ran, steady>>

(* Time passes, and with it perhaps a lease that is still being renewed:   *)
(* nothing bounds how late the event loop or the database runs a heartbeat *)
Renewing(t, j) ==
  tasks[t].heart /\ tasks[t].job = j /\ OwnedBy(rows[j], MyId(t))

Tick ==
  /\ rows' = [j \in Jobs |-> OlderRow(rows[j])]
  /\ steady' = (steady /\ \A t \in Tasks, j \in Jobs :
                             Renewing(t, j) => rows[j].lease > 0)
  /\ UNCHANGED <<ahead, tasks, gen, ran>>

Init ==
  /\ rows = [j \in Jobs |-> AbsentRow]
  /\ ahead = [j \in Jobs |-> {}]
  /\ tasks = [t \in Tasks |-> Polling]
  /\ gen = [w \in Workers |-> 0]
  /\ ran = [j \in Jobs |-> FALSE]
  /\ steady = TRUE

TaskStep(t) ==
  \/ \E j \in Jobs : Claim(t, j)
  \/ Heartbeat(t)
  \/ \E result \in Results : HandlerReturns(t, result)
  \/ HandlerRaises(t)
  \/ Complete(t)
  \/ RetryOrFail(t)

TaskFault(t) ==
  \/ PollFails(t)
  \/ RenewalDies(t)
  \/ CompleteFails(t)
  \/ RetryFails(t)

Next ==
  \/ \E j \in Jobs : Enqueue(j)
  \/ \E t \in Tasks : TaskStep(t) \/ TaskFault(t)
  \/ \E w \in Workers : Restart(w)
  \/ Tick

Spec == Init /\ [][Next]_vars

(***************************************************************************)
(* Every polling task goes on polling (its wait is bounded by the poll     *)
(* interval), handlers end (the providers' HTTP calls carry time-outs),    *)
(* and time passes.                                                        *)
(***************************************************************************)
HandlerEnds(t) ==
  \/ \E result \in Results : HandlerReturns(t, result)
  \/ HandlerRaises(t)

Fairness ==
  /\ \A t \in Tasks :
       /\ WF_vars(\E j \in Jobs : Claim(t, j))
       /\ WF_vars(HandlerEnds(t))
       /\ WF_vars(Complete(t))
       /\ WF_vars(RetryOrFail(t))
  /\ WF_vars(Tick)

FairSpec == Spec /\ Fairness

------------------------------------------------------------------------------
Owners == WorkerIds \cup {NoWorker}
Leases == Int \cup {NoLease}

RowRecords ==
  [state : JobStates, attempts : Nat, owner : Owners, lease : Leases, delay : Nat]

TypeOK ==
  /\ rows \in [Jobs -> RowRecords]
  /\ ahead \in [Jobs -> SUBSET Jobs]
  /\ tasks \in [Tasks -> TaskRecords]
  /\ gen \in [Workers -> Nat]
  /\ ran \in [Jobs -> BOOLEAN]
  /\ steady \in BOOLEAN

(* A running row always carries a lease that will lapse, and a worker_id;  *)
(* any other row carries neither.  So no path through claim, complete,     *)
(* retry_or_fail and enqueue leaves a job that no claim can ever take up   *)
(* again, or a settled row that a late heartbeat still renews.             *)
LeaseDiscipline ==
  \A j \in Jobs :
    IF rows[j].state = "running"
    THEN rows[j].lease \in -1 .. Lease /\ rows[j].owner # NoWorker
    ELSE rows[j].lease = NoLease /\ rows[j].owner = NoWorker

(* However claims, retries, lapsed leases and reactivations interleave, a  *)
(* job is never started more than max_attempts times per enqueue, and a    *)
(* job in the queue always has an attempt left: the "job_retry_exhausted"  *)
(* branch of claim only ever meets a job whose last holder vanished.       *)
AttemptBudget ==
  \A j \in Jobs :
    /\ rows[j].attempts <= MaxAttempts
    /\ rows[j].state = "queued" => rows[j].attempts < MaxAttempts

(* A finished job changes only by being reactivated, and then starts from  *)
(* a clean row: no stale task's complete, retry_or_fail or heartbeat, and  *)
(* no restart, reaches a settled or parked row.                            *)
SettledForGood ==
  [][\A j \in Jobs :
       rows[j].state \in Terminal /\ rows'[j] # rows[j]
         => rows[j].state \in Settled /\ rows'[j] = QueuedRow]_vars

Handling(t, j) == At(t, "handling") /\ tasks[t].job = j

(* As long as the renewals of every lease came in time (and no committed   *)
(* answer of complete was lost), claim hands a job out "without double     *)
(* execution" (durable_jobs.py:90): no two tasks are inside its handler.   *)
NoDoubleExecution ==
  steady =>
    \A j \in Jobs : \A t, u \in Tasks : Handling(t, j) /\ Handling(u, j) => t = u

HoldsCurrentAttempt(t, j) ==
  /\ Handling(t, j)
  /\ OwnedBy(rows[j], MyId(t))
  /\ tasks[t].attempt = rows[j].attempts

KeepsJob(t) ==
  \A j \in Jobs :
    HoldsCurrentAttempt(t, j) /\ rows[j].lease >= 0 /\ tasks'[t].pc = "handling"
      => /\ rows'[j].state = "running"
         /\ rows'[j].attempts = rows[j].attempts

Alone(t) == \A u \in Tasks : WorkerOf[u] = WorkerOf[t] => u = t

(* While the only task of a worker handles the current attempt of a job    *)
(* and its lease stands, nobody else settles that attempt, gives the job   *)
(* back to the queue or starts it again, whatever lapsed before.           *)
LoneTaskKeepsJob == [][\A t \in Tasks : Alone(t) => KeepsJob(t)]_vars

(* The same, said of every task: "Claim one available or expired-lease job *)
(* without double execution" (durable_jobs.py:90).  The guards compare the *)
(* worker_id only, which the tasks of a worker share.                      *)
CurrentAttemptKeepsJob == [][\A t \in Tasks : KeepsJob(t)]_vars

(* A job that failed was at least once given to its handler: "at-least-    *)
(* once background execution" (durable_jobs.py:1).                         *)
FailedWasHandled ==
  \A j \in Jobs : rows[j].state = "failed" => ran[j]

(* Every job that was accepted comes to an end: it is completed, parked    *)
(* for a person, or failed for good.                                       *)
EveryJobEnds ==
  \A j \in Jobs : rows[j].state \in {"queued", "running"} ~> rows[j].state \in Terminal

Lifecycle ==
  INSTANCE JobLifecycle WITH
    phase <- [j \in Jobs |-> rows[j].state],
    tries <- [j \in Jobs |-> rows[j].attempts]

(* The queue implements the life of a job its callers rely on              *)
(* (JobLifecycle), whatever the workers, their leases and faults do.       *)
ImplementsLifecycle == Lifecycle!Spec
==============================================================================
