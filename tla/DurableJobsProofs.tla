-------------------------- MODULE DurableJobsProofs --------------------------
(***************************************************************************)
(* Proofs about DurableJobs, for any number of jobs, workers and tasks.    *)
(***************************************************************************)
EXTENDS DurableJobs, TLAPS

(***************************************************************************)
(* What every row satisfies on its own: its type, the discipline of leases *)
(* and owners, and the budget of attempts.                                 *)
(***************************************************************************)
GoodRow(row) ==
  /\ row \in RowRecords
  /\ IF row.state = "running"
     THEN row.lease \in -1 .. Lease /\ row.owner # NoWorker
     ELSE row.lease = NoLease /\ row.owner = NoWorker
  /\ row.attempts <= MaxAttempts
  /\ row.state = "queued" => row.attempts < MaxAttempts
  /\ row.state # "queued" => row.delay = 0

(* The back-off is a natural number.                                       *)
LEMMA RetryDelayType ==
  ASSUME NEW attempts \in Nat
  PROVE  RetryDelay(attempts) \in Nat
BY DEF RetryDelay

(* A row is born good.                                                     *)
LEMMA NewRowsGood == GoodRow(AbsentRow) /\ GoodRow(QueuedRow)
BY AttemptsAssumption DEF GoodRow, RowRecords, Owners, Leases, AbsentRow, QueuedRow, JobStates, Terminal, Settled

Rewritten(row, s, n, o, l, d) ==
  [row EXCEPT !.state = s, !.attempts = n, !.owner = o, !.lease = l, !.delay = d]

(* A row rewritten field by field is a row with just these fields.         *)
LEMMA RewrittenRow ==
  ASSUME NEW row \in RowRecords, NEW s \in JobStates, NEW n \in Nat,
         NEW o \in Owners, NEW l \in Leases,
         NEW d \in Nat
  PROVE  /\ Rewritten(row, s, n, o, l, d) \in RowRecords
         /\ Rewritten(row, s, n, o, l, d).state = s
         /\ Rewritten(row, s, n, o, l, d).attempts = n
         /\ Rewritten(row, s, n, o, l, d).owner = o
         /\ Rewritten(row, s, n, o, l, d).lease = l
         /\ Rewritten(row, s, n, o, l, d).delay = d
BY DEF RowRecords, Rewritten

(* The states and ids the transactions write are well typed.               *)
LEMMA WrittenValues ==
  /\ {"queued", "running", "failed"} \cup Results \subseteq JobStates
  /\ NoLease \in Leases
  /\ NoWorker \in Owners
  /\ \A worker \in WorkerIds : worker # NoWorker /\ worker \in Owners
  /\ Int \subseteq Leases
BY NoWorkerAssumption
   DEF JobStates, Terminal, Settled, Parked, Results, WorkerIds, Owners, Leases

(* A released row in a new state is good if the new state may hold it.     *)
LEMMA ReleasedRowGood ==
  ASSUME NEW row, GoodRow(row),
         NEW s \in JobStates \ {"running"},
         s = "queued" => row.attempts < MaxAttempts,
         NEW d \in Nat, s # "queued" => row.delay = 0 /\ d = 0
  PROVE  /\ GoodRow(ReleasedRow(row, s))
         /\ GoodRow([ReleasedRow(row, s) EXCEPT !.delay = d])
<1>1. row \in RowRecords /\ row.attempts \in Nat /\ row.delay \in Nat
  BY DEF GoodRow, RowRecords
<1>2. /\ ReleasedRow(row, s)
           = Rewritten(row, s, row.attempts, NoWorker, NoLease, row.delay)
      /\ [ReleasedRow(row, s) EXCEPT !.delay = d]
           = Rewritten(row, s, row.attempts, NoWorker, NoLease, d)
  BY <1>1 DEF ReleasedRow, RowRecords, Rewritten
<1>3. ASSUME NEW e \in Nat, s # "queued" => e = 0
      PROVE  GoodRow(Rewritten(row, s, row.attempts, NoWorker, NoLease, e))
  <2>1. /\ row \in RowRecords /\ row.attempts \in Nat /\ row.attempts <= MaxAttempts
        /\ s \in JobStates /\ s # "running"
        /\ NoWorker \in Owners /\ NoLease \in Leases
    BY <1>1, WrittenValues DEF GoodRow
  <2> DEFINE new == Rewritten(row, s, row.attempts, NoWorker, NoLease, e)
  <2>2. /\ new \in RowRecords /\ new.state = s /\ new.attempts = row.attempts
        /\ new.owner = NoWorker /\ new.lease = NoLease /\ new.delay = e
    BY <2>1, RewrittenRow
  <2> HIDE DEF new
  <2>3. GoodRow(new)
    BY <1>3, <2>1, <2>2 DEF GoodRow
  <2>4. QED
    BY <2>3 DEF new
<1>4. QED
  BY <1>1, <1>2, <1>3

(* What a good row is made of, for the lemmas below.                       *)
LEMMA GoodRowFields ==
  ASSUME NEW row, GoodRow(row)
  PROVE  /\ row \in RowRecords
         /\ row.state \in JobStates
         /\ row.attempts \in Nat /\ row.delay \in Nat /\ row.attempts <= MaxAttempts
         /\ row.owner \in Owners
         /\ row.lease \in Leases
         /\ MaxAttempts \in Nat /\ Lease \in Nat
BY AttemptsAssumption, LeaseAssumption DEF GoodRow, RowRecords

(* enqueue leaves a good row behind.                                       *)
LEMMA EnqueuedRowGood ==
  ASSUME NEW row, GoodRow(row), NEW reactivate \in BOOLEAN
  PROVE  GoodRow(EnqueuedRow(row, reactivate))
BY NewRowsGood DEF EnqueuedRow

(* So does claim, of a row it may take.                                    *)
LEMMA ClaimedRowGood ==
  ASSUME NEW row, GoodRow(row), Claimable(row), NEW worker \in WorkerIds
  PROVE  GoodRow(ClaimedRow(row, worker))
<1>1. row.state \in {"queued", "running"} /\ row.delay = 0
  BY DEF Claimable, Expired, GoodRow
<1>2. CASE Exhausted(row)
  <2>1. "failed" \in JobStates \ {"running"} /\ "failed" # "queued"
    BY WrittenValues
  <2>2. QED
    BY <1>1, <1>2, <2>1, GoodRowFields, ReleasedRowGood DEF ClaimedRow
<1>3. CASE ~Exhausted(row)
  <2> DEFINE new == Rewritten(row, "running", row.attempts + 1, worker, Lease, row.delay)
  <2>1. row.attempts < MaxAttempts /\ row.attempts + 1 \in Nat
    BY <1>3, GoodRowFields DEF Exhausted
  <2>2. ClaimedRow(row, worker) = new
    BY <1>3, GoodRowFields DEF ClaimedRow, RowRecords, Rewritten
  <2>3. Lease \in -1 .. Lease /\ Lease \in Leases /\ row.attempts + 1 <= MaxAttempts
    BY <2>1, GoodRowFields DEF Leases
  <2>4. "running" \in JobStates /\ worker \in Owners
    BY WrittenValues
  <2>5. /\ new \in RowRecords /\ new.state = "running" /\ new.attempts = row.attempts + 1
        /\ new.owner = worker /\ new.lease = Lease /\ new.delay = row.delay
    BY <2>1, <2>3, <2>4, GoodRowFields, RewrittenRow
  <2> HIDE DEF new
  <2>6. GoodRow(new)
    BY <1>1, <2>3, <2>5, WrittenValues DEF GoodRow
  <2>7. QED
    BY <2>2, <2>6
<1>4. QED
  BY <1>2, <1>3

(* So does a heartbeat.                                                    *)
LEMMA HeartbeatRowGood ==
  ASSUME NEW row, GoodRow(row), NEW worker \in WorkerIds
  PROVE  GoodRow(HeartbeatRow(row, worker))
<1>1. CASE OwnedBy(row, worker)
  <2> DEFINE new == Rewritten(row, row.state, row.attempts, row.owner, Lease, row.delay)
  <2>1. HeartbeatRow(row, worker) = new
    BY <1>1, GoodRowFields DEF HeartbeatRow, RowRecords, Rewritten
  <2>2. Lease \in -1 .. Lease /\ Lease \in Leases
    BY GoodRowFields DEF Leases
  <2>3. /\ new \in RowRecords /\ new.state = row.state /\ new.attempts = row.attempts
        /\ new.owner = row.owner /\ new.lease = Lease /\ new.delay = row.delay
    BY <2>2, GoodRowFields, RewrittenRow
  <2> HIDE DEF new
  <2>4. GoodRow(new)
    BY <1>1, <2>2, <2>3 DEF GoodRow, OwnedBy
  <2>5. QED
    BY <2>1, <2>4
<1>2. QED
  BY <1>1 DEF HeartbeatRow

(* So does complete, in every state a handler may ask for.                 *)
LEMMA CompletedRowGood ==
  ASSUME NEW row, GoodRow(row), NEW worker \in WorkerIds, NEW result \in Results
  PROVE  GoodRow(CompletedRow(row, worker, result))
<1>1. result \in JobStates \ {"running"} /\ result # "queued"
  BY WrittenValues DEF Results, Parked
<1>2. OwnedBy(row, worker) => row.delay = 0
  BY DEF GoodRow, OwnedBy
<1>3. QED
  BY <1>1, <1>2, GoodRowFields, ReleasedRowGood DEF CompletedRow

(* So does retry_or_fail.                                                  *)
LEMMA RetriedRowGood ==
  ASSUME NEW row, GoodRow(row), NEW worker \in WorkerIds
  PROVE  GoodRow(RetriedRow(row, worker))
<1>1. RetryDelay(row.attempts) \in Nat
  BY GoodRowFields, RetryDelayType
<1>2. {"failed", "queued"} \subseteq JobStates \ {"running"} /\ "failed" # "queued"
  BY WrittenValues
<1>3. ~Exhausted(row) => row.attempts < MaxAttempts
  BY GoodRowFields DEF Exhausted
<1>4. OwnedBy(row, worker) => row.delay = 0
  BY DEF GoodRow, OwnedBy
<1>5. QED
  BY <1>1, <1>2, <1>3, <1>4, GoodRowFields, ReleasedRowGood DEF RetriedRow

(* So does the passing of time.                                            *)
LEMMA OlderRowGood ==
  ASSUME NEW row, GoodRow(row)
  PROVE  GoodRow(OlderRow(row))
<1> DEFINE delay == IF row.delay > 0 THEN row.delay - 1 ELSE 0
           lease == IF row.state # "running" THEN row.lease
                    ELSE IF row.lease >= 0 THEN row.lease - 1 ELSE -1
           new == Rewritten(row, row.state, row.attempts, row.owner, lease, delay)
<1>1. delay \in Nat /\ (row.state # "queued" => delay = 0)
  BY GoodRowFields DEF GoodRow
<1>2. OlderRow(row) = new
  BY GoodRowFields DEF OlderRow, RowRecords, Rewritten
<1>3. IF row.state = "running" THEN lease \in -1 .. Lease ELSE lease = row.lease
  BY GoodRowFields DEF GoodRow
<1> HIDE DEF delay, lease
<1>4. lease \in Leases
  BY <1>3, GoodRowFields DEF Leases
<1>5. /\ new \in RowRecords /\ new.state = row.state /\ new.attempts = row.attempts
      /\ new.owner = row.owner /\ new.lease = lease /\ new.delay = delay
  BY <1>1, <1>4, GoodRowFields, RewrittenRow
<1> HIDE DEF new
<1>6. GoodRow(new)
  BY <1>1, <1>3, <1>5 DEF GoodRow
<1>7. QED
  BY <1>2, <1>6

------------------------------------------------------------------------------
RowsGood == \A j \in Jobs : GoodRow(rows[j])

IInv == TypeOK /\ RowsGood

(* The local types of a task, whatever it becomes.                         *)
LEMMA TaskTypes ==
  /\ Polling \in TaskRecords /\ Dead \in TaskRecords
  /\ \A task \in TaskRecords :
       \A pc \in {"handling", "completing", "failing", "dead"} :
         \A result \in Results, heart \in BOOLEAN :
           /\ [task EXCEPT !.pc = pc] \in TaskRecords
           /\ [task EXCEPT !.heart = heart] \in TaskRecords
           /\ [task EXCEPT !.pc = pc, !.result = result] \in TaskRecords
BY DEF TaskRecords, Polling, Dead, TaskAt

(* A claim types its task: the job is real and the attempt a number.       *)
LEMMA ClaimedTaskType ==
  ASSUME TypeOK, NEW t \in Tasks, NEW j \in Jobs
  PROVE  ClaimedTask(t, j) \in TaskRecords
<1>1. rows[j].attempts + 1 \in Nat
  BY DEF TypeOK, RowRecords
<1>2. Supported(t, j) \in BOOLEAN
  BY DEF Supported
<1>3. QED
  BY <1>1, <1>2 DEF ClaimedTask, Exhausted, Polling, TaskAt, TaskRecords

(* A worker's id is one.                                                   *)
LEMMA MyIdType ==
  ASSUME TypeOK, NEW t \in Tasks
  PROVE  MyId(t) \in WorkerIds /\ MyId(t) \in Owners
BY TasksAssumption DEF TypeOK, MyId, WorkerId, WorkerIds, Owners

(* The claim's order relates jobs to jobs.                                 *)
LEMMA RequeuedType ==
  ASSUME TypeOK, NEW j \in Jobs, NEW d \in Nat
  PROVE  Requeued(j, d) \in [Jobs -> SUBSET Jobs]
BY DEF TypeOK, Requeued

(* Writing one good row keeps the table good and typed.                    *)
LEMMA OneRowWritten ==
  ASSUME IInv, NEW j \in Jobs, NEW row, GoodRow(row), SetRow(j, row)
  PROVE  /\ rows' \in [Jobs -> RowRecords]
         /\ RowsGood'
BY DEF IInv, TypeOK, RowsGood, SetRow, GoodRow

(* A task at work or renewing a lease has a job.                           *)
Busy == {"handling", "completing", "failing"}

Employed(task) ==
  /\ task.pc \in Busy \cup {"rejecting"} \/ task.heart => task.job \in Jobs
  /\ task.pc = "completing" => task.result \in Results

JInv == IInv /\ \A t \in Tasks : Employed(tasks[t])

(* Moving one task keeps the tasks typed and employed.                     *)
LEMMA OneTaskMoved ==
  ASSUME JInv, NEW t \in Tasks, NEW task \in TaskRecords, Employed(task),
         tasks' = [tasks EXCEPT ![t] = task]
  PROVE  tasks' \in [Tasks -> TaskRecords] /\ \A u \in Tasks : Employed(tasks'[u])
BY DEF JInv, IInv, TypeOK

(* Where a task goes when it changes its pc, its result or its heart.      *)
LEMMA TaskMoves ==
  ASSUME JInv, NEW t \in Tasks,
         NEW pc \in Busy, NEW result \in Results, NEW heart \in BOOLEAN
  PROVE  LET one == [tasks[t] EXCEPT !.pc = pc]
             two == [tasks[t] EXCEPT !.pc = pc, !.result = result]
             three == [tasks[t] EXCEPT !.heart = heart]
         IN  /\ one \in TaskRecords /\ two \in TaskRecords /\ three \in TaskRecords
             /\ tasks[t].pc \in Busy => Employed(two) /\ (pc # "completing" => Employed(one))
             /\ tasks[t].heart => Employed(three)
             /\ [tasks EXCEPT ![t].pc = pc] = [tasks EXCEPT ![t] = one]
             /\ [tasks EXCEPT ![t].heart = heart] = [tasks EXCEPT ![t] = three]
<1>1. tasks[t] \in TaskRecords /\ Employed(tasks[t])
  BY DEF JInv, IInv, TypeOK
<1>2. QED
  BY <1>1 DEF TaskRecords, Employed, Busy

(* A task that holds no job is well employed.                              *)
LEMMA IdleTasks == Employed(Polling) /\ Employed(Dead)
BY DEF Employed, Polling, Dead, TaskAt, Busy

(* Completing or retrying its job, a task keeps the table good.            *)
LEMMA CompletedRowsGood ==
  ASSUME JInv, NEW t \in Tasks, At(t, "completing"), CompletedRows(t)
  PROVE  rows' \in [Jobs -> RowRecords] /\ RowsGood'
<1> DEFINE j == tasks[t].job
<1>1. j \in Jobs /\ tasks[t].result \in Results
  BY DEF JInv, At, Employed, Busy
<1>2. GoodRow(CompletedRow(rows[j], MyId(t), tasks[t].result))
  BY <1>1, CompletedRowGood, MyIdType DEF JInv, IInv, RowsGood
<1>3. QED
  BY <1>1, <1>2, OneRowWritten DEF CompletedRows, JInv

(* The same of retry_or_fail, which may also move the job in the order.    *)
LEMMA RetriedRowsGood ==
  ASSUME JInv, NEW t \in Tasks, At(t, "failing") \/ At(t, "rejecting"), RetriedRows(t)
  PROVE  /\ rows' \in [Jobs -> RowRecords] /\ RowsGood'
         /\ ahead' \in [Jobs -> SUBSET Jobs]
<1> DEFINE j == tasks[t].job
<1>1. j \in Jobs
  BY DEF JInv, At, Employed, Busy
<1>2. GoodRow(RetriedRow(rows[j], MyId(t)))
  BY <1>1, RetriedRowGood, MyIdType DEF JInv, IInv, RowsGood
<1>3. rows' \in [Jobs -> RowRecords] /\ RowsGood'
  BY <1>1, <1>2, OneRowWritten DEF RetriedRows, JInv
<1>4. ahead' \in [Jobs -> SUBSET Jobs]
  <2>1. RetriedRow(rows[j], MyId(t)).delay \in Nat
    BY <1>2, GoodRowFields
  <2>2. ahead' = ahead \/ ahead' = Requeued(j, RetriedRow(rows[j], MyId(t)).delay)
    BY DEF RetriedRows
  <2>3. QED
    BY <1>1, <2>1, <2>2, RequeuedType DEF JInv, IInv, TypeOK
<1>5. QED
  BY <1>3, <1>4

(* Every action keeps rows good, tasks typed and the jobs they hold.      *)
LEMMA InvariantStep == JInv /\ [Next]_vars => JInv'
<1> SUFFICES ASSUME JInv, [Next]_vars PROVE JInv'
  OBVIOUS
<1>0. IInv /\ TypeOK /\ RowsGood
  BY DEF JInv, IInv
<1>1. ASSUME NEW j \in Jobs, Enqueue(j) PROVE JInv'
  <2>1. GoodRow(EnqueuedRow(rows[j], TRUE))
    BY <1>0, EnqueuedRowGood DEF RowsGood
  <2>2. rows' \in [Jobs -> RowRecords] /\ RowsGood'
    BY <1>0, <1>1, <2>1, OneRowWritten DEF Enqueue
  <2>3. ahead' \in [Jobs -> SUBSET Jobs]
    <3>1. 0 \in Nat
      OBVIOUS
    <3>2. ahead' = ahead \/ ahead' = Requeued(j, 0)
      BY <1>1 DEF Enqueue
    <3>3. QED
      BY <1>0, <3>1, <3>2, RequeuedType DEF TypeOK
  <2>4. ran' \in [Jobs -> BOOLEAN]
    BY <1>0, <1>1 DEF Enqueue, TypeOK
  <2>5. QED
    BY <1>0, <1>1, <2>2, <2>3, <2>4 DEF Enqueue, TypeOK, IInv, JInv
<1>2. ASSUME NEW t \in Tasks, NEW j \in Jobs, Claim(t, j) PROVE JInv'
  <2>1. GoodRow(ClaimedRow(rows[j], MyId(t)))
    BY <1>0, <1>2, ClaimedRowGood, MyIdType DEF RowsGood, Claim, FirstClaimable
  <2>2. rows' \in [Jobs -> RowRecords] /\ RowsGood'
    BY <1>0, <1>2, <2>1, OneRowWritten DEF Claim
  <2>3. ClaimedTask(t, j) \in TaskRecords
    BY <1>0, ClaimedTaskType
  <2>4. Employed(ClaimedTask(t, j))
    BY IdleTasks DEF ClaimedTask, TaskAt, Employed
  <2>5. tasks' \in [Tasks -> TaskRecords] /\ \A u \in Tasks : Employed(tasks'[u])
    BY <1>2, <2>3, <2>4, OneTaskMoved DEF Claim, Become
  <2>6. ran' \in [Jobs -> BOOLEAN]
    BY <1>0, <1>2 DEF Claim, TypeOK, Supported, Exhausted
  <2>7. QED
    BY <1>0, <1>2, <2>2, <2>5, <2>6 DEF Claim, TypeOK, IInv, JInv
<1>3. ASSUME NEW t \in Tasks, Heartbeat(t) PROVE JInv'
  <2> DEFINE j == tasks[t].job
  <2>1. j \in Jobs
    BY <1>3 DEF Heartbeat, JInv, Employed
  <2>2. GoodRow(HeartbeatRow(rows[j], MyId(t)))
    BY <1>0, <2>1, HeartbeatRowGood, MyIdType DEF RowsGood
  <2>3. rows' \in [Jobs -> RowRecords] /\ RowsGood'
    BY <1>0, <1>3, <2>1, <2>2, OneRowWritten DEF Heartbeat
  <2>4. tasks' \in [Tasks -> TaskRecords] /\ \A u \in Tasks : Employed(tasks'[u])
    <3>1. OwnedBy(rows[j], MyId(t)) \in BOOLEAN
      BY DEF OwnedBy
    <3>2. QED
      BY <1>3, <3>1, OneTaskMoved, TaskMoves DEF Heartbeat, Busy, Results
  <2>5. QED
    BY <1>0, <1>3, <2>3, <2>4 DEF Heartbeat, TypeOK, IInv, JInv
<1>4. ASSUME NEW t \in Tasks, NEW result \in Results, HandlerReturns(t, result)
      PROVE JInv'
  <2>1. tasks' \in [Tasks -> TaskRecords] /\ \A u \in Tasks : Employed(tasks'[u])
    BY <1>4, OneTaskMoved, TaskMoves DEF HandlerReturns, Become, At, Busy
  <2>2. QED
    BY <1>0, <1>4, <2>1 DEF HandlerReturns, TypeOK, IInv, JInv, RowsGood
<1>5. ASSUME NEW t \in Tasks, HandlerRaises(t) PROVE JInv'
  <2>1. tasks' \in [Tasks -> TaskRecords] /\ \A u \in Tasks : Employed(tasks'[u])
    BY <1>5, OneTaskMoved, TaskMoves DEF HandlerRaises, Go, At, Busy, Results
  <2>2. QED
    BY <1>0, <1>5, <2>1 DEF HandlerRaises, TypeOK, IInv, JInv, RowsGood
<1>6. ASSUME NEW t \in Tasks, Complete(t) PROVE JInv'
  <2>1. tasks' \in [Tasks -> TaskRecords] /\ \A u \in Tasks : Employed(tasks'[u])
    BY <1>6, OneTaskMoved, TaskTypes, IdleTasks DEF Complete, Become
  <2>2. QED
    BY <1>0, <1>6, <2>1, CompletedRowsGood DEF Complete, TypeOK, IInv, JInv
<1>7. ASSUME NEW t \in Tasks, RetryOrFail(t) PROVE JInv'
  <2>1. tasks' \in [Tasks -> TaskRecords] /\ \A u \in Tasks : Employed(tasks'[u])
    BY <1>7, OneTaskMoved, TaskTypes, IdleTasks DEF RetryOrFail, Become
  <2>2. QED
    BY <1>0, <1>7, <2>1, RetriedRowsGood DEF RetryOrFail, TypeOK, IInv, JInv
<1>8. ASSUME NEW t \in Tasks, PollFails(t) PROVE JInv'
  <2>1. tasks' \in [Tasks -> TaskRecords] /\ \A u \in Tasks : Employed(tasks'[u])
    BY <1>8, OneTaskMoved, TaskTypes, IdleTasks DEF PollFails, Become
  <2>2. rows' \in [Jobs -> RowRecords] /\ RowsGood'
    <3>1. CASE UNCHANGED rows
      BY <1>0, <3>1 DEF TypeOK, RowsGood
    <3>2. ASSUME NEW j \in Jobs, FirstClaimable(j), SetRow(j, ClaimedRow(rows[j], MyId(t)))
          PROVE rows' \in [Jobs -> RowRecords] /\ RowsGood'
      <4>1. GoodRow(ClaimedRow(rows[j], MyId(t)))
        BY <1>0, <3>2, ClaimedRowGood, MyIdType DEF RowsGood, FirstClaimable
      <4>2. QED
        BY <1>0, <3>2, <4>1, OneRowWritten
    <3>3. QED
      BY <1>8, <3>1, <3>2 DEF PollFails
  <2>3. QED
    BY <1>0, <1>8, <2>1, <2>2 DEF PollFails, TypeOK, IInv, JInv
<1>9. ASSUME NEW t \in Tasks, RenewalDies(t) PROVE JInv'
  <2>1. tasks' \in [Tasks -> TaskRecords] /\ \A u \in Tasks : Employed(tasks'[u])
    BY <1>9, OneTaskMoved, TaskMoves DEF RenewalDies, Busy, Results
  <2>2. QED
    BY <1>0, <1>9, <2>1 DEF RenewalDies, TypeOK, IInv, JInv, RowsGood
<1>10. ASSUME NEW t \in Tasks, CompleteFails(t) PROVE JInv'
  <2>1. tasks' \in [Tasks -> TaskRecords] /\ \A u \in Tasks : Employed(tasks'[u])
    BY <1>10, OneTaskMoved, TaskMoves DEF CompleteFails, Go, At, Busy, Results
  <2>2. rows' \in [Jobs -> RowRecords] /\ RowsGood'
    BY <1>0, <1>10, CompletedRowsGood DEF CompleteFails, TypeOK, RowsGood
  <2>3. QED
    BY <1>0, <1>10, <2>1, <2>2 DEF CompleteFails, TypeOK, IInv, JInv
<1>11. ASSUME NEW t \in Tasks, RetryFails(t) PROVE JInv'
  <2>1. tasks' \in [Tasks -> TaskRecords] /\ \A u \in Tasks : Employed(tasks'[u])
    BY <1>11, OneTaskMoved, TaskTypes, IdleTasks DEF RetryFails, Become
  <2>2. rows' \in [Jobs -> RowRecords] /\ RowsGood' /\ ahead' \in [Jobs -> SUBSET Jobs]
    BY <1>0, <1>11, RetriedRowsGood DEF RetryFails, TypeOK, RowsGood
  <2>3. QED
    BY <1>0, <1>11, <2>1, <2>2 DEF RetryFails, TypeOK, IInv, JInv
<1>12. ASSUME NEW w \in Workers, Restart(w) PROVE JInv'
  <2>1. tasks' \in [Tasks -> TaskRecords] /\ \A u \in Tasks : Employed(tasks'[u])
    BY <1>0, <1>12, TaskTypes, IdleTasks DEF Restart, TypeOK, JInv
  <2>2. gen' \in [Workers -> Nat]
    BY <1>0, <1>12 DEF Restart, TypeOK
  <2>3. QED
    BY <1>0, <1>12, <2>1, <2>2 DEF Restart, TypeOK, IInv, JInv, RowsGood
<1>13. ASSUME Tick PROVE JInv'
  <2>1. \A j \in Jobs : GoodRow(OlderRow(rows[j]))
    BY <1>0, OlderRowGood DEF RowsGood
  <2>2. rows' \in [Jobs -> RowRecords] /\ RowsGood'
    BY <1>13, <2>1 DEF Tick, RowsGood, GoodRow
  <2>3. steady' \in BOOLEAN
    BY <1>0, <1>13 DEF Tick, TypeOK
  <2>4. QED
    BY <1>0, <1>13, <2>2, <2>3 DEF Tick, TypeOK, IInv, JInv
<1>14. CASE UNCHANGED vars
  BY <1>0, <1>14 DEF vars, TypeOK, IInv, JInv, RowsGood
<1>15. QED
  BY <1>1, <1>2, <1>3, <1>4, <1>5, <1>6, <1>7, <1>8, <1>9, <1>10, <1>11, <1>12,
     <1>13, <1>14 DEF Next, TaskStep, TaskFault

(* An empty table with polling tasks satisfies it.                         *)
LEMMA InvariantInit == Init => JInv
<1> SUFFICES ASSUME Init PROVE JInv
  OBVIOUS
<1>1. rows \in [Jobs -> RowRecords] /\ RowsGood
  BY NewRowsGood DEF Init, RowsGood, GoodRow
<1>2. tasks \in [Tasks -> TaskRecords] /\ \A t \in Tasks : Employed(tasks[t])
  BY TaskTypes, IdleTasks DEF Init
<1>3. /\ ahead \in [Jobs -> SUBSET Jobs] /\ gen \in [Workers -> Nat]
      /\ ran \in [Jobs -> BOOLEAN] /\ steady \in BOOLEAN
  BY DEF Init
<1>4. QED
  BY <1>1, <1>2, <1>3 DEF JInv, IInv, TypeOK

(* The inductive invariant holds throughout.                               *)
LEMMA Invariance == Spec => []JInv
<1>1. QED
  BY InvariantInit, InvariantStep, PTL DEF Spec

(* Every row and every task stays well typed.                              *)
THEOREM TypesHold == Spec => []TypeOK
<1>1. JInv => TypeOK
  BY DEF JInv, IInv
<1>2. QED
  BY <1>1, Invariance, PTL

(* Running rows, and only they, carry a lease and an owner.                *)
THEOREM LeasesDisciplined == Spec => []LeaseDiscipline
<1>1. JInv => LeaseDiscipline
  BY DEF JInv, IInv, RowsGood, GoodRow, LeaseDiscipline
<1>2. QED
  BY <1>1, Invariance, PTL

(* No job is started more often than its budget allows.                    *)
THEOREM BudgetKept == Spec => []AttemptBudget
<1>1. JInv => AttemptBudget
  BY DEF JInv, IInv, RowsGood, GoodRow, AttemptBudget
<1>2. QED
  BY <1>1, Invariance, PTL

------------------------------------------------------------------------------
(***************************************************************************)
(* What each step may do to one row.  Everything the theorems below say of *)
(* rows follows from this case split.                                      *)
(***************************************************************************)
RowStep(j) ==
  \/ rows'[j] = rows[j]
  \/ rows'[j] = EnqueuedRow(rows[j], TRUE)
  \/ \E w \in WorkerIds :
       \/ Claimable(rows[j]) /\ rows'[j] = ClaimedRow(rows[j], w)
       \/ rows'[j] = HeartbeatRow(rows[j], w)
       \/ \E result \in Results : rows'[j] = CompletedRow(rows[j], w, result)
       \/ rows'[j] = RetriedRow(rows[j], w)
  \/ rows'[j] = OlderRow(rows[j])

(* What a step may do to a row: one transaction of the repository, or time.*)
LEMMA RowSteps ==
  ASSUME JInv, [Next]_vars, NEW j \in Jobs
  PROVE  RowStep(j)
<1>0. TypeOK /\ \A t \in Tasks : MyId(t) \in WorkerIds
  BY MyIdType DEF JInv, IInv
<1>1. ASSUME NEW i \in Jobs, Enqueue(i) PROVE RowStep(j)
  BY <1>0, <1>1 DEF Enqueue, SetRow, RowStep, TypeOK
<1>2. ASSUME NEW t \in Tasks, NEW i \in Jobs, FirstClaimable(i),
             SetRow(i, ClaimedRow(rows[i], MyId(t)))
      PROVE  RowStep(j)
  BY <1>0, <1>2 DEF FirstClaimable, SetRow, RowStep, TypeOK
<1>3. ASSUME NEW t \in Tasks, Heartbeat(t) PROVE RowStep(j)
  BY <1>0, <1>3 DEF Heartbeat, SetRow, RowStep, TypeOK
<1>4. ASSUME NEW t \in Tasks, At(t, "completing"), CompletedRows(t) PROVE RowStep(j)
  <2>1. tasks[t].result \in Results
    BY <1>4 DEF At, JInv, Employed
  <2>2. QED
    BY <1>0, <1>4, <2>1 DEF CompletedRows, SetRow, RowStep, TypeOK
<1>5. ASSUME NEW t \in Tasks, RetriedRows(t) PROVE RowStep(j)
  BY <1>0, <1>5 DEF RetriedRows, SetRow, RowStep, TypeOK
<1>6. ASSUME Tick PROVE RowStep(j)
  BY <1>6 DEF Tick, RowStep
<1>7. ASSUME UNCHANGED rows PROVE RowStep(j)
  BY <1>7 DEF RowStep
<1>8. ASSUME NEW t \in Tasks, TaskStep(t) PROVE RowStep(j)
  BY <1>2, <1>3, <1>4, <1>5, <1>7, <1>8
     DEF TaskStep, Claim, HandlerReturns, HandlerRaises, Complete, RetryOrFail
<1>9. ASSUME NEW t \in Tasks, TaskFault(t) PROVE RowStep(j)
  BY <1>2, <1>4, <1>5, <1>7, <1>9
     DEF TaskFault, PollFails, RenewalDies, CompleteFails, RetryFails
<1>10. QED
  BY <1>1, <1>6, <1>7, <1>8, <1>9 DEF Next, Restart, vars

(* Time leaves a row alone that is neither waiting nor running.            *)
LEMMA OlderIdleRow ==
  ASSUME NEW row \in RowRecords, row.state # "running", row.delay = 0
  PROVE  OlderRow(row) = row
<1>1. OlderRow(row) = [row EXCEPT !.delay = row.delay, !.lease = row.lease]
  BY DEF OlderRow
<1>2. [row EXCEPT !.delay = row.delay, !.lease = row.lease] = row
  BY DEF RowRecords
<1>3. QED
  BY <1>1, <1>2

(* A finished job is changed by nothing but a reactivation.                *)
THEOREM SettledStays == Spec => SettledForGood
<1> DEFINE Final ==
      \A j \in Jobs :
        rows[j].state \in Terminal /\ rows'[j] # rows[j]
          => rows[j].state \in Settled /\ rows'[j] = QueuedRow
<1>1. JInv /\ [Next]_vars => Final
  <2> SUFFICES ASSUME JInv, [Next]_vars, NEW j \in Jobs,
                      rows[j].state \in Terminal, rows'[j] # rows[j]
               PROVE  rows[j].state \in Settled /\ rows'[j] = QueuedRow
    OBVIOUS
  <2>1. RowStep(j) /\ GoodRow(rows[j])
    BY RowSteps DEF JInv, IInv, RowsGood
  <2>2. rows[j].state \notin {"absent", "queued", "running"}
    BY DEF Terminal, Settled, Parked
  <2>3. OlderRow(rows[j]) = rows[j]
    BY <2>1, <2>2, OlderIdleRow DEF GoodRow
  <2>4. QED
    BY <2>1, <2>2, <2>3
       DEF RowStep, EnqueuedRow, Claimable, Expired, HeartbeatRow, CompletedRow,
           RetriedRow, OwnedBy
<1>2. QED
  BY <1>1, Invariance, PTL DEF Spec, SettledForGood

------------------------------------------------------------------------------
(* A transaction writes one row; time only moves leases and delays.        *)
LEMMA OneRowAtATime ==
  ASSUME JInv, [Next]_vars
  PROVE  \/ \A j \in Jobs : /\ rows'[j].state = rows[j].state
                            /\ rows'[j].attempts = rows[j].attempts
         \/ \E i \in Jobs : \A j \in Jobs \ {i} : rows'[j] = rows[j]
<1> DEFINE Goal ==
      \/ \A j \in Jobs : /\ rows'[j].state = rows[j].state
                         /\ rows'[j].attempts = rows[j].attempts
      \/ \E i \in Jobs : \A j \in Jobs \ {i} : rows'[j] = rows[j]
<1>0. rows \in [Jobs -> RowRecords] /\ \A t \in Tasks : Employed(tasks[t])
  BY DEF JInv, IInv, TypeOK
<1>1. ASSUME NEW i \in Jobs, NEW row, SetRow(i, row) PROVE Goal
  BY <1>0, <1>1 DEF SetRow
<1>2. ASSUME UNCHANGED rows PROVE Goal
  BY <1>2
<1>3. ASSUME Tick PROVE Goal
  <2>1. ASSUME NEW row \in RowRecords
        PROVE  OlderRow(row).state = row.state /\ OlderRow(row).attempts = row.attempts
    BY DEF OlderRow, RowRecords
  <2>2. QED
    BY <1>0, <1>3, <2>1 DEF Tick
<1> HIDE DEF Goal
<1>4. ASSUME NEW t \in Tasks, TaskStep(t) PROVE Goal
  <2>1. CASE \E j \in Jobs : Claim(t, j)
    BY <1>1, <2>1 DEF Claim
  <2>2. CASE Heartbeat(t)
    BY <1>0, <1>1, <2>2 DEF Heartbeat, Employed
  <2>3. CASE Complete(t)
    BY <1>0, <1>1, <2>3 DEF Complete, CompletedRows, At, Employed, Busy
  <2>4. CASE RetryOrFail(t)
    BY <1>0, <1>1, <2>4 DEF RetryOrFail, RetriedRows, At, Employed, Busy
  <2>5. QED
    BY <1>2, <1>4, <2>1, <2>2, <2>3, <2>4 DEF TaskStep, HandlerReturns, HandlerRaises
<1>5. ASSUME NEW t \in Tasks, TaskFault(t) PROVE Goal
  <2>1. CASE PollFails(t)
    BY <1>1, <1>2, <2>1 DEF PollFails
  <2>2. CASE CompleteFails(t)
    BY <1>0, <1>1, <1>2, <2>2 DEF CompleteFails, CompletedRows, At, Employed, Busy
  <2>3. CASE RetryFails(t)
    BY <1>0, <1>1, <1>2, <2>3 DEF RetryFails, RetriedRows, At, Employed, Busy
  <2>4. QED
    BY <1>2, <1>5, <2>1, <2>2, <2>3 DEF TaskFault, RenewalDies
<1>6. ASSUME NEW j \in Jobs, Enqueue(j) PROVE Goal
  BY <1>1, <1>6 DEF Enqueue
<1>7. QED
  BY <1>2, <1>3, <1>4, <1>5, <1>6 DEF Next, Restart, vars, Goal

(* What becomes of the state and the attempts of the row that is written,  *)
(* in the words of the abstract life of a job.                             *)
LEMMA RowStepIsLifeStep ==
  ASSUME NEW row, GoodRow(row), NEW new,
         \/ new = EnqueuedRow(row, TRUE)
         \/ \E w \in WorkerIds :
              \/ Claimable(row) /\ new = ClaimedRow(row, w)
              \/ new = HeartbeatRow(row, w)
              \/ \E result \in Results : new = CompletedRow(row, w, result)
              \/ new = RetriedRow(row, w)
         \/ new = OlderRow(row)
  PROVE  \/ new.state = row.state /\ new.attempts = row.attempts
         \/ /\ row.state \in {"absent"} \cup Settled
            /\ new.state = "queued" /\ new.attempts = 0
         \/ /\ row.state \in {"queued", "running"} /\ row.attempts < MaxAttempts
            /\ new.state = "running" /\ new.attempts = row.attempts + 1
         \/ /\ row.state = "running"
            /\ new.state \in Results /\ new.attempts = row.attempts
         \/ /\ row.state = "running" /\ row.attempts < MaxAttempts
            /\ new.state = "queued" /\ new.attempts = row.attempts
         \/ /\ row.state = "running" /\ row.attempts = MaxAttempts
            /\ new.state = "failed" /\ new.attempts = row.attempts
<1>0. /\ row \in RowRecords /\ row.attempts \in Nat /\ MaxAttempts \in Nat
      /\ row.attempts <= MaxAttempts /\ (row.state = "queued" => row.attempts < MaxAttempts)
  BY GoodRowFields DEF GoodRow
<1>1. ASSUME new = EnqueuedRow(row, TRUE), new # row
      PROVE  /\ row.state \in {"absent"} \cup Settled
             /\ new.state = "queued" /\ new.attempts = 0
  BY <1>1 DEF EnqueuedRow, QueuedRow, AbsentRow
<1>2. ASSUME NEW s PROVE ReleasedRow(row, s).state = s /\ ReleasedRow(row, s).attempts = row.attempts
  BY <1>0 DEF ReleasedRow, RowRecords
<1>3. ASSUME NEW w \in WorkerIds, Claimable(row), new = ClaimedRow(row, w)
      PROVE  \/ /\ row.state \in {"queued", "running"} /\ row.attempts < MaxAttempts
                /\ new.state = "running" /\ new.attempts = row.attempts + 1
             \/ /\ row.state = "running" /\ row.attempts = MaxAttempts
                /\ new.state = "failed" /\ new.attempts = row.attempts
  <2>1. row.state \in {"queued", "running"}
    BY <1>3 DEF Claimable, Expired
  <2>2. CASE Exhausted(row)
    <3>1. new = ReleasedRow(row, "failed")
      BY <1>3, <2>2 DEF ClaimedRow
    <3>2. row.attempts = MaxAttempts /\ row.state = "running"
      BY <1>0, <2>1, <2>2 DEF Exhausted
    <3>3. QED
      BY <1>2, <3>1, <3>2
  <2>3. CASE ~Exhausted(row)
    <3>1. new = [row EXCEPT !.state = "running", !.attempts = row.attempts + 1,
                            !.owner = w, !.lease = Lease]
      BY <1>3, <2>3 DEF ClaimedRow
    <3>2. new.state = "running" /\ new.attempts = row.attempts + 1
      BY <1>0, <3>1 DEF RowRecords
    <3>3. QED
      BY <1>0, <2>1, <2>3, <3>2 DEF Exhausted
  <2>4. QED
    BY <2>2, <2>3
<1>4. ASSUME NEW w \in WorkerIds, new = HeartbeatRow(row, w)
      PROVE  new.state = row.state /\ new.attempts = row.attempts
  BY <1>0, <1>4 DEF HeartbeatRow, RowRecords
<1>5. ASSUME NEW w \in WorkerIds, NEW result \in Results, new = CompletedRow(row, w, result)
      PROVE  \/ new = row
             \/ /\ row.state = "running"
                /\ new.state \in Results /\ new.attempts = row.attempts
  BY <1>2, <1>5 DEF CompletedRow, OwnedBy
<1>6. ASSUME NEW w \in WorkerIds, new = RetriedRow(row, w)
      PROVE  \/ new = row
             \/ /\ row.state = "running" /\ row.attempts < MaxAttempts
                /\ new.state = "queued" /\ new.attempts = row.attempts
             \/ /\ row.state = "running" /\ row.attempts = MaxAttempts
                /\ new.state = "failed" /\ new.attempts = row.attempts
  <2>1. CASE ~OwnedBy(row, w)
    BY <1>6, <2>1 DEF RetriedRow
  <2>2. CASE OwnedBy(row, w) /\ Exhausted(row)
    BY <1>0, <1>2, <1>6, <2>2 DEF RetriedRow, OwnedBy, Exhausted
  <2>3. CASE OwnedBy(row, w) /\ ~Exhausted(row)
    <3>1. new = [ReleasedRow(row, "queued") EXCEPT !.delay = RetryDelay(row.attempts)]
      BY <1>6, <2>3 DEF RetriedRow
    <3>2. new.state = "queued" /\ new.attempts = row.attempts
      BY <1>0, <3>1 DEF ReleasedRow, RowRecords
    <3>3. QED
      BY <1>0, <2>3, <3>2 DEF OwnedBy, Exhausted
  <2>4. QED
    BY <2>1, <2>2, <2>3
<1>7. ASSUME new = OlderRow(row)
      PROVE  new.state = row.state /\ new.attempts = row.attempts
  BY <1>0, <1>7 DEF OlderRow, RowRecords
<1>8. QED
  BY <1>1, <1>3, <1>4, <1>5, <1>6, <1>7

(* The queue implements the life of a job its callers rely on.             *)
THEOREM LifecycleImplemented == Spec => ImplementsLifecycle
<1> DEFINE phase == [j \in Jobs |-> rows[j].state]
           tries == [j \in Jobs |-> rows[j].attempts]
<1>1. Init => Lifecycle!Init
  BY DEF Init, Lifecycle!Init, AbsentRow
<1>2. JInv /\ [Next]_vars => [Lifecycle!Next]_(Lifecycle!vars)
  <2> SUFFICES ASSUME JInv, [Next]_vars
               PROVE  Lifecycle!Next \/ UNCHANGED <<phase, tries>>
    BY DEF Lifecycle!vars
  <2>1. CASE \A j \in Jobs : /\ rows'[j].state = rows[j].state
                             /\ rows'[j].attempts = rows[j].attempts
    BY <2>1
  <2>2. ASSUME NEW i \in Jobs, \A j \in Jobs \ {i} : rows'[j] = rows[j]
        PROVE  Lifecycle!Next \/ UNCHANGED <<phase, tries>>
    <3>2. phase[i] = rows[i].state /\ tries[i] = rows[i].attempts
      OBVIOUS
    <3>3. RowStep(i) /\ GoodRow(rows[i])
      BY RowSteps DEF JInv, IInv, RowsGood
    <3> DEFINE row == rows[i]
               new == rows'[i]
    <3>4. \/ new.state = row.state /\ new.attempts = row.attempts
          \/ /\ row.state \in {"absent"} \cup Settled
             /\ new.state = "queued" /\ new.attempts = 0
          \/ /\ row.state \in {"queued", "running"} /\ row.attempts < MaxAttempts
             /\ new.state = "running" /\ new.attempts = row.attempts + 1
          \/ /\ row.state = "running"
             /\ new.state \in Results /\ new.attempts = row.attempts
          \/ /\ row.state = "running" /\ row.attempts < MaxAttempts
             /\ new.state = "queued" /\ new.attempts = row.attempts
          \/ /\ row.state = "running" /\ row.attempts = MaxAttempts
             /\ new.state = "failed" /\ new.attempts = row.attempts
      <4>1. CASE new = row
        BY <4>1
      <4>2. CASE new # row
        BY <3>3, <4>2, RowStepIsLifeStep DEF RowStep
      <4>3. QED
        BY <4>1, <4>2
    <3>5. CASE new.state = row.state /\ new.attempts = row.attempts
      BY <2>2, <3>5
    <3>6. CASE /\ row.state \in {"absent"} \cup Settled
               /\ new.state = "queued" /\ new.attempts = 0
      <4>1. Lifecycle!Become(i, "queued", 0)
        BY <2>2, <3>2, <3>6 DEF Lifecycle!Become
      <4>2. Lifecycle!Submit(i)
        BY <3>2, <3>6, <4>1 DEF Lifecycle!Submit, Lifecycle!Done, Settled
      <4>3. QED
        BY <4>2 DEF Lifecycle!Next
    <3>7. CASE /\ row.state \in {"queued", "running"} /\ row.attempts < MaxAttempts
               /\ new.state = "running" /\ new.attempts = row.attempts + 1
      <4>1. Lifecycle!Become(i, "running", tries[i] + 1)
        BY <2>2, <3>2, <3>7 DEF Lifecycle!Become
      <4>2. Lifecycle!Start(i)
        BY <3>2, <3>7, <4>1 DEF Lifecycle!Start
      <4>3. QED
        BY <4>2 DEF Lifecycle!Next
    <3>8. CASE /\ row.state = "running"
               /\ new.state \in Results /\ new.attempts = row.attempts
      <4>1. Lifecycle!Become(i, new.state, tries[i])
        BY <2>2, <3>2, <3>8 DEF Lifecycle!Become
      <4>2. Lifecycle!Finish(i)
        BY <3>2, <3>8, <4>1 DEF Lifecycle!Finish, Lifecycle!HandedOver, Results, Parked
      <4>3. QED
        BY <4>2 DEF Lifecycle!Next
    <3>9. CASE /\ row.state = "running" /\ row.attempts < MaxAttempts
               /\ new.state = "queued" /\ new.attempts = row.attempts
      <4>1. Lifecycle!Become(i, "queued", tries[i])
        BY <2>2, <3>2, <3>9 DEF Lifecycle!Become
      <4>2. Lifecycle!Retry(i)
        BY <3>2, <3>9, <4>1 DEF Lifecycle!Retry
      <4>3. QED
        BY <4>2 DEF Lifecycle!Next
    <3>10. CASE /\ row.state = "running" /\ row.attempts = MaxAttempts
                /\ new.state = "failed" /\ new.attempts = row.attempts
      <4>1. Lifecycle!Become(i, "failed", tries[i])
        BY <2>2, <3>2, <3>10 DEF Lifecycle!Become
      <4>2. Lifecycle!GiveUp(i)
        BY <3>2, <3>10, <4>1 DEF Lifecycle!GiveUp
      <4>3. QED
        BY <4>2 DEF Lifecycle!Next
    <3>11. QED
      BY <3>4, <3>5, <3>6, <3>7, <3>8, <3>9, <3>10
  <2>3. QED
    BY <2>1, <2>2, OneRowAtATime
<1>3. QED
  BY <1>1, <1>2, Invariance, PTL DEF Spec, ImplementsLifecycle, Lifecycle!Spec

------------------------------------------------------------------------------
(***************************************************************************)
(* Exclusion.  While renewals are steady, a task that is at work on a job  *)
(* holds the job's lease (HoldsOwn), and no two tasks renew the same job.  *)
(* A task whose worker has no handler for its job (rejecting) holds no     *)
(* lease it renews, so it may be overtaken: what keeps it from settling    *)
(* another task's attempt is that the tasks of its worker share its lack   *)
(* of a handler as well as its worker_id.                                  *)
(***************************************************************************)
HoldsOwn(t) ==
  LET j == tasks[t].job
  IN  /\ tasks[t].heart <=> tasks[t].pc \in Busy
      /\ tasks[t].heart =>
           /\ j \in Jobs /\ Supported(t, j)
           /\ OwnedBy(rows[j], MyId(t)) /\ rows[j].lease >= 0
      /\ At(t, "rejecting") => j \in Jobs /\ ~Supported(t, j)

Exclusive ==
  /\ \A t \in Tasks : HoldsOwn(t)
  /\ \A t, u \in Tasks :
       tasks[t].heart /\ tasks[u].heart /\ tasks[t].job = tasks[u].job => t = u

EInv == JInv /\ (steady => Exclusive)

(* One task moves, and the rows the others hold stay as they were.         *)
LEMMA OthersKeepTheirs ==
  ASSUME JInv, Exclusive, NEW t \in Tasks, gen' = gen,
         \A u \in Tasks \ {t} :
           /\ tasks'[u] = tasks[u]
           /\ tasks[u].heart => rows'[tasks[u].job] = rows[tasks[u].job],
         HoldsOwn(t)',
         tasks'[t].heart =>
           \A u \in Tasks \ {t} : tasks[u].heart => tasks[u].job # tasks'[t].job
  PROVE  Exclusive'
<1>1. ASSUME NEW u \in Tasks PROVE HoldsOwn(u)'
  <2>1. CASE u = t
    BY <2>1
  <2>2. CASE u # t
    BY <2>2 DEF Exclusive, HoldsOwn, Supported, MyId, WorkerId, At
  <2>3. QED
    BY <2>1, <2>2
<1>2. ASSUME NEW u \in Tasks, NEW v \in Tasks, tasks'[u].heart, tasks'[v].heart,
             tasks'[u].job = tasks'[v].job
      PROVE  u = v
  BY <1>2 DEF Exclusive
<1>3. QED
  BY <1>1, <1>2 DEF Exclusive

(* No row with a holder can be claimed or reactivated.                     *)
LEMMA HeldRowsAreSafe ==
  ASSUME JInv, Exclusive, NEW u \in Tasks, tasks[u].heart
  PROVE  /\ tasks[u].job \in Jobs
         /\ ~Claimable(rows[tasks[u].job])
         /\ EnqueuedRow(rows[tasks[u].job], TRUE) = rows[tasks[u].job]
<1>1. /\ tasks[u].job \in Jobs /\ rows[tasks[u].job].state = "running"
      /\ rows[tasks[u].job].lease >= 0 /\ rows[tasks[u].job].lease \in -1 .. Lease
  BY DEF Exclusive, HoldsOwn, OwnedBy, JInv, IInv, RowsGood, GoodRow
<1>2. Lease \in Nat
  BY LeaseAssumption
<1>3. QED
  BY <1>1, <1>2 DEF Claimable, Expired, EnqueuedRow, Settled

(* Only the holder settles a held row.                                     *)
LEMMA OnlyHolderSettles ==
  ASSUME JInv, Exclusive, NEW t \in Tasks, NEW u \in Tasks \ {t}, tasks[u].heart,
         tasks[t].pc \in Busy \cup {"rejecting"}, tasks[t].job = tasks[u].job
  PROVE  /\ At(t, "rejecting")
         /\ ~OwnedBy(rows[tasks[u].job], MyId(t))
<1>1. ~tasks[t].heart /\ tasks[t].pc = "rejecting"
  BY DEF Exclusive, HoldsOwn
<1>2. ~Supported(t, tasks[t].job) /\ Supported(u, tasks[u].job)
  BY <1>1 DEF Exclusive, HoldsOwn, At
<1>3. WorkerOf[t] # WorkerOf[u]
  BY <1>2 DEF Supported
<1>4. MyId(t) # MyId(u)
  BY <1>3 DEF MyId, WorkerId
<1>5. OwnedBy(rows[tasks[u].job], MyId(u))
  BY DEF Exclusive, HoldsOwn
<1>6. QED
  BY <1>1, <1>4, <1>5 DEF At, OwnedBy

(* Exclusive holders stay exclusive while the execution is steady.         *)
LEMMA ExclusionStep == EInv /\ [Next]_vars => EInv'
<1> SUFFICES ASSUME EInv, [Next]_vars, steady' PROVE Exclusive'
  BY InvariantStep DEF EInv
<1>0. JInv /\ TypeOK /\ (steady => Exclusive)
  BY DEF EInv, JInv, IInv
<1>1. ASSUME NEW j \in Jobs, Enqueue(j) PROVE Exclusive'
  <2>1. Exclusive
    BY <1>0, <1>1 DEF Enqueue
  <2>2. ASSUME NEW u \in Tasks, tasks[u].heart
        PROVE  rows'[tasks[u].job] = rows[tasks[u].job]
    BY <1>0, <1>1, <2>1, <2>2, HeldRowsAreSafe DEF Enqueue, SetRow, TypeOK
  <2>3. QED
    BY <1>1, <2>1, <2>2
       DEF Enqueue, Exclusive, HoldsOwn, Supported, MyId, WorkerId, At
<1>2. ASSUME NEW t \in Tasks, NEW j \in Jobs, Claim(t, j) PROVE Exclusive'
  <2>1. Exclusive /\ gen' = gen /\ tasks' = [tasks EXCEPT ![t] = ClaimedTask(t, j)]
    BY <1>0, <1>2 DEF Claim, Become
  <2>2. ASSUME NEW u \in Tasks, tasks[u].heart
        PROVE  tasks[u].job # j /\ rows'[tasks[u].job] = rows[tasks[u].job]
    BY <1>0, <1>2, <2>1, <2>2, HeldRowsAreSafe DEF Claim, FirstClaimable, SetRow, TypeOK
  <2>3. tasks'[t] = ClaimedTask(t, j) /\ \A u \in Tasks \ {t} : tasks'[u] = tasks[u]
    BY <1>0, <2>1 DEF TypeOK
  <2>4. HoldsOwn(t)'
    <3>1. CASE Exhausted(rows[j])
      BY <2>3, <3>1 DEF ClaimedTask, Polling, TaskAt, HoldsOwn, Busy, At
    <3>2. CASE ~Exhausted(rows[j])
      <4>1. /\ tasks'[t].job = j /\ tasks'[t].heart = Supported(t, j)
            /\ tasks'[t].pc = IF Supported(t, j) THEN "handling" ELSE "rejecting"
        BY <2>3, <3>2 DEF ClaimedTask, TaskAt
      <4>2. rows'[j] = ClaimedRow(rows[j], MyId(t))
        BY <1>0, <1>2 DEF Claim, SetRow, TypeOK
      <4>3. rows[j] \in RowRecords /\ Lease \in Nat
        BY <1>0, LeaseAssumption DEF TypeOK
      <4>4. /\ rows'[j].state = "running" /\ rows'[j].owner = MyId(t)
            /\ rows'[j].lease >= 0
        BY <3>2, <4>2, <4>3 DEF ClaimedRow, RowRecords
      <4>5. MyId(t)' = MyId(t)
        BY <2>1 DEF MyId, WorkerId
      <4>6. Supported(t, j)' = Supported(t, j) /\ Supported(t, j) \in BOOLEAN
        BY DEF Supported
      <4>7. QED
        BY <4>1, <4>4, <4>5, <4>6 DEF HoldsOwn, OwnedBy, Busy, At
    <3>3. QED
      BY <3>1, <3>2
  <2>5. tasks'[t].heart => tasks'[t].job = j
    BY <2>3 DEF ClaimedTask, Polling, TaskAt
  <2>6. QED
    BY <1>0, <2>1, <2>2, <2>3, <2>4, <2>5, OthersKeepTheirs
<1>3. ASSUME NEW t \in Tasks, Heartbeat(t) PROVE Exclusive'
  <2> DEFINE j == tasks[t].job
  <2>1. Exclusive /\ gen' = gen /\ tasks[t].heart /\ j \in Jobs /\ OwnedBy(rows[j], MyId(t))
    BY <1>0, <1>3 DEF Heartbeat, Exclusive, HoldsOwn
  <2>2. /\ tasks' = [tasks EXCEPT ![t].heart = TRUE]
        /\ rows' = [rows EXCEPT ![j] = [rows[j] EXCEPT !.lease = Lease]]
    BY <1>3, <2>1 DEF Heartbeat, SetRow, HeartbeatRow, OwnedBy
  <2>3. /\ rows'[j].state = rows[j].state /\ rows'[j].owner = rows[j].owner
        /\ rows'[j].lease >= 0
        /\ \A i \in Jobs \ {j} : rows'[i] = rows[i]
    BY <1>0, <2>1, <2>2, LeaseAssumption DEF TypeOK, RowRecords
  <2>4. /\ tasks'[t] = tasks[t] /\ \A u \in Tasks \ {t} : tasks'[u] = tasks[u]
    BY <1>0, <2>1, <2>2 DEF TypeOK, TaskRecords
  <2>5. MyId(t)' = MyId(t)
    BY <2>1 DEF MyId, WorkerId
  <2>6. HoldsOwn(t)'
    BY <2>1, <2>3, <2>4, <2>5 DEF HoldsOwn, Exclusive, OwnedBy, Supported, At
  <2>7. \A u \in Tasks \ {t} : tasks[u].heart => tasks[u].job # j /\ tasks[u].job \in Jobs
    BY <1>0, <2>1 DEF Exclusive, HoldsOwn
  <2>8. QED
    BY <1>0, <2>1, <2>3, <2>4, <2>6, <2>7, OthersKeepTheirs
<1>4. ASSUME NEW t \in Tasks, NEW pc \in {"completing", "failing"}, At(t, "handling"),
             \A u \in Tasks \ {t} : tasks'[u] = tasks[u],
             tasks'[t].pc = pc, tasks'[t].job = tasks[t].job,
             tasks'[t].heart = tasks[t].heart,
             UNCHANGED <<rows, gen, steady>>
      PROVE  Exclusive'
  <2>1. Exclusive
    BY <1>0, <1>4
  <2>2. HoldsOwn(t)'
    BY <1>4, <2>1 DEF HoldsOwn, Exclusive, Busy, At, OwnedBy, Supported, MyId, WorkerId
  <2>3. QED
    BY <1>0, <1>4, <2>1, <2>2, OthersKeepTheirs DEF Exclusive
<1>5. ASSUME NEW t \in Tasks, NEW result \in Results, HandlerReturns(t, result)
      PROVE  Exclusive'
  <2>1. /\ tasks'[t].pc = "completing" /\ tasks'[t].job = tasks[t].job
        /\ tasks'[t].heart = tasks[t].heart
        /\ \A u \in Tasks \ {t} : tasks'[u] = tasks[u]
    BY <1>0, <1>5 DEF HandlerReturns, Become, TypeOK, TaskRecords
  <2>2. QED
    BY <1>4, <1>5, <2>1 DEF HandlerReturns
<1>6. ASSUME NEW t \in Tasks, HandlerRaises(t) PROVE Exclusive'
  <2>1. /\ tasks'[t].pc = "failing" /\ tasks'[t].job = tasks[t].job
        /\ tasks'[t].heart = tasks[t].heart
        /\ \A u \in Tasks \ {t} : tasks'[u] = tasks[u]
    BY <1>0, <1>6 DEF HandlerRaises, Go, TypeOK, TaskRecords
  <2>2. QED
    BY <1>4, <1>6, <2>1 DEF HandlerRaises
(* A task that settles its job, or is refused, and holds nothing after.    *)
<1>7. ASSUME NEW t \in Tasks, tasks[t].pc \in Busy \cup {"rejecting"}, UNCHANGED <<gen, steady>>,
             NEW idle \in {Polling, Dead}, tasks' = [tasks EXCEPT ![t] = idle],
             \A i \in Jobs : i # tasks[t].job \/ ~OwnedBy(rows[i], MyId(t))
                               => rows'[i] = rows[i]
      PROVE  Exclusive'
  <2>1. Exclusive
    BY <1>0, <1>7
  <2>2. /\ tasks'[t] = idle /\ ~idle.heart /\ idle.pc \in {"polling", "dead"}
        /\ \A u \in Tasks \ {t} : tasks'[u] = tasks[u]
    BY <1>0, <1>7 DEF TypeOK, Polling, Dead, TaskAt
  <2>3. HoldsOwn(t)'
    BY <2>2 DEF HoldsOwn, Busy, At
  <2>4. ASSUME NEW u \in Tasks \ {t}, tasks[u].heart
        PROVE  rows'[tasks[u].job] = rows[tasks[u].job]
    BY <1>0, <1>7, <2>1, <2>4, HeldRowsAreSafe, OnlyHolderSettles
  <2>5. QED
    BY <1>0, <1>7, <2>1, <2>2, <2>3, <2>4, OthersKeepTheirs
<1>8. ASSUME NEW t \in Tasks, Complete(t) PROVE Exclusive'
  BY <1>0, <1>7, <1>8
     DEF Complete, CompletedRows, SetRow, CompletedRow, At, Busy, Become, TypeOK
<1>9. ASSUME NEW t \in Tasks, RetryOrFail(t) PROVE Exclusive'
  BY <1>0, <1>7, <1>9
     DEF RetryOrFail, RetriedRows, SetRow, RetriedRow, At, Busy, Become, TypeOK
<1>10. ASSUME NEW t \in Tasks, RetryFails(t) PROVE Exclusive'
  BY <1>0, <1>7, <1>10
     DEF RetryFails, RetriedRows, SetRow, RetriedRow, At, Busy, Become, TypeOK
<1>11. ASSUME NEW t \in Tasks, PollFails(t) PROVE Exclusive'
  <2>1. Exclusive /\ gen' = gen /\ tasks' = [tasks EXCEPT ![t] = Dead]
    BY <1>0, <1>11 DEF PollFails, Become
  <2>2. tasks'[t] = Dead /\ \A u \in Tasks \ {t} : tasks'[u] = tasks[u]
    BY <1>0, <2>1 DEF TypeOK
  <2>3. HoldsOwn(t)' /\ ~tasks'[t].heart
    BY <2>2 DEF HoldsOwn, Dead, TaskAt, Busy, At
  <2>4. ASSUME NEW u \in Tasks \ {t}, tasks[u].heart
        PROVE  rows'[tasks[u].job] = rows[tasks[u].job]
    BY <1>0, <1>11, <2>1, <2>4, HeldRowsAreSafe DEF PollFails, FirstClaimable, SetRow, TypeOK
  <2>5. QED
    BY <1>0, <2>1, <2>2, <2>3, <2>4, OthersKeepTheirs
<1>12. ASSUME NEW w \in Workers, Restart(w) PROVE Exclusive'
  <2>1. Exclusive /\ rows' = rows
    BY <1>0, <1>12 DEF Restart
  <2>2. ASSUME NEW u \in Tasks
        PROVE  \/ tasks'[u] = Polling
               \/ tasks'[u] = tasks[u] /\ MyId(u)' = MyId(u)
    BY <1>0, <1>12, TasksAssumption DEF Restart, TypeOK, MyId, WorkerId
  <2>3. ~Polling.heart /\ Polling.pc = "polling"
    BY DEF Polling, TaskAt
  <2>4. ASSUME NEW u \in Tasks PROVE HoldsOwn(u)'
    <3>1. CASE tasks'[u] = Polling
      BY <2>3, <3>1 DEF HoldsOwn, Busy, At
    <3>2. CASE tasks'[u] = tasks[u] /\ MyId(u)' = MyId(u)
      BY <2>1, <3>2 DEF HoldsOwn, Exclusive, Supported, At
    <3>3. QED
      BY <2>2, <3>1, <3>2
  <2>5. \A u, v \in Tasks :
          tasks'[u].heart /\ tasks'[v].heart /\ tasks'[u].job = tasks'[v].job => u = v
    BY <2>1, <2>2, <2>3 DEF Exclusive
  <2>6. QED
    BY <2>4, <2>5 DEF Exclusive
<1>13. ASSUME Tick PROVE Exclusive'
  <2>1. /\ Exclusive /\ UNCHANGED <<tasks, gen>>
        /\ \A t \in Tasks, j \in Jobs : Renewing(t, j) => rows[j].lease > 0
    BY <1>0, <1>13 DEF Tick
  <2>2. ASSUME NEW t \in Tasks PROVE HoldsOwn(t)'
    <3>1. CASE ~tasks[t].heart
      BY <2>1, <3>1 DEF HoldsOwn, Exclusive, Supported, At
    <3>2. CASE tasks[t].heart
      <4> DEFINE j == tasks[t].job
      <4>1. j \in Jobs /\ OwnedBy(rows[j], MyId(t)) /\ rows[j].lease > 0
        BY <2>1, <3>2 DEF Exclusive, HoldsOwn, Renewing
      <4>2. rows[j] \in RowRecords /\ rows[j].lease \in Int
        BY <1>0, <4>1 DEF JInv, IInv, RowsGood, GoodRow, OwnedBy
      <4>3. rows'[j] = OlderRow(rows[j])
        BY <1>13, <4>1 DEF Tick
      <4>4. /\ rows'[j].state = rows[j].state /\ rows'[j].owner = rows[j].owner
            /\ rows'[j].lease = rows[j].lease - 1
        BY <4>1, <4>2, <4>3 DEF OlderRow, RowRecords, OwnedBy
      <4>5. OwnedBy(rows[j], MyId(t))' /\ rows'[j].lease >= 0
        BY <2>1, <4>1, <4>2, <4>4 DEF OwnedBy, MyId, WorkerId
      <4>6. QED
        BY <2>1, <4>5 DEF HoldsOwn, Exclusive, Supported, At
    <3>3. QED
      BY <3>1, <3>2
  <2>3. QED
    BY <2>1, <2>2 DEF Exclusive
<1>14. CASE UNCHANGED vars
  BY <1>0, <1>14
     DEF vars, Exclusive, HoldsOwn, Supported, OwnedBy, MyId, WorkerId, At
<1>15. QED
  BY <1>1, <1>2, <1>3, <1>5, <1>6, <1>8, <1>9, <1>10, <1>11, <1>12, <1>13, <1>14
     DEF Next, TaskStep, TaskFault, RenewalDies, CompleteFails

(* While renewals come in time, no two tasks execute one job at once.      *)
THEOREM NoDoubleExecutionHolds == Spec => []NoDoubleExecution
<1>1. Init => EInv
  BY InvariantInit DEF Init, EInv, Exclusive, HoldsOwn, Polling, TaskAt, Busy, At
<1>2. EInv => NoDoubleExecution
  BY DEF EInv, Exclusive, HoldsOwn, NoDoubleExecution, Handling, At, Busy
<1>3. QED
  BY <1>1, <1>2, ExclusionStep, PTL DEF Spec

------------------------------------------------------------------------------
(***************************************************************************)
(* A lone task keeps its job.  Whoever else settles a job carries another  *)
(* worker's id, and no claim takes a row whose lease stands; this needs no *)
(* steadiness, only the typing and the goodness of rows.                   *)
(***************************************************************************)
Kept(j) == rows'[j].state = "running" /\ rows'[j].attempts = rows[j].attempts

(* Another worker's complete or retry_or_fail does not reach the row.      *)
LEMMA StrangersSettleNothing ==
  ASSUME JInv, NEW t \in Tasks, NEW u \in Tasks, WorkerOf[u] # WorkerOf[t],
         NEW j \in Jobs, OwnedBy(rows[j], MyId(t)),
         CompletedRows(u) \/ RetriedRows(u)
  PROVE  rows'[j] = rows[j]
<1>1. MyId(u) # MyId(t)
  BY DEF MyId, WorkerId
<1>2. ~OwnedBy(rows[j], MyId(u))
  BY <1>1 DEF OwnedBy
<1>3. QED
  BY <1>2 DEF CompletedRows, RetriedRows, CompletedRow, RetriedRow, SetRow,
              JInv, IInv, TypeOK

(* While the only task of a worker handles the current attempt of a job    *)
(* whose lease stands, that attempt is neither settled, nor given back to  *)
(* the queue, nor started again, whatever faults the database showed.      *)
THEOREM LoneTaskKept == Spec => LoneTaskKeepsJob
<1> DEFINE AllKept == \A t \in Tasks : Alone(t) => KeepsJob(t)
<1>1. JInv /\ [Next]_vars => AllKept
  <2> SUFFICES ASSUME JInv, [Next]_vars, NEW t \in Tasks, Alone(t), NEW j \in Jobs,
                      HoldsCurrentAttempt(t, j), rows[j].lease >= 0,
                      tasks'[t].pc = "handling"
               PROVE  Kept(j)
    BY DEF KeepsJob, Kept
  <2>0. /\ TypeOK /\ GoodRow(rows[j]) /\ rows[j] \in RowRecords
        /\ rows[j].state = "running" /\ rows[j].lease \in Int
        /\ OwnedBy(rows[j], MyId(t)) /\ At(t, "handling")
    BY DEF JInv, IInv, RowsGood, GoodRow, HoldsCurrentAttempt, Handling, OwnedBy
  <2>1. ~Claimable(rows[j])
    BY <2>0 DEF Claimable, Expired
  <2>2. ASSUME NEW i \in Jobs, Enqueue(i) PROVE Kept(j)
    BY <2>0, <2>2 DEF Enqueue, SetRow, EnqueuedRow, Settled, TypeOK, Kept
  <2>3. ASSUME NEW i \in Jobs, FirstClaimable(i), NEW row, SetRow(i, row)
        PROVE  Kept(j)
    BY <2>0, <2>1, <2>3 DEF FirstClaimable, SetRow, TypeOK, Kept
  <2>4. ASSUME NEW u \in Tasks, Heartbeat(u) PROVE Kept(j)
    BY <2>0, <2>4 DEF Heartbeat, SetRow, HeartbeatRow, TypeOK, RowRecords, Kept
  <2>5. ASSUME NEW u \in Tasks, ~At(u, "handling"), CompletedRows(u) \/ RetriedRows(u)
        PROVE  Kept(j)
    <3>1. WorkerOf[u] # WorkerOf[t]
      BY <2>0, <2>5 DEF Alone
    <3>2. rows'[j] = rows[j]
      BY <2>0, <2>5, <3>1, StrangersSettleNothing
    <3>3. QED
      BY <2>0, <3>2 DEF Kept
  <2>6. ASSUME Tick PROVE Kept(j)
    BY <2>0, <2>6 DEF Tick, OlderRow, RowRecords, Kept
  <2>7. ASSUME rows' = rows PROVE Kept(j)
    BY <2>0, <2>7 DEF Kept
  <2>8. ASSUME NEW u \in Tasks, TaskStep(u) PROVE Kept(j)
    BY <2>3, <2>4, <2>5, <2>7, <2>8
       DEF TaskStep, Claim, HandlerReturns, HandlerRaises, Complete, RetryOrFail, At
  <2>9. ASSUME NEW u \in Tasks, TaskFault(u) PROVE Kept(j)
    BY <2>3, <2>5, <2>7, <2>9
       DEF TaskFault, PollFails, RenewalDies, CompleteFails, RetryFails, At
  <2>10. QED
    BY <2>2, <2>6, <2>7, <2>8, <2>9 DEF Next, Restart, vars
<1>2. QED
  BY <1>1, Invariance, PTL DEF Spec, LoneTaskKeepsJob
==============================================================================
