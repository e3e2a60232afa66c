------------------------------ MODULE JobTable ------------------------------
(***************************************************************************)
(* The rows of the ai_jobs table and what each transaction of              *)
(* DurableJobRepository (src/shared/queue/durable_jobs.py) makes of a row. *)
(*                                                                         *)
(* Times are kept relative to the present, so that a long execution is     *)
(* still a finite one: `delay` is what is left until available_at (0 once  *)
(* it has passed), `lease` what is left until lease_expires_at (-1 once it *)
(* lies in the past).                                                      *)
(***************************************************************************)
EXTENDS Integers

CONSTANTS
  MaxAttempts,  (* ai_job_max_attempts                                     *)
  Lease,        (* ai_job_lease_seconds                                    *)
  NoWorker,     (* worker_id IS NULL                                       *)
  NoLease       (* lease_expires_at IS NULL                                *)

ASSUME AttemptsAssumption == MaxAttempts \in Nat \ {0}
ASSUME LeaseAssumption == Lease \in Nat \ {0}
ASSUME NullAssumption == NoLease \notin Int

Settled == {"succeeded", "failed"}
Parked == {"requires_human_intervention", "awaiting_clarification"}
Terminal == Settled \cup Parked
(* The states a handler may ask the worker to complete a job with.         *)
Results == {"succeeded"} \cup Parked
JobStates == {"absent", "queued", "running"} \cup Terminal

(* retry_delay_seconds, min(60, max(1, 2 ** max(0, attempts - 1))).        *)
RetryDelay(attempts) ==
  IF attempts = 0 THEN 1
  ELSE IF attempts <= 6 THEN <<1, 2, 4, 8, 16, 32>>[attempts] ELSE 60

(* Mutant: the lease is taken for expired at its last moment.              *)
ExpiredEarly(row) == row.state = "running" /\ row.lease <= 0

Expired(row) == row.state = "running" /\ row.lease < 0

(* The WHERE clause of the claim.                                          *)
Claimable(row) ==
  \/ row.state = "queued" /\ row.delay = 0
  \/ Expired(row)

(* Mutant: the guard forgets to compare the worker_id.                     *)
OwnedByAnyone(row, worker) == row.state = "running"

(* The guard heartbeat, complete and retry_or_fail share.                  *)
OwnedBy(row, worker) == row.state = "running" /\ row.owner = worker

AbsentRow ==
  [state |-> "absent", attempts |-> 0, owner |-> NoWorker,
   lease |-> NoLease, delay |-> 0]

(* A row as INSERTed, and as a reactivation leaves a settled one.          *)
QueuedRow == [AbsentRow EXCEPT !.state = "queued"]

(* Mutant: the lease is left on a row that is no longer running.           *)
ReleasedRowLeased(row, state) == [row EXCEPT !.state = state, !.owner = NoWorker]

ReleasedRow(row, state) ==
  [row EXCEPT !.state = state, !.owner = NoWorker, !.lease = NoLease]

EnqueuedRow(row, reactivate) ==
  IF row.state = "absent" \/ (reactivate /\ row.state \in Settled)
  THEN QueuedRow
  ELSE row

(* Mutant: off by one.                                                     *)
ExhaustedLate(row) == row.attempts > MaxAttempts

Exhausted(row) == row.attempts >= MaxAttempts

(* Mutant: the claim does not count the attempt.                           *)
ClaimedRowUncounted(row, worker) ==
  IF Exhausted(row)
  THEN ReleasedRow(row, "failed")
  ELSE [row EXCEPT !.state = "running", !.owner = worker, !.lease = Lease]

ClaimedRow(row, worker) ==
  IF Exhausted(row)
  THEN ReleasedRow(row, "failed")
  ELSE [row EXCEPT !.state = "running", !.attempts = @ + 1,
                   !.owner = worker, !.lease = Lease]

HeartbeatRow(row, worker) ==
  IF OwnedBy(row, worker) THEN [row EXCEPT !.lease = Lease] ELSE row

(* Mutant: complete without its guard.                                     *)
CompletedRowUnguarded(row, worker, result) == ReleasedRow(row, result)

CompletedRow(row, worker, result) ==
  IF OwnedBy(row, worker) THEN ReleasedRow(row, result) ELSE row

(* Mutant: a retry gives the job its attempts back.                        *)
RetriedRowRefunded(row, worker) ==
  IF ~OwnedBy(row, worker) THEN row
  ELSE [QueuedRow EXCEPT !.delay = RetryDelay(row.attempts)]

RetriedRow(row, worker) ==
  IF ~OwnedBy(row, worker) THEN row
  ELSE IF Exhausted(row) THEN ReleasedRow(row, "failed")
  ELSE [ReleasedRow(row, "queued") EXCEPT !.delay = RetryDelay(row.attempts)]

(* Mutant: the delay runs below zero.                                      *)
OlderRowUnfloored(row) ==
  [row EXCEPT !.delay = @ - 1,
              !.lease = IF row.state = "running" THEN @ - 1 ELSE @]

(* One unit of time later.                                                 *)
OlderRow(row) ==
  [row EXCEPT !.delay = IF @ > 0 THEN @ - 1 ELSE 0,
              !.lease = IF row.state # "running" THEN @
                        ELSE IF @ >= 0 THEN @ - 1 ELSE -1]
=============================================================================
