----------------------------- MODULE JobLifecycle -----------------------------
(***************************************************************************)
(* What the callers of the durable queue rely on, with no worker, lease or *)
(* clock in sight: the life of a job as enqueue and the run status show    *)
(* it.  DurableJobs implements it.                                         *)
(***************************************************************************)
EXTENDS Integers

CONSTANTS Jobs, MaxAttempts

VARIABLES
  phase,        (* per job, the state its callers see                      *)
  tries         (* per job, executions started since it was submitted      *)

vars == <<phase, tries>>

Done == {"succeeded", "failed"}
HandedOver == {"requires_human_intervention", "awaiting_clarification"}

Become(j, p, n) ==
  /\ phase' = [phase EXCEPT ![j] = p]
  /\ tries' = [tries EXCEPT ![j] = n]

(* A new job, or a finished one that is wanted again.  A job handed over   *)
(* to a person is not taken back by the queue.                             *)
Submit(j) == phase[j] \in {"absent"} \cup Done /\ Become(j, "queued", 0)

(* A start is always paid for from the budget, the restart of a job whose  *)
(* worker vanished included.                                               *)
Start(j) ==
  /\ phase[j] \in {"queued", "running"}
  /\ tries[j] < MaxAttempts
  /\ Become(j, "running", tries[j] + 1)

Finish(j) ==
  /\ phase[j] = "running"
  /\ \E p \in {"succeeded"} \cup HandedOver : Become(j, p, tries[j])

Retry(j) ==
  /\ phase[j] = "running"
  /\ tries[j] < MaxAttempts
  /\ Become(j, "queued", tries[j])

(* Giving a job up takes a full budget of starts.                          *)
GiveUp(j) ==
  /\ phase[j] = "running"
  /\ tries[j] = MaxAttempts
  /\ Become(j, "failed", tries[j])

Init ==
  /\ phase = [j \in Jobs |-> "absent"]
  /\ tries = [j \in Jobs |-> 0]

Next ==
  \E j \in Jobs : Submit(j) \/ Start(j) \/ Finish(j) \/ Retry(j) \/ GiveUp(j)

Spec == Init /\ [][Next]_vars
==============================================================================
