------------------------------ MODULE ChatterRuns ------------------------------
(***************************************************************************)
(* The runs of the chatter service: accepted over HTTP, kept in one JSON   *)
(* file each, cached by every server that touches them, executed by a task *)
(* of the durable queue and announced to Odoo by a callback.  The queue is *)
(* seen through JobLifecycle, which DurableJobs implements: like the       *)
(* queue, it lets a running job be claimed again whenever its lease may    *)
(* have lapsed, while the task that holds it is still at work, too.        *)
(*                                                                         *)
(* Left out: what a run says (prompts, replies, artifacts, tokens), times, *)
(* the queue's backoff, pollers that die of an error, writes refused by    *)
(* the file system, and a poll that caches a run on a server that did not  *)
(* know it.                                                                *)
(***************************************************************************)
EXTENDS Integers

CONSTANTS
  Servers,      (* FastAPI processes over one state directory              *)
  Tasks,        (* their pollers of the queue                              *)
  Home,         (* per poller, its server                                  *)
  Clients,      (* requests, each sent once: a replay is another request   *)
  Keys, Bodies, (* idempotency keys, and what the fingerprint tells apart  *)
  Says,         (* per request, the bodies it may have                     *)
  Runs, NoRun,  (* run ids                                                 *)
  Providers,    (* length of the provider list                             *)
  MaxAttempts,  (* ai_job_max_attempts                                     *)
  MaxCrashes,   (* bound: crashes of servers                               *)
  MayReset      (* whether the database may be reset while all are down    *)

ASSUME HomeIsAServer == Home \in [Tasks -> Servers]
ASSUME RequestsSayBodies == Says \in [Clients -> SUBSET Bodies]
ASSUME CountsAreNaturals ==
  /\ Providers \in Nat
  /\ MaxAttempts \in Nat \ {0}
  /\ MaxCrashes \in Nat
ASSUME NoRunIsNoRun == NoRun \notin Runs /\ NoRun \notin Keys

VARIABLES
  disk,         (* per run, the state its file holds                       *)
  made,         (* per run, the key and body it was created for            *)
  session,      (* per run, whether its AI session still exists            *)
  told,         (* history: per run, the outcomes Odoo's callback received *)
  phase, tries, (* per run, its job,                                       *)
  worker,       (* and the server that claimed it last                     *)
  overlapped,   (* history: the runs claimed while a live task held them   *)
  mem,          (* per server and run, the cached state                    *)
  index,        (* per server and key, the run it stands for               *)
  server,       (* per server, its stage of life                           *)
  todo,         (* per server, the runs its recovery has still to visit    *)
  task,         (* per poller, what it executes                            *)
  client,       (* per request, how far it is answered                     *)
  crashes

files == <<disk, made>>
jobs == <<phase, tries>>
claims == <<worker, overlapped>>
caches == <<mem, index>>
life == <<server, todo, crashes>>
vars == <<disk, made, session, told, phase, tries, worker, overlapped, mem,
          index, server, todo, task, client, crashes>>

Queue == INSTANCE JobLifecycle WITH Jobs <- Runs

Active == {"queued", "running"}
Terminal == {"succeeded", "failed"}
States == Active \cup Terminal

Unmade == [key |-> NoRun, body |-> NoRun]
Idle == [run |-> NoRun, pc |-> "idle", next |-> 1, news |-> "none"]
NoRequest == [pc |-> "idle", at |-> NoRun, key |-> NoRun, body |-> NoRun,
              run |-> NoRun]

Here(t) == Home[t]
Up(s) == server[s] # "down"

(* The repository's view of a run: its cache, else the file.               *)
Known(s, r) ==
  IF mem[s][r] # "none" THEN mem[s][r]
  ELSE IF disk[r] \in States THEN disk[r] ELSE "none"

Cache(s, r, st) == mem' = [mem EXCEPT ![s][r] = st]
Write(r, st) == disk' = [disk EXCEPT ![r] = st]
Save(s, r, st) == Cache(s, r, st) /\ Write(r, st)

Goto(t, pc) == task' = [task EXCEPT ![t].pc = pc]
WindUp(t, pc, news) ==
  task' = [task EXCEPT ![t] =
    [Idle EXCEPT !.run = task[t].run, !.pc = pc, !.news = news]]
-----------------------------------------------------------------------------
(* enqueue with reactivate_terminal: a job still at work is left alone.    *)
EnsureEnqueued(r) ==
  IF phase[r] \in {"absent"} \cup Queue!Done
  THEN Queue!Submit(r)
  ELSE UNCHANGED jobs

(* A request has its body compared once; its client remembers key and run. *)
Answer(q, pc, r) ==
  client' = [client EXCEPT ![q] =
               [@ EXCEPT !.pc = pc, !.run = r, !.body = NoRun]]

(* uuid4: an id no run has had; which one makes no difference.             *)
FreshRun == CHOOSE r \in Runs : made[r] = Unmade

(* Mutant: only started runs are taken for unfinished.                     *)
NeedsQueueOnceStarted(st) == st = "running"
NeedsQueue(st) == st \in Active

(* Answered 202: the request queued its run, or found it ended; or it lost *)
(* the race for a new key, and joined the run another request has to queue.*)
Accepted == {"accepted", "joined"}

(* start(), up to its first wait: a known key is answered with its run,    *)
(* whatever the body, and only an unfinished run goes by the queue.        *)
Ask(q, s, k, b) ==
  LET r == index[s][k]
      to == IF r = NoRun THEN "reserving"
            ELSE IF NeedsQueue(mem[s][r]) THEN "enqueueing" ELSE "accepted"
  IN  /\ server[s] = "serving"
      /\ client[q].pc = "idle"
      /\ client' = [client EXCEPT ![q] =
           [pc |-> to, at |-> s, key |-> k, run |-> r,
            body |-> IF to = "reserving" THEN b ELSE NoRun]]
      /\ UNCHANGED <<files, session, told, jobs, caches, task, claims, life>>

Make(r, q) ==
  made' = [made EXCEPT ![r] = [key |-> client[q].key, body |-> client[q].body]]

(* reserve() raised, or the API turned its refusal into an answer.         *)
ReserveFails(q) ==
  /\ client[q].pc = "reserving"
  /\ Answer(q, "refused", NoRun)
  /\ UNCHANGED <<files, session, told, jobs, caches, task, claims, life>>

(* create_or_get after the session is reserved: the key may have been      *)
(* taken meanwhile, and then only the body decides.                        *)
CreateOrGet(q) ==
  LET s == client[q].at
      k == client[q].key
  IN  /\ client[q].pc = "reserving"
      /\ \/ /\ index[s][k] # NoRun
            /\ IF made[index[s][k]].body = client[q].body
               THEN Answer(q, "joined", index[s][k])
               ELSE Answer(q, "refused", NoRun)
            /\ UNCHANGED <<files, session, caches>>
         \/ /\ index[s][k] = NoRun
            /\ \E r \in Runs : made[r] = Unmade
            /\ LET r == FreshRun IN
                 /\ Make(r, q)
                 /\ Save(s, r, "queued")
                 /\ index' = [index EXCEPT ![s][k] = r]
                 /\ session' = [session EXCEPT ![r] = TRUE]
                 /\ Answer(q, "enqueueing", r)
      /\ UNCHANGED <<told, jobs, task, claims, life>>

Enqueued(q) ==
  /\ client[q].pc = "enqueueing"
  /\ EnsureEnqueued(client[q].run)
  /\ Answer(q, "accepted", client[q].run)
  /\ UNCHANGED <<files, session, told, caches, task, claims, life>>

(* The database failed before the commit, or after it: the client gets an  *)
(* error either way.                                                       *)
EnqueueFails(q) ==
  /\ client[q].pc = "enqueueing"
  /\ UNCHANGED jobs \/ EnsureEnqueued(client[q].run)
  /\ Answer(q, "refused", NoRun)
  /\ UNCHANGED <<files, session, told, caches, task, claims, life>>
-----------------------------------------------------------------------------
(* A poller claims a job that waits, or one that is running with a lapsed  *)
(* lease, whether or not a task still executes it.  The engine's pollers   *)
(* claim chatter jobs too and have no handler for them.                    *)
Claim(t, r) ==
  /\ Up(Here(t))
  /\ task[t] = Idle
  /\ Queue!Start(r)
  /\ worker' = [worker EXCEPT ![r] = Here(t)]
  /\ overlapped' = IF \E u \in Tasks : task[u].run = r
                   THEN overlapped \cup {r} ELSE overlapped
  /\ \E pc \in {"entering", "raising"} :
       task' = [task EXCEPT ![t] = [Idle EXCEPT !.run = r, !.pc = pc]]
  /\ UNCHANGED <<files, session, told, caches, client, life>>

(* The claim that finds the budget of a job with a lapsed lease spent.     *)
ClaimGivesUp(t, r) ==
  /\ Up(Here(t))
  /\ task[t] = Idle
  /\ Queue!GiveUp(r)
  /\ UNCHANGED <<files, session, told, caches, task, client, claims, life>>

(* Mutant: a failed run is not taken for ended.                            *)
AlreadySucceeded(st) == st = "succeeded"
AlreadyEnded(st) == st \in Terminal

(* process() up to the preparation.  A run nobody can read raises; one that *)
(* this server had not cached is cached now, under its key too.            *)
Enter(t) ==
  LET r == task[t].run
      s == Here(t)
      st == Known(s, r)
  IN  /\ task[t].pc = "entering"
      /\ \/ st = "none" /\ Goto(t, "raising") /\ UNCHANGED <<disk, mem>>
         \/ /\ AlreadyEnded(st)
            /\ Cache(s, r, st)
            /\ Goto(t, "returning")
            /\ UNCHANGED disk
         \/ /\ st # "none" /\ ~AlreadyEnded(st)
            /\ Save(s, r, "running")
            /\ Goto(t, "preparing")
      /\ index' = IF mem[s][r] = "none" /\ st # "none"
                  THEN [index EXCEPT ![s][made[r].key] = r] ELSE index
      /\ UNCHANGED <<made, session, told, jobs, client, claims, life>>

(* The context is ready and saved with the run; generation starts.         *)
Prepared(t) ==
  /\ task[t].pc = "preparing"
  /\ session[task[t].run]
  /\ Write(task[t].run, mem[Here(t)][task[t].run])
  /\ Goto(t, "calling")
  /\ UNCHANGED <<made, session, told, jobs, caches, client, claims, life>>

(* Mutant: the outcome is announced from the cache and never saved.        *)
ConcludeInCache(t, st) ==
  /\ Cache(Here(t), task[t].run, st)
  /\ WindUp(t, "notifying", st)
  /\ UNCHANGED <<files, session, told, jobs, index, client, claims, life>>

(* Every end of a run: the outcome is saved, and the payload of the        *)
(* callback is taken from it before anything else can run.                 *)
Conclude(t, st) ==
  /\ Save(Here(t), task[t].run, st)
  /\ WindUp(t, "notifying", st)
  /\ UNCHANGED <<made, session, told, jobs, index, client, claims, life>>

(* Mutant: a failed preparation forgets the save.                          *)
PreparationFailsUnsaved(t) ==
  task[t].pc = "preparing" /\ ConcludeInCache(t, "failed")
PreparationFails(t) == task[t].pc = "preparing" /\ Conclude(t, "failed")

(* Mutant: one call past the end of the list.                              *)
CallingOnceMore(t) == task[t].pc = "calling" /\ task[t].next <= Providers + 1
Calling(t) == task[t].pc = "calling" /\ task[t].next <= Providers

(* A usable reply: the cached run is a success from here on, the file not. *)
Answered(t) ==
  /\ Calling(t)
  /\ Cache(Here(t), task[t].run, "succeeded")
  /\ Goto(t, "recording")
  /\ UNCHANGED <<files, session, told, jobs, index, client, claims, life>>

TryNext(t) == task' = [task EXCEPT ![t].next = @ + 1]

ProviderFails(t) ==
  /\ Calling(t)
  /\ TryNext(t)
  /\ UNCHANGED <<files, session, told, jobs, caches, client, claims, life>>

(* The reply came, its document could not be rendered: the next provider   *)
(* is tried with the state left at succeeded.                              *)
ArtifactFails(t) ==
  /\ Calling(t)
  /\ Cache(Here(t), task[t].run, "succeeded")
  /\ TryNext(t)
  /\ UNCHANGED <<files, session, told, jobs, index, client, claims, life>>

(* The turn is recorded, or its recording failed and was logged.           *)
Recorded(t) ==
  /\ task[t].pc = "recording"
  /\ Conclude(t, mem[Here(t)][task[t].run])

OutOfProviders(t) ==
  /\ task[t].pc = "calling"
  /\ task[t].next > Providers
  /\ Conclude(t, "failed")

(* The callback was delivered, or given up; no poll or retry depends on it. *)
Notified(t) ==
  LET r == task[t].run
  IN  /\ task[t].pc = "notifying"
      /\ \/ told' = [told EXCEPT ![r] = @ \cup {task[t].news}]
         \/ UNCHANGED told
      /\ WindUp(t, "returning", "none")
      /\ UNCHANGED <<files, session, jobs, caches, client, claims, life>>

LetGo(t) == task' = [task EXCEPT ![t] = Idle]

(* The row's guards: a task settles the job while it is running under the  *)
(* id its server claims with, which every task of the server shares.       *)
Owns(t) ==
  LET r == task[t].run IN phase[r] = "running" /\ worker[r] = Here(t)

Complete(t) ==
  LET r == task[t].run
  IN  IF Owns(t) THEN Queue!Finish(r) /\ phase'[r] = "succeeded" ELSE UNCHANGED jobs

RetryOrFail(t) ==
  LET r == task[t].run
  IN  IF Owns(t) THEN Queue!Retry(r) \/ Queue!GiveUp(r) ELSE UNCHANGED jobs

(* complete() may fail, before its commit or after it.                     *)
Returned(t) ==
  /\ task[t].pc = "returning"
  /\ \/ Complete(t) /\ LetGo(t)
     \/ (Complete(t) \/ UNCHANGED jobs) /\ Goto(t, "raising")
  /\ UNCHANGED <<files, session, told, caches, client, claims, life>>

Raised(t) ==
  /\ task[t].pc = "raising"
  /\ RetryOrFail(t)
  /\ LetGo(t)
  /\ UNCHANGED <<files, session, told, caches, client, claims, life>>
-----------------------------------------------------------------------------
(* Runs whose file a task of the server may be writing.                    *)
Writing(s) ==
  {task[t].run : t \in {u \in Tasks :
     /\ Here(u) = s
     /\ \/ task[u].pc \in {"preparing", "calling", "recording"}
        \/ task[u].pc = "entering" /\ Known(s, task[u].run) \in Active}}

(* A crash may catch one write_text half done: the save of a run, or the   *)
(* first one of a run that a request is about to make.                     *)
TearNew(q) ==
  /\ client[q].pc = "reserving"
  /\ index[client[q].at][client[q].key] = NoRun
  /\ \E r \in Runs : made[r] = Unmade
  /\ Make(FreshRun, q)
  /\ Write(FreshRun, "torn")

MayTear(s) ==
  \/ UNCHANGED files
  \/ UNCHANGED made /\ \E r \in Writing(s) : Write(r, "torn")
  \/ \E q \in Clients : client[q].at = s /\ TearNew(q)

(* The process is gone: caches, tasks and answers with it.                 *)
Crash(s) ==
  /\ Up(s)
  /\ crashes < MaxCrashes
  /\ crashes' = crashes + 1
  /\ MayTear(s)
  /\ mem' = [mem EXCEPT ![s] = [r \in Runs |-> "none"]]
  /\ index' = [index EXCEPT ![s] = [k \in Keys |-> NoRun]]
  /\ server' = [server EXCEPT ![s] = "down"]
  /\ todo' = [todo EXCEPT ![s] = {}]
  /\ task' = [t \in Tasks |-> IF Here(t) = s THEN Idle ELSE task[t]]
  /\ client' = [q \in Clients |->
       IF client[q].at = s /\ client[q].pc \in {"reserving", "enqueueing"}
       THEN [client[q] EXCEPT !.pc = "refused", !.run = NoRun, !.body = NoRun]
       ELSE client[q]]
  /\ UNCHANGED <<session, told, jobs, claims>>

(* Neon is emptied on purpose: the sessions go, and their jobs with them.  *)
DatabaseReset ==
  /\ MayReset
  /\ \A s \in Servers : ~Up(s)
  /\ session' = [r \in Runs |-> FALSE]
  /\ phase' = [r \in Runs |-> "absent"]
  /\ tries' = [r \in Runs |-> 0]
  /\ UNCHANGED <<files, told, caches, task, client, claims, life>>

(* Mutant: finished runs are not indexed again.                            *)
UnfinishedRunsOf(k) == {r \in Runs : disk[r] \in Active /\ made[r].key = k}
RunsOf(k) == {r \in Runs : disk[r] \in States /\ made[r].key = k}

(* A new process reads every file it can; its pollers start before the     *)
(* recovery of the unfinished runs, the HTTP routes after it.              *)
Boot(s) ==
  LET readable == {r \in Runs : disk[r] \in States}
  IN  /\ server[s] = "down"
      /\ mem' = [mem EXCEPT ![s] =
           [r \in Runs |-> IF r \in readable THEN disk[r] ELSE "none"]]
      /\ \E f \in [Keys -> Runs \cup {NoRun}] :
           /\ \A k \in Keys :
                f[k] \in IF RunsOf(k) = {} THEN {NoRun} ELSE RunsOf(k)
           /\ index' = [index EXCEPT ![s] = f]
      /\ server' = [server EXCEPT ![s] = "recovering"]
      /\ todo' = [todo EXCEPT ![s] = {r \in readable : disk[r] \in Active}]
      /\ UNCHANGED <<files, session, told, jobs, task, client, claims, crashes>>

(* Mutant: a run without a session is passed over and stays unfinished.    *)
RecoverSkipsOrphans(s, r) ==
  /\ server[s] = "recovering"
  /\ r \in todo[s]
  /\ IF session[r] THEN EnsureEnqueued(r) ELSE UNCHANGED jobs
  /\ todo' = [todo EXCEPT ![s] = @ \ {r}]
  /\ UNCHANGED <<files, mem, session, told, index, server, task, client,
                 claims, crashes>>

(* One round of recover_active_runs.  A run whose session is gone fails    *)
(* without a callback.                                                     *)
Recover(s, r) ==
  /\ server[s] = "recovering"
  /\ r \in todo[s]
  /\ IF session[r]
     THEN EnsureEnqueued(r) /\ UNCHANGED <<disk, mem>>
     ELSE Save(s, r, "failed") /\ UNCHANGED jobs
  /\ todo' = [todo EXCEPT ![s] = @ \ {r}]
  /\ UNCHANGED <<made, session, told, index, server, task, client, claims, crashes>>

Serve(s) ==
  /\ server[s] = "recovering"
  /\ todo[s] = {}
  /\ server' = [server EXCEPT ![s] = "serving"]
  /\ UNCHANGED <<files, session, told, jobs, caches, todo, task, client,
                 claims, crashes>>
-----------------------------------------------------------------------------
Init ==
  /\ disk = [r \in Runs |-> "none"]
  /\ made = [r \in Runs |-> Unmade]
  /\ session = [r \in Runs |-> FALSE]
  /\ told = [r \in Runs |-> {}]
  /\ Queue!Init
  /\ worker = [r \in Runs |-> NoRun]
  /\ overlapped = {}
  /\ mem = [s \in Servers |-> [r \in Runs |-> "none"]]
  /\ index = [s \in Servers |-> [k \in Keys |-> NoRun]]
  /\ server = [s \in Servers |-> "serving"]
  /\ todo = [s \in Servers |-> {}]
  /\ task = [t \in Tasks |-> Idle]
  /\ client = [q \in Clients |-> NoRequest]
  /\ crashes = 0

Reply(q) ==
  ReserveFails(q) \/ CreateOrGet(q) \/ Enqueued(q) \/ EnqueueFails(q)

Process(t) ==
  \/ Enter(t) \/ Prepared(t) \/ PreparationFails(t)
  \/ Answered(t) \/ ProviderFails(t) \/ ArtifactFails(t) \/ Recorded(t)
  \/ OutOfProviders(t) \/ Notified(t) \/ Returned(t) \/ Raised(t)

Restart(s) == Boot(s) \/ Serve(s) \/ \E r \in Runs : Recover(s, r)

Next ==
  \/ \E q \in Clients, s \in Servers, k \in Keys :
       \E b \in Says[q] : Ask(q, s, k, b)
  \/ \E q \in Clients : Reply(q)
  \/ \E t \in Tasks, r \in Runs : Claim(t, r) \/ ClaimGivesUp(t, r)
  \/ \E t \in Tasks : Process(t)
  \/ \E s \in Servers : Restart(s) \/ Crash(s)
  \/ DatabaseReset

(* Requests are answered, pollers poll, the calls of a task time out, and  *)
(* a supervisor restarts a server.  Nothing obliges a lease to lapse under *)
(* a task, a client to ask or a server to crash.                           *)
Abandoned(r) == \A t \in Tasks : task[t].run # r

Work(t) ==
  \/ Process(t)
  \/ \E r \in Runs : Abandoned(r) /\ (Claim(t, r) \/ ClaimGivesUp(t, r))

Fairness ==
  /\ \A q \in Clients : WF_vars(Reply(q))
  /\ \A t \in Tasks : WF_vars(Work(t))
  /\ \A s \in Servers : WF_vars(Restart(s))

Spec == Init /\ [][Next]_vars /\ Fairness
-----------------------------------------------------------------------------
FileStates == {"none", "torn"} \cup States
Stages == {"entering", "preparing", "calling", "recording", "notifying",
           "returning", "raising"}

TaskRecords ==
  [run : Runs \cup {NoRun}, pc : {"idle"} \cup Stages,
   next : 1 .. Providers + 1, news : {"none"} \cup Terminal]
Requests ==
  [pc : {"idle", "reserving", "enqueueing", "refused"} \cup Accepted,
   at : Servers \cup {NoRun}, key : Keys \cup {NoRun},
   body : Bodies \cup {NoRun}, run : Runs \cup {NoRun}]
Contents == [key : Keys \cup {NoRun}, body : Bodies \cup {NoRun}]

TasksOK ==
  /\ task \in [Tasks -> TaskRecords]
  /\ \A t \in Tasks : task[t].run = NoRun <=> task[t].pc = "idle"

ClientsOK ==
  /\ client \in [Clients -> Requests]
  /\ \A q \in Clients :
       /\ client[q].pc \in {"enqueueing"} \cup Accepted => client[q].run \in Runs
       /\ client[q].pc \in {"reserving", "enqueueing"} =>
            client[q].at \in Servers /\ client[q].key \in Keys

(* Files, caches, jobs, tasks and requests are what the code can make of   *)
(* them.                                                                   *)
TypeOK ==
  /\ disk \in [Runs -> FileStates]
  /\ made \in [Runs -> Contents]
  /\ session \in [Runs -> BOOLEAN]
  /\ told \in [Runs -> SUBSET Terminal]
  /\ phase \in [Runs -> {"absent"} \cup States]
  /\ tries \in [Runs -> 0 .. MaxAttempts]
  /\ worker \in [Runs -> Servers \cup {NoRun}]
  /\ overlapped \subseteq Runs
  /\ mem \in [Servers -> [Runs -> {"none"} \cup States]]
  /\ index \in [Servers -> [Keys -> Runs \cup {NoRun}]]
  /\ server \in [Servers -> {"serving", "recovering", "down"}]
  /\ todo \in [Servers -> SUBSET Runs]
  /\ crashes \in 0 .. MaxCrashes
  /\ TasksOK /\ ClientsOK

(* "Completion is durable locally" (service.py:370): whatever is replayed, *)
(* retried, recovered or executed twice, a run whose outcome is in its     *)
(* file is never taken up again, and at worst a crash tears the file of a  *)
(* second execution.  The outcome itself lasts unless the run was claimed  *)
(* while a task still held it: then a failed execution may overwrite a     *)
(* success.                                                                *)
CompletionIsDurable ==
  [][\A r \in Runs : disk[r] \in Terminal =>
       /\ disk'[r] \in Terminal \cup {"torn"}
       /\ r \notin overlapped => disk'[r] = disk[r]]_vars

(* A job the queue counts as succeeded has left the outcome of its run on  *)
(* disk.  If the run was claimed under a live task, that task may still    *)
(* have to save it, and a crash before it does leaves it to the recovery.  *)
JobSuccessMeansSaved ==
  \A r \in Runs : phase[r] = "succeeded" =>
    \/ disk[r] \in Terminal \cup {"torn"}
    \/ /\ r \in overlapped
       /\ \/ \E t \in Tasks : task[t].run = r
          \/ \E s \in Servers : server[s] # "serving"

(* A client answered 202 for an unfinished run can count on its job, or on *)
(* a task that still executes the run, unless the client only joined the   *)
(* run of a request that may fail to queue it.                             *)
AcceptedIsBacked ==
  \A q \in Clients :
    LET r == client[q].run
    IN  /\ client[q].pc = "accepted"
        /\ disk[r] \in Active
        /\ \A s \in Servers : server[s] = "serving"
        => \/ phase[r] \in {"queued", "running", "failed"}
           \/ phase[r] = "succeeded" /\ \E t \in Tasks : task[t].run = r

(* Two clients answered for one key, before and after a restart included,  *)
(* were given the same run, unless a crash tore its file.                  *)
KeyKeepsItsRun ==
  \A p, q \in Clients :
    /\ client[p].pc \in Accepted /\ client[q].pc \in Accepted
    /\ client[p].key = client[q].key
    => \/ client[p].run = client[q].run
       \/ "torn" \in {disk[client[p].run], disk[client[q].run]}

(* Odoo is never told of an outcome before one is saved, nor of a run that *)
(* a restart would find unfinished; and unless the run was claimed under a *)
(* live task, what it is told is what a restart would find.                *)
ToldWhatIsSaved ==
  \A r \in Runs :
    /\ told[r] # {} => disk[r] \in Terminal \cup {"torn"}
    /\ r \notin overlapped => told[r] \subseteq {disk[r]}

(* What a poll reads from the cache is ahead of the file only while a task *)
(* of that server is generating the reply or recording it.                 *)
CacheAheadOnlyAtWork ==
  \A s \in Servers, r \in Runs :
    mem[s][r] \notin {"none", disk[r]} =>
      \E t \in Tasks : /\ Here(t) = s /\ task[t].run = r
                       /\ task[t].pc \in {"calling", "recording"}

(* A queued run ends, through crashes, lost calls, misrouted claims and a  *)
(* database reset, unless its file is torn or the queue gives its job up.  *)
WorkComesToAnEnd ==
  \A r \in Runs :
    (disk[r] \in Active /\ phase[r] \in Active) ~>
      (disk[r] \in Terminal \cup {"torn"} \/ phase[r] = "failed")
=============================================================================
