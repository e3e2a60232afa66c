-------------------------- MODULE ChatterRunsProofs --------------------------
(***************************************************************************)
(* Proofs about ChatterRuns, for any number of pollers, clients, keys,     *)
(* runs, providers and crashes.                                            *)
(***************************************************************************)
EXTENDS ChatterRuns, TLAPS

(* The deployment the README names: one always-on server.                  *)
OneServer == \E s \in Servers : Servers = {s}

Working == {"preparing", "calling", "recording"}

(* Where a task may leave the cache ahead of the file.                     *)
Ahead == {"calling", "recording"}
AtWork(r) == \E t \in Tasks : task[t].run = r /\ task[t].pc \in Ahead

(* What a server that reads the file now would take the run for.           *)
Readable(st) == IF st \in States THEN st ELSE "none"

TaskGood(t) ==
  LET r == task[t].run
      held == mem[Here(t)][r]
  IN  task[t].pc # "idle" =>
        /\ Up(Here(t)) /\ session[r] /\ phase[r] # "absent"
        /\ task[t].pc \in Working => held \in States
        /\ task[t].pc \in {"recording", "notifying", "returning"} => held \in Terminal
        /\ task[t].pc = "notifying" => task[t].news \in Terminal /\ disk[r] \in Terminal
        /\ r \notin overlapped =>
             /\ task[t].pc \in Working =>
                  disk[r] = "running" /\ held \in {"running", "succeeded"}
             /\ task[t].pc = "preparing" => held = "running"
             /\ task[t].pc = "recording" => held = "succeeded"
             /\ task[t].pc = "notifying" => task[t].news = disk[r]

RunGood(r) ==
  /\ told[r] # {} => disk[r] \in Terminal \cup {"torn"}
  /\ made[r] = Unmade <=> disk[r] = "none"
  /\ made[r] = Unmade => ~session[r]
  /\ ~session[r] => phase[r] = "absent"
  /\ r \notin overlapped =>
       /\ told[r] \subseteq {disk[r]}
       /\ phase[r] = "succeeded" => disk[r] \in Terminal

CacheGood(s, r) ==
  /\ ~Up(s) => mem[s][r] = "none"
  /\ Up(s) /\ ~AtWork(r) => mem[s][r] = Readable(disk[r])
  /\ Up(s) /\ disk[r] \in Terminal => mem[s][r] \in Terminal
  /\ Up(s) /\ mem[s][r] # "none" => disk[r] \in States
  /\ mem[s][r] \in Active /\ ~session[r] => r \in todo[s]
  /\ r \in todo[s] => server[s] = "recovering"
  /\ r \in todo[s] /\ ~session[r] => disk[r] \in Active
  /\ phase[r] = "succeeded" /\ mem[s][r] \in Active => r \in todo[s]

ClientGood(q) ==
  /\ client[q].pc \in {"reserving", "enqueueing"} => Up(client[q].at)
  /\ client[q].pc = "enqueueing" => session[client[q].run]

(* Two tasks hold one run only once it was claimed under a live task.      *)
Alone == \A t, u \in Tasks :
  /\ task[t].run = task[u].run /\ task[t].run # NoRun
  /\ task[t].run \notin overlapped
  => t = u

IInv ==
  /\ TypeOK
  /\ Alone
  /\ \A t \in Tasks : TaskGood(t)
  /\ \A r \in Runs : RunGood(r)
  /\ \A s \in Servers, r \in Runs : CacheGood(s, r)
  /\ \A q \in Clients : ClientGood(q)


-----------------------------------------------------------------------------
(***************************************************************************)
(* Types.  Every action but a server's keeps most variables; each lemma    *)
(* takes the actions that touch one group.                                 *)
(***************************************************************************)
(* The queue's steps keep jobs well typed.                                 *)
LEMMA JobsTyped ==
  ASSUME phase \in [Runs -> {"absent"} \cup States],
         tries \in [Runs -> 0 .. MaxAttempts],
         NEW r \in Runs,
         \/ Queue!Submit(r) \/ Queue!Start(r) \/ Queue!Retry(r)
         \/ Queue!GiveUp(r) \/ EnsureEnqueued(r)
         \/ Queue!Finish(r) /\ phase'[r] = "succeeded"
  PROVE  /\ phase' \in [Runs -> {"absent"} \cup States]
         /\ tries' \in [Runs -> 0 .. MaxAttempts]
BY CountsAreNaturals
   DEF Queue!Submit, Queue!Start, Queue!Retry, Queue!GiveUp, Queue!Finish,
       Queue!Become, Queue!Done, Queue!HandedOver, EnsureEnqueued, States,
       Active, Terminal, jobs

(* Requests keep the types.                                                *)
LEMMA AskTyped ==
  ASSUME TypeOK, NEW q \in Clients, NEW s \in Servers, NEW k \in Keys,
         NEW b \in Bodies, Ask(q, s, k, b)
  PROVE  TypeOK'
<1> DEFINE r == index[s][k]
           to == IF r = NoRun THEN "reserving"
                 ELSE IF NeedsQueue(mem[s][r]) THEN "enqueueing" ELSE "accepted"
           asked == [pc |-> to, at |-> s, key |-> k, run |-> r,
                     body |-> IF to = "reserving" THEN b ELSE NoRun]
<1>1. r \in Runs \cup {NoRun}
  BY DEF TypeOK
<1>2. asked \in Requests /\ (to # "reserving" => r \in Runs)
  BY <1>1 DEF Requests, Accepted
<1>3. client' = [client EXCEPT ![q] = asked]
  BY DEF Ask
<1>4. /\ asked.pc = to /\ asked.run = r /\ asked.at = s /\ asked.key = k
      /\ to \in {"reserving", "enqueueing", "accepted"}
  OBVIOUS
<1> HIDE DEF asked, to, r
<1>5. \A p \in Clients : client'[p] = IF p = q THEN asked ELSE client[p]
  BY <1>3 DEF TypeOK, ClientsOK
<1>6. client' \in [Clients -> Requests]
  BY <1>2, <1>3 DEF TypeOK, ClientsOK
<1>7. ClientsOK'
  BY <1>2, <1>4, <1>5, <1>6 DEF TypeOK, ClientsOK, Accepted
<1> QED
  BY <1>7 DEF Ask, TypeOK, TasksOK, files, jobs, caches, life, claims

(* An answered request is well typed if its outcome is.                    *)
LEMMA AnswerTyped ==
  ASSUME ClientsOK, NEW q \in Clients,
         NEW pc \in {"enqueueing", "refused"} \cup Accepted,
         NEW r \in Runs \cup {NoRun},
         pc = "refused" \/ r \in Runs,
         client[q].pc \in {"reserving", "enqueueing"},
         Answer(q, pc, r)
  PROVE  ClientsOK'
<1> DEFINE answered == [client[q] EXCEPT !.pc = pc, !.run = r, !.body = NoRun]
<1>1. client[q] \in Requests /\ client[q].at \in Servers /\ client[q].key \in Keys
  BY DEF ClientsOK
<1>2. /\ answered \in Requests
      /\ answered.pc = pc /\ answered.run = r
      /\ answered.at = client[q].at /\ answered.key = client[q].key
  BY <1>1 DEF Requests
<1>3. client' = [client EXCEPT ![q] = answered]
  BY DEF Answer
<1> HIDE DEF answered
<1>4. client' \in [Clients -> Requests]
  BY <1>2, <1>3 DEF ClientsOK
<1>5. \A p \in Clients : client'[p] = IF p = q THEN answered ELSE client[p]
  BY <1>3 DEF ClientsOK
<1> QED
  BY <1>1, <1>2, <1>4, <1>5 DEF ClientsOK, Accepted

(* The id a new run gets is a run's.                                       *)
LEMMA FreshRunIsFresh ==
  ASSUME \E r \in Runs : made[r] = Unmade
  PROVE  FreshRun \in Runs /\ made[FreshRun] = Unmade
BY DEF FreshRun

LEMMA ReplyTyped ==
  ASSUME TypeOK, NEW q \in Clients, Reply(q)
  PROVE  TypeOK'
<1>1. CASE ReserveFails(q)
  <2>1. ClientsOK'
    BY <1>1, AnswerTyped DEF ReserveFails, TypeOK
  <2> QED
    BY <1>1, <2>1 DEF ReserveFails, TypeOK, TasksOK, files, jobs, caches, life, claims
<1>2. CASE CreateOrGet(q)
  <2> DEFINE s == client[q].at
             k == client[q].key
             x == index[s][k]
  <2>1. s \in Servers /\ k \in Keys /\ client[q].pc = "reserving"
    BY <1>2 DEF CreateOrGet, TypeOK, ClientsOK
  <2>2. x \in Runs \cup {NoRun} /\ client[q].body \in Bodies \cup {NoRun}
    BY <2>1 DEF TypeOK, ClientsOK, Requests
  <2>3. CASE x # NoRun
    <3>1. ClientsOK'
      BY <1>2, <2>1, <2>2, <2>3, AnswerTyped DEF CreateOrGet, TypeOK, Accepted
    <3> QED
      BY <1>2, <2>3, <3>1 DEF CreateOrGet, TypeOK, TasksOK, files, jobs, caches, life, claims
  <2>4. CASE x = NoRun
    <3> DEFINE r == FreshRun
    <3>1. r \in Runs
      BY <1>2, <2>4, FreshRunIsFresh DEF CreateOrGet
    <3>2. /\ Answer(q, "enqueueing", r)
          /\ made' = [made EXCEPT ![r] = [key |-> k, body |-> client[q].body]]
          /\ Save(s, r, "queued")
          /\ index' = [index EXCEPT ![s][k] = r]
          /\ session' = [session EXCEPT ![r] = TRUE]
          /\ UNCHANGED <<told, jobs, task, claims, life>>
      BY <1>2, <2>4 DEF CreateOrGet, Make
    <3>3. [key |-> k, body |-> client[q].body] \in Contents
      BY <2>1, <2>2 DEF Contents
    <3> HIDE DEF r, s, k
    <3>4. ClientsOK'
      BY <2>1, <3>1, <3>2, AnswerTyped DEF TypeOK
    <3>5. /\ made' \in [Runs -> Contents]
          /\ session' \in [Runs -> BOOLEAN]
          /\ index' \in [Servers -> [Keys -> Runs \cup {NoRun}]]
      BY <2>1, <3>1, <3>2, <3>3 DEF TypeOK
    <3>6. /\ disk' \in [Runs -> FileStates]
          /\ mem' \in [Servers -> [Runs -> {"none"} \cup States]]
      BY <2>1, <3>1, <3>2 DEF TypeOK, Save, Cache, Write, FileStates, States, Active
    <3> QED
      BY <3>2, <3>4, <3>5, <3>6 DEF TypeOK, TasksOK, jobs, life, claims
  <2> QED
    BY <2>3, <2>4
<1>3. CASE Enqueued(q)
  <2>1. client[q].run \in Runs
    BY <1>3 DEF Enqueued, TypeOK, ClientsOK
  <2>2. /\ phase' \in [Runs -> {"absent"} \cup States]
        /\ tries' \in [Runs -> 0 .. MaxAttempts]
    BY <1>3, <2>1, JobsTyped DEF Enqueued, TypeOK
  <2>3. ClientsOK'
    BY <1>3, <2>1, AnswerTyped DEF Enqueued, TypeOK, Accepted
  <2> QED
    BY <1>3, <2>2, <2>3 DEF Enqueued, TypeOK, TasksOK, files, caches, life, claims
<1>4. CASE EnqueueFails(q)
  <2>1. client[q].run \in Runs
    BY <1>4 DEF EnqueueFails, TypeOK, ClientsOK
  <2>2. /\ phase' \in [Runs -> {"absent"} \cup States]
        /\ tries' \in [Runs -> 0 .. MaxAttempts]
    BY <1>4, <2>1, JobsTyped DEF EnqueueFails, TypeOK, jobs
  <2>3. ClientsOK'
    BY <1>4, <2>1, AnswerTyped DEF EnqueueFails, TypeOK
  <2> QED
    BY <1>4, <2>2, <2>3 DEF EnqueueFails, TypeOK, TasksOK, files, caches, life, claims
<1> QED
  BY <1>1, <1>2, <1>3, <1>4 DEF Reply

(* A poller's record is replaced as a whole.                               *)
LEMMA TaskReplaced ==
  ASSUME TasksOK, NEW t \in Tasks, NEW x \in TaskRecords,
         x.run = NoRun <=> x.pc = "idle",
         task' = [task EXCEPT ![t] = x]
  PROVE  /\ TasksOK'
         /\ task'[t] = x
         /\ \A u \in Tasks : u # t => task'[u] = task[u]
<1>1. /\ task' \in [Tasks -> TaskRecords]
      /\ \A u \in Tasks : task'[u] = IF u = t THEN x ELSE task[u]
  BY DEF TasksOK
<1> QED
  BY <1>1 DEF TasksOK

(* What a poller at work looks like, and the records it moves on to.       *)
LEMMA BusyPoller ==
  ASSUME TypeOK, NEW t \in Tasks, task[t].pc # "idle"
  PROVE  /\ task[t] \in TaskRecords
         /\ task[t].run \in Runs
         /\ task[t].next \in 1 .. Providers + 1
         /\ Here(t) \in Servers
BY HomeIsAServer DEF TypeOK, TasksOK, TaskRecords, Here

Continues(t, pc) ==
  /\ TasksOK'
  /\ \A u \in Tasks : u # t => task'[u] = task[u]
  /\ task'[t].run = task[t].run
  /\ task'[t].pc = pc

LEMMA GotoContinues ==
  ASSUME TypeOK, NEW t \in Tasks, task[t].pc # "idle",
         NEW pc \in Stages, Goto(t, pc)
  PROVE  Continues(t, pc)
<1> DEFINE x == [task[t] EXCEPT !.pc = pc]
<1>1. task[t] \in TaskRecords /\ task[t].run \in Runs
  BY BusyPoller
<1>2. x \in TaskRecords /\ x.pc = pc /\ x.run = task[t].run
  BY <1>1 DEF TaskRecords
<1>3. task' = [task EXCEPT ![t] = x]
  BY DEF Goto
<1>4. x.run # NoRun /\ pc # "idle"
  BY <1>1, <1>2, NoRunIsNoRun DEF Stages
<1> HIDE DEF x
<1> QED
  BY <1>2, <1>3, <1>4, TaskReplaced DEF Continues, TypeOK

LEMMA TryNextContinues ==
  ASSUME TypeOK, NEW t \in Tasks, Calling(t), TryNext(t)
  PROVE  Continues(t, "calling")
<1> DEFINE x == [task[t] EXCEPT !.next = @ + 1]
<1>1. /\ task[t] \in TaskRecords /\ task[t].run \in Runs
      /\ task[t].next \in 1 .. Providers + 1
  BY BusyPoller DEF Calling
<1>2. task[t].next + 1 \in 1 .. Providers + 1
  BY <1>1, CountsAreNaturals DEF Calling
<1>3. x \in TaskRecords /\ x.pc = "calling" /\ x.run = task[t].run
  BY <1>1, <1>2 DEF TaskRecords, Calling
<1>4. task' = [task EXCEPT ![t] = x]
  BY DEF TryNext
<1>5. x.run # NoRun
  BY <1>1, <1>3, NoRunIsNoRun
<1> HIDE DEF x
<1> QED
  BY <1>3, <1>4, <1>5, TaskReplaced DEF Continues, TypeOK

(* The record of a poller with nothing to do.                              *)
LEMMA IdleRecord ==
  Idle \in TaskRecords /\ Idle.run = NoRun /\ Idle.pc = "idle"
BY CountsAreNaturals DEF Idle, TaskRecords

(* A poller's record after the run has reached an end, or is being left.   *)
LEMMA EndContinues ==
  ASSUME TypeOK, NEW t \in Tasks, task[t].pc # "idle",
         NEW pc \in Stages, NEW st \in {"none"} \cup Terminal,
         WindUp(t, pc, st)
  PROVE  Continues(t, pc) /\ task'[t].news = st
<1> DEFINE x == [Idle EXCEPT !.run = task[t].run, !.pc = pc, !.news = st]
<1>1. task[t].run \in Runs
  BY BusyPoller
<1>2. /\ x \in TaskRecords /\ x.pc = pc /\ x.run = task[t].run
      /\ x.news = st
  <2>1. /\ Idle \in TaskRecords
    BY IdleRecord
  <2>2. [Idle EXCEPT !.run = task[t].run] \in TaskRecords
    BY <1>1, <2>1 DEF TaskRecords
  <2> QED
    BY <1>1, <2>1, <2>2 DEF TaskRecords
<1>3. task' = [task EXCEPT ![t] = x]
  BY DEF WindUp
<1>4. x.run # NoRun /\ pc # "idle"
  BY <1>1, <1>2, NoRunIsNoRun DEF Stages
<1>5. TasksOK
  BY DEF TypeOK
<1> HIDE DEF x
<1>6. /\ TasksOK'
      /\ task'[t] = x
      /\ \A u \in Tasks : u # t => task'[u] = task[u]
  BY <1>2, <1>3, <1>4, <1>5, TaskReplaced
<1> QED
  BY <1>2, <1>6 DEF Continues

(* Files and caches keep their types when a known state is saved.          *)
LEMMA SavesTyped ==
  ASSUME TypeOK, NEW s \in Servers, NEW r \in Runs, NEW st \in States
  PROVE  /\ Cache(s, r, st) => mem' \in [Servers -> [Runs -> {"none"} \cup States]]
         /\ Write(r, st) => disk' \in [Runs -> FileStates]
<1>1. Write(r, st) => disk' \in [Runs -> FileStates]
  BY DEF TypeOK, Write, FileStates
<1>2. ASSUME Cache(s, r, st)
      PROVE  mem' \in [Servers -> [Runs -> {"none"} \cup States]]
  <2>1. mem \in [Servers -> [Runs -> {"none"} \cup States]]
    BY DEF TypeOK
  <2>2. [mem[s] EXCEPT ![r] = st] \in [Runs -> {"none"} \cup States]
    BY <2>1
  <2>3. mem' = [mem EXCEPT ![s] = [mem[s] EXCEPT ![r] = st]]
    BY <1>2 DEF Cache
  <2> QED
    BY <2>1, <2>2, <2>3
<1> QED
  BY <1>1, <1>2

(* The steps of a poller keep the types.                                   *)
LEMMA ConcludeTyped ==
  ASSUME TypeOK, NEW t \in Tasks, task[t].pc # "idle",
         NEW st \in Terminal, Conclude(t, st)
  PROVE  TypeOK' /\ Continues(t, "notifying") /\ task'[t].news = st
<1>1. task[t].run \in Runs /\ Here(t) \in Servers /\ st \in States
  BY BusyPoller DEF States
<1>2. Continues(t, "notifying") /\ task'[t].news = st
  BY EndContinues DEF Conclude, Stages
<1>3. /\ mem' \in [Servers -> [Runs -> {"none"} \cup States]]
      /\ disk' \in [Runs -> FileStates]
  BY <1>1, SavesTyped DEF Conclude, Save
<1> QED
  BY <1>2, <1>3 DEF Conclude, TypeOK, Continues, ClientsOK, jobs, life, claims

LEMMA EnterTyped ==
  ASSUME TypeOK, NEW t \in Tasks, Enter(t)
  PROVE  TypeOK' /\ \E pc \in {"raising", "returning", "preparing"} : Continues(t, pc)
<1> DEFINE r == task[t].run
           s == Here(t)
           st == Known(s, r)
<1>1. r \in Runs /\ s \in Servers /\ task[t].pc # "idle"
  BY BusyPoller DEF Enter
<1>2. st \in {"none"} \cup States
  BY <1>1 DEF Known, TypeOK
<1>3. index' \in [Servers -> [Keys -> Runs \cup {NoRun}]]
  BY <1>1 DEF Enter, TypeOK
<1>4. UNCHANGED <<made, session, told, jobs, client, claims, life>>
  BY DEF Enter
<1>5. CASE st = "none" /\ Goto(t, "raising") /\ UNCHANGED <<disk, mem>>
  <2>1. Continues(t, "raising")
    BY <1>1, <1>5, GotoContinues DEF Stages
  <2> QED
    BY <1>3, <1>4, <1>5, <2>1 DEF TypeOK, Continues, ClientsOK, jobs, life, claims
<1>6. CASE AlreadyEnded(st) /\ Cache(s, r, st) /\ Goto(t, "returning") /\ UNCHANGED disk
  <2>1. Continues(t, "returning")
    BY <1>1, <1>6, GotoContinues DEF Stages
  <2>2. st \in States
    BY <1>6 DEF AlreadyEnded, States
  <2>3. mem' \in [Servers -> [Runs -> {"none"} \cup States]]
    BY <1>1, <1>6, <2>2, SavesTyped
  <2> QED
    BY <1>3, <1>4, <1>6, <2>1, <2>3 DEF TypeOK, Continues, ClientsOK, jobs, life, claims
<1>7. CASE Save(s, r, "running") /\ Goto(t, "preparing")
  <2>1. Continues(t, "preparing")
    BY <1>1, <1>7, GotoContinues DEF Stages
  <2>2. "running" \in States
    BY DEF States, Active
  <2>3. /\ mem' \in [Servers -> [Runs -> {"none"} \cup States]]
        /\ disk' \in [Runs -> FileStates]
    BY <1>1, <1>7, <2>2, SavesTyped DEF Save
  <2> QED
    BY <1>3, <1>4, <2>1, <2>3 DEF TypeOK, Continues, ClientsOK, jobs, life, claims
<1> QED
  BY <1>5, <1>6, <1>7 DEF Enter

LEMMA CallsTyped ==
  ASSUME TypeOK, NEW t \in Tasks,
         Answered(t) \/ ProviderFails(t) \/ ArtifactFails(t)
  PROVE  TypeOK' /\ \E pc \in {"calling", "recording"} : Continues(t, pc)
<1>1. /\ task[t].run \in Runs /\ Here(t) \in Servers /\ task[t].pc # "idle"
      /\ "succeeded" \in States
  BY BusyPoller DEF Answered, ProviderFails, ArtifactFails, Calling, States, Terminal
<1>2. mem' \in [Servers -> [Runs -> {"none"} \cup States]]
  BY <1>1, SavesTyped DEF Answered, ProviderFails, ArtifactFails, TypeOK, caches
<1>3. CASE Answered(t)
  <2>1. Continues(t, "recording")
    BY <1>1, <1>3, GotoContinues DEF Answered, Stages
  <2> QED
    BY <1>2, <1>3, <2>1 DEF Answered, TypeOK, Continues, ClientsOK, jobs, life, claims, files
<1>4. CASE ProviderFails(t)
  <2>1. Continues(t, "calling")
    BY <1>1, <1>4, TryNextContinues DEF ProviderFails
  <2> QED
    BY <1>2, <1>4, <2>1 DEF ProviderFails, TypeOK, Continues, ClientsOK, jobs, life, claims, files, caches
<1>5. CASE ArtifactFails(t)
  <2>1. Continues(t, "calling")
    BY <1>1, <1>5, TryNextContinues DEF ArtifactFails
  <2> QED
    BY <1>2, <1>5, <2>1 DEF ArtifactFails, TypeOK, Continues, ClientsOK, jobs, life, claims, files
<1> QED
  BY <1>3, <1>4, <1>5

-----------------------------------------------------------------------------
(***************************************************************************)
(* The invariant.  A step of a poller touches its own record, and the file *)
(* and the cache entry of its own run; the lemma says when that is enough. *)
(***************************************************************************)
Durable == \A r \in Runs : disk[r] \in Terminal =>
  /\ disk'[r] \in Terminal \cup {"torn"}
  /\ r \notin overlapped => disk'[r] = disk[r]

(* A run's file may go from disk[r] to d, its cache to m: outcomes stay    *)
(* outcomes, and a run readable before is readable after.                  *)
FileStep(r, d) ==
  /\ disk[r] \in Terminal => d \in Terminal
  /\ disk[r] \in Terminal /\ r \notin overlapped => d = disk[r]
  /\ disk[r] \in States <=> d \in States
  /\ disk[r] \notin States => d = disk[r]
AheadNext(r) == \E t \in Tasks : task'[t].run = r /\ task'[t].pc \in Ahead
CacheStep(s, r, d, m) ==
  /\ m \in {"none"} \cup States
  /\ mem[s][r] \in Terminal => m \in Terminal
  /\ mem[s][r] = "none" <=> m = "none"
  /\ m # "none" => d \in States
  /\ d \in Terminal => m \in Terminal
  /\ AheadNext(r) \/ m = Readable(d)
TellStep(r, d) ==
  /\ \A x \in Runs : x # r => told'[x] = told[x]
  /\ told'[r] # {} => d \in Terminal \cup {"torn"}
  /\ r \notin overlapped => told'[r] \subseteq {d}
JobStep(r, d, m) ==
  \/ phase' = phase
  \/ /\ phase' = [phase EXCEPT ![r] = "succeeded"]
     /\ m \in Terminal
     /\ r \notin overlapped => d \in Terminal

(* What a poller at pc needs of its run, as in TaskGood.                   *)
Fits(pc, r, d, m, news) ==
  /\ pc \in Working => m \in States
  /\ pc \in {"recording", "notifying", "returning"} => m \in Terminal
  /\ pc = "notifying" => news \in Terminal /\ d \in Terminal
  /\ r \notin overlapped =>
       /\ pc \in Working => d = "running" /\ m \in {"running", "succeeded"}
       /\ pc = "preparing" => m = "running"
       /\ pc = "recording" => m = "succeeded"
       /\ pc = "notifying" => news = d

(* Poller t moves on to pc, leaves d in the file and m in the cache.       *)
PollerStep(t, pc, d, m) ==
  /\ task[t].pc # "idle"
  /\ Continues(t, pc)
  /\ disk' = [disk EXCEPT ![task[t].run] = d]
  /\ mem' = [mem EXCEPT ![Here(t)][task[t].run] = m]
  /\ UNCHANGED <<made, session, client, server, todo, overlapped>>
  /\ FileStep(task[t].run, d)
  /\ CacheStep(Here(t), task[t].run, d, m)
  /\ TellStep(task[t].run, d)
  /\ JobStep(task[t].run, d, m)
  /\ Fits(pc, task[t].run, d, m, task'[t].news)

(* The poller's step touches one run; other tasks may hold it too.         *)
LEMMA TaskStepKeeps ==
  ASSUME OneServer, IInv, TypeOK', NEW t \in Tasks, NEW pc \in Stages,
         NEW d, NEW m, PollerStep(t, pc, d, m)
  PROVE  IInv' /\ Durable
<1> DEFINE r == task[t].run
           s == Here(t)
<1>1. /\ r \in Runs /\ s \in Servers /\ r # NoRun
      /\ Up(s) /\ session[r] /\ phase[r] # "absent"
  BY BusyPoller, NoRunIsNoRun DEF IInv, TaskGood, PollerStep
<1>2. /\ \A x \in Runs : disk'[x] = IF x = r THEN d ELSE disk[x]
      /\ \A x \in Runs : mem'[s][x] = IF x = r THEN m ELSE mem[s][x]
      /\ UNCHANGED <<made, session, client, server, todo, overlapped>>
  BY <1>1 DEF IInv, TypeOK, PollerStep
<1>3. \A u \in Servers : u = s
  BY <1>1 DEF OneServer
<1>4. /\ task'[t].run = r /\ task'[t].pc = pc
      /\ \A u \in Tasks : u # t => task'[u] = task[u]
  BY DEF Continues, PollerStep
<1>5. /\ FileStep(r, d) /\ CacheStep(s, r, d, m) /\ TellStep(r, d)
      /\ Fits(pc, r, d, m, task'[t].news)
  BY DEF PollerStep
<1>6. \A u \in Tasks : Here(u) = s
  BY <1>3, HomeIsAServer DEF Here
<1>7. \A x \in Runs :
        \/ phase'[x] = phase[x]
        \/ /\ x = r /\ phase'[x] = "succeeded" /\ m \in Terminal
           /\ r \notin overlapped => d \in Terminal
  BY DEF IInv, TypeOK, PollerStep, JobStep
<1> HIDE DEF r, s
<1>8. Alone'
  BY <1>1, <1>2, <1>4 DEF IInv, Alone, r
<1>9. ASSUME NEW u \in Tasks PROVE TaskGood(u)'
  <2>1. Here(u)' = s /\ Here(u) = s /\ Up(s)'
    BY <1>1, <1>2, <1>6 DEF Here, Up
  <2>2. CASE u = t
    BY <1>1, <1>2, <1>4, <1>5, <1>7, <2>1, <2>2 DEF TaskGood, Fits
  <2>3. CASE u # t
    <3>1. CASE task[u].pc = "idle"
      BY <1>4, <2>3, <3>1 DEF TaskGood
    <3>2. CASE task[u].pc # "idle"
      <4>1. task[u].run \in Runs /\ (task[u].run = r => r \in overlapped)
        BY <1>1, <2>3, <3>2, BusyPoller DEF IInv, Alone, r
      <4>2. TaskGood(u) /\ task'[u] = task[u] /\ mem[s][task[u].run] \in {"none"} \cup States
        BY <1>1, <1>4, <2>3, <4>1 DEF IInv, TypeOK
      <4>3. CASE task[u].run # r
        <5>1. /\ disk'[task[u].run] = disk[task[u].run]
              /\ mem'[s][task[u].run] = mem[s][task[u].run]
              /\ phase'[task[u].run] = phase[task[u].run]
          BY <1>2, <1>7, <4>1, <4>3
        <5> QED
          BY <1>2, <2>1, <3>2, <4>2, <4>3, <5>1 DEF TaskGood
      <4>4. CASE task[u].run = r
        <5>1. /\ disk'[r] = d /\ mem'[s][r] = m /\ phase'[r] # "absent"
              /\ r \in overlapped'
          BY <1>1, <1>2, <1>7, <4>1, <4>4
        <5>2. /\ mem[s][r] \in States => m \in States
              /\ mem[s][r] \in Terminal => m \in Terminal
              /\ disk[r] \in Terminal => d \in Terminal
          BY <1>5 DEF FileStep, CacheStep, States, Active, Terminal
        <5> QED
          BY <1>2, <2>1, <3>2, <4>2, <4>4, <5>1, <5>2 DEF TaskGood
      <4> QED
        BY <4>3, <4>4
    <3> QED
      BY <3>1, <3>2
  <2> QED
    BY <2>2, <2>3
<1>10. ASSUME NEW x \in Runs PROVE RunGood(x)'
  <2>1. RunGood(x)
    BY DEF IInv
  <2>2. CASE x # r
    BY <1>2, <1>5, <1>7, <2>1, <2>2 DEF RunGood, TellStep
  <2>3. CASE x = r
    <3>1. disk'[r] = d /\ (disk[r] = "none" <=> d = "none")
      BY <1>1, <1>2, <1>5 DEF FileStep, States, Active, Terminal
    <3>2. phase'[r] = "succeeded" /\ r \notin overlapped => d \in Terminal
      BY <1>1, <1>5, <1>7, <2>1, <2>3 DEF RunGood, FileStep
    <3> QED
      BY <1>1, <1>2, <1>5, <2>1, <2>3, <3>1, <3>2 DEF RunGood, TellStep
  <2> QED
    BY <2>2, <2>3
<1>11. ASSUME NEW x \in Runs PROVE CacheGood(s, x)'
  <2>1. CacheGood(s, x) /\ mem[s][x] \in {"none"} \cup States
    BY <1>3, <1>1 DEF IInv, TypeOK
  <2>2. Up(s)'
    BY <1>1, <1>2 DEF Up
  <2>3. CASE x = r
    <3>1. /\ disk'[x] = d /\ mem'[s][x] = m /\ session'[x]
          /\ UNCHANGED <<server, todo>>
      BY <1>1, <1>2, <2>3
    <3>2. m \in Active => mem[s][x] \in Active /\ m \notin Terminal
      BY <1>5, <2>1, <2>3 DEF CacheStep, States, Active, Terminal
    <3>3. phase'[x] = "succeeded" /\ m \in Active => x \in todo[s]
      BY <1>7, <2>1, <3>2 DEF CacheGood
    <3> QED
      BY <1>5, <2>1, <2>2, <2>3, <3>1, <3>3 DEF CacheGood, CacheStep, AtWork, AheadNext
  <2>4. CASE x # r
    <3>1. AtWork(x)' <=> AtWork(x)
      BY <1>4, <2>4 DEF AtWork, r
    <3>2. /\ disk'[x] = disk[x] /\ mem'[s][x] = mem[s][x] /\ phase'[x] = phase[x]
          /\ UNCHANGED <<session, server, todo>>
      BY <1>2, <1>7, <2>4
    <3> QED
      BY <1>1, <2>1, <2>2, <3>1, <3>2 DEF CacheGood
  <2> QED
    BY <2>3, <2>4
<1>12. \A q \in Clients : ClientGood(q)'
  BY <1>2 DEF IInv, ClientGood, Up
<1>13. Durable
  BY <1>2, <1>5 DEF Durable, FileStep
<1> QED
  BY <1>3, <1>8, <1>9, <1>10, <1>11, <1>12, <1>13 DEF IInv

(* The cache entry and the file of a poller's run before its next step.    *)
LEMMA RunInHand ==
  ASSUME OneServer, IInv, NEW t \in Tasks, task[t].pc # "idle"
  PROVE  LET r == task[t].run
             s == Here(t)
         IN  /\ r \in Runs /\ s \in Servers /\ Up(s) /\ session[r]
             /\ TaskGood(t) /\ RunGood(r) /\ CacheGood(s, r)
             /\ disk[r] \in FileStates /\ mem[s][r] \in {"none"} \cup States
             /\ told[r] \subseteq Terminal
             /\ Known(s, r) = mem[s][r]
             /\ AtWork(r) \/ mem[s][r] = Readable(disk[r])
             /\ task[t].pc \notin Ahead /\ r \notin overlapped =>
                  mem[s][r] = Readable(disk[r])
<1> DEFINE r == task[t].run
           s == Here(t)
<1>1. r \in Runs /\ s \in Servers /\ r # NoRun
  BY BusyPoller, NoRunIsNoRun DEF IInv
<1>2. TaskGood(t) /\ RunGood(r) /\ CacheGood(s, r) /\ Up(s) /\ session[r]
  BY <1>1 DEF IInv, TaskGood
<1>3. task[t].pc \notin Ahead /\ r \notin overlapped => ~AtWork(r)
  BY <1>1 DEF AtWork, IInv, Alone
<1>4. ~AtWork(r) => mem[s][r] = Readable(disk[r])
  BY <1>2 DEF CacheGood
<1>5. /\ disk[r] \in FileStates /\ mem[s][r] \in {"none"} \cup States
      /\ told[r] \subseteq Terminal
  BY <1>1 DEF IInv, TypeOK
<1>6. ASSUME AtWork(r) PROVE mem[s][r] \in States
  <2>1. PICK u \in Tasks : task[u].run = r /\ task[u].pc \in Ahead
    BY <1>6 DEF AtWork
  <2>2. Here(u) = s /\ TaskGood(u)
    BY <1>1, HomeIsAServer DEF IInv, OneServer, Here
  <2> QED
    BY <2>1, <2>2 DEF TaskGood, Ahead, Working
<1>7. Known(s, r) = mem[s][r]
  BY <1>4, <1>6 DEF Known, Readable, States, Active, Terminal
<1> QED
  BY <1>1, <1>2, <1>3, <1>4, <1>5, <1>7

(* While a poller that is not ahead moves on, the others stay where they   *)
(* are.                                                                    *)
LEMMA StillAtWork ==
  ASSUME NEW t \in Tasks, NEW pc, task[t].pc \notin Ahead, Continues(t, pc),
         AtWork(task[t].run)
  PROVE  AheadNext(task[t].run)
BY DEF AtWork, AheadNext, Continues

(* A step that leaves the file, the cache and the job of its run alone.    *)
LEMMA StillGood ==
  ASSUME OneServer, IInv, NEW t \in Tasks, NEW pc,
         task[t].pc \notin Ahead, task[t].pc # "idle", Continues(t, pc)
  PROVE  LET r == task[t].run
             s == Here(t)
         IN  /\ FileStep(r, disk[r]) /\ CacheStep(s, r, disk[r], mem[s][r])
             /\ disk = [disk EXCEPT ![r] = disk[r]]
             /\ mem = [mem EXCEPT ![s][r] = mem[s][r]]
             /\ told' = told => TellStep(r, disk[r])
<1> DEFINE r == task[t].run
           s == Here(t)
<1>1. /\ r \in Runs /\ s \in Servers /\ Up(s) /\ RunGood(r) /\ CacheGood(s, r)
      /\ mem[s][r] \in {"none"} \cup States
      /\ AtWork(r) \/ mem[s][r] = Readable(disk[r])
  BY RunInHand
<1>2. AheadNext(r) \/ mem[s][r] = Readable(disk[r])
  BY <1>1, StillAtWork
<1>3. FileStep(r, disk[r])
  BY DEF FileStep
<1>4. CacheStep(s, r, disk[r], mem[s][r])
  BY <1>1, <1>2 DEF CacheStep, CacheGood
<1>5. told' = told => TellStep(r, disk[r])
  BY <1>1 DEF TellStep, RunGood
<1>6. /\ disk = [disk EXCEPT ![r] = disk[r]]
      /\ mem = [mem EXCEPT ![s][r] = mem[s][r]]
  BY <1>1 DEF IInv, TypeOK
<1> QED
  BY <1>3, <1>4, <1>5, <1>6

(* Every end of a run keeps the invariant when the run is at work.         *)
LEMMA ConcludeKeeps ==
  ASSUME OneServer, IInv, NEW t \in Tasks, task[t].pc \in Working,
         NEW st \in Terminal, Conclude(t, st)
  PROVE  IInv' /\ Durable
<1> DEFINE r == task[t].run
           s == Here(t)
<1>1. task[t].pc # "idle"
  BY DEF Working
<1>2. TypeOK' /\ Continues(t, "notifying") /\ task'[t].news = st
  BY <1>1, ConcludeTyped DEF IInv
<1>3. /\ disk' = [disk EXCEPT ![r] = st]
      /\ mem' = [mem EXCEPT ![s][r] = st]
      /\ UNCHANGED <<made, session, told, phase, client, server, todo, overlapped>>
  BY DEF Conclude, Save, Cache, Write, jobs, life, claims
<1>4. /\ r \in Runs /\ s \in Servers /\ mem[s][r] \in States /\ disk[r] \in States
      /\ r \notin overlapped => disk[r] = "running" /\ told[r] \subseteq {disk[r]}
      /\ told[r] \subseteq Terminal
  BY <1>1, RunInHand DEF TaskGood, RunGood, CacheGood, States, Active, Terminal
<1>5. /\ "notifying" \in Stages /\ "notifying" \notin Working
      /\ st \in States /\ st = Readable(st) /\ "running" \notin Terminal
  BY DEF States, Readable, Stages, Working, Terminal
<1>6. FileStep(r, st) /\ TellStep(r, st) /\ JobStep(r, st, st)
  BY <1>3, <1>4, <1>5 DEF FileStep, TellStep, JobStep
<1>7. CacheStep(s, r, st, st)
  BY <1>4, <1>5 DEF CacheStep, States, Active, Terminal
<1>8. Fits("notifying", r, st, st, st)
  BY <1>5 DEF Fits
<1>9. PollerStep(t, "notifying", st, st)
  BY <1>1, <1>2, <1>3, <1>6, <1>7, <1>8 DEF PollerStep
<1> QED
  BY <1>2, <1>5, <1>9, TaskStepKeeps

LEMMA EnterKeeps ==
  ASSUME OneServer, IInv, NEW t \in Tasks, Enter(t)
  PROVE  IInv' /\ Durable
<1> DEFINE r == task[t].run
           s == Here(t)
           st == mem[s][r]
<1>1. /\ task[t].pc = "entering" /\ task[t].pc # "idle" /\ task[t].pc \notin Ahead
      /\ Known(s, r) = st
  BY RunInHand DEF Enter, Ahead
<1>2. /\ r \in Runs /\ s \in Servers /\ Up(s) /\ RunGood(r) /\ CacheGood(s, r)
      /\ st \in {"none"} \cup States /\ disk[r] \in FileStates
      /\ told[r] \subseteq Terminal
      /\ r \notin overlapped => st = Readable(disk[r])
  BY <1>1, RunInHand
<1>3. /\ TypeOK'
      /\ UNCHANGED <<made, session, told, phase, client, server, todo, overlapped>>
  BY EnterTyped DEF Enter, IInv, jobs, life, claims
<1>4. JobStep(r, disk[r], st) /\ JobStep(r, "running", "running")
  BY <1>3 DEF JobStep
<1>5. CASE st = "none" /\ Goto(t, "raising") /\ UNCHANGED <<disk, mem>>
  <2>1. Continues(t, "raising") /\ "raising" \in Stages
    BY <1>1, <1>5, GotoContinues DEF IInv, Stages
  <2>2. Fits("raising", r, disk[r], st, task'[t].news)
    BY DEF Fits, Working
  <2>3. /\ FileStep(r, disk[r]) /\ CacheStep(s, r, disk[r], st) /\ TellStep(r, disk[r])
        /\ disk' = [disk EXCEPT ![r] = disk[r]] /\ mem' = [mem EXCEPT ![s][r] = st]
    BY <1>1, <1>3, <1>5, <2>1, StillGood
  <2>4. PollerStep(t, "raising", disk[r], st)
    BY <1>1, <1>3, <1>4, <2>1, <2>2, <2>3 DEF PollerStep
  <2> QED
    BY <1>3, <2>1, <2>4, TaskStepKeeps
<1>6. CASE AlreadyEnded(st) /\ Cache(s, r, st) /\ Goto(t, "returning") /\ UNCHANGED disk
  <2>1. Continues(t, "returning") /\ "returning" \in Stages
    BY <1>1, <1>6, GotoContinues DEF IInv, Stages
  <2>2. Fits("returning", r, disk[r], st, task'[t].news)
    BY <1>6 DEF Fits, Working, AlreadyEnded
  <2>3. /\ FileStep(r, disk[r]) /\ CacheStep(s, r, disk[r], st) /\ TellStep(r, disk[r])
        /\ disk' = [disk EXCEPT ![r] = disk[r]] /\ mem' = [mem EXCEPT ![s][r] = st]
    BY <1>1, <1>3, <1>6, <2>1, StillGood DEF Cache
  <2>4. PollerStep(t, "returning", disk[r], st)
    BY <1>1, <1>3, <1>4, <2>1, <2>2, <2>3 DEF PollerStep
  <2> QED
    BY <1>3, <2>1, <2>4, TaskStepKeeps
<1>7. CASE st # "none" /\ ~AlreadyEnded(st) /\ Save(s, r, "running") /\ Goto(t, "preparing")
  <2>1. Continues(t, "preparing") /\ "preparing" \in Stages
    BY <1>1, <1>7, GotoContinues DEF IInv, Stages
  <2>2. /\ st \in Active /\ st \notin Terminal /\ disk[r] \in States
        /\ disk[r] \notin Terminal
    BY <1>2, <1>7 DEF AlreadyEnded, CacheGood, States
  <2>3. told[r] = {}
    BY <1>2, <2>2 DEF RunGood, States, Active, Terminal
  <2>4. /\ mem' = [mem EXCEPT ![s][r] = "running"]
        /\ disk' = [disk EXCEPT ![r] = "running"]
        /\ "running" \in States /\ "running" \notin Terminal /\ Readable("running") = "running"
    BY <1>7 DEF Save, Cache, Write, States, Active, Terminal, Readable
  <2>5. FileStep(r, "running") /\ TellStep(r, "running")
    BY <1>3, <2>2, <2>3, <2>4 DEF FileStep, TellStep
  <2>6. CacheStep(s, r, "running", "running")
    BY <1>7, <2>2, <2>4 DEF CacheStep
  <2>7. Fits("preparing", r, "running", "running", task'[t].news)
    BY <2>4 DEF Fits
  <2>8. PollerStep(t, "preparing", "running", "running")
    BY <1>1, <1>3, <1>4, <2>1, <2>4, <2>5, <2>6, <2>7 DEF PollerStep
  <2> QED
    BY <1>3, <2>1, <2>8, TaskStepKeeps
<1> QED
  BY <1>1, <1>5, <1>6, <1>7 DEF Enter

LEMMA PreparedKeeps ==
  ASSUME OneServer, IInv, NEW t \in Tasks, Prepared(t)
  PROVE  IInv' /\ Durable
<1> DEFINE r == task[t].run
           s == Here(t)
           st == mem[s][r]
<1>1. task[t].pc = "preparing" /\ task[t].pc # "idle" /\ task[t].pc \in Working
  BY DEF Prepared, Working
<1>2. /\ r \in Runs /\ s \in Servers /\ Up(s) /\ RunGood(r) /\ CacheGood(s, r)
      /\ st \in States /\ disk[r] \in States /\ told[r] \subseteq Terminal
      /\ r \notin overlapped => disk[r] = "running" /\ st = "running"
  BY <1>1, RunInHand DEF TaskGood, CacheGood, States, Active, Terminal
<1>3. disk' = [disk EXCEPT ![r] = st]
  BY DEF Prepared, Write
<1>4. /\ Continues(t, "calling") /\ "calling" \in Stages
  BY <1>1, GotoContinues DEF Prepared, IInv, Stages
<1>5. UNCHANGED <<made, session, told, jobs, caches, client, claims, life>>
  BY DEF Prepared
<1>6. disk' \in [Runs -> FileStates]
  BY <1>2, <1>3 DEF IInv, TypeOK, FileStates
<1>7. TypeOK'
  BY <1>4, <1>5, <1>6 DEF IInv, TypeOK, Continues, ClientsOK, jobs, caches, life, claims
<1>8. mem' = [mem EXCEPT ![s][r] = st]
  BY <1>2, <1>5 DEF IInv, TypeOK, caches
<1>9. disk[r] \in Terminal => st \in Terminal
  BY <1>2 DEF CacheGood
<1>10. /\ "running" \notin Terminal /\ "torn" \notin States /\ "none" \notin States
       /\ Readable(st) = st
  BY <1>2 DEF States, Active, Terminal, Readable
<1>11. told' = told /\ phase' = phase
  BY <1>5 DEF jobs
<1>12. FileStep(r, st)
  BY <1>2, <1>9, <1>10 DEF FileStep
<1>13. TellStep(r, st)
  BY <1>2, <1>9, <1>10, <1>11 DEF TellStep, RunGood
<1>14. CacheStep(s, r, st, st) /\ JobStep(r, st, st)
  BY <1>2, <1>10, <1>11 DEF CacheStep, JobStep
<1>15. Fits("calling", r, st, st, task'[t].news)
  BY <1>2 DEF Fits
<1>16. PollerStep(t, "calling", st, st)
  BY <1>1, <1>3, <1>4, <1>5, <1>8, <1>12, <1>13, <1>14, <1>15 DEF PollerStep, caches, life, claims
<1> QED
  BY <1>4, <1>7, <1>16, TaskStepKeeps

LEMMA CallsKeep ==
  ASSUME OneServer, IInv, NEW t \in Tasks,
         Answered(t) \/ ProviderFails(t) \/ ArtifactFails(t)
  PROVE  IInv' /\ Durable
<1> DEFINE r == task[t].run
           s == Here(t)
<1>1. /\ task[t].pc = "calling" /\ task[t].pc # "idle"
      /\ task[t].pc \in Working
      /\ Calling(t)
  BY DEF Answered, ProviderFails, ArtifactFails, Calling, Working
<1>2. /\ r \in Runs /\ s \in Servers /\ Up(s) /\ RunGood(r) /\ CacheGood(s, r)
      /\ mem[s][r] \in States /\ disk[r] \in States
      /\ r \notin overlapped => disk[r] = "running" /\ mem[s][r] \in {"running", "succeeded"}
  BY <1>1, RunInHand DEF TaskGood, CacheGood, States, Active, Terminal
<1>3. TypeOK'
  BY CallsTyped DEF IInv
<1>4. /\ UNCHANGED <<disk, made, session, told, phase, client, server, todo, overlapped>>
      /\ disk' = [disk EXCEPT ![r] = disk[r]]
  BY <1>2 DEF Answered, ProviderFails, ArtifactFails, files, jobs, life, claims, IInv, TypeOK
(* From the old entry, or from a reply, at a stage ahead of the file.      *)
<1>5. ASSUME NEW pc \in {"calling", "recording"}, Continues(t, pc),
             NEW m, (m = mem[s][r] /\ pc = "calling") \/ m = "succeeded",
             mem' = [mem EXCEPT ![s][r] = m]
      PROVE  IInv' /\ Durable
  <2>1. /\ "succeeded" \in Terminal /\ Terminal \subseteq States /\ "none" \notin States
        /\ m \in States
    BY <1>2, <1>5 DEF States, Active, Terminal
  <2>2. FileStep(r, disk[r]) /\ TellStep(r, disk[r]) /\ JobStep(r, disk[r], m)
    BY <1>2, <1>4 DEF FileStep, TellStep, RunGood, JobStep
  <2>3. AheadNext(r)
    BY <1>5 DEF AheadNext, Ahead, Continues
  <2>4. CacheStep(s, r, disk[r], m)
    BY <1>2, <1>5, <2>1, <2>3 DEF CacheStep, CacheGood
  <2>5. Fits(pc, r, disk[r], m, task'[t].news)
    BY <1>2, <1>5, <2>1 DEF Fits
  <2>6. PollerStep(t, pc, disk[r], m)
    BY <1>1, <1>4, <1>5, <2>2, <2>4, <2>5 DEF PollerStep
  <2> QED
    BY <1>3, <1>5, <2>6, TaskStepKeeps DEF Stages
<1>6. CASE Answered(t)
  <2>1. Continues(t, "recording")
    BY <1>1, <1>6, GotoContinues DEF Answered, IInv, Stages
  <2>2. mem' = [mem EXCEPT ![s][r] = "succeeded"]
    BY <1>6 DEF Answered, Cache
  <2> QED
    BY <1>5, <2>1, <2>2
<1>7. CASE ProviderFails(t)
  <2>1. mem' = [mem EXCEPT ![s][r] = mem[s][r]]
    BY <1>2, <1>7 DEF ProviderFails, caches, IInv, TypeOK
  <2>2. Continues(t, "calling")
    BY <1>1, <1>7, TryNextContinues DEF ProviderFails, IInv
  <2> QED
    BY <1>5, <2>1, <2>2
<1>8. CASE ArtifactFails(t)
  <2>1. Continues(t, "calling")
    BY <1>1, <1>8, TryNextContinues DEF ArtifactFails, IInv
  <2> QED
    BY <1>5, <1>8, <2>1 DEF ArtifactFails, Cache
<1> QED
  BY <1>6, <1>7, <1>8

LEMMA EndsKeep ==
  ASSUME OneServer, IInv, NEW t \in Tasks,
         PreparationFails(t) \/ Recorded(t) \/ OutOfProviders(t)
  PROVE  IInv' /\ Durable
<1>1. CASE PreparationFails(t) \/ OutOfProviders(t)
  <2>1. Conclude(t, "failed") /\ task[t].pc \in Working /\ "failed" \in Terminal
    BY <1>1 DEF PreparationFails, OutOfProviders, Working, Terminal
  <2> QED
    BY <2>1, ConcludeKeeps
<1>2. CASE Recorded(t)
  <2>1. task[t].pc = "recording" /\ task[t].pc # "idle" /\ task[t].pc \in Working
    BY <1>2 DEF Recorded, Working
  <2>2. mem[Here(t)][task[t].run] \in Terminal
    BY <2>1 DEF IInv, TaskGood
  <2> QED
    BY <1>2, <2>1, <2>2, ConcludeKeeps DEF Recorded
<1> QED
  BY <1>1, <1>2

LEMMA NotifiedKeeps ==
  ASSUME OneServer, IInv, NEW t \in Tasks, Notified(t)
  PROVE  IInv' /\ Durable
<1> DEFINE r == task[t].run
           s == Here(t)
           st == mem[s][r]
<1>1. task[t].pc = "notifying" /\ task[t].pc # "idle" /\ task[t].pc \notin Ahead
  BY DEF Notified, Ahead
<1>2. /\ r \in Runs /\ s \in Servers /\ RunGood(r)
      /\ disk[r] \in Terminal /\ task[t].news \in Terminal /\ st \in Terminal
      /\ r \notin overlapped => task[t].news = disk[r]
  BY <1>1, RunInHand DEF TaskGood
<1>3. "returning" \in Stages /\ "returning" \notin Working
  BY DEF Stages, Working
<1>4. Continues(t, "returning")
  BY <1>1, <1>3, EndContinues DEF IInv, Notified
<1>5. UNCHANGED <<files, session, jobs, caches, client, claims, life>>
  BY DEF Notified
<1>6. /\ told' \in [Runs -> SUBSET Terminal]
      /\ \A x \in Runs : x # r => told'[x] = told[x]
      /\ told'[r] \subseteq told[r] \cup {task[t].news}
  BY <1>2 DEF Notified, IInv, TypeOK
<1>7. TypeOK'
  BY <1>4, <1>5, <1>6 DEF IInv, TypeOK, Continues, ClientsOK, files, jobs, caches, life, claims
<1>8. TellStep(r, disk[r])
  BY <1>2, <1>6 DEF TellStep, RunGood
<1>9. /\ FileStep(r, disk[r]) /\ CacheStep(s, r, disk[r], st)
      /\ disk' = [disk EXCEPT ![r] = disk[r]] /\ mem' = [mem EXCEPT ![s][r] = st]
  BY <1>1, <1>4, <1>5, StillGood DEF files, caches
<1>10. JobStep(r, disk[r], st) /\ Fits("returning", r, disk[r], st, task'[t].news)
  BY <1>2, <1>3, <1>5 DEF JobStep, Fits, jobs
<1>11. PollerStep(t, "returning", disk[r], st)
  BY <1>1, <1>4, <1>5, <1>8, <1>9, <1>10 DEF PollerStep, files, jobs, life, claims
<1> QED
  BY <1>3, <1>7, <1>11, TaskStepKeeps

(* A poller that lets its run go, with the job queued again, ended or as   *)
(* it was.                                                                 *)
LEMMA LettingGoKeeps ==
  ASSUME OneServer, IInv, NEW t \in Tasks,
         task[t].pc \in {"returning", "raising"}, LetGo(t),
         phase' \in [Runs -> {"absent"} \cup States],
         tries' \in [Runs -> 0 .. MaxAttempts],
         NEW p \in {"queued", "failed", "succeeded"},
         phase' = phase \/ phase' = [phase EXCEPT ![task[t].run] = p],
         p = "succeeded" => task[t].pc = "returning",
         UNCHANGED <<files, session, told, caches, client, claims, life>>
  PROVE  IInv' /\ Durable
<1> DEFINE r == task[t].run
           s == Here(t)
<1>1. task[t].pc # "idle" /\ task[t].pc \notin Ahead
  BY DEF Ahead
<1>2. /\ r \in Runs /\ s \in Servers /\ r # NoRun /\ session[r] /\ Up(s)
      /\ task[t].pc = "returning" => mem[s][r] \in Terminal
      /\ r \notin overlapped => mem[s][r] = Readable(disk[r])
      /\ \A u \in Servers : u = s
  BY <1>1, RunInHand, NoRunIsNoRun DEF TaskGood, OneServer
<1>3. /\ TasksOK' /\ task'[t] = Idle
      /\ \A u \in Tasks : u # t => task'[u] = task[u]
  BY IdleRecord, TaskReplaced DEF LetGo, IInv, TypeOK
<1>4. /\ UNCHANGED <<disk, made, session, told, mem, index, client, server, todo,
                     crashes, worker, overlapped>>
      /\ \A x \in Runs : phase'[x] = phase[x] \/ (x = r /\ phase'[x] = p)
  BY <1>2 DEF files, caches, life, claims, IInv, TypeOK
<1>5. TypeOK'
  BY <1>3, <1>4 DEF IInv, TypeOK, ClientsOK
<1>6. Alone'
  BY <1>3, <1>4, IdleRecord DEF IInv, Alone
<1>7. ASSUME NEW u \in Tasks PROVE TaskGood(u)'
  <2>1. task[u].pc # "idle" => task[u].run \in Runs
    BY BusyPoller DEF IInv
  <2>2. TaskGood(u) /\ p # "absent"
    BY DEF IInv
  <2> QED
    BY <1>3, <1>4, <2>1, <2>2, IdleRecord DEF TaskGood, Here, Up
<1>8. ASSUME NEW x \in Runs PROVE RunGood(x)'
  <2>1. RunGood(x)
    BY DEF IInv
  <2>2. p = "succeeded" /\ r \notin overlapped => disk[r] \in Terminal
    BY <1>2 DEF Readable, Terminal
  <2>3. ~session[x] => phase'[x] = "absent"
    BY <1>2, <1>4, <2>1 DEF RunGood
  <2>4. phase'[x] = "succeeded" /\ x \notin overlapped => disk[x] \in Terminal
    BY <1>4, <2>1, <2>2 DEF RunGood
  <2> QED
    BY <1>4, <2>1, <2>3, <2>4 DEF RunGood
<1>9. ASSUME NEW u \in Servers, NEW x \in Runs PROVE CacheGood(u, x)'
  <2>1. AtWork(x)' <=> AtWork(x)
    BY <1>1, <1>3, IdleRecord DEF AtWork, Ahead
  <2>2. CacheGood(u, x) /\ u = s
    BY <1>2 DEF IInv
  <2>3. phase'[x] = "succeeded" /\ mem[u][x] \in Active => phase[x] = "succeeded"
    BY <1>2, <1>4, <2>2 DEF Active, Terminal
  <2> QED
    BY <1>4, <2>1, <2>2, <2>3 DEF CacheGood, Up
<1>10. \A q \in Clients : ClientGood(q)'
  BY <1>4 DEF IInv, ClientGood, Up
<1> QED
  BY <1>4, <1>5, <1>6, <1>7, <1>8, <1>9, <1>10 DEF IInv, Durable

LEMMA LeavesKeep ==
  ASSUME OneServer, IInv, NEW t \in Tasks, Returned(t) \/ Raised(t)
  PROVE  IInv' /\ Durable
<1> DEFINE r == task[t].run
           s == Here(t)
           st == mem[s][r]
<1>1. task[t].pc \in {"returning", "raising"} /\ task[t].pc # "idle" /\ task[t].pc \notin Ahead
  BY DEF Returned, Raised, Ahead
<1>2. /\ r \in Runs /\ s \in Servers /\ TaskGood(t)
      /\ r \notin overlapped => st = Readable(disk[r])
  BY <1>1, RunInHand
<1>3. UNCHANGED <<files, session, told, caches, client, claims, life>>
  BY DEF Returned, Raised
<1>4. /\ phase' \in [Runs -> {"absent"} \cup States]
      /\ tries' \in [Runs -> 0 .. MaxAttempts]
      /\ \/ phase' = phase
         \/ Returned(t) /\ phase' = [phase EXCEPT ![r] = "succeeded"]
         \/ phase' = [phase EXCEPT ![r] = "queued"]
         \/ phase' = [phase EXCEPT ![r] = "failed"]
  <2>1. CASE UNCHANGED jobs
    BY <2>1 DEF jobs, IInv, TypeOK
  <2>2. CASE Returned(t) /\ Complete(t)
    <3>1. UNCHANGED jobs \/ (Queue!Finish(r) /\ phase'[r] = "succeeded")
      BY <2>2 DEF Complete
    <3>2. (Queue!Finish(r) /\ phase'[r] = "succeeded") =>
            phase' = [phase EXCEPT ![r] = "succeeded"]
      BY <1>2 DEF Queue!Finish, Queue!Become, IInv, TypeOK
    <3> QED
      BY <1>2, <2>1, <2>2, <3>1, <3>2, JobsTyped DEF IInv, TypeOK
  <2>3. CASE Raised(t)
    <3>1. \/ UNCHANGED jobs \/ Queue!Retry(r) \/ Queue!GiveUp(r)
      BY <2>3 DEF Raised, RetryOrFail
    <3> QED
      BY <1>2, <2>1, <3>1, JobsTyped DEF IInv, TypeOK, Queue!Retry, Queue!GiveUp, Queue!Become
  <2> QED
    BY <2>1, <2>2, <2>3 DEF Returned
<1>5. CASE LetGo(t)
  <2>1. Returned(t) => task[t].pc = "returning"
    BY DEF Returned
  <2> QED
    BY <1>1, <1>3, <1>4, <1>5, <2>1, LettingGoKeeps
<1>6. CASE Returned(t) /\ Goto(t, "raising") /\ (Complete(t) \/ UNCHANGED jobs)
  <2>1. Continues(t, "raising") /\ "raising" \in Stages
    BY <1>1, <1>6, GotoContinues DEF IInv, Stages
  <2>2. TypeOK'
    BY <1>3, <1>4, <2>1 DEF IInv, TypeOK, Continues, ClientsOK, files, caches, life, claims
  <2>3. st \in Terminal
    BY <1>2, <1>6 DEF Returned, TaskGood
  <2>4. JobStep(r, disk[r], st)
    <3>1. phase' = phase \/ phase' = [phase EXCEPT ![r] = "succeeded"]
      BY <1>2, <1>6 DEF Complete, Queue!Finish, Queue!Become, jobs, IInv, TypeOK
    <3> QED
      BY <1>2, <2>3, <3>1 DEF JobStep, Readable, Terminal
  <2>5. Fits("raising", r, disk[r], st, task'[t].news)
    BY DEF Fits, Working
  <2>6. /\ FileStep(r, disk[r]) /\ CacheStep(s, r, disk[r], st) /\ TellStep(r, disk[r])
        /\ disk' = [disk EXCEPT ![r] = disk[r]] /\ mem' = [mem EXCEPT ![s][r] = st]
    BY <1>1, <1>3, <2>1, StillGood DEF files, caches
  <2>7. PollerStep(t, "raising", disk[r], st)
    BY <1>1, <1>3, <2>1, <2>4, <2>5, <2>6 DEF PollerStep, files, life, claims
  <2> QED
    BY <2>1, <2>2, <2>7, TaskStepKeeps
<1> QED
  BY <1>5, <1>6 DEF Returned, Raised

(* A step that changes nothing but the job of one run.                     *)
LEMMA JobStepKeeps ==
  ASSUME IInv, NEW r \in Runs, NEW p \in {"queued", "failed"},
         \/ phase' = phase
         \/ phase' = [phase EXCEPT ![r] = p] /\ session[r],
         tries' \in [Runs -> 0 .. MaxAttempts],
         ClientsOK', \A q \in Clients : ClientGood(q)',
         UNCHANGED <<files, session, told, caches, task, claims, life>>
  PROVE  IInv' /\ Durable
<1>1. /\ UNCHANGED <<disk, made, session, told, mem, index, task, server, todo,
                     crashes, worker, overlapped>>
      /\ \A x \in Runs : phase'[x] = phase[x] \/ (x = r /\ session[r] /\ phase'[x] = p)
      /\ phase' \in [Runs -> {"absent"} \cup States]
  BY DEF files, caches, life, claims, IInv, TypeOK, States, Active, Terminal
<1>2. TypeOK'
  BY <1>1 DEF IInv, TypeOK, TasksOK
<1>3. ASSUME NEW u \in Tasks PROVE TaskGood(u)'
  <2>1. task[u].pc # "idle" => task[u].run \in Runs
    BY BusyPoller DEF IInv
  <2>2. TaskGood(u)
    BY DEF IInv
  <2> QED
    BY <1>1, <2>1, <2>2 DEF TaskGood, Here, Up
<1>4. ASSUME NEW x \in Runs PROVE RunGood(x)'
  <2>1. RunGood(x)
    BY DEF IInv
  <2> QED
    BY <1>1, <2>1 DEF RunGood
<1>5. ASSUME NEW u \in Servers, NEW x \in Runs PROVE CacheGood(u, x)'
  <2>1. CacheGood(u, x)
    BY DEF IInv
  <2>2. phase'[x] = "succeeded" => phase[x] = "succeeded"
    BY <1>1
  <2>3. AtWork(x)' <=> AtWork(x)
    BY <1>1 DEF AtWork
  <2> QED
    BY <1>1, <2>1, <2>2, <2>3 DEF CacheGood, Up
<1> QED
  BY <1>1, <1>2, <1>3, <1>4, <1>5 DEF IInv, Alone, Durable

(* What EnsureEnqueued may do to the jobs.                                 *)
LEMMA EnsureEnqueuedStep ==
  ASSUME IInv, NEW r \in Runs, EnsureEnqueued(r)
  PROVE  /\ phase' = phase \/ phase' = [phase EXCEPT ![r] = "queued"]
         /\ tries' \in [Runs -> 0 .. MaxAttempts]
<1>1. tries' \in [Runs -> 0 .. MaxAttempts]
  BY JobsTyped DEF IInv, TypeOK
<1> QED
  BY <1>1 DEF EnsureEnqueued, Queue!Submit, Queue!Become, jobs

LEMMA GivenUpKeeps ==
  ASSUME IInv, NEW t \in Tasks, NEW r \in Runs, ClaimGivesUp(t, r)
  PROVE  IInv' /\ Durable
<1>1. /\ phase' = [phase EXCEPT ![r] = "failed"]
      /\ phase[r] = "running"
      /\ UNCHANGED <<files, session, told, caches, task, client, claims, life>>
  BY DEF ClaimGivesUp, Queue!GiveUp, Queue!Become
<1>2. tries' \in [Runs -> 0 .. MaxAttempts]
  BY JobsTyped DEF ClaimGivesUp, IInv, TypeOK
<1>3. session[r]
  BY <1>1 DEF IInv, RunGood
<1>4. ClientsOK' /\ \A q \in Clients : ClientGood(q)'
  BY <1>1 DEF IInv, TypeOK, ClientsOK, ClientGood, Up, life
<1> QED
  BY <1>1, <1>2, <1>3, <1>4, JobStepKeeps

LEMMA ClaimKeeps ==
  ASSUME OneServer, IInv, NEW t \in Tasks, NEW r \in Runs, Claim(t, r)
  PROVE  IInv' /\ Durable
<1> PICK pc \in {"entering", "raising"} :
      task' = [task EXCEPT ![t] = [Idle EXCEPT !.run = r, !.pc = pc]]
  BY DEF Claim
<1> DEFINE x == [Idle EXCEPT !.run = r, !.pc = pc]
<1>1. x \in TaskRecords /\ x.run = r /\ x.pc = pc
  BY IdleRecord DEF TaskRecords, Stages
<1>2. /\ phase' = [phase EXCEPT ![r] = "running"]
      /\ phase[r] \in {"queued", "running"}
      /\ task[t] = Idle /\ Up(Here(t)) /\ Here(t) \in Servers
      /\ overlapped \subseteq overlapped' /\ overlapped' \subseteq Runs
      /\ (\E u \in Tasks : task[u].run = r) => r \in overlapped'
      /\ worker' \in [Runs -> Servers \cup {NoRun}]
      /\ UNCHANGED <<disk, made, session, told, mem, index, client, server, todo, crashes>>
  BY HomeIsAServer DEF Claim, Queue!Start, Queue!Become, files, caches, life, IInv, TypeOK, Here
<1>3. session[r]
  BY <1>2 DEF IInv, RunGood
<1>4. task' = [task EXCEPT ![t] = x]
  OBVIOUS
<1>5. x.run # NoRun /\ x.pc # "idle" /\ pc \notin Ahead /\ pc \notin Working
  BY <1>1, NoRunIsNoRun DEF Ahead, Working
<1> HIDE DEF x
<1>6. /\ TasksOK' /\ task'[t] = x
      /\ \A u \in Tasks : u # t => task'[u] = task[u]
  BY <1>1, <1>4, <1>5, TaskReplaced DEF IInv, TypeOK
<1>7. TypeOK'
  <2>1. /\ phase' \in [Runs -> {"absent"} \cup States]
        /\ tries' \in [Runs -> 0 .. MaxAttempts]
    BY JobsTyped DEF Claim, IInv, TypeOK
  <2> QED
    BY <1>2, <1>6, <2>1 DEF IInv, TypeOK, ClientsOK
<1>8. Alone'
  <2> SUFFICES ASSUME NEW u \in Tasks, NEW v \in Tasks,
                      task'[u].run = task'[v].run, task'[u].run # NoRun,
                      task'[u].run \notin overlapped'
               PROVE  u = v
    BY DEF Alone
  <2>1. CASE u # t /\ v # t
    BY <1>2, <1>6, <2>1 DEF IInv, Alone
  <2>2. CASE u = t \/ v = t
    BY <1>1, <1>2, <1>6, <2>2
  <2> QED
    BY <2>1, <2>2
<1>9. \A y \in Runs : phase'[y] = IF y = r THEN "running" ELSE phase[y]
  BY <1>2 DEF IInv, TypeOK
<1>10. ASSUME NEW u \in Tasks PROVE TaskGood(u)'
  <2>1. task[u].pc # "idle" => task[u].run \in Runs
    BY BusyPoller DEF IInv
  <2>2. TaskGood(u)
    BY DEF IInv
  <2>3. CASE u = t
    BY <1>1, <1>2, <1>3, <1>5, <1>6, <1>9, <2>3 DEF TaskGood, Here, Up
  <2>4. CASE u # t
    BY <1>2, <1>6, <1>9, <2>1, <2>2, <2>4 DEF TaskGood, Here, Up
  <2> QED
    BY <2>3, <2>4
<1>11. ASSUME NEW y \in Runs PROVE RunGood(y)'
  <2>1. RunGood(y)
    BY DEF IInv
  <2> QED
    BY <1>2, <1>3, <1>9, <2>1 DEF RunGood
<1>12. ASSUME NEW u \in Servers, NEW y \in Runs PROVE CacheGood(u, y)'
  <2>1. AtWork(y)' <=> AtWork(y)
    BY <1>1, <1>2, <1>5, <1>6, IdleRecord DEF AtWork, Ahead
  <2>2. CacheGood(u, y)
    BY DEF IInv
  <2> QED
    BY <1>2, <1>9, <2>1, <2>2 DEF CacheGood, Up
<1>13. \A q \in Clients : ClientGood(q)'
  BY <1>2 DEF IInv, ClientGood, Up
<1>14. Durable
  BY <1>2 DEF Durable
<1> QED
  BY <1>7, <1>8, <1>10, <1>11, <1>12, <1>13, <1>14 DEF IInv

(* Steps that touch no run, no job and no task.                            *)
LEMMA ClientStepKeeps ==
  ASSUME IInv, TypeOK',
         UNCHANGED <<files, session, told, jobs, caches, task, claims, life>>,
         \A p \in Clients : ClientGood(p)'
  PROVE  IInv' /\ Durable
<1>1. UNCHANGED <<disk, made, session, told, phase, mem, task, server, todo, overlapped>>
  BY DEF files, jobs, caches, life, claims
<1>2. Alone' /\ Durable
  BY <1>1 DEF IInv, Alone, Durable
<1>3. \A t \in Tasks : TaskGood(t)'
  BY <1>1 DEF IInv, TaskGood, Up, Here
<1>4. \A r \in Runs : RunGood(r)'
  BY <1>1 DEF IInv, RunGood
<1>5. \A s \in Servers, r \in Runs : CacheGood(s, r)'
  BY <1>1 DEF IInv, CacheGood, AtWork, Up
<1> QED
  BY <1>2, <1>3, <1>4, <1>5 DEF IInv

(* Requests: only the enqueue touches a job, only the creation a file.     *)
LEMMA AskKeeps ==
  ASSUME IInv, NEW q \in Clients, NEW s \in Servers, NEW k \in Keys,
         NEW b \in Bodies, Ask(q, s, k, b)
  PROVE  IInv' /\ Durable
<1>1. UNCHANGED <<files, session, told, jobs, caches, task, claims, life>>
  BY DEF Ask
<1>2. TypeOK'
  BY AskTyped DEF IInv
<1> DEFINE r == index[s][k]
           to == IF r = NoRun THEN "reserving"
                 ELSE IF NeedsQueue(mem[s][r]) THEN "enqueueing" ELSE "accepted"
<1>3. /\ client'[q].pc = to /\ client'[q].at = s /\ client'[q].run = r
      /\ \A p \in Clients : p # q => client'[p] = client[p]
  BY DEF Ask, IInv, TypeOK, ClientsOK
<1>4. Up(s) /\ server[s] = "serving"
  BY DEF Ask, Up
<1>5. to = "enqueueing" => session[r]
  <2>1. SUFFICES ASSUME to = "enqueueing" PROVE session[r]
    OBVIOUS
  <2>2. r \in Runs /\ mem[s][r] \in Active
    BY <2>1 DEF NeedsQueue, IInv, TypeOK
  <2>3. CacheGood(s, r)
    BY <2>2 DEF IInv
  <2> QED
    BY <1>4, <2>2, <2>3 DEF CacheGood
<1>6. ASSUME NEW p \in Clients PROVE ClientGood(p)'
  <2>1. ClientGood(p)
    BY DEF IInv
  <2> QED
    BY <1>1, <1>3, <1>4, <1>5, <2>1 DEF ClientGood, Up, life
<1> HIDE DEF to, r
<1> QED
  BY <1>1, <1>2, <1>6, ClientStepKeeps

LEMMA AnswerChanges ==
  ASSUME ClientsOK, NEW q \in Clients, NEW pc, NEW r, Answer(q, pc, r)
  PROVE  /\ client'[q].pc = pc /\ client'[q].run = r
         /\ client'[q].at = client[q].at
         /\ \A p \in Clients : p # q => client'[p] = client[p]
BY DEF Answer, ClientsOK, Requests

LEMMA ReplyKeeps ==
  ASSUME OneServer, IInv, NEW q \in Clients, Reply(q)
  PROVE  IInv' /\ Durable
<1>1. TypeOK' /\ ClientsOK'
  BY ReplyTyped DEF IInv, TypeOK
<1>2. ASSUME Enqueued(q) \/ EnqueueFails(q)
      PROVE  IInv' /\ Durable
  <2> DEFINE r == client[q].run
  <2>1. r \in Runs /\ session[r] /\ client[q].pc = "enqueueing"
    BY <1>2 DEF Enqueued, EnqueueFails, IInv, TypeOK, ClientsOK, ClientGood
  <2>2. /\ UNCHANGED <<files, session, told, caches, task, claims, life>>
        /\ EnsureEnqueued(r) \/ UNCHANGED jobs
        /\ Answer(q, "accepted", r) \/ Answer(q, "refused", NoRun)
    BY <1>2 DEF Enqueued, EnqueueFails
  <2>3. /\ phase' = phase \/ phase' = [phase EXCEPT ![r] = "queued"]
        /\ tries' \in [Runs -> 0 .. MaxAttempts]
    BY <2>1, <2>2, EnsureEnqueuedStep DEF jobs, IInv, TypeOK
  <2>4. /\ client'[q].pc \in {"accepted", "refused"}
        /\ \A p \in Clients : p # q => client'[p] = client[p]
    BY <2>2, AnswerChanges DEF IInv, TypeOK
  <2>5. \A p \in Clients : ClientGood(p)'
    BY <2>2, <2>4 DEF IInv, ClientGood, Up, life
  <2> HIDE DEF r
  <2> QED
    BY <1>1, <2>1, <2>2, <2>3, <2>5, JobStepKeeps DEF TypeOK
<1>3. CASE ReserveFails(q)
  <2>1. /\ UNCHANGED <<files, session, told, jobs, caches, task, claims, life>>
        /\ Answer(q, "refused", NoRun)
    BY <1>3 DEF ReserveFails
  <2>2. /\ client'[q].pc = "refused"
        /\ \A p \in Clients : p # q => client'[p] = client[p]
    BY <2>1, AnswerChanges DEF IInv, TypeOK
  <2>3. \A p \in Clients : ClientGood(p)'
    BY <2>1, <2>2 DEF IInv, ClientGood, Up, life
  <2> QED
    BY <1>1, <2>1, <2>3, ClientStepKeeps
<1>4. CASE CreateOrGet(q) /\ index[client[q].at][client[q].key] # NoRun
  <2>1. /\ UNCHANGED <<files, session, told, jobs, caches, task, claims, life>>
        /\ \E r : Answer(q, "joined", r) \/ Answer(q, "refused", r)
    BY <1>4 DEF CreateOrGet
  <2>2. /\ client'[q].pc \in {"joined", "refused"}
        /\ \A p \in Clients : p # q => client'[p] = client[p]
    BY <2>1, AnswerChanges DEF IInv, TypeOK
  <2>3. \A p \in Clients : ClientGood(p)'
    BY <2>1, <2>2 DEF IInv, ClientGood, Up, life
  <2> QED
    BY <1>1, <2>1, <2>3, ClientStepKeeps
<1>5. CASE CreateOrGet(q) /\ index[client[q].at][client[q].key] = NoRun
  <2>1. PICK r \in Runs : r = FreshRun /\ made[r] = Unmade
    BY <1>5, FreshRunIsFresh DEF CreateOrGet
  <2>2. PICK s \in Servers : /\ s = client[q].at /\ Up(s)
                             /\ client[q].key \in Keys
                             /\ \A u \in Servers : u = s
    BY <1>5 DEF CreateOrGet, IInv, TypeOK, ClientsOK, ClientGood, OneServer
  <2>3. /\ Answer(q, "enqueueing", r)
        /\ made' = [made EXCEPT ![r] = [key |-> client[q].key, body |-> client[q].body]]
        /\ Save(s, r, "queued")
        /\ session' = [session EXCEPT ![r] = TRUE]
        /\ UNCHANGED <<told, jobs, task, claims, life>>
    BY <1>5, <2>1, <2>2 DEF CreateOrGet, Make
  <2>4. /\ disk[r] = "none" /\ ~session[r] /\ phase[r] = "absent"
        /\ told[r] = {}
    BY <2>1 DEF IInv, RunGood, TypeOK, Terminal
  <2>5. made'[r] # Unmade
    BY <2>1, <2>2, <2>3, NoRunIsNoRun DEF IInv, TypeOK, Unmade
  <2>6. /\ \A x \in Runs : disk'[x] = IF x = r THEN "queued" ELSE disk[x]
        /\ \A x \in Runs : mem'[s][x] = IF x = r THEN "queued" ELSE mem[s][x]
        /\ \A x \in Runs : session'[x] = IF x = r THEN TRUE ELSE session[x]
        /\ \A x \in Runs : x # r => made'[x] = made[x]
        /\ UNCHANGED <<told, phase, tries, task, server, todo, crashes, overlapped>>
    BY <2>1, <2>2, <2>3 DEF IInv, TypeOK, Save, Cache, Write, jobs, life, claims
  <2>7. \A t \in Tasks : task[t].pc # "idle" => task[t].run \in Runs /\ task[t].run # r
    BY <2>4, BusyPoller DEF IInv, TaskGood
  <2>8. ASSUME NEW t \in Tasks PROVE TaskGood(t)'
    <3>1. TaskGood(t) /\ Here(t) = s
      BY <2>2, HomeIsAServer DEF IInv, Here
    <3> QED
      BY <2>6, <2>7, <3>1 DEF TaskGood, Here, Up
  <2>9. ASSUME NEW x \in Runs PROVE RunGood(x)'
    <3>1. RunGood(x)
      BY DEF IInv
    <3>2. CASE x = r
      BY <2>4, <2>5, <2>6, <3>2 DEF RunGood, Terminal
    <3>3. CASE x # r
      BY <2>6, <3>1, <3>3 DEF RunGood
    <3> QED
      BY <3>2, <3>3
  <2>10. ASSUME NEW x \in Runs PROVE CacheGood(s, x)'
    <3>1. CacheGood(s, x)
      BY <2>2 DEF IInv
    <3>2. AtWork(x)' <=> AtWork(x)
      BY <2>6 DEF AtWork
    <3>3. /\ Up(s)' /\ Readable("queued") = "queued"
          /\ "queued" \in States /\ "queued" \notin Terminal
      BY <2>2, <2>6 DEF Up, Readable, States, Active, Terminal
    <3>4. CASE x = r
      BY <2>1, <2>4, <2>6, <3>1, <3>3, <3>4 DEF CacheGood
    <3>5. CASE x # r
      BY <2>2, <2>6, <3>1, <3>2, <3>3, <3>5 DEF CacheGood
    <3> QED
      BY <3>4, <3>5
  <2>11. \A p \in Clients : ClientGood(p)'
    BY <2>1, <2>2, <2>3, <2>6, AnswerChanges DEF IInv, TypeOK, ClientsOK, ClientGood, Up
  <2>12. Alone'
    BY <2>6 DEF IInv, Alone
  <2>13. Durable
    BY <2>4, <2>6 DEF Durable, Terminal
  <2>14. \A u \in Servers, x \in Runs : CacheGood(u, x)'
    BY <2>2, <2>10
  <2> QED
    BY <1>1, <2>8, <2>9, <2>11, <2>12, <2>13, <2>14 DEF IInv
<1> QED
  BY <1>2, <1>3, <1>4, <1>5 DEF Reply

(* The file a crash may tear: the one of a run in hand, or the first one   *)
(* of a run in the making.                                                 *)
Torn(r) ==
  /\ disk' = [disk EXCEPT ![r] = "torn"]
  /\ \/ made' = made /\ disk[r] \in States /\ session[r]
        /\ (r \notin overlapped => disk[r] \notin Terminal)
     \/ /\ made[r] = Unmade
        /\ \E k \in Keys, b \in Bodies \cup {NoRun} :
             made' = [made EXCEPT ![r] = [key |-> k, body |-> b]]

LEMMA CrashTears ==
  ASSUME OneServer, IInv, NEW s \in Servers, Crash(s)
  PROVE  UNCHANGED files \/ \E r \in Runs : Torn(r)
<1>1. ASSUME NEW r \in Writing(s)
      PROVE  /\ r \in Runs /\ disk[r] \in States /\ session[r]
             /\ r \notin overlapped => disk[r] \notin Terminal
  <2>1. PICK t \in Tasks :
          /\ task[t].run = r /\ Here(t) = s
          /\ \/ task[t].pc \in Working
             \/ task[t].pc = "entering" /\ Known(s, r) \in Active
    BY <1>1 DEF Writing, Working
  <2>2. /\ r \in Runs /\ Up(s) /\ session[r] /\ TaskGood(t) /\ CacheGood(s, r)
        /\ Known(s, r) = mem[s][r]
    BY <2>1, RunInHand DEF Working
  <2>3. CASE task[t].pc \in Working
    BY <2>1, <2>2, <2>3 DEF TaskGood, CacheGood, Working, States, Active, Terminal
  <2>4. CASE task[t].pc = "entering" /\ Known(s, r) \in Active
    BY <2>2, <2>4 DEF CacheGood, States, Active, Terminal
  <2> QED
    BY <2>1, <2>2, <2>3, <2>4
<1>2. ASSUME NEW q \in Clients, TearNew(q)
      PROVE  \E r \in Runs : Torn(r)
  <2>1. PICK r \in Runs : r = FreshRun /\ made[r] = Unmade
    BY <1>2, FreshRunIsFresh DEF TearNew
  <2>2. client[q].key \in Keys /\ client[q].body \in Bodies \cup {NoRun}
    BY <1>2 DEF TearNew, IInv, TypeOK, ClientsOK, Requests
  <2> QED
    BY <1>2, <2>1, <2>2 DEF TearNew, Torn, Make, Write
<1> QED
  BY <1>1, <1>2 DEF Crash, MayTear, Torn, Write

(* A crash: nothing is left in hand, and at most one file is torn.         *)
LEMMA CrashKeeps ==
  ASSUME OneServer, IInv, NEW s \in Servers, Crash(s)
  PROVE  IInv' /\ Durable
<1>1. /\ \A u \in Servers : u = s
      /\ \A t \in Tasks : Here(t) = s
  BY HomeIsAServer DEF OneServer, Here
<1>2. /\ UNCHANGED <<session, told, phase, tries, worker, overlapped>>
      /\ mem' = [mem EXCEPT ![s] = [r \in Runs |-> "none"]]
      /\ index' = [index EXCEPT ![s] = [k \in Keys |-> NoRun]]
      /\ server' = [server EXCEPT ![s] = "down"]
      /\ todo' = [todo EXCEPT ![s] = {}]
      /\ crashes' \in 0 .. MaxCrashes
      /\ task' = [t \in Tasks |-> Idle]
  <2>1. crashes' \in 0 .. MaxCrashes
    <3>1. crashes \in 0 .. MaxCrashes /\ crashes < MaxCrashes /\ crashes' = crashes + 1
      BY DEF Crash, IInv, TypeOK
    <3> QED
      BY <3>1, CountsAreNaturals
  <2>2. task' = [t \in Tasks |-> Idle]
    BY <1>1 DEF Crash
  <2> QED
    BY <2>1, <2>2 DEF Crash, jobs, claims
<1>3. /\ disk' \in [Runs -> FileStates] /\ made' \in [Runs -> Contents]
      /\ \A r \in Runs :
           \/ disk'[r] = disk[r] /\ made'[r] = made[r]
           \/ /\ disk'[r] = "torn" /\ made'[r] # Unmade
              /\ \/ disk[r] \in States /\ session[r]
                    /\ (r \notin overlapped => disk[r] \notin Terminal)
                 \/ disk[r] = "none"
  <2>1. CASE UNCHANGED files
    BY <2>1 DEF files, IInv, TypeOK
  <2>2. ASSUME NEW r \in Runs, Torn(r) PROVE <1>3
    <3>1. /\ disk' \in [Runs -> FileStates]
          /\ \A x \in Runs : disk'[x] = IF x = r THEN "torn" ELSE disk[x]
      BY <2>2 DEF Torn, IInv, TypeOK, FileStates
    <3>2. RunGood(r)
      BY DEF IInv
    <3>3. CASE made' = made /\ disk[r] \in States /\ session[r]
               /\ (r \notin overlapped => disk[r] \notin Terminal)
      BY <3>1, <3>2, <3>3 DEF IInv, TypeOK, RunGood
    <3>4. CASE made[r] = Unmade /\ \E k \in Keys, b \in Bodies \cup {NoRun} :
                 made' = [made EXCEPT ![r] = [key |-> k, body |-> b]]
      <4>1. PICK k \in Keys, b \in Bodies \cup {NoRun} :
              made' = [made EXCEPT ![r] = [key |-> k, body |-> b]]
        BY <3>4
      <4>2. [key |-> k, body |-> b] \in Contents /\ [key |-> k, body |-> b] # Unmade
        BY NoRunIsNoRun DEF Contents, Unmade
      <4>3. /\ made' \in [Runs -> Contents] /\ made'[r] # Unmade
            /\ \A x \in Runs : x # r => made'[x] = made[x]
        BY <4>1, <4>2 DEF IInv, TypeOK
      <4> QED
        BY <3>1, <3>2, <3>4, <4>3 DEF RunGood
    <3> QED
      BY <2>2, <3>3, <3>4 DEF Torn
  <2> QED
    BY <2>1, <2>2, CrashTears
<1>4. Idle \in TaskRecords /\ Idle.run = NoRun /\ Idle.pc = "idle"
  BY IdleRecord
<1>5. TasksOK' /\ Alone' /\ \A t \in Tasks : TaskGood(t)'
  BY <1>2, <1>4 DEF TasksOK, Alone, TaskGood
<1>6. ASSUME NEW q \in Clients
      PROVE  /\ client'[q] \in Requests /\ client'[q].pc \notin {"reserving", "enqueueing"}
             /\ client'[q].pc \in Accepted => client'[q].run \in Runs
  <2>1. client[q] \in Requests
    BY DEF IInv, TypeOK, ClientsOK
  <2>2. client[q].pc \in {"enqueueing"} \cup Accepted => client[q].run \in Runs
    BY DEF IInv, TypeOK, ClientsOK
  <2>3. client[q].pc \in {"reserving", "enqueueing"} => client[q].at = s
    BY <1>1 DEF IInv, TypeOK, ClientsOK
  <2>4. CASE client[q].at = s /\ client[q].pc \in {"reserving", "enqueueing"}
    <3>1. client'[q] = [client[q] EXCEPT !.pc = "refused", !.run = NoRun, !.body = NoRun]
      BY <2>4 DEF Crash
    <3> QED
      BY <2>1, <3>1 DEF Requests, Accepted
  <2>5. CASE client[q].pc \notin {"reserving", "enqueueing"}
    <3>1. client'[q] = client[q]
      BY <2>5 DEF Crash
    <3> QED
      BY <2>1, <2>2, <2>5, <3>1
  <2> QED
    BY <2>3, <2>4, <2>5
<1>7. ClientsOK' /\ \A q \in Clients : ClientGood(q)'
  <2>1. client' = [q \in Clients |-> client'[q]]
    BY DEF Crash
  <2>2. client' \in [Clients -> Requests]
    BY <1>6, <2>1
  <2> QED
    BY <1>6, <2>2 DEF ClientsOK, ClientGood
<1>8. TypeOK'
  BY <1>2, <1>3, <1>5, <1>7 DEF IInv, TypeOK
<1>9. ASSUME NEW r \in Runs PROVE RunGood(r)'
  <2>1. RunGood(r) /\ "torn" \notin States /\ Terminal \subseteq States
        /\ told[r] \subseteq Terminal
    BY DEF IInv, TypeOK, States, Active, Terminal
  <2>2. CASE disk'[r] = disk[r] /\ made'[r] = made[r]
    BY <1>2, <2>1, <2>2 DEF RunGood
  <2>3. CASE disk'[r] = "torn" /\ made'[r] # Unmade /\ disk[r] = "none"
    BY <1>2, <2>1, <2>3 DEF RunGood, Terminal
  <2>4. CASE /\ disk'[r] = "torn" /\ made'[r] # Unmade /\ disk[r] \in States /\ session[r]
             /\ r \notin overlapped => disk[r] \notin Terminal
    <3>1. r \notin overlapped => told[r] = {} /\ phase[r] # "succeeded"
      BY <2>1, <2>4 DEF RunGood
    <3> QED
      BY <1>2, <2>1, <2>4, <3>1 DEF RunGood
  <2> QED
    BY <1>3, <2>2, <2>3, <2>4
<1>10. ASSUME NEW u \in Servers, NEW r \in Runs PROVE CacheGood(u, r)'
  <2>1. u = s
    BY <1>1
  <2>2. mem'[s][r] = "none" /\ todo'[s] = {} /\ server'[s] = "down"
    BY <1>2 DEF IInv, TypeOK
  <2> QED
    BY <2>1, <2>2 DEF CacheGood, Up, Active
<1>11. Durable
  BY <1>3 DEF Durable, Terminal
<1> QED
  BY <1>5, <1>7, <1>8, <1>9, <1>10, <1>11 DEF IInv

(* The reset finds every server down, so nothing is cached or in hand.     *)
LEMMA ResetKeeps ==
  ASSUME IInv, DatabaseReset
  PROVE  IInv' /\ Durable
<1>1. /\ UNCHANGED <<disk, made, told, mem, index, task, client, server, todo,
                     crashes, worker, overlapped>>
      /\ \A s \in Servers : ~Up(s)
      /\ session' = [r \in Runs |-> FALSE]
      /\ phase' = [r \in Runs |-> "absent"]
      /\ tries' = [r \in Runs |-> 0]
  BY DEF DatabaseReset, files, caches, life, claims
<1>2. TypeOK' /\ Alone'
  BY <1>1, CountsAreNaturals DEF IInv, TypeOK, TasksOK, ClientsOK, Alone
<1>3. \A t \in Tasks : task[t].pc = "idle"
  BY <1>1, HomeIsAServer DEF IInv, TaskGood, Here
<1>4. \A t \in Tasks : TaskGood(t)'
  BY <1>1, <1>3 DEF TaskGood
<1>5. \A r \in Runs : RunGood(r)'
  BY <1>1 DEF IInv, RunGood
<1>6. ASSUME NEW s \in Servers, NEW r \in Runs PROVE CacheGood(s, r)'
  <2>1. CacheGood(s, r) /\ ~Up(s)
    BY <1>1 DEF IInv
  <2> QED
    BY <1>1, <2>1 DEF CacheGood, Up, Active
<1>7. \A q \in Clients : ClientGood(q)'
  <2>1. \A q \in Clients : client[q].pc \notin {"reserving", "enqueueing"}
    BY <1>1 DEF IInv, TypeOK, ClientsOK, ClientGood
  <2> QED
    BY <1>1, <2>1 DEF ClientGood
<1> QED
  BY <1>1, <1>2, <1>4, <1>5, <1>6, <1>7 DEF IInv, Durable

(* A server that was down held nothing; what it reads it can take over.    *)
LEMMA BootKeeps ==
  ASSUME OneServer, IInv, NEW s \in Servers, Boot(s)
  PROVE  IInv' /\ Durable
<1>1. /\ \A u \in Servers : u = s
      /\ \A t \in Tasks : Here(t) = s
  BY HomeIsAServer DEF OneServer, Here
<1>2. /\ UNCHANGED <<disk, made, session, told, phase, tries, task, client,
                     crashes, worker, overlapped>>
      /\ server[s] = "down" /\ ~Up(s)
      /\ server'[s] = "recovering" /\ Up(s)'
      /\ server' \in [Servers -> {"serving", "recovering", "down"}]
  BY DEF Boot, files, jobs, claims, IInv, TypeOK, Up
<1>3. /\ mem' \in [Servers -> [Runs -> {"none"} \cup States]]
      /\ \A r \in Runs : mem'[s][r] = Readable(disk[r])
  BY DEF Boot, IInv, TypeOK, Readable
<1>4. /\ todo' \in [Servers -> SUBSET Runs]
      /\ \A r \in Runs : r \in todo'[s] <=> disk[r] \in Active
  BY DEF Boot, IInv, TypeOK, States
<1>5. index' \in [Servers -> [Keys -> Runs \cup {NoRun}]]
  BY DEF Boot, IInv, TypeOK
<1>6. TypeOK' /\ Alone'
  BY <1>2, <1>3, <1>4, <1>5 DEF IInv, TypeOK, TasksOK, ClientsOK, Alone
<1>7. \A t \in Tasks : task[t].pc = "idle"
  BY <1>1, <1>2 DEF IInv, TaskGood
<1>8. \A t \in Tasks : TaskGood(t)'
  BY <1>2, <1>7 DEF TaskGood
<1>9. \A r \in Runs : RunGood(r)'
  BY <1>2 DEF IInv, RunGood
<1>10. ASSUME NEW u \in Servers, NEW r \in Runs PROVE CacheGood(u, r)'
  <2>1. u = s /\ disk'[r] = disk[r]
    BY <1>1, <1>2
  <2>2. /\ mem'[s][r] = "none" => disk[r] \notin States
        /\ mem'[s][r] # "none" => mem'[s][r] = disk[r] /\ disk[r] \in States
        /\ Terminal \subseteq States /\ "none" \notin Active
    BY <1>3 DEF Readable, States, Active, Terminal
  <2> QED
    BY <1>2, <1>3, <1>4, <2>1, <2>2 DEF CacheGood
<1>11. \A q \in Clients : ClientGood(q)'
  <2>1. \A q \in Clients : client[q].pc \notin {"reserving", "enqueueing"}
    BY <1>1, <1>2 DEF IInv, TypeOK, ClientsOK, ClientGood
  <2> QED
    BY <1>2, <2>1 DEF ClientGood
<1> QED
  BY <1>2, <1>6, <1>8, <1>9, <1>10, <1>11 DEF IInv, Durable

(* The end of a recovery.                                                  *)
LEMMA ServeKeeps ==
  ASSUME IInv, NEW s \in Servers, Serve(s)
  PROVE  IInv' /\ Durable
<1>1. /\ UNCHANGED <<disk, made, session, told, phase, tries, mem, index, todo,
                     task, client, crashes, worker, overlapped>>
      /\ server[s] = "recovering" /\ todo[s] = {}
      /\ server' = [server EXCEPT ![s] = "serving"]
  BY DEF Serve, files, jobs, caches, claims
<1>2. TypeOK' /\ Alone'
  BY <1>1 DEF IInv, TypeOK, TasksOK, ClientsOK, Alone
<1>3. \A u \in Servers : Up(u)' <=> Up(u)
  BY <1>1 DEF IInv, TypeOK, Up
<1>4. \A t \in Tasks : TaskGood(t)'
  BY <1>1, <1>3, HomeIsAServer DEF IInv, TaskGood, Here
<1>5. \A r \in Runs : RunGood(r)'
  BY <1>1 DEF IInv, RunGood
<1>6. ASSUME NEW u \in Servers, NEW r \in Runs PROVE CacheGood(u, r)'
  <2>1. CacheGood(u, r)
    BY DEF IInv
  <2>2. AtWork(r)' <=> AtWork(r)
    BY <1>1 DEF AtWork
  <2>3. r \in todo'[u] => server'[u] = "recovering"
    BY <1>1, <2>1 DEF CacheGood, IInv, TypeOK
  <2> QED
    BY <1>1, <1>3, <2>1, <2>2, <2>3 DEF CacheGood
<1>7. \A q \in Clients : ClientGood(q)'
  BY <1>1, <1>3 DEF IInv, TypeOK, ClientsOK, ClientGood
<1> QED
  BY <1>1, <1>2, <1>4, <1>5, <1>6, <1>7 DEF IInv, Durable

(* One round of the recovery.  A run without a session is in nobody's hand, *)
(* so nothing but the recovery can have touched its file.                  *)
LEMMA RecoverKeeps ==
  ASSUME OneServer, IInv, NEW s \in Servers, NEW r \in Runs, Recover(s, r)
  PROVE  IInv' /\ Durable
<1>1. /\ \A u \in Servers : u = s
      /\ server[s] = "recovering" /\ r \in todo[s] /\ Up(s)
      /\ todo' = [todo EXCEPT ![s] = @ \ {r}]
      /\ UNCHANGED <<made, session, told, index, server, task, client, crashes,
                     worker, overlapped>>
  BY DEF Recover, OneServer, Up, claims
<1>2. /\ CacheGood(s, r) /\ RunGood(r)
      /\ \A x \in Runs : x # r => (x \in todo'[s] <=> x \in todo[s])
      /\ r \notin todo'[s]
      /\ todo' \in [Servers -> SUBSET Runs]
  BY <1>1 DEF IInv, TypeOK
<1>3. CASE session[r] /\ EnsureEnqueued(r) /\ UNCHANGED <<disk, mem>>
  <2>1. /\ phase' = phase \/ phase' = [phase EXCEPT ![r] = "queued"]
        /\ tries' \in [Runs -> 0 .. MaxAttempts]
    BY <1>3, EnsureEnqueuedStep
  <2>2. \A x \in Runs : phase'[x] = phase[x] \/ (x = r /\ phase'[x] = "queued")
    BY <2>1 DEF IInv, TypeOK
  <2>3. phase' \in [Runs -> {"absent"} \cup States]
    BY <2>1 DEF IInv, TypeOK, States, Active
  <2>4. TypeOK' /\ Alone'
    BY <1>1, <1>2, <1>3, <2>1, <2>3 DEF IInv, TypeOK, TasksOK, ClientsOK, Alone
  <2>5. ASSUME NEW t \in Tasks PROVE TaskGood(t)'
    <3>1. TaskGood(t) /\ (task[t].pc # "idle" => task[t].run \in Runs)
      BY BusyPoller DEF IInv
    <3> QED
      BY <1>1, <1>3, <2>2, <3>1 DEF TaskGood, Here, Up
  <2>6. ASSUME NEW x \in Runs PROVE RunGood(x)'
    <3>1. RunGood(x)
      BY DEF IInv
    <3> QED
      BY <1>1, <1>3, <2>2, <3>1 DEF RunGood
  (* A job that counts as succeeded is queued again by the visit.          *)
  <2>7. phase'[r] # "succeeded"
    BY <1>2, <1>3 DEF EnsureEnqueued, Queue!Submit, Queue!Become, Queue!Done, jobs, IInv, TypeOK
  <2>8. ASSUME NEW u \in Servers, NEW x \in Runs PROVE CacheGood(u, x)'
    <3>1. CacheGood(u, x) /\ u = s /\ (AtWork(x)' <=> AtWork(x))
      BY <1>1 DEF IInv, AtWork
    <3>2. phase'[x] = "succeeded" => x # r /\ phase[x] = "succeeded"
      BY <2>2, <2>7
    <3>3. x \in todo'[s] => x \in todo[s]
      BY <1>2
    <3>4. mem[s][x] \in Active /\ ~session[x] => x # r
      BY <1>3
    <3> QED
      BY <1>1, <1>2, <1>3, <3>1, <3>2, <3>3, <3>4 DEF CacheGood, Up
  <2>9. \A q \in Clients : ClientGood(q)'
    BY <1>1 DEF IInv, ClientGood, Up
  <2> QED
    BY <1>3, <2>4, <2>5, <2>6, <2>8, <2>9 DEF IInv, Durable
<1>4. CASE ~session[r] /\ Save(s, r, "failed") /\ UNCHANGED jobs
  <2>1. /\ disk[r] \in Active /\ phase[r] = "absent" /\ told[r] = {}
        /\ made[r] # Unmade
    BY <1>1, <1>2, <1>4 DEF CacheGood, RunGood, IInv, TypeOK, Active, Terminal
  <2>2. /\ \A x \in Runs : disk'[x] = IF x = r THEN "failed" ELSE disk[x]
        /\ \A x \in Runs : mem'[s][x] = IF x = r THEN "failed" ELSE mem[s][x]
        /\ disk' \in [Runs -> FileStates]
        /\ mem' \in [Servers -> [Runs -> {"none"} \cup States]]
        /\ UNCHANGED <<phase, tries>>
    BY <1>4 DEF Save, Cache, Write, IInv, TypeOK, FileStates, States, Terminal, jobs
  <2>3. TypeOK' /\ Alone'
    BY <1>1, <1>2, <2>2 DEF IInv, TypeOK, TasksOK, ClientsOK, Alone
  <2>4. \A t \in Tasks : task[t].pc # "idle" => task[t].run \in Runs /\ task[t].run # r
    BY <1>4, BusyPoller DEF IInv, TaskGood
  <2>5. ASSUME NEW t \in Tasks PROVE TaskGood(t)'
    <3>1. TaskGood(t) /\ Here(t) = s
      BY <1>1, HomeIsAServer DEF IInv, Here
    <3> QED
      BY <1>1, <2>2, <2>4, <3>1 DEF TaskGood, Here, Up
  <2>6. ASSUME NEW x \in Runs PROVE RunGood(x)'
    <3>1. RunGood(x)
      BY DEF IInv
    <3> QED
      BY <1>1, <2>1, <2>2, <3>1 DEF RunGood
  <2>7. ASSUME NEW u \in Servers, NEW x \in Runs PROVE CacheGood(u, x)'
    <3>1. CacheGood(u, x) /\ u = s /\ (AtWork(x)' <=> AtWork(x))
      BY <1>1 DEF IInv, AtWork
    <3>2. /\ Readable("failed") = "failed" /\ "failed" \notin Active
          /\ "failed" \in Terminal /\ "failed" \in States
      BY DEF Readable, States, Active, Terminal
    <3>3. CASE x = r
      BY <1>1, <1>2, <2>2, <3>1, <3>2, <3>3 DEF CacheGood, Up
    <3>4. CASE x # r
      BY <1>1, <1>2, <2>2, <3>1, <3>4 DEF CacheGood, Up
    <3> QED
      BY <3>3, <3>4
  <2>8. \A q \in Clients : ClientGood(q)'
    BY <1>1 DEF IInv, ClientGood, Up
  <2>9. Durable
    BY <2>1, <2>2 DEF Durable, Active, Terminal
  <2> QED
    BY <2>3, <2>5, <2>6, <2>7, <2>8, <2>9 DEF IInv
<1> QED
  BY <1>3, <1>4 DEF Recover

-----------------------------------------------------------------------------
(***************************************************************************)
(* The theorems: with one server, as the README deploys it.                *)
(***************************************************************************)
(* Every step keeps the invariant and every saved outcome.                 *)
LEMMA StepKeeps ==
  ASSUME OneServer, IInv, [Next]_vars
  PROVE  IInv' /\ Durable
<1>1. ASSUME NEW q \in Clients, NEW s \in Servers, NEW k \in Keys,
             NEW b \in Says[q], Ask(q, s, k, b)
      PROVE  IInv' /\ Durable
  BY <1>1, AskKeeps, RequestsSayBodies
<1>2. CASE \E q \in Clients : Reply(q)
  BY <1>2, ReplyKeeps
<1>3. CASE \E t \in Tasks, r \in Runs : Claim(t, r) \/ ClaimGivesUp(t, r)
  BY <1>3, GivenUpKeeps, ClaimKeeps
<1>4. ASSUME NEW t \in Tasks, Process(t) PROVE IInv' /\ Durable
  <2>1. CASE Enter(t)
    BY <2>1, EnterKeeps
  <2>2. CASE Prepared(t)
    BY <2>2, PreparedKeeps
  <2>3. CASE Answered(t) \/ ProviderFails(t) \/ ArtifactFails(t)
    BY <2>3, CallsKeep
  <2>4. CASE PreparationFails(t) \/ Recorded(t) \/ OutOfProviders(t)
    BY <2>4, EndsKeep
  <2>5. CASE Notified(t)
    BY <2>5, NotifiedKeeps
  <2>6. CASE Returned(t) \/ Raised(t)
    BY <2>6, LeavesKeep
  <2> QED
    BY <1>4, <2>1, <2>2, <2>3, <2>4, <2>5, <2>6 DEF Process
<1>5. ASSUME NEW s \in Servers, Restart(s) PROVE IInv' /\ Durable
  BY <1>5, BootKeeps, ServeKeeps, RecoverKeeps DEF Restart
<1>6. CASE \E s \in Servers : Crash(s)
  BY <1>6, CrashKeeps
<1>7. CASE DatabaseReset
  BY <1>7, ResetKeeps
<1>8. CASE UNCHANGED vars
  BY <1>8 DEF vars, IInv, TypeOK, TasksOK, ClientsOK, Alone, TaskGood, RunGood,
     CacheGood, ClientGood, AtWork, Up, Here, Durable
<1> QED
  BY <1>1, <1>2, <1>3, <1>4, <1>5, <1>6, <1>7, <1>8 DEF Next

(* The first start finds no file, no job and no request.                   *)
LEMMA StartIsGood == Init => IInv
<1> SUFFICES ASSUME Init PROVE IInv
  OBVIOUS
<1>1. Idle \in TaskRecords /\ Idle.run = NoRun /\ Idle.pc = "idle"
  BY IdleRecord
<1>2. TasksOK
  BY <1>1 DEF Init, TasksOK
<1>3. NoRequest \in Requests /\ NoRequest.pc = "idle"
  BY DEF NoRequest, Requests
<1>4. ClientsOK
  BY <1>3 DEF Init, ClientsOK, Accepted
<1>5. Unmade \in Contents
  BY DEF Unmade, Contents
<1>6. TypeOK
  BY <1>2, <1>4, <1>5, CountsAreNaturals DEF Init, Queue!Init, TypeOK, FileStates, States
<1>7. Alone /\ \A t \in Tasks : TaskGood(t)
  BY <1>1 DEF Init, Alone, TaskGood
<1>8. \A r \in Runs : RunGood(r)
  BY DEF Init, Queue!Init, RunGood
<1>9. \A s \in Servers, r \in Runs : CacheGood(s, r)
  BY DEF Init, Queue!Init, CacheGood, Readable, States, Active, Terminal
<1>10. \A q \in Clients : ClientGood(q)
  BY <1>3 DEF Init, ClientGood
<1> QED
  BY <1>6, <1>7, <1>8, <1>9, <1>10 DEF IInv

(* The invariant holds in every state of the one-server deployment.        *)
LEMMA InvariantHolds == ASSUME OneServer PROVE Spec => []IInv
<1>1. IInv /\ [Next]_vars => IInv'
  BY StepKeeps
<1> QED
  BY <1>1, StartIsGood, PTL DEF Spec

-----------------------------------------------------------------------------
(***************************************************************************)
(* Keys, and the jobs of accepted runs.                                    *)
(***************************************************************************)
(* A live server's index has exactly the readable runs, which share no key. *)
KeysGood ==
  /\ \A r, x \in Runs :
       disk[r] \in States /\ disk[x] \in States /\ made[r].key = made[x].key => r = x
  /\ \A r \in Runs : disk[r] # "none" => made[r].key \in Keys
  /\ \A s \in Servers, r \in Runs :
       Up(s) /\ disk[r] \in States => index[s][made[r].key] = r
  /\ \A s \in Servers, k \in Keys :
       index[s][k] # NoRun => disk[index[s][k]] \in States /\ made[index[s][k]].key = k
  /\ \A q \in Clients :
       client[q].pc \in {"enqueueing"} \cup Accepted =>
         /\ disk[client[q].run] # "none" /\ made[client[q].run].key = client[q].key
         /\ client[q].at \in Servers

(* Unfinished, not left to a recovery, and unknown to the queue.           *)
Jobless(r) ==
  /\ disk[r] \in Active /\ phase[r] = "absent"
  /\ \E s \in Servers : Up(s) /\ r \notin todo[s]
Backed == \A q \in Clients : client[q].pc = "accepted" => ~Jobless(client[q].run)

(* A step that makes no run, answers nobody and keeps the servers up.      *)
Aside ==
  /\ UNCHANGED <<made, index, client>>
  /\ \A s \in Servers : Up(s)' <=> Up(s)
  /\ \A r \in Runs : /\ disk'[r] \in States <=> disk[r] \in States
                     /\ disk'[r] = "none" <=> disk[r] = "none"
                     /\ Jobless(r)' => Jobless(r)

LEMMA AsideKeeps ==
  ASSUME IInv, KeysGood, Backed, Aside
  PROVE  KeysGood' /\ Backed'
<1>1. KeysGood'
  <2>1. \A q \in Clients : client[q].pc \in {"enqueueing"} \cup Accepted => client[q].run \in Runs
    BY DEF IInv, TypeOK, ClientsOK
  <2>2. \A s \in Servers, k \in Keys : index[s][k] # NoRun => index[s][k] \in Runs
    BY DEF IInv, TypeOK
  <2> QED
    BY <2>1, <2>2 DEF KeysGood, Aside
<1>2. Backed'
  BY DEF Backed, Aside, IInv, TypeOK, ClientsOK, Accepted
<1> QED
  BY <1>1, <1>2

(* No step of the queue forgets a job.                                     *)
LEMMA JobsStay ==
  ASSUME IInv, NEW r \in Runs,
         \/ Queue!Submit(r) \/ Queue!Start(r) \/ Queue!Retry(r)
         \/ Queue!GiveUp(r) \/ EnsureEnqueued(r)
         \/ Queue!Finish(r) /\ phase'[r] = "succeeded"
  PROVE  /\ \A x \in Runs : phase[x] # "absent" => phase'[x] # "absent"
         /\ phase'[r] # "absent"
BY DEF Queue!Submit, Queue!Start, Queue!Retry, Queue!GiveUp, Queue!Finish,
       Queue!Become, Queue!Done, Queue!HandedOver, EnsureEnqueued, jobs, IInv, TypeOK

(* A poller's steps stay aside.                                            *)
LEMMA ProcessAside ==
  ASSUME OneServer, IInv, NEW t \in Tasks, Process(t)
  PROVE  Aside
<1> DEFINE r == task[t].run
           s == Here(t)
           st == mem[s][r]
<1>1. task[t].pc # "idle"
  BY DEF Process, Enter, Prepared, PreparationFails, Answered, ProviderFails, ArtifactFails,
         Calling, Recorded, OutOfProviders, Notified, Returned, Raised
<1>2. /\ r \in Runs /\ s \in Servers /\ Up(s) /\ TaskGood(t) /\ CacheGood(s, r)
      /\ st \in {"none"} \cup States /\ Known(s, r) = st
      /\ st # "none" => disk[r] \in States
  BY <1>1, RunInHand DEF CacheGood
<1>3. task[t].pc \in Working => st \in States /\ disk[r] \in States
  BY <1>1, <1>2 DEF TaskGood, States, Active, Terminal
<1>4. Durable
  BY StepKeeps DEF Next
<1>5. /\ UNCHANGED <<made, client, server, todo>>
      /\ index' = index
      /\ \/ disk' = disk
         \/ /\ disk[r] \in States
            /\ \E d \in States : disk' = [disk EXCEPT ![r] = d]
      /\ \A x \in Runs : phase[x] # "absent" => phase'[x] # "absent"
  <2>1. CASE Enter(t)
    <3>1. UNCHANGED <<made, client, server, todo, phase>>
      BY <2>1 DEF Enter, jobs, life
    <3>2. index' = index
      BY <1>2, <2>1 DEF Enter
    <3>3. disk' = disk \/ (st # "none" /\ disk' = [disk EXCEPT ![r] = "running"])
      BY <1>2, <2>1 DEF Enter, Save, Write
    <3> QED
      BY <1>2, <3>1, <3>2, <3>3 DEF States, Active
  <2>2. CASE Prepared(t)
    BY <1>3, <2>2 DEF Prepared, Write, jobs, caches, life, Working
  <2>3. CASE Answered(t) \/ ProviderFails(t) \/ ArtifactFails(t)
    BY <2>3 DEF Answered, ProviderFails, ArtifactFails, files, jobs, caches, life
  <2>4. CASE PreparationFails(t) \/ Recorded(t) \/ OutOfProviders(t)
    <3>1. task[t].pc \in Working
      BY <2>4 DEF PreparationFails, Recorded, OutOfProviders, Working
    <3>2. PICK d \in States : Conclude(t, d)
      BY <1>3, <2>4, <3>1 DEF PreparationFails, Recorded, OutOfProviders, States, Terminal
    <3> QED
      BY <1>3, <3>1, <3>2 DEF Conclude, Save, Write, jobs, life
  <2>5. CASE Notified(t)
    BY <2>5 DEF Notified, files, jobs, caches, life
  <2>6. CASE Returned(t) \/ Raised(t)
    <3>1. UNCHANGED <<made, client, server, todo, index, disk>>
      BY <2>6 DEF Returned, Raised, files, caches, life
    <3>2. \/ UNCHANGED jobs \/ Queue!Retry(r) \/ Queue!GiveUp(r)
          \/ (Queue!Finish(r) /\ phase'[r] = "succeeded")
      BY <2>6 DEF Returned, Raised, Complete, RetryOrFail
    <3>3. \A x \in Runs : phase[x] # "absent" => phase'[x] # "absent"
      BY <1>2, <3>2, JobsStay DEF jobs
    <3> QED
      BY <3>1, <3>3
  <2> QED
    BY <2>1, <2>2, <2>3, <2>4, <2>5, <2>6 DEF Process
<1>6. \A x \in Runs :
        /\ disk'[x] \in States <=> disk[x] \in States
        /\ disk'[x] = "none" <=> disk[x] = "none"
        /\ disk'[x] \in Active => disk[x] \in Active
  <2>1. \A x \in Runs : disk'[x] = disk[x] \/ (disk[x] \in States /\ disk'[x] \in States)
    BY <1>2, <1>5 DEF IInv, TypeOK
  <2> QED
    BY <1>4, <2>1 DEF Durable, States, Active, Terminal
<1>7. \A x \in Runs : phase'[x] = "absent" => phase[x] = "absent"
  BY <1>5
<1> QED
  BY <1>5, <1>6, <1>7 DEF Aside, Jobless, Up

(* So do the queue, the other steps of a restart and the reset.            *)
LEMMA OthersAside ==
  ASSUME OneServer, IInv,
         \/ \E t \in Tasks, r \in Runs : Claim(t, r) \/ ClaimGivesUp(t, r)
         \/ \E s \in Servers : Serve(s) \/ \E r \in Runs : Recover(s, r)
         \/ DatabaseReset
         \/ UNCHANGED vars
  PROVE  Aside
<1>1. CASE \E t \in Tasks, r \in Runs : Claim(t, r) \/ ClaimGivesUp(t, r)
  <2>1. PICK t \in Tasks, r \in Runs : Claim(t, r) \/ ClaimGivesUp(t, r)
    BY <1>1
  <2>2. UNCHANGED <<disk, made, index, client, server, todo>>
    BY <2>1 DEF ClaimGivesUp, Claim, files, caches, life, claims
  <2>3. \A x \in Runs : phase[x] # "absent" => phase'[x] # "absent"
    BY <2>1, JobsStay DEF ClaimGivesUp, Claim
  <2> QED
    BY <2>2, <2>3 DEF Aside, Jobless, Up
<1>2. CASE \E s \in Servers : Serve(s)
  <2>1. PICK s \in Servers : Serve(s)
    BY <1>2
  <2>2. /\ UNCHANGED <<disk, made, index, client, todo, phase>>
        /\ \A u \in Servers : Up(u)' <=> Up(u)
    BY <2>1 DEF Serve, files, jobs, caches, IInv, TypeOK, Up
  <2> QED
    BY <2>2 DEF Aside, Jobless
<1>3. ASSUME NEW s \in Servers, NEW r \in Runs, Recover(s, r) PROVE Aside
  <2>1. /\ UNCHANGED <<made, index, client, server>>
        /\ r \in todo[s] /\ todo' = [todo EXCEPT ![s] = todo[s] \ {r}]
        /\ \A u \in Servers : u = s
    BY <1>3 DEF Recover, OneServer
  <2>2. \A x \in Runs : x # r => (x \in todo'[s] <=> x \in todo[s])
    BY <2>1 DEF IInv, TypeOK
  <2>3. CASE session[r]
    <3>1. disk' = disk /\ EnsureEnqueued(r)
      BY <1>3, <2>3 DEF Recover
    <3>2. /\ phase'[r] # "absent"
          /\ \A x \in Runs : phase[x] # "absent" => phase'[x] # "absent"
      BY <3>1, JobsStay
    <3> QED
      BY <2>1, <2>2, <3>1, <3>2 DEF Aside, Jobless, Up
  <2>4. CASE ~session[r]
    <3>1. disk' = [disk EXCEPT ![r] = "failed"] /\ phase' = phase
      BY <1>3, <2>4 DEF Recover, Save, Write, jobs
    <3>2. disk[r] \in Active
      BY <2>1, <2>4 DEF IInv, CacheGood
    <3>3. \A x \in Runs : disk'[x] = IF x = r THEN "failed" ELSE disk[x]
      BY <3>1 DEF IInv, TypeOK
    <3> QED
      BY <2>1, <2>2, <3>1, <3>2, <3>3 DEF Aside, Jobless, Up, States, Active, Terminal
  <2> QED
    BY <2>3, <2>4
<1>4. CASE DatabaseReset
  BY <1>4 DEF DatabaseReset, files, caches, life, claims, Aside, Jobless, Up
<1>5. CASE UNCHANGED vars
  BY <1>5 DEF vars, Aside, Jobless, Up
<1> QED
  BY <1>1, <1>2, <1>3, <1>4, <1>5

(* What Ask and the answers do to one client.                              *)
LEMMA KeysOfAsk ==
  ASSUME OneServer, IInv, KeysGood, Backed, NEW q \in Clients, NEW s \in Servers,
         NEW k \in Keys, NEW b \in Bodies, Ask(q, s, k, b)
  PROVE  KeysGood' /\ Backed'
<1> DEFINE r == index[s][k]
           to == IF r = NoRun THEN "reserving"
                 ELSE IF NeedsQueue(mem[s][r]) THEN "enqueueing" ELSE "accepted"
<1>1. UNCHANGED <<disk, made, index, server, todo, phase>>
  BY DEF Ask, files, jobs, caches, life, claims
<1>2. /\ client'[q].pc = to /\ client'[q].run = r /\ client'[q].key = k
      /\ client'[q].at = s /\ client[q].pc # "enqueueing"
      /\ \A p \in Clients : p # q => client'[p] = client[p]
  BY DEF Ask, IInv, TypeOK, ClientsOK, Accepted
<1>3. to \in {"enqueueing"} \cup Accepted => r \in Runs /\ r # NoRun
  BY DEF IInv, TypeOK, Accepted
<1> HIDE DEF r, to
<1>4. to \in {"enqueueing"} \cup Accepted => disk[r] # "none" /\ made[r].key = k
  BY <1>3 DEF KeysGood, r, States, Active, Terminal
<1>5. \A p \in Clients :
        client'[p].pc \in {"enqueueing"} \cup Accepted =>
          /\ disk[client'[p].run] # "none" /\ made[client'[p].run].key = client'[p].key
          /\ client'[p].at \in Servers
  BY <1>2, <1>4 DEF KeysGood
<1>6. KeysGood'
  BY <1>1, <1>5 DEF KeysGood, Up
(* A run found ended is ended on disk, or in the hands of its task.        *)
<1>7. ASSUME to = "accepted" PROVE r \in Runs /\ ~Jobless(r)
  <2>1. r \in Runs /\ mem[s][r] \notin Active
    BY <1>7 DEF r, to, NeedsQueue, IInv, TypeOK
  <2>2. index[s][k] # NoRun /\ index[s][k] = r
    BY <1>3, <1>7 DEF r, Accepted
  <2>3. disk[r] \in States /\ Up(s) /\ CacheGood(s, r)
    BY <2>1, <2>2 DEF KeysGood, Ask, Up, IInv
  <2>4. CASE AtWork(r)
    BY <2>1, <2>4 DEF AtWork, Ahead, IInv, TaskGood, Jobless
  <2>5. CASE ~AtWork(r)
    BY <2>1, <2>3, <2>5 DEF CacheGood, Readable, Jobless
  <2> QED
    BY <2>1, <2>4, <2>5
<1>8. Jobless(r)' = Jobless(r) /\ \A x \in Runs : Jobless(x)' => Jobless(x)
  BY <1>1 DEF Jobless, Up, r
<1>9. Backed'
  BY <1>1, <1>2, <1>7, <1>8 DEF Backed, Jobless, Up
<1> QED
  BY <1>6, <1>9

LEMMA KeysOfReply ==
  ASSUME OneServer, IInv, KeysGood, Backed, NEW q \in Clients, Reply(q)
  PROVE  KeysGood' /\ Backed'
<1>0. ClientsOK
  BY DEF IInv, TypeOK
(* An answer that makes no run.                                            *)
<1>1. ASSUME NEW pc \in {"refused"} \cup Accepted, NEW r, Answer(q, pc, r),
             UNCHANGED <<disk, made, index, server, todo>>,
             pc \in Accepted =>
               /\ r \in Runs /\ disk[r] # "none" /\ made[r].key = client[q].key
               /\ client[q].at \in Servers,
             pc = "accepted" => ~Jobless(r)',
             \A x \in Runs : Jobless(x)' => Jobless(x)
      PROVE  KeysGood' /\ Backed'
  <2>1. /\ client'[q].pc = pc /\ client'[q].run = r /\ client'[q].key = client[q].key
        /\ client'[q].at = client[q].at
        /\ \A p \in Clients : p # q => client'[p] = client[p]
    BY <1>0, <1>1 DEF Answer, ClientsOK, Requests
  <2>2. \A p \in Clients :
          client'[p].pc \in {"enqueueing"} \cup Accepted =>
            /\ disk[client'[p].run] # "none" /\ made[client'[p].run].key = client'[p].key
            /\ client'[p].at \in Servers
    BY <1>1, <2>1 DEF KeysGood
  <2>3. KeysGood'
    BY <1>1, <2>2 DEF KeysGood, Up
  <2>4. Backed'
    BY <1>0, <1>1, <2>1 DEF Backed, ClientsOK, Accepted
  <2> QED
    BY <2>3, <2>4
<1>2. CASE ReserveFails(q)
  <2>1. /\ UNCHANGED <<disk, made, index, server, todo, phase>>
        /\ Answer(q, "refused", NoRun) /\ client[q].pc = "reserving"
    BY <1>2 DEF ReserveFails, files, jobs, caches, life, claims
  <2>2. \A x \in Runs : Jobless(x)' => Jobless(x)
    BY <2>1 DEF Jobless, Up
  <2> QED
    BY <1>1, <2>1, <2>2 DEF Accepted
<1>3. CASE Enqueued(q) \/ EnqueueFails(q)
  <2> DEFINE r == client[q].run
  <2>1. /\ r \in Runs /\ client[q].pc = "enqueueing"
        /\ disk[r] # "none" /\ made[r].key = client[q].key /\ client[q].at \in Servers
    BY <1>0, <1>3 DEF Enqueued, EnqueueFails, ClientsOK, KeysGood
  <2>2. /\ UNCHANGED <<disk, made, index, server, todo>>
        /\ EnsureEnqueued(r) \/ UNCHANGED jobs
    BY <1>3 DEF Enqueued, EnqueueFails, files, caches, life, claims
  <2>3. (Answer(q, "accepted", r) /\ Enqueued(q)) \/ Answer(q, "refused", NoRun)
    BY <1>3 DEF Enqueued, EnqueueFails
  <2>4. \A x \in Runs : phase[x] # "absent" => phase'[x] # "absent"
    BY <2>1, <2>2, JobsStay DEF jobs
  <2>5. Enqueued(q) => phase'[r] # "absent"
    BY <2>1, JobsStay DEF Enqueued
  <2>6. PICK x \in Runs : x = r
    BY <2>1
  <2> HIDE DEF r
  <2>7. /\ \A y \in Runs : Jobless(y)' => Jobless(y)
        /\ Enqueued(q) => ~Jobless(x)'
    BY <2>2, <2>4, <2>5, <2>6 DEF Jobless, Up
  <2>8. CASE Answer(q, "accepted", r) /\ Enqueued(q)
    BY <1>1, <2>1, <2>2, <2>6, <2>7, <2>8 DEF Accepted
  <2>9. CASE Answer(q, "refused", NoRun)
    BY <1>1, <2>1, <2>2, <2>7, <2>9 DEF Accepted
  <2> QED
    BY <2>3, <2>8, <2>9
<1>4. CASE CreateOrGet(q) /\ index[client[q].at][client[q].key] # NoRun
  <2> DEFINE r == index[client[q].at][client[q].key]
  <2>1. /\ r \in Runs /\ client[q].pc = "reserving"
        /\ disk[r] # "none" /\ made[r].key = client[q].key /\ client[q].at \in Servers
    <3>1. /\ client[q].pc = "reserving" /\ client[q].at \in Servers
          /\ client[q].key \in Keys
      BY <1>0, <1>4 DEF CreateOrGet, ClientsOK
    <3>2. r \in Runs /\ r # NoRun
      BY <1>4, <3>1 DEF IInv, TypeOK
    <3>3. disk[r] \in States /\ made[r].key = client[q].key
      BY <3>1, <3>2 DEF KeysGood
    <3> QED
      BY <3>1, <3>2, <3>3 DEF States, Active, Terminal
  <2>2. UNCHANGED <<disk, made, index, server, todo, phase>>
    BY <1>4 DEF CreateOrGet, files, jobs, caches, life, claims
  <2>3. Answer(q, "joined", r) \/ Answer(q, "refused", NoRun)
    BY <1>4 DEF CreateOrGet
  <2> HIDE DEF r
  <2>4. \A x \in Runs : Jobless(x)' => Jobless(x)
    BY <2>2 DEF Jobless, Up
  <2>5. CASE Answer(q, "joined", r)
    BY <1>1, <2>1, <2>2, <2>4, <2>5 DEF Accepted
  <2>6. CASE Answer(q, "refused", NoRun)
    BY <1>1, <2>2, <2>4, <2>6 DEF Accepted
  <2> QED
    BY <2>3, <2>5, <2>6
<1>5. CASE CreateOrGet(q) /\ index[client[q].at][client[q].key] = NoRun
  <2>1. PICK r \in Runs : r = FreshRun /\ made[r] = Unmade
    BY <1>5, FreshRunIsFresh DEF CreateOrGet
  <2>2. PICK s \in Servers : s = client[q].at /\ Up(s) /\ \A u \in Servers : u = s
    BY <1>5 DEF CreateOrGet, IInv, TypeOK, ClientsOK, ClientGood, OneServer
  <2>3. PICK k \in Keys : k = client[q].key /\ index[s][k] = NoRun
    BY <1>0, <1>5, <2>2 DEF CreateOrGet, ClientsOK
  <2>4. /\ Answer(q, "enqueueing", r)
        /\ made' = [made EXCEPT ![r] = [key |-> k, body |-> client[q].body]]
        /\ index' = [index EXCEPT ![s][k] = r]
        /\ disk' = [disk EXCEPT ![r] = "queued"]
        /\ UNCHANGED <<phase, server, todo>>
    BY <1>5, <2>1, <2>2, <2>3 DEF CreateOrGet, Make, Save, Write, jobs, life, claims
  <2>5. disk[r] = "none"
    BY <2>1 DEF IInv, RunGood
  <2>6. /\ \A x \in Runs : disk'[x] = IF x = r THEN "queued" ELSE disk[x]
        /\ \A x \in Runs : x # r => made'[x] = made[x]
        /\ made'[r].key = k
        /\ \A n \in Keys : index'[s][n] = IF n = k THEN r ELSE index[s][n]
    BY <2>4 DEF IInv, TypeOK
  <2>7. /\ client'[q].pc = "enqueueing" /\ client'[q].run = r /\ client'[q].key = k
        /\ client'[q].at \in Servers
        /\ \A p \in Clients : p # q => client'[p] = client[p]
    BY <1>0, <2>2, <2>3, <2>4 DEF Answer, ClientsOK, Requests
  <2>8. "queued" \in States /\ "queued" # "none" /\ "none" \notin States
    BY DEF States, Active, Terminal
  (* Nobody else has the key.                                              *)
  <2>9. \A x \in Runs : disk[x] \in States => made[x].key # k
    BY <2>2, <2>3, NoRunIsNoRun DEF KeysGood
  <2>10. KeysGood'
    <3>1. \A x, y \in Runs :
            disk'[x] \in States /\ disk'[y] \in States /\ made'[x].key = made'[y].key => x = y
      BY <2>6, <2>9 DEF KeysGood
    <3>2. \A x \in Runs : disk'[x] # "none" => made'[x].key \in Keys
      BY <2>6 DEF KeysGood
    <3>3. \A x \in Runs : disk'[x] \in States => index'[s][made'[x].key] = x
      <4> SUFFICES ASSUME NEW x \in Runs, disk'[x] \in States
                   PROVE  index'[s][made'[x].key] = x
        OBVIOUS
      <4>1. CASE x = r
        BY <2>6, <4>1
      <4>2. CASE x # r
        <5>1. disk[x] \in States /\ made'[x].key = made[x].key /\ made[x].key # k
          BY <2>6, <2>9, <4>2
        <5>2. made[x].key \in Keys /\ index[s][made[x].key] = x
          BY <2>2, <2>8, <5>1 DEF KeysGood
        <5> QED
          BY <2>6, <5>1, <5>2
      <4> QED
        BY <4>1, <4>2
    <3>4. \A n \in Keys :
            index'[s][n] # NoRun => disk'[index'[s][n]] \in States /\ made'[index'[s][n]].key = n
      <4> SUFFICES ASSUME NEW n \in Keys, index'[s][n] # NoRun
                   PROVE  disk'[index'[s][n]] \in States /\ made'[index'[s][n]].key = n
        OBVIOUS
      <4>1. CASE n = k
        BY <2>6, <2>8, <4>1
      <4>2. CASE n # k
        <5>1. index'[s][n] = index[s][n] /\ index[s][n] \in Runs
          BY <2>6, <4>2 DEF IInv, TypeOK
        <5>2. disk[index[s][n]] \in States /\ made[index[s][n]].key = n
          BY <5>1 DEF KeysGood
        <5>3. index[s][n] # r
          BY <2>5, <2>8, <5>2
        <5> QED
          BY <2>6, <5>1, <5>2, <5>3
      <4> QED
        BY <4>1, <4>2
    <3>5. \A p \in Clients :
            client'[p].pc \in {"enqueueing"} \cup Accepted =>
              /\ disk'[client'[p].run] # "none" /\ made'[client'[p].run].key = client'[p].key
              /\ client'[p].at \in Servers
      <4> SUFFICES ASSUME NEW p \in Clients, client'[p].pc \in {"enqueueing"} \cup Accepted
                   PROVE  /\ disk'[client'[p].run] # "none"
                          /\ made'[client'[p].run].key = client'[p].key
                          /\ client'[p].at \in Servers
        OBVIOUS
      <4>1. CASE p = q
        BY <2>6, <2>7, <4>1
      <4>2. CASE p # q
        <5>1. /\ client'[p] = client[p] /\ client[p].run \in Runs
              /\ disk[client[p].run] # "none" /\ made[client[p].run].key = client[p].key
              /\ client[p].at \in Servers
          BY <1>0, <2>7, <4>2 DEF ClientsOK, KeysGood
        <5>2. client[p].run # r
          BY <2>5, <5>1
        <5> QED
          BY <2>6, <5>1, <5>2
      <4> QED
        BY <4>1, <4>2
    <3> QED
      BY <2>2, <3>1, <3>2, <3>3, <3>4, <3>5 DEF KeysGood
  (* A new run has no job yet, but nobody was accepted for it.             *)
  <2>11. Backed'
    <3> SUFFICES ASSUME NEW p \in Clients, client'[p].pc = "accepted"
                 PROVE  ~Jobless(client[p].run)'
      BY DEF Backed
    <3>1. p # q /\ client'[p] = client[p]
      BY <2>7
    <3>2. client[p].run \in Runs /\ disk[client[p].run] # "none" /\ ~Jobless(client[p].run)
      BY <1>0, <3>1 DEF ClientsOK, KeysGood, Backed, Accepted
    <3>3. disk'[client[p].run] = disk[client[p].run]
      BY <2>5, <2>6, <3>2
    <3> QED
      BY <2>4, <3>1, <3>2, <3>3 DEF Jobless, Up
  <2> QED
    BY <2>10, <2>11
<1> QED
  BY <1>2, <1>3, <1>4, <1>5 DEF Reply

(* A crash forgets the index; the next start makes it anew.                *)
LEMMA KeysOfCrash ==
  ASSUME OneServer, IInv, KeysGood, NEW s \in Servers, Crash(s)
  PROVE  KeysGood' /\ Backed'
<1>1. \A u \in Servers : u = s
  BY DEF OneServer
<1>2. /\ index' = [index EXCEPT ![s] = [k \in Keys |-> NoRun]]
      /\ server' = [server EXCEPT ![s] = "down"]
  BY DEF Crash
(* The run of a torn first write was nobody's.                             *)
<1>3. \A r \in Runs :
        \/ disk'[r] = disk[r] /\ made'[r] = made[r]
        \/ disk'[r] = "torn" /\ disk[r] # "none" /\ made'[r] = made[r]
        \/ disk'[r] = "torn" /\ disk[r] = "none" /\ made'[r].key \in Keys
  <2>1. CASE UNCHANGED files
    BY <2>1 DEF files
  <2>2. ASSUME NEW x \in Runs, Torn(x) PROVE <1>3
    <3>1. \A r \in Runs : disk'[r] = IF r = x THEN "torn" ELSE disk[r]
      BY <2>2 DEF Torn, IInv, TypeOK
    <3>2. CASE made' = made /\ disk[x] \in States
      BY <3>1, <3>2 DEF States, Active, Terminal
    <3>3. CASE made[x] = Unmade /\ \E k \in Keys, b \in Bodies \cup {NoRun} :
                 made' = [made EXCEPT ![x] = [key |-> k, body |-> b]]
      <4>1. PICK k \in Keys, b \in Bodies \cup {NoRun} :
              made' = [made EXCEPT ![x] = [key |-> k, body |-> b]]
        BY <3>3
      <4>2. /\ made'[x].key = k
            /\ \A r \in Runs : r # x => made'[r] = made[r]
        BY <4>1 DEF IInv, TypeOK
      <4>3. disk[x] = "none"
        BY <3>3 DEF IInv, RunGood
      <4> QED
        BY <3>1, <4>2, <4>3
    <3> QED
      BY <2>2, <3>2, <3>3 DEF Torn
  <2> QED
    BY <2>1, <2>2, CrashTears
<1>4. \A r \in Runs : /\ disk'[r] \in States => disk[r] \in States /\ made'[r] = made[r]
                      /\ disk[r] # "none" => disk'[r] # "none" /\ made'[r] = made[r]
                      /\ disk'[r] # "none" => made'[r].key \in Keys
  BY <1>3 DEF KeysGood, States, Active, Terminal
<1>5. server'[s] = "down" /\ \A k \in Keys : index'[s][k] = NoRun
  BY <1>2 DEF IInv, TypeOK
<1>6. \A q \in Clients :
        client'[q].pc \in {"enqueueing"} \cup Accepted =>
          /\ client'[q] = client[q] /\ client[q].run \in Runs
          /\ client[q].pc \in Accepted
  <2> SUFFICES ASSUME NEW q \in Clients, client'[q].pc \in {"enqueueing"} \cup Accepted
               PROVE  /\ client'[q] = client[q] /\ client[q].run \in Runs
                      /\ client[q].pc \in Accepted
    OBVIOUS
  <2>1. client[q] \in Requests
    BY DEF IInv, TypeOK, ClientsOK
  <2>2. client[q].pc \in {"reserving", "enqueueing"} => client[q].at = s
    BY <1>1 DEF IInv, TypeOK, ClientsOK
  <2>3. CASE client[q].at = s /\ client[q].pc \in {"reserving", "enqueueing"}
    <3>1. client'[q] = [client[q] EXCEPT !.pc = "refused", !.run = NoRun, !.body = NoRun]
      BY <2>3 DEF Crash
    <3> QED
      BY <2>1, <3>1 DEF Requests, Accepted
  <2>4. CASE client[q].pc \notin {"reserving", "enqueueing"}
    <3>1. client'[q] = client[q]
      BY <2>4 DEF Crash
    <3> QED
      BY <2>4, <3>1 DEF IInv, TypeOK, ClientsOK
  <2> QED
    BY <2>2, <2>3, <2>4
<1>7. \A q \in Clients :
        client'[q].pc \in {"enqueueing"} \cup Accepted =>
          /\ disk'[client'[q].run] # "none" /\ made'[client'[q].run].key = client'[q].key
          /\ client'[q].at \in Servers
  BY <1>4, <1>6 DEF KeysGood
<1>8. KeysGood'
  BY <1>1, <1>4, <1>5, <1>7 DEF KeysGood, Up
<1>9. Backed'
  BY <1>1, <1>5 DEF Backed, Jobless, Up, Accepted
<1> QED
  BY <1>8, <1>9

LEMMA KeysOfBoot ==
  ASSUME OneServer, IInv, KeysGood, NEW s \in Servers, Boot(s)
  PROVE  KeysGood' /\ Backed'
<1>1. \A u \in Servers : u = s
  BY DEF OneServer
<1>2. UNCHANGED <<disk, made, client>>
  BY DEF Boot, files
<1>3. \A k \in Keys :
        index'[s][k] \in IF RunsOf(k) = {} THEN {NoRun} ELSE RunsOf(k)
  BY DEF Boot, IInv, TypeOK
<1>4. ASSUME NEW r \in Runs, disk[r] \in States
      PROVE  made[r].key \in Keys /\ index'[s][made[r].key] = r
  <2>1. made[r].key \in Keys
    BY <1>4 DEF KeysGood, States, Active, Terminal
  <2>2. RunsOf(made[r].key) = {r}
    BY <1>4 DEF RunsOf, KeysGood
  <2> QED
    BY <1>3, <2>1, <2>2
<1>5. \A k \in Keys :
        index'[s][k] # NoRun => disk[index'[s][k]] \in States /\ made[index'[s][k]].key = k
  BY <1>3 DEF RunsOf
<1>6. KeysGood'
  BY <1>1, <1>2, <1>4, <1>5 DEF KeysGood
<1>7. \A r \in Runs : disk[r] \in Active => r \in todo'[s]
  BY DEF Boot, IInv, TypeOK, States
<1>8. Backed'
  BY <1>1, <1>2, <1>7 DEF Backed, Jobless, IInv, TypeOK, ClientsOK, Accepted
<1> QED
  BY <1>6, <1>8

(* Every step keeps keys and jobs.                                         *)
LEMMA StepKeepsKeys ==
  ASSUME OneServer, IInv, KeysGood, Backed, [Next]_vars
  PROVE  KeysGood' /\ Backed'
<1>1. ASSUME NEW q \in Clients, NEW s \in Servers, NEW k \in Keys,
             NEW b \in Says[q], Ask(q, s, k, b)
      PROVE  KeysGood' /\ Backed'
  BY <1>1, KeysOfAsk, RequestsSayBodies
<1>2. CASE \E q \in Clients : Reply(q)
  BY <1>2, KeysOfReply
<1>3. CASE \E t \in Tasks : Process(t)
  BY <1>3, ProcessAside, AsideKeeps
<1>4. CASE \E s \in Servers : Crash(s)
  BY <1>4, KeysOfCrash
<1>5. CASE \E s \in Servers : Boot(s)
  BY <1>5, KeysOfBoot
<1>6. CASE \/ \E t \in Tasks, r \in Runs : Claim(t, r) \/ ClaimGivesUp(t, r)
           \/ \E s \in Servers : Serve(s) \/ \E r \in Runs : Recover(s, r)
           \/ DatabaseReset
           \/ UNCHANGED vars
  BY <1>6, OthersAside, AsideKeeps
<1> QED
  BY <1>1, <1>2, <1>3, <1>4, <1>5, <1>6 DEF Next, Restart

LEMMA StartKeepsKeys == Init => KeysGood /\ Backed
<1> SUFFICES ASSUME Init PROVE KeysGood /\ Backed
  OBVIOUS
<1>1. \A q \in Clients : client[q].pc = "idle"
  BY DEF Init, NoRequest
<1> QED
  BY <1>1 DEF Init, KeysGood, Backed, States, Active, Terminal, Accepted

LEMMA KeysHold == ASSUME OneServer PROVE Spec => [](IInv /\ KeysGood /\ Backed)
<1>1. IInv /\ KeysGood /\ Backed /\ [Next]_vars => (IInv /\ KeysGood /\ Backed)'
  BY StepKeeps, StepKeepsKeys
<1> QED
  BY <1>1, StartIsGood, StartKeepsKeys, PTL DEF Spec

(* Files, caches, jobs, tasks and requests keep their types.               *)
THEOREM RunsTyped == ASSUME OneServer PROVE Spec => []TypeOK
<1>1. IInv => TypeOK
  BY DEF IInv
<1> QED
  BY <1>1, InvariantHolds, PTL

(* "Completion is durable locally" (service.py:370): no step of a server,  *)
(* a client or the queue takes a run up again whose file holds an outcome; *)
(* the outcome itself changes only for a run once claimed under a live     *)
(* task.                                                                   *)
THEOREM CompletionLasts == ASSUME OneServer PROVE Spec => CompletionIsDurable
<1>1. IInv /\ [Next]_vars =>
        [\A r \in Runs : disk[r] \in Terminal =>
           /\ disk'[r] \in Terminal \cup {"torn"}
           /\ r \notin overlapped => disk'[r] = disk[r]]_vars
  BY StepKeeps DEF Durable
<1> QED
  BY <1>1, InvariantHolds, PTL DEF Spec, CompletionIsDurable

(* Once every server serves, an unfinished run whose job counts as         *)
(* succeeded is still in the hands of a task.                              *)
LEMMA SucceededInHand ==
  ASSUME OneServer, IInv, NEW r \in Runs, phase[r] = "succeeded", disk[r] \in Active,
         \A s \in Servers : server[s] = "serving"
  PROVE  \E t \in Tasks : task[t].run = r
<1>1. PICK s \in Servers : TRUE
  BY DEF OneServer
<1>2. Up(s) /\ CacheGood(s, r) /\ mem[s][r] \in {"none"} \cup States
  BY DEF IInv, TypeOK, Up
<1>3. r \notin todo[s]
  BY <1>2 DEF CacheGood
<1>4. mem[s][r] # Readable(disk[r])
  BY <1>2, <1>3 DEF CacheGood, Readable, States
<1> QED
  BY <1>2, <1>4 DEF CacheGood, AtWork

(* A job the queue counts as succeeded left a saved outcome behind, or a   *)
(* task or a restart that will save one.                                   *)
THEOREM SuccessIsSaved == ASSUME OneServer PROVE Spec => []JobSuccessMeansSaved
<1>1. ASSUME IInv, NEW r \in Runs, phase[r] = "succeeded"
      PROVE  \/ disk[r] \in Terminal \cup {"torn"}
             \/ /\ r \in overlapped
                /\ \/ \E t \in Tasks : task[t].run = r
                   \/ \E s \in Servers : server[s] # "serving"
  <2>1. RunGood(r) /\ disk[r] \in FileStates
    BY <1>1 DEF IInv, TypeOK
  <2>2. disk[r] # "none"
    BY <1>1, <2>1 DEF RunGood
  <2>3. disk[r] \in Active \/ disk[r] \in Terminal \cup {"torn"}
    BY <2>1, <2>2 DEF FileStates, States
  <2>4. CASE disk[r] \in Active
    <3>1. r \in overlapped
      BY <1>1, <2>1, <2>4 DEF RunGood, Active, Terminal
    <3> QED
      BY <1>1, <2>4, <3>1, SucceededInHand
  <2> QED
    BY <2>3, <2>4
<1>2. IInv => JobSuccessMeansSaved
  BY <1>1 DEF JobSuccessMeansSaved
<1> QED
  BY <1>2, InvariantHolds, PTL

(* Odoo is told of no outcome before one is saved; and of a run never      *)
(* claimed under a live task, nothing but what a restart would find.       *)
THEOREM ToldIsSaved == ASSUME OneServer PROVE Spec => []ToldWhatIsSaved
<1>1. IInv => ToldWhatIsSaved
  BY DEF IInv, RunGood, ToldWhatIsSaved
<1> QED
  BY <1>1, InvariantHolds, PTL

(* A poll reads ahead of the file only between a reply and its saving.     *)
THEOREM CacheSeldomAhead == ASSUME OneServer PROVE Spec => []CacheAheadOnlyAtWork
<1>1. ASSUME IInv, NEW s \in Servers, NEW r \in Runs,
             mem[s][r] \notin {"none", disk[r]}
      PROVE  \E t \in Tasks : /\ Here(t) = s /\ task[t].run = r
                              /\ task[t].pc \in {"calling", "recording"}
  <2>1. CacheGood(s, r)
    BY <1>1 DEF IInv
  <2>2. AtWork(r)
    BY <1>1, <2>1 DEF CacheGood, Readable
  <2>3. PICK t \in Tasks : task[t].run = r /\ task[t].pc \in Ahead
    BY <2>2 DEF AtWork
  <2>4. Here(t) = s
    BY <1>1, HomeIsAServer DEF OneServer, Here
  <2> QED
    BY <2>3, <2>4 DEF Ahead
<1>2. IInv => CacheAheadOnlyAtWork
  BY <1>1 DEF CacheAheadOnlyAtWork
<1> QED
  BY <1>2, InvariantHolds, PTL

(* Two clients answered for one key, before and after a restart included,  *)
(* were given the same run, unless a crash tore its file.                  *)
THEOREM KeysAreKept == ASSUME OneServer PROVE Spec => []KeyKeepsItsRun
<1>1. ASSUME IInv, KeysGood, NEW p \in Clients, NEW q \in Clients,
             client[p].pc \in Accepted, client[q].pc \in Accepted,
             client[p].key = client[q].key,
             "torn" \notin {disk[client[p].run], disk[client[q].run]}
      PROVE  client[p].run = client[q].run
  <2>1. /\ client[p].run \in Runs /\ client[q].run \in Runs
        /\ disk[client[p].run] \in FileStates /\ disk[client[q].run] \in FileStates
    BY <1>1 DEF IInv, TypeOK, ClientsOK
  <2>2. /\ disk[client[p].run] # "none" /\ disk[client[q].run] # "none"
        /\ made[client[p].run].key = made[client[q].run].key
    BY <1>1 DEF KeysGood
  <2>3. disk[client[p].run] \in States /\ disk[client[q].run] \in States
    BY <1>1, <2>1, <2>2 DEF FileStates
  <2> QED
    BY <1>1, <2>1, <2>2, <2>3 DEF KeysGood
<1>2. IInv /\ KeysGood => KeyKeepsItsRun
  BY <1>1 DEF KeyKeepsItsRun
<1> QED
  BY <1>2, KeysHold, PTL

(* The job of an unfinished run, or a task that holds the run, is there    *)
(* once a client was answered 202 for it, unless that client only joined   *)
(* the run of another request.                                             *)
THEOREM AcceptedStaysBacked == ASSUME OneServer PROVE Spec => []AcceptedIsBacked
<1>1. ASSUME IInv, KeysGood, Backed, NEW q \in Clients, client[q].pc = "accepted",
             disk[client[q].run] \in Active, \A s \in Servers : server[s] = "serving"
      PROVE  \/ phase[client[q].run] \in {"queued", "running", "failed"}
             \/ /\ phase[client[q].run] = "succeeded"
                /\ \E t \in Tasks : task[t].run = client[q].run
  <2>1. PICK r \in Runs : r = client[q].run
    BY <1>1 DEF IInv, TypeOK, ClientsOK, Accepted
  <2>2. PICK s \in Servers : s = client[q].at
    BY <1>1 DEF KeysGood, Accepted
  <2>3. Up(s) /\ CacheGood(s, r)
    BY <1>1 DEF IInv, Up
  <2>4. r \notin todo[s]
    BY <1>1, <2>3 DEF CacheGood
  <2>5. phase[r] # "absent"
    BY <1>1, <2>1, <2>3, <2>4 DEF Backed, Jobless
  <2>6. phase[r] \in {"absent"} \cup States
    BY <1>1 DEF IInv, TypeOK
  <2>7. phase[r] = "succeeded" => \E t \in Tasks : task[t].run = r
    BY <1>1, <2>1, SucceededInHand
  <2> QED
    BY <2>1, <2>5, <2>6, <2>7 DEF States, Active, Terminal
<1>2. IInv /\ KeysGood /\ Backed => AcceptedIsBacked
  BY <1>1 DEF AcceptedIsBacked
<1> QED
  BY <1>2, KeysHold, PTL
==============================================================================
