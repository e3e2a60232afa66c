# Verification of the Datum Engine

TLA+ models of the Datum Engine (`src/src`), their TLC configurations, and
machine-checked proofs. The engine is a FastAPI service that Odoo asks for
document runs, chatter replies and discovery questionnaires: it accepts a
request with an idempotency key, answers 202, executes the run in background
tasks against model providers, keeps a durable memory of every conversation in
Neon (PostgreSQL), and calls Odoo back.

Paths below are relative to `src/src/`. Commands, in this directory:

    tlc -workers 2 -config jobs.cfg MCDurableJobs.tla
    tlapm DurableJobsProofs.tla

## 1. Inventory

| Component | State | Operations | Interacts with |
|---|---|---|---|
| Durable jobs, `shared/queue/durable_jobs.py` | rows of `ai_jobs` (state, attempts, worker_id, lease, available_at); per polling task, the job it executes | enqueue, claim, heartbeat, complete, retry_or_fail, run_once, start, stop | chatter and engine queues (handlers), Neon |
| Chatter runs, `chatter_ai/service.py`, `durable_queue.py`, `api.py`, `dependencies.py` | a JSON file per run, a cache of runs and of idempotency keys per server | start, process, save, create_or_get, recover_active_runs, completion callback | durable jobs, chatter sessions, model calls, Odoo |
| Chatter sessions, `chatter_ai/sessions.py` | AISession, AISessionSource (revisions), AISessionTurn, AIContextChunk | reserve, prepare, record_assistant_turn | chatter runs, prompt security, model calls (summary), the connection pool, embeddings |
| Context budgets, `chatter_ai/sessions.py` (retrieval), `service.py` (rendering), `shared/llm/router.py` (compaction) | none: functions of what is stored | chunk, rank, drain, merge, render, order providers, compact | sessions, model calls |
| Model routing and quota, `shared/llm/` | `ai_model_usage_windows` per key and minute or day | generate, acquire, the attempts of a generator | providers, Neon |
| Engine sessions and clarifications, `engine/sessions.py`, `clarifications.py` | the same session tables, AIClarification | prepare, create, answer | Odoo through `engine/api.py` |
| Discovery questionnaires, `discovery_questionnaire/`, `shared/queue/in_memory_queue.py` | runs, keys and a queue in memory; PDF files | start, get_status, get_output_file, process | model calls, research, renderer |
| Engine document runs, `engine/durable_queue.py`, `registry.py`, ... | files and jobs | start, process | `engine/service.py`, **which is not in the repository** |
| Engine reviews, `engine/reviews.py` | AIReviewCycle, AIReviewFinding | store | the missing orchestrator |
| Engine callbacks, `engine/callbacks.py` | none | four tries of a signed POST | Odoo |
| Prompt security, `core/prompt_security.py` | none; the sessions store its events | filter_model_sources, require_safe_text, secure_chatter | sessions, questionnaires, the scanner's model |
| Database, `db/database.py` | the connection pool | session | everything that keeps rows |
| Rendering, extraction, research, embeddings | none | functions | |
| Application shell, `main.py`, `api/`, `core/` | settings | lifespan, health, logging | all |

How they interact. A chatter request goes `api.start_run` -> `reserve` (a
session id is needed for the 202) -> `create_or_get` (file, cache) -> `enqueue`
(a row in Neon). A polling task claims the row, calls `process`, which prepares
the session (one long transaction that awaits models), saves what it retrieved
into the run, renders a prompt for each provider in turn, records the reply,
saves the outcome, and tells Odoo. Reservations of model quota are transactions
of their own, and the summary of a preparation takes one while the preparation
keeps its connection. The chatter worker and the engine worker poll the *same* job
table. Questionnaires share none of that: they live in one process.

What is hard here, and what correctness means:

* **Leases.** Tasks of a worker share a `worker_id`; a lease may lapse under a
  handler that is alive; a commit's answer may be lost. A job must not exceed
  its attempts, a settled row must stay, and no two tasks may execute a job
  while renewals arrive in time.
* **Two stores for one run.** The outcome is in a file, the job in Neon, a copy
  in a cache; a crash falls between any two of them. What Odoo is told, what a
  poll shows and what a restart finds must agree, and queued work must end.
* **Sessions without locks.** Preparations read rows, await models for seconds,
  then write. Only unique keys stop them. Histories must not fork, an answer
  that was acknowledged must stand, nothing sent may be lost or given stale,
  and holders of connections that need another one must not wait for ever.
* **The gate.** Texts are judged by rules and by a model that may not answer;
  what is withheld must neither reach a model nor stay behind in the memory.
* **Limits under races.** Calls race for a usage window with stamps taken
  before they got their row lock, over minute and day boundaries; each may be
  sent several times, by two profiles.
* **Bytes.** Texts are cut into chunks, and four budgets are applied one after the other; a pair of documents
  the user names must survive all of them.

`PROJECT.json` lists the hazards line by line with the properties that cover
them, and says why where none does.

## 2. Modules

| Module | What it is |
|---|---|
| `JobLifecycle` | Abstract: what callers of the queue rely on. A job is submitted, started at most `MaxAttempts` times, and finished, retried, or given up. No worker, lease or clock. |
| `JobTable` | A row of `ai_jobs` and what each transaction makes of it, as operators on one row. |
| `DurableJobs` | Rows, polling tasks, heartbeats, time, database faults, restarts. **Implements** `JobLifecycle` (`ImplementsLifecycle`). |
| `DurableJobsProofs` | Seven theorems about it. |
| `ChatterRuns` | Servers, caches, files, HTTP requests, pollers, callback, crashes and database resets. **Composed with** the queue through `Queue == INSTANCE JobLifecycle WITH Jobs <- Runs`, so what it relies on is what `DurableJobs` is proved to implement: a second start of a running job under a live task, too. |
| `ChatterRunsProofs` | Seven theorems, under `OneServer`. |
| `PromptBudgets` | The token estimate and the compaction of a prompt, used by the two modules that count bytes. |
| `ModelCalls`, `ModelCallsProofs` | Router, with a quota guard and without one, the guard's windows and the attempts of the Groq generator; six theorems. |
| `SessionMemory` | Abstract: what the memory of a session promises. Sources keep their texts in order, none twice in a row, none before a baseline, none taken back. |
| `SourceHistory`, `SourceHistoryProofs` | Revisions of sources, shared by the two session stores: latest, changed, successor, unique key; lemmas about them that both stores' proofs cite. |
| `PromptGate` | What the gate may decide of a text, and what its callers make of the decisions; shared by the chatter sessions and the questionnaires. |
| `ChatterSessions` | The transactions of chatter preparations and replies on one session, with the pool they share. **Implements** `SessionMemory` (`MemoryIsKept`). |
| `ChatterSessionsProofs` | Six theorems, the refinement among them. |
| `EngineMemory` | `prepare`, `create` and `answer` on one document session. **Implements** `SessionMemory` (`MemoryIsKept`). |
| `EngineMemoryProofs` | Six theorems, the refinement among them. |
| `ContextBudgets`, `ContextBudgetsProofs` | From stored texts and their chunks to the bytes a model is sent; five theorems. |
| `Questionnaires`, `QuestionnairesProofs` | The in-memory runs, queue and workers, and what each worker has for the model; four theorems. |
| `MC*` | Constants for TLC. |

Correspondence. One action is one transaction, or what one asyncio task does
between two awaits. Module headers say what is left out. Some representations
that are not literal:

* `JobTable` keeps times relative to now (`delay`, `lease`), so an execution of
  any length is finite; `Tick` ages all rows. A row of a lease that lapsed has
  `lease = -1`.
* `DurableJobs.ahead` stands for the claim's ORDER BY: per job, the jobs before
  it. `ran` and `steady` are history variables; `steady` says that every renewal
  came in time and no committed answer of `complete` was lost.
* `ChatterRuns.disk` is the state in a run's file, `torn` a file a crash cut
  while `write_text` was writing; `mem` is the cache per server; `task.news` is
  the payload of the callback, taken before the first await after the save.
  The first write of a new run may be torn like any other (`TearNew`).
* `ChatterRuns.Claim` is whatever `JobLifecycle` starts. A heartbeat ends at its
  first error (`durable_jobs.py:236`), so a lease may lapse while the handler is at
  work, and a sibling claims the run. `overlapped` is a history variable: the runs
  that were claimed while a live task held them. `worker` is the id in the row; tasks
  of one server share it, and so each other's right to settle the job (`Owns`).
* `ModelCalls.Guarded` are the calls of routers with a quota guard.
  `discovery_questionnaire/dependencies.py:39` wires one without, for the same keys:
  its calls are sent at once (`Proceeding`) and leave no trace in any window;
  `unguarded` counts them.
* A text of `SourceHistory` and `SessionMemory` is what the stores compare. That is
  the hash of the text in `ChatterSessions`; in `EngineMemory` it is the hash and
  name that Odoo sent (`source.sha256 or sha256(text)`, `engine/sessions.py:161`),
  and the text stored beside it is `content`, which a request may pair with any hash.
* `ChatterRuns` tells two 202s apart: `accepted` went to a client whose request
  made the run or found it, `joined` to one that lost the race for its key and
  was given the winner's run without enqueueing (`chatter_ai/service.py:488`). The winner may
  not have enqueued yet, so only `accepted` is promised a job (`AcceptedIsBacked`).
* `ChatterSessions.stops` is the number of executions lost, of all runs.
* The session modules hold, per transaction, the rows it has `seen`, those it
  will write (`new`) and what it is `given`. A flush waits for whoever holds a
  row or key it writes; meeting a committed key fails the whole transaction.
* Both are mapped to `SessionMemory` by `history <- TextsOf(rows, i)`, the texts
  of a source by revision, each as a set: a revision that is skipped, or held by
  two rows, is no sequence of single texts, and a text the gate must withhold is
  not among the abstract `Contents`. A session of the past that is taken up again
  is an initial state of the abstract memory, and of `ChatterSessions`.
* `ChatterSessions` has no variable for the pool: a stage between the first
  statement of a transaction and its end is a connection taken (`Connected`).
  Whoever finds none waits, and the pool's timeout is `SummaryTimesOut` for the
  summary's reservation and part of `Fails` elsewhere.
* `PromptGate` has no patterns: `Matched` says which rules a text matches. A
  suspicious text may be let through or withheld (`Decisions`), as the scanner
  answers; a high-confidence rule leaves no choice.
* `ContextBudgets.text` is the sizes of a text's words with one byte of space
  between two; `Chunked` is `_chunk_text`, a fold of one turn of its loop (`CutOff`)
  over as many rounds as the text can take (`Rounds`), of which turns past the end
  of the text do nothing. The other loops are folds too (`Taken`, `Placed`), and the
  stable sort of the providers an insertion (`LargestFirst`).
* In `ChatterSessions` an id is a pair (source, depth): `<source>:chunk:0`
  comes back as a source of its own when a run that already saved its retrieved
  context is prepared again.
* `ContextBudgets` counts bytes. Fixed texts have their length in bytes
  (`Suffix` 45, `Marker` 57, `Heading` 9); titles and ids have a constant size.
* In `Questionnaires`, everything between two awaits is one step, as the event
  loop guarantees; `Rendered` is rendering and marking, which do not await. A body
  has `languages` beside its customer and material: free text of the request
  (`schemas/request.py:50`) that goes into the prompt unscreened.

A definition marked `Mutant` is a wrong version of the definition after it (a
dropped guard, a missing reset, a swapped order). Nothing uses it; putting it
in the place of the right one makes the property that `PROJECT.json` pairs with
it fail, which shows that the property depends on that code.

## 3. Runs

Passing:

| Run | Question | Bounds |
|---|---|---|
| `jobs` | Do rows, leases and attempts stay disciplined, is `JobLifecycle` implemented, do settled rows stay, does nobody else touch a lone task's attempt (`TypeOK LeaseDiscipline AttemptBudget NoDoubleExecution SettledForGood LoneTaskKeepsJob ImplementsLifecycle`)? | One job, a worker with two tasks and a worker with one, database faults, one restart, two attempts, a lease of one tick. Jobs meet only in the claim's order, which `jobs_live` has. |
| `jobs_live` | Does every job end (`EveryJobEnds`)? | Two jobs of two types, two workers each with a handler for one, no database errors, a restart. |
| `quota` | Do windows stay within limits and agree, is every `generate()` of a router with a guard paid for (`TypeOK WithinLimits DayIsSumOfMinutes NoCallWithoutReservation`), and how many requests may a provider receive of a key for each reservation and each unguarded `generate()` (`AttemptsBounded`)? | A generation with a fallback under another key, two alike reviews under the generation's key, and a questionnaire's call under both keys without a guard; prompts that fit everything or nothing uncompacted, two attempts, structured output that costs a second request, refusals, minutes with midnight between them, two calls a day, storage failures, cancellation. |
| `chatter` | Do file, cache, job, callback and clients agree through second executions and crashes, and does queued work end (`TypeOK JobSuccessMeansSaved AcceptedIsBacked KeyKeepsItsRun ToldWhatIsSaved CacheAheadOnlyAtWork CompletionIsDurable WorkComesToAnEnd`)? | One server, two pollers, so that one may claim what the other executes, two requests of one key with the same body or another, one crash that may tear a file, a database reset, one provider, two attempts. |
| `sessions` | Does a session keep its promise (`MemoryIsKept`) while preparations meet on it; are turns and summaries counted once, is nothing sent lost or given stale, and does every run end (`TypeOK TurnsAreCounted GivenWhatWasSent PreparedIsStored EveryRunEnds`)? | Two runs, two sources, three texts of which one is unsafe and one suspicious, a new session or one a past run left a record in, a baseline of the record or of nothing, deltas that change or repeat it, one lost process, a pool of two connections. Two preparations at once are what a race needs; the past run is the third. Two that hold a connection each and ask for a summary exhaust the pool. |
| `memory` | Do preparations, questions and answers keep the session's promise, its pause and its answers (`TypeOK PausedForAQuestion AnswersAreKept GivenWhatWasSent MemoryIsKept`)? | Five calls, of which at most three prepare, not counting those rolled back (`ThreePrepare`): one opens the session and two race, while two others ask or answer; or one opens it and four ask and answer. Two questions, two alike answers, one source; a baseline, a delta with another hash and text, and a delta with that text under the hash of the baseline. |
| `budgets` | Are the chunks of a text the text, does what is rendered keep its budget, does the named pair survive and a compaction pass (`ChunksAreTheText RenderedNearBudget PairSurvives CompactionIsAccepted`)? | Five sources, each a text of one word in one chunk, or of three words of which the last is larger than a chunk; up to two turns, every order and pair, contexts of 256 and 4000 bytes, two pairs of caps. Sizes are chosen so that words and units just fit, just do not, and fill a budget to the byte region of the notice. |
| `questionnaires` | Is every accepted run queued once and executed once, do acceptances agree, did the material, the customer and the page that the model is shown pass the gate with nothing harmless missing, does every run end (`EachRunHasItsPlace AnswersAgree PromptsAreScreened EveryQuestionnaireEnds`)? | Two keys, two workers, a restart, two bodies: one with an unsafe source beside a plain one and a search whose page may be unsafe, one with a suspicious source and unsafe languages; four runs are all that two keys in two processes can make. |

Violations, each a disagreement between a text of the repository and its code:

| Run | What TLC shows |
|---|---|
| `jobs_wrong_worker` | `claim` does not filter by job type: the worker without a handler for a job spends its attempts, and the job fails without ever being executed, although the queue is "at-least-once" (`FailedWasHandled`). |
| `jobs_shared_id` | After a lapsed lease, the first task settles the attempt a sibling with the same `worker_id` is executing (`CurrentAttemptKeepsJob`), although `claim` promises "without double execution". `LoneTaskKeepsJob` is the part that holds. |
| `jobs_pollers_die` | A database error in `claim` or `retry_or_fail` ends the polling task for the life of the process; with all of them gone no job ends (`EveryJobEnds`). The counterexample is under `FairSpec`. |
| `sessions_resumed` | A run prepared again after a stop stores its retrieved excerpts as sources; a source deleted later stays retrievable through them (`DeletedIsForgotten`). |

What a second execution costs. If a lease lapses under a live task, a sibling of
the same server claims the run, and what would otherwise hold fails, as TLC shows
when the clauses on `overlapped` are left out of the properties:

* `Claim`, `Claim`, `Enter`, `Prepared`, `Answered`, `Enter`, `Returned`: the sibling
  finds the cached success and completes the job before the first task saved it
  (`service.py:144`, `:191`). Until the save, only a live task or the next recovery
  stands for the run (`JobSuccessMeansSaved`, `AcceptedIsBacked`).
* Both tasks `Enter`; one saves a success and tells Odoo, the other fails and
  overwrites it, or a crash tears its write: the file no longer says what Odoo
  was told (`ToldWhatIsSaved`, `CompletionIsDurable`).

What holds for all runs is that an outcome in the file is never followed by an
unfinished state, that no accepted run is unfinished without a job, a task or a
recovery, and that keys, caches and liveness are as without it.

More departures that are not runs are noted at their hazards. A second server over
the same state directory reopens and overwrites outcomes through its stale cache (give
`chatter.cfg` two `Servers`, `Home <- OneEach`, and check `CompletionIsDurable`).
Retries within `generate()` are not charged to the quota (add `EveryAttemptCounted`
of `ModelCalls` to `quota.cfg`; `AttemptsBounded` is the bound that holds), and
questionnaires are not charged at all: the windows of a key bound what guarded
calls reserve, not what the provider receives, and `AttemptsBounded` says how far
apart the two may be. A delta that changes a text under an unchanged hash and
name is dropped by `_store_sources`, and the preparation is given the old text
(`GivenWhatWasSent` says that there is no other way to be given a text that was
there before). The languages of a questionnaire reach the prompt without passing the gate.

Smaller findings of the modelling, without a property that fails: rendering
overruns a provider's budget by up to 44 bytes (`RenderedNearBudget` states the
bound that holds), and with a context too small for two documents only the
first reaches the model (hence `RoomForBoth`); answering one of two open
questions resumes the session; an answer, stored without chunks, is not
retrieved once any source has chunks (`engine/sessions.py:248`); a baseline
without units stores none, so the delta after it is refused
(`chatter_ai/sessions.py:193`); a reply that is generated again after a stop is
not recorded again, so the turn kept is the lost one's (`TurnsAreCounted`).

`CHECK_DEADLOCK FALSE` where a finite number of requests, runs or calls is used
up and the system rests; the job queue never rests (`Tick`) and is checked.

## 4. Fairness

* `DurableJobs!FairSpec`: weak fairness per task of claiming, of handlers
  ending, of `complete` and `retry_or_fail`, and of time. `_work` loops with a
  bounded wait; handlers' HTTP calls have time-outs; asyncio serves every ready
  task. Heartbeats are *not* fair: renewals may always be late. Errors of the
  database are excluded in `jobs_live` because `jobs_pollers_die` shows what
  they do.
* `ChatterRuns!Fairness`: the event loop answers requests and advances tasks,
  pollers claim a job whose run no task executes, for its lease lapses
  (`DurableJobs`), and a server that went down is started again. Nothing obliges a
  lease to lapse under a live task (`Work`). `WorkComesToAnEnd` excepts a run whose file a crash tore and a
  run whose job the queue gave up: both are what the code does.
* `Questionnaires!Spec`: workers go on and their awaits are bounded. Clients
  need not ask, and the process may stop.
* `ChatterSessions!Spec`: weak fairness per run of going on. Pollers claim what
  is queued, a lock is held by a transaction that itself goes on, and every await
  is bounded: models and scanner by their time-outs, the pool by its own. The
  last is what `EveryRunEnds` rests on: without the timeout (the mutant
  `NeverTimesOut`) two preparations that hold all connections wait for each
  other's. Runs need not fail and clients need not ask.
* `ModelCalls`, `ContextBudgets`, `EngineMemory`: safety only.

## 5. Proofs

For every value of the constants that satisfies the named `ASSUME`s of the
modules (positive attempts and lease, typed constant functions, null values
that are not values).

**`DurableJobsProofs`**: `TypesHold`, `LeasesDisciplined`, `BudgetKept`,
`SettledStays`, `LifecycleImplemented`, `NoDoubleExecutionHolds`, `LoneTaskKept`.
The lease discipline is not inductive alone: an update through a guard on
`worker_id` keeps a row good only if the row was. `IInv` adds `GoodRow` for every
row (which states carry leases and owners, attempts in range, an attempt left
and perhaps a delay where it is queued, no delay elsewhere), `JInv` adds that a busy task has a job. Row by row
lemmas (`CompletedRowGood`, `RetriedRowGood`, ...) do the arithmetic once;
`InvariantStep` has one step per action. The refinement maps `phase` to the
row's state and `tries` to its attempts: `OneRowAtATime` shows that a step
changes one row, `RowStepIsLifeStep` that such a change is an abstract step or
none. `NoDoubleExecution` needs `EInv`: while `steady`, every beating task holds
the row of its job (`Exclusive`), so nobody can claim it. `LoneTaskKept` is a
step property: strangers fail the guard (`StrangersSettleNothing`).

**`ModelCallsProofs`**: `CallsTyped` and `LimitsHold` from `TypeOK /\ WithinLimits`:
the check and the charge are one transaction on locked rows, so it does not
matter how old a stamp is (`ChargeWithinLimits` is the only step that counts).
`DaysAddUp`, `ReservedBeforeSent` and `AttemptsStayBounded` need more, since a
call in progress has charged for requests it has not sent. `Accounted` keeps the
books (`AccountsBalance`): a day's window is the sum of its minutes; what guarded
calls sent first and are about to (`Pending`) is within what was counted; and what
all calls sent, with what they may still send on a reservation or on a first request
without one (`Owed`), is within the requests that the counted and the
unguarded calls stand for (`Accountable`). Sums are over finite sets
(`SumIsThere`, `SumChanges`): a set on which they went wrong would have a
smallest one, and `WFMin` finds it. `Calls` and `Profiles` are finite.

**`ChatterRunsProofs`**: `RunsTyped`, `CompletionLasts`, `SuccessIsSaved`,
`ToldIsSaved`, `CacheSeldomAhead`, `KeysAreKept`, `AcceptedStaysBacked`, under
`OneServer`, which the deployment the repository's README describes (one
always-on server) meets, and without which `CompletionIsDurable` is false. Tasks of that server may execute
one run together, in any number. `IInv` says for each run, task, cache and client
what it may hold given the others, and tells apart what it says of every run and
what of runs that were never `overlapped`. Of every run: a task past its save has
a file that is terminal (`TaskGood`), whoever told Odoo of it did so after a save
(`RunGood`), the cache of a server that is up equals the file unless a task is at
work on the run, is terminal where the file is, and is unfinished with a succeeded
job only if the recovery still has to visit the run (`CacheGood`), and a client about
to enqueue has a session (`ClientGood`). Of the others: one task at most executes the
run (`Alone`), so its cache and file are at the stage of that task, and Odoo was told
exactly what the file holds. That a terminal file meets a terminal cache is what
keeps a second execution from taking a saved outcome up again.
`KeysGood` adds that the index of a live server holds exactly the runs whose
file can be read, and that no two of them share a key; `Backed` that no client
was told `accepted` of a run that is unfinished, unknown to the queue and not
left to a recovery (`Jobless`). Steps that make no run and answer nobody are
dealt with together (`AsideKeeps`). The proof takes `JobLifecycle` for the queue,
which `LifecycleImplemented` justifies. It changed the model: with two keys a
recovery can finish before a client that lost the race for one of them is
answered, so that `AcceptedIsBacked`, as it was stated, held only because the run
has one key. Hence `joined`.

**`SourceHistoryProofs`**: what both stores need of revisions. A flush adds rows
that `Follow` those it saw, that is, new ids at 1 and known ones at the next
revision; if nobody took their keys (`Untaken`), histories stay without gaps and
forks (`CommitKeepsChained`), and their texts are extended at the end
(`CommitExtends`).

**`EngineMemoryProofs`**: `TypesHold`, `PauseIsForAQuestion`,
`AcknowledgedAnswersStay`, `PreparationsAreCurrent`, `SessionIsAMemory`, from
`Invariance`. What makes the safety properties inductive is what a transaction in
progress may rely on although the rows move under it: what it will add still
follows the rows (`NewGood`), it succeeds whatever it saw under another hash and
is not given that (`GivenGood`; `StoredFollow` for what `_store_sources` adds), two calls hold no key together and do not ask
the same question (`Apart`), a question has a row of its own exactly when it was
answered (`QuestionGood`), and whoever answers the question a paused session
waits for has read the pause, and so ends it (`PauseGood`).

**`ChatterSessionsProofs`**: `TypesHold`, `TurnsStayCounted`,
`PreparationsAreCurrent`, `PreparedStaysStored`, `SessionIsAMemory`, from
`Invariance`, of the same shape. `NewGood` and `GivenGood` as above; a run's
summary is the next one once it is flushed (`SummaryGood`); it forgets what Odoo
sent only when that is stored (`RequestGood`), and excerpts are at most one level deeper
for each execution lost, which keeps their ids apart from those of Odoo. Assumed:
ids Odoo sends are not those of excerpts (`OdooUnits`), and a session of the past
holds what the gate lets be stored (`PastIsPast`).

**`QuestionnairesProofs`**: `PlacesAreKept`, `AnswersAlwaysAgree`,
`PromptsStayScreened`, from `Invariance`: the queue holds each queued run once and no other
(`QueueGood`), workers execute different runs, those that are running
(`WorkersGood`), known runs have different keys (`KeysAreApart`), an acceptance
tells of its run what the repository does (`AcceptedGood`), and what a worker has
for the model follows from the body of its run by what was screened so far
(`PromptGood`), its languages as the body has them. For any rules: `ScanIsSound` is the only step that looks at them.

**`ContextBudgetsProofs`**: `ChunkingLosesNothing`, `RenderingsStayNear`,
`PairReachesTheModel`, `CompactionsPass`, from `Invariance`. What is proved here is what loops
compute, for texts and contexts of any length. The prover knows a fold only as a
function on sets of positions, so each fold is first shown to be a loop
(`FoldIsThere`, `FoldIsLoop`, and `SumLoop`, `CuttingLoop`, `PlacedLoop`, ... for
the folds of the model), and what holds at its start and is kept by a turn holds
at its end (`Climb`: the first turn at which it failed would not be there). Of
chunking: the chunks and the rest together stay a cut of the text (`CutWell`),
and the rounds the rest may take decrease (`MostRounds`), so no text outlasts its
rounds (`AllIsCut`). Of rendering: what is used stays below budget and notice
(`PlaceFits`). Of the pair: its first chunks come first in the ranking
(`DrainBegins`), are taken first (`FirstTwoTaken`) and never given back (`TakenStays`),
come first among what is rendered (`FilesComeFirst`), and both have room
(`TwoArePlaced`); `PairInv` says that the context is still the one the stored input
makes. Assumed, as the code gives it: a fallback's cap is at least 256 bytes
(`ge=256`, `core/config.py`) and a prompt without its context at least 228 (the fixed
sentences of `chatter_ai/service.py:396` alone are longer), without which a compaction
could make a prompt longer; the sources are finitely many.

The step of a refinement is the same in both stores: only `Commit` changes the
abstract history (`CommitStepsMemory`), by what `CommitExtends` says, and
everything else stutters (`OthersStutter`).

Every invariant and every action property that a passing run checks is a theorem.
Only model-checked: liveness (`EveryJobEnds`, `WorkComesToAnEnd`, `EveryRunEnds`,
`EveryQuestionnaireEnds`), which is out of the prover's reach.

## 6. Not modelled

* Engine document runs: `engine/service.py` is imported by `dependencies.py`,
  `api.py` and `durable_queue.py` and is not in the repository, so what a run's
  execution does is unknown; the queue below it is `DurableJobs`.
* Reviews and engine callbacks: called only from there, so the order and the
  number of their calls, on which their hazards depend, cannot be read from the
  repository.
* What texts say: patterns of the gate, prompts, embeddings, scores, rendering,
  extraction.
* Security events, embeddings of chunks and `last_odoo_message_id`: nothing that
  is modelled reads them back. That a source's chunks are stored in the
  transaction of its row makes them one row in the models.
* The Hugging Face generator and its profile, which `build_runtime_model_router`
  does not wire; migrations; logging; configuration; connections that the job
  queue and the API take for a moment from the pool of the sessions.
* A poll that loads a run into the cache of a server, and writes the file
  system refuses.

## 7. Plan

Order followed: queue, quota, chatter runs on the abstract queue, sessions,
clarifications, budgets, questionnaires; then the abstract memory and the two
refinements, the gate and its two users, the pool and the liveness of chatter
runs, the recording of replies, chunking, and the router's checks and the
outcomes of an attempt. Next:

1. **Model.** A poll that fills a cache in `ChatterRuns`; chunks beside source
   rows in `EngineMemory`, whose answers have none.
2. **Abstract.** Idempotent acceptance (a key, a run, an outcome) that
   `ChatterRuns` and `Questionnaires` implement.
3. **Prove.** What the two steps above add.
