---------------------------- MODULE ChatterSessions ----------------------------
(***************************************************************************)
(* The memory of one chatter session: the revisions of its sources, its    *)
(* turns and its summary, and the transactions in which the runs of the    *)
(* session store what the gate let through of what they were sent,         *)
(* retrieve what they are answered from, and record the answer.  A         *)
(* transaction keeps a connection of the pool, reads committed rows,       *)
(* awaits models between its reads and its writes, writes in one flush,    *)
(* and relies on the unique keys of the tables where two of them meet.     *)
(*                                                                         *)
(* Left out: what a text says, the ranking and the byte budget of the      *)
(* retrieval (any choice within the source limit stands for them), texts   *)
(* longer than one chunk, embeddings, security events, conversation turns  *)
(* among the retrieved context, last_odoo_message_id, the connections that *)
(* whoever else uses the database takes for a moment, and a database       *)
(* reset, which ChatterRuns has.                                           *)
(***************************************************************************)
EXTENDS SourceHistory, PromptGate

CONSTANTS
  Runs,
  Sources,      (* what Odoo sends: the record, its messages, attachments  *)
  Texts, Gone,  (* contents of a source; Gone is one sent as deleted       *)
  Requests,     (* the requests Odoo may send                              *)
  Past, Before, (* what units a run of the past, Before, may have stored   *)
  SummarySizes, (* numbers of changed sources that call for a summary      *)
  MaxSources,   (* chatter_ai_retrieval_max_sources                        *)
  PoolSize,     (* database_pool_size + database_max_overflow              *)
  MaxStops      (* bound: executions lost with their process               *)

(* A source by the id Odoo gave it, or the excerpt of an excerpt of one:   *)
(* "<source>:chunk:0" comes back as a source of its own.                   *)
Ids == Sources \X (0 .. MaxStops + 1)
Contents == Texts \cup {Gone}
UnitsOf(ids) == UNION {[S -> Contents] : S \in SUBSET ids}
Units == UnitsOf(Ids)
(* Odoo names its own records, never an excerpt.                           *)
OdooUnits == UnitsOf(Sources \X {0})

(* The contents that may be kept: a withheld source is kept as a deleted   *)
(* one.                                                                    *)
Storable == {Gone} \cup {t \in Texts : ~Unsafe(t)}

ASSUME GoneIsNoText == Gone \notin Texts
ASSUME PastIsPast ==
  /\ Past \subseteq OdooUnits /\ Before \notin Runs
  /\ \A units \in Past : \A i \in DOMAIN units : units[i] \in Storable
ASSUME BoundsAreNaturals == {MaxSources, PoolSize} \subseteq Nat \ {0} /\ MaxStops \in Nat
ASSUME RulesAreKnown ==
  Matched \in [Contents -> SUBSET (HighConfidence \cup Suspicious)]
ASSUME RequestsAreRequests ==
  Requests \subseteq [mode : {"baseline", "delta"}, units : OdooUnits]

VARIABLES
  rows,         (* committed source revisions, with the run that wrote them *)
  turns,        (* committed turns: users', replies, and summaries         *)
  baseline,     (* whether baseline_received_at is set                     *)
  summaries,    (* summary_revision                                        *)
  req,          (* per run, the request its file holds                     *)
  sent,         (* per run, the units Odoo sent (history)                  *)
  pc, tx,       (* per run, its stage, and what its transaction holds      *)
  stops         (* executions lost so far                                  *)

memory == <<rows, turns, baseline, summaries>>
requests == <<req, sent>>
vars == <<rows, turns, baseline, summaries, req, sent, pc, tx, stops>>

None == [i \in {} |-> Gone]
NoTx == [initial |-> FALSE, count |-> 0, units |-> None, seen |-> {},
         new |-> {}, summary |-> FALSE, given |-> {}]

Goto(r, stage) == pc' = [pc EXCEPT ![r] = stage]
Forget(r) == tx' = [tx EXCEPT ![r] = NoTx]

(* A transaction has a connection from its first statement to its end.     *)
Connected(r) ==
  pc[r] \in {"scanning", "summarizing", "working", "flushed", "retrieved"}
ConnectionFree == Cardinality({r \in Runs : Connected(r)}) < PoolSize

(* Mutant: who asks for a connection waits until it gets one.              *)
NeverTimesOut == FALSE
(* The pool refuses who has waited for its timeout.                        *)
TimesOut == ~ConnectionFree
-----------------------------------------------------------------------------
LacksBaseline(q) == q.mode = "delta" /\ ~baseline

(* uuid4: which id a run gets makes no difference.                         *)
FreshRun == CHOOSE r \in Runs : pc[r] = "new"

(* reserve(), and the creation of the run; a request reserve() refuses     *)
(* leaves nothing behind.                                                  *)
Post(q) ==
  LET r == FreshRun
  IN  /\ \E x \in Runs : pc[x] = "new"
      /\ ConnectionFree /\ ~LacksBaseline(q)
      /\ Goto(r, "queued")
      /\ req' = [req EXCEPT ![r] = q]
      /\ sent' = [sent EXCEPT ![r] = q.units]
      /\ UNCHANGED <<memory, tx, stops>>

(* prepare() reads the session row, which it does not read again; the scan *)
(* of the request follows.                                                 *)
Begin(r) ==
  /\ pc[r] = "queued" /\ ConnectionFree
  /\ Goto(r, IF LacksBaseline(req[r]) THEN "failed" ELSE "scanning")
  /\ tx' = [tx EXCEPT ![r] =
       [NoTx EXCEPT !.initial = /\ req[r].mode = "baseline"
                                /\ ~baseline
                                /\ req[r].units # None,
                    !.count = summaries]]
  /\ UNCHANGED <<memory, requests, stops>>

(* _store_context: of what the gate leaves of the request, the units that  *)
(* differ from the latest committed revision become its successor.         *)
Compare(r) ==
  /\ pc[r] = "scanning"
  /\ \E units \in Secured(req[r].units, Gone) :
       LET new == Successors(units, rows, r)
       IN  /\ Goto(r, IF Cardinality(new) \in SummarySizes
                      THEN "summarizing" ELSE "working")
           /\ tx' = [tx EXCEPT ![r].units = units, ![r].new = new,
                               ![r].seen = Current(rows)]
  /\ UNCHANGED <<memory, requests, stops>>

(* The model is called through the quota guard, whose reservation takes a  *)
(* second connection; without an answer there is no summary.               *)
Summarize(r) ==
  /\ pc[r] = "summarizing" /\ ConnectionFree
  /\ Goto(r, "working")
  /\ \E answered \in BOOLEAN : tx' = [tx EXCEPT ![r].summary = answered]
  /\ UNCHANGED <<memory, requests, stops>>

SummaryTimesOut(r) ==
  /\ pc[r] = "summarizing" /\ TimesOut
  /\ Goto(r, "working")
  /\ UNCHANGED <<memory, requests, tx, stops>>

(* What the statements of r's transaction see.                             *)
Visible(r) == rows \cup tx[r].new

Holding(u) == pc[u] \in {"flushed", "retrieved"}

(* Two transactions write the session row, or one key of the sources.      *)
Updates(r) == tx[r].initial \/ tx[r].summary
Overlap(r, u) ==
  \/ Updates(r) /\ Updates(u)
  \/ \E x \in tx[r].new, y \in tx[u].new : SameKey(x, y)

(* Mutants: the table lacks the unique key.                                *)
RowNeverTaken(r) == FALSE
SummaryNeverTaken(r) == FALSE
RowTaken(r) == \E x \in tx[r].new, y \in rows : SameKey(x, y)
SummaryTaken(r) ==
  tx[r].summary /\ \E n \in turns : n.kind = "summary" /\ n.number = tx[r].count + 1

(* The flush, at the latest when the turn is looked up: it waits for who   *)
(* holds what it writes, and fails on a key that is taken.                 *)
Flush(r) ==
  /\ pc[r] = "working"
  /\ \A u \in Runs \ {r} : Holding(u) => ~Overlap(r, u)
  /\ IF RowTaken(r) \/ SummaryTaken(r)
     THEN Goto(r, "failed") /\ Forget(r)
     ELSE Goto(r, "flushed") /\ UNCHANGED tx
  /\ UNCHANGED <<memory, requests, stops>>

(* Some of the latest revisions that are not deleted, at least one.        *)
Selections(S) ==
  LET alive == {x \in Current(S) : x.text # Gone}
  IN  {g \in SUBSET alive :
         Cardinality(g) <= MaxSources /\ (alive # {} => g # {})}

Retrieve(r) ==
  /\ pc[r] = "flushed"
  /\ Goto(r, "retrieved")
  /\ \E g \in Selections(Visible(r)) : tx' = [tx EXCEPT ![r].given = g]
  /\ UNCHANGED <<memory, requests, stops>>

HasTurn(r, kind) == \E n \in turns : n.kind = kind /\ n.run = r
TurnOf(r, kind) ==
  IF HasTurn(r, kind) THEN {}
  ELSE {[kind |-> kind, run |-> r, number |-> stops]}

(* The commit; its answer may be lost, and then the run fails although its *)
(* context is stored.                                                      *)
Commit(r) ==
  LET summary == [kind |-> "summary", run |-> r, number |-> tx[r].count + 1]
      added == TurnOf(r, "user") \cup (IF tx[r].summary THEN {summary} ELSE {})
  IN  /\ pc[r] = "retrieved"
      /\ rows' = Visible(r)
      /\ turns' = turns \cup added
      /\ baseline' = (baseline \/ tx[r].initial)
      /\ summaries' = IF tx[r].summary THEN tx[r].count + 1 ELSE summaries
      /\ \/ Goto(r, "committed") /\ UNCHANGED tx
         \/ Goto(r, "failed") /\ Forget(r)
      /\ UNCHANGED <<requests, stops>>

(* The retrieved context replaces the request's in the run's file, every   *)
(* excerpt under an id of its own.                                         *)
Save(r) ==
  LET given == tx[r].given
      excerpt(x) == <<x.id[1], x.id[2] + 1>>
  IN  /\ pc[r] = "committed"
      /\ Goto(r, "generating")
      /\ req' = [req EXCEPT ![r].units =
           [i \in {excerpt(x) : x \in given} |->
              (CHOOSE x \in given : excerpt(x) = i).text]]
      /\ Forget(r)
      /\ UNCHANGED <<memory, sent, stops>>

(* The reply, which one more generation may have corrected, is recorded in *)
(* a transaction of its own; the run does without when that fails.         *)
Record(r) ==
  /\ pc[r] = "generating"
  /\ Goto(r, "recorded")
  /\ turns' \in {turns, turns \cup TurnOf(r, "assistant")}
  /\ UNCHANGED <<rows, baseline, summaries, requests, tx, stops>>

(* The run's file says that it succeeded; it is not executed again.        *)
Finish(r) ==
  /\ pc[r] = "recorded"
  /\ Goto(r, "done")
  /\ UNCHANGED <<memory, requests, tx, stops>>

(* No connection in time, a database error, the gate's refusal of the      *)
(* message, or no provider with a valid reply: what was not committed is   *)
(* gone.                                                                   *)
Fails(r) ==
  /\ pc[r] \in {"queued", "scanning", "summarizing", "working", "flushed",
                "retrieved", "generating"}
  /\ Goto(r, "failed")
  /\ Forget(r)
  /\ UNCHANGED <<memory, requests, stops>>

(* The process stops; the job is claimed again and the run, still running  *)
(* in its file, is prepared again from what the file holds.                *)
Interrupted(r) ==
  /\ pc[r] \notin {"new", "queued", "done", "failed"}
  /\ stops < MaxStops
  /\ stops' = stops + 1
  /\ Goto(r, "queued")
  /\ Forget(r)
  /\ UNCHANGED <<memory, requests>>
-----------------------------------------------------------------------------
(* The row every request of the record resolves to, a session of the past  *)
(* that comes back or a new one; until something is stored, one just       *)
(* inserted and one without a baseline are alike.                          *)
Init ==
  /\ \E units \in Past : /\ rows = Successors(units, {}, Before)
                         /\ baseline = (units # None)
  /\ turns = {} /\ summaries = 0
  /\ req = [r \in Runs |-> [mode |-> "baseline", units |-> None]]
  /\ sent = [r \in Runs |-> None]
  /\ pc = [r \in Runs |-> "new"]
  /\ tx = [r \in Runs |-> NoTx]
  /\ stops = 0

Proceed(r) ==
  \/ Begin(r) \/ Compare(r)
  \/ Summarize(r) \/ SummaryTimesOut(r)
  \/ Flush(r) \/ Retrieve(r) \/ Commit(r) \/ Save(r) \/ Record(r) \/ Finish(r)

Next ==
  \/ \E q \in Requests : Post(q)
  \/ \E r \in Runs : Proceed(r) \/ Fails(r) \/ Interrupted(r)

(* Pollers claim what is queued, and every await of a run is bounded by a  *)
(* timeout; nothing obliges a run to fail or a client to ask.              *)
Spec == Init /\ [][Next]_vars /\ \A r \in Runs : WF_vars(Proceed(r))
-----------------------------------------------------------------------------
RowRecords == [id : Ids, rev : Nat \ {0}, text : Contents, by : Runs \cup {Before}]
TurnRecords == [kind : {"user", "assistant", "summary"}, run : Runs, number : Nat]
Transactions ==
  [initial : BOOLEAN, count : Nat, units : Units, seen : SUBSET RowRecords,
   new : SUBSET RowRecords, summary : BOOLEAN, given : SUBSET RowRecords]
Stages == {"new", "queued", "scanning", "summarizing", "working", "flushed",
           "retrieved", "committed", "generating", "recorded", "done", "failed"}

(* Rows, turns, requests and transactions are what the code makes of them. *)
TypeOK ==
  /\ rows \subseteq RowRecords
  /\ turns \subseteq TurnRecords
  /\ baseline \in BOOLEAN
  /\ summaries \in Nat
  /\ req \in [Runs -> [mode : {"baseline", "delta"}, units : Units]]
  /\ sent \in [Runs -> Units]
  /\ pc \in [Runs -> Stages]
  /\ tx \in [Runs -> Transactions]
  /\ stops \in 0 .. MaxStops

(* However preparations meet, fail or are repeated, the session is a       *)
(* memory: no history forks, repeats or loses a text, nothing is stored    *)
(* before the baseline, and never a text that the gate must withhold.      *)
Memory == INSTANCE SessionMemory WITH
  Contents <- {{t} : t \in Storable},
  open <- baseline,
  history <- [i \in Ids |-> TextsOf(rows, i)]
MemoryIsKept == Memory!Spec

(* summary_revision counts the summaries kept as turns, one each, although *)
(* it is computed from a row read long before; and a run executed again    *)
(* records neither its message nor a reply a second time.                  *)
TurnsAreCounted ==
  LET kept == {n \in turns : n.kind = "summary"}
  IN  /\ {n.number : n \in kept} = 1 .. summaries
      /\ Cardinality(kept) = summaries
      /\ \A n, m \in turns \ kept : n.kind = m.kind /\ n.run = m.run => n = m

(* What a run is given of a source it sent is what the gate left of it, or *)
(* a revision it had not seen when it compared.                            *)
GivenWhatWasSent ==
  \A r \in Runs : \A x \in tx[r].given :
    /\ x.id \in DOMAIN tx[r].units
    /\ x.text # tx[r].units[x.id]
    => x \notin tx[r].seen

(* A run that gets to its generation has its turn and every unit Odoo sent *)
(* in the history, as sent or as withheld, however often its execution was *)
(* lost.                                                                   *)
PreparedIsStored ==
  \A r \in Runs : pc[r] \in {"committed", "generating", "recorded", "done"} =>
    /\ HasTurn(r, "user")
    /\ \A i \in DOMAIN sent[r] :
         \E x \in rows :
           /\ x.id = i
           /\ \/ x.text = sent[r][i]
              \/ x.text = Gone /\ ~MustPass(sent[r][i])

(* Every run ends, also when all connections are held by transactions that *)
(* wait for another one.                                                   *)
EveryRunEnds == \A r \in Runs : pc[r] = "queued" ~> pc[r] \in {"done", "failed"}

(* A source sent as deleted "cannot remain retrievable from a previous     *)
(* Neon session revision" (prompt_security.py:185-186): no run is given    *)
(* any text of it, its excerpts included.                                  *)
DeletedIsForgotten ==
  [][\A r \in Runs : pc[r] = "flushed" /\ pc'[r] = "retrieved" =>
       \A x \in tx'[r].given :
         ~\E y \in Current(Visible(r)) :
            y.id = <<x.id[1], 0>> /\ y.text = Gone]_vars
=============================================================================
