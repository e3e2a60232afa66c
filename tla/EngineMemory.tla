------------------------------ MODULE EngineMemory ------------------------------
(***************************************************************************)
(* The durable memory of one document session of the engine: its sources,  *)
(* its pause, its clarifications and their answers, and the transactions   *)
(* of the calls that meet on it.  A call reads committed rows, writes in   *)
(* one flush that waits for whoever holds a row or a key it writes, and    *)
(* commits.  SQLAlchemy writes no column whose value a call did not change *)
(* from what it read, and sends pending writes before it reads again.      *)
(*                                                                         *)
(* What is compared is not what is kept.  Odoo may send a sha256 of its    *)
(* own with a source, and _store_sources believes it: two sources with one *)
(* hash and one name are the same text to it, whatever they say.  So a row *)
(* has a "text", the hash and the name that stand for a text wherever      *)
(* revisions are compared, and a "content", the text that was stored; the  *)
(* two say the same only where Odoo's hash is the hash of what it sends.   *)
(*                                                                         *)
(* Left out: what texts say, the ranking and byte budget of the retrieval, *)
(* texts of several chunks, and the preparation with models, which the     *)
(* submission path does not ask for (prepare's docstring).                 *)
(***************************************************************************)
EXTENDS SourceHistory

CONSTANTS
  Calls,       (* calls of prepare, create and answer                      *)
  Sources,     (* what Odoo sends                                          *)
  Questions,   (* clarifications that may be asked                         *)
  Texts,       (* what sources and answers may say                         *)
  Answers,     (* those of them that may be answers                        *)
  Requests,    (* [mode, units, contents] that Odoo may send: per source,  *)
               (* its hash with its name, and its text                     *)
  MaxSources,  (* engine_session_retrieval_max_sources                     *)
  NoAnswer

Ids == Sources \cup Questions     (* "clarification-<id>" is a source, too *)
(* Odoo names its own records; no id the engine made is one of them.       *)
Units == UNION {[S -> Texts] : S \in SUBSET Sources}
PrepareRequests ==
  {q \in [mode : {"baseline", "delta"}, units : Units, contents : Units] :
     DOMAIN q.units = DOMAIN q.contents}

ASSUME IdsAreDistinct == Sources \cap Questions = {}
ASSUME AnswersAreTexts == Answers \subseteq Texts
ASSUME NoAnswerIsNoText == NoAnswer \notin Texts
ASSUME MaxSourcesIsPositive == MaxSources \in Nat \ {0}
ASSUME RequestsAreRequests == Requests \subseteq PrepareRequests

VARIABLES
  exists, state, baseline,   (* the session row: is it there, its state,   *)
                             (* and whether baseline_received_at is set    *)
  rows,                      (* committed source revisions                 *)
  asked,                     (* per question, its state and answer         *)
  turns,                     (* questions with a clarification_answer turn *)
  pc, tx                     (* per call, its stage and its transaction    *)

session == <<exists, state, baseline>>
memory == <<session, rows, asked, turns>>
vars == <<memory, pc, tx>>

None == [i \in {} |-> NoAnswer]
NoTx == [kind |-> "none",
         req |-> [mode |-> "delta", units |-> None, contents |-> None],
         created |-> FALSE, read |-> "active", write |-> "active",
         question |-> {}, text |-> NoAnswer, seen |-> {}, new |-> {},
         given |-> {}]

Goto(c, stage) == pc' = [pc EXCEPT ![c] = stage]
(* uuid4: which call is made next makes no difference.                     *)
FreshCall == CHOOSE c \in Calls : pc[c] = "idle"
Opens(c, stage, t) ==
  /\ \E d \in Calls : pc[d] = "idle"
  /\ c = FreshCall
  /\ Goto(c, stage)
  /\ tx' = [tx EXCEPT ![c] = t]
  /\ UNCHANGED memory

(* Rows a call has written and not yet committed.                          *)
Holding(u) == pc[u] \in {"flushed", "retrieved"}
CreatesSession(u) ==
  tx[u].created /\ pc[u] \in {"resolved", "ready", "flushed", "retrieved"}
HoldsAnswer(u) == tx[u].kind = "answer" /\ (pc[u] = "ready" \/ Holding(u))
-----------------------------------------------------------------------------
(* Mutant: a delta may create the session.                                 *)
NeverRefused(q, created) == FALSE
Refused(q, created) == q.mode = "delta" /\ created

(* prepare(): the session is inserted unless it is there; who inserts it   *)
(* makes the others wait.                                                  *)
Resolve(q) ==
  LET c == FreshCall
      t == [NoTx EXCEPT !.kind = "prepare", !.req = q, !.created = ~exists]
  IN  /\ ~\E u \in Calls : CreatesSession(u)
      /\ Opens(c, IF Refused(q, ~exists) THEN "failed" ELSE "resolved", t)

(* What the transaction stores of a source is the text it sent, under the  *)
(* hash and the name it sent.                                              *)
Stored(c) ==
  {[id |-> x.id, rev |-> x.rev, text |-> x.text,
    content |-> tx[c].req.contents[x.id], by |-> c] :
     x \in Successors(tx[c].req.units, rows, c)}

(* _store_sources, _store_chunks.                                          *)
Compare(c) ==
  /\ pc[c] = "resolved"
  /\ Goto(c, "ready")
  /\ tx' = [tx EXCEPT ![c].seen = Current(rows), ![c].new = Stored(c)]
  /\ UNCHANGED memory

(* create(): the session is read, then paused.                             *)
Ask(k) ==
  /\ exists
  /\ asked[k].state = "none"
  /\ ~\E u \in Calls : /\ tx[u].kind = "ask" /\ k \in tx[u].question
                       /\ pc[u] \in {"ready", "flushed"}
  /\ Opens(FreshCall, "ready",
       [NoTx EXCEPT !.kind = "ask", !.question = {k}, !.read = state,
                    !.write = "awaiting_clarification"])

(* answer(): a clarification that is answered already is only reported, or *)
(* refused if the answer is another one.                                   *)
Answer(k, text) ==
  LET t == [NoTx EXCEPT !.kind = "answer", !.question = {k}, !.text = text]
      stage == CASE asked[k].state = "awaiting_answer" -> "found"
                 [] asked[k].answer = text -> "done"
                 [] OTHER -> "failed"
  IN  asked[k].state # "none" /\ Opens(FreshCall, stage, t)

(* Mutant: the session is left paused.                                     *)
StillPaused == "awaiting_clarification"
Resumed == "active"

(* The read of the session sends the clarification's update first, which   *)
(* waits for another answer to the same question.                          *)
ReadSession(c) ==
  /\ pc[c] = "found"
  /\ \A u \in Calls \ {c} : HoldsAnswer(u) => tx[u].question # tx[c].question
  /\ Goto(c, "ready")
  /\ tx' = [tx EXCEPT
       ![c].read = state, ![c].write = Resumed,
       ![c].new = {[id |-> k, rev |-> 1, text |-> tx[c].text,
                    content |-> tx[c].text, by |-> c] : k \in tx[c].question}]
  /\ UNCHANGED memory
-----------------------------------------------------------------------------
(* A column is written when its new value differs from the one read.       *)
Moves(c) == tx[c].kind # "prepare" /\ tx[c].read # tx[c].write
SetsBaseline(c) == tx[c].kind = "prepare" /\ tx[c].req.mode = "baseline"
Updates(c) == Moves(c) \/ SetsBaseline(c)

(* Mutant: the table lacks the unique key.                                 *)
RowNeverTaken(c) == FALSE
RowTaken(c) == \E x \in tx[c].new, y \in rows : SameKey(x, y)

Overlap(c, u) ==
  \/ Updates(c) /\ Updates(u)
  \/ \E x \in tx[c].new, y \in tx[u].new : SameKey(x, y)

Flush(c) ==
  /\ pc[c] = "ready"
  /\ \A u \in Calls \ {c} : Holding(u) => ~Overlap(c, u)
  /\ Goto(c, IF RowTaken(c) THEN "failed" ELSE "flushed")
  /\ UNCHANGED <<memory, tx>>

(* Some of the latest revisions: of those with chunks, which only prepare  *)
(* writes, and of the others when there are none.                          *)
Selections(S) ==
  LET chunked == {x \in Current(S) : x.id \in Sources}
      pool == IF chunked # {} THEN chunked ELSE Current(S)
  IN  {g \in SUBSET pool : Cardinality(g) <= MaxSources /\ (pool # {} => g # {})}

Retrieve(c) ==
  /\ pc[c] = "flushed"
  /\ tx[c].kind = "prepare"
  /\ Goto(c, "retrieved")
  /\ \E g \in Selections(rows \cup tx[c].new) :
       tx' = [tx EXCEPT ![c].given = g]
  /\ UNCHANGED memory

Settle(c) ==
  CASE tx[c].kind = "ask" -> [state |-> "awaiting_answer", answer |-> NoAnswer]
    [] OTHER -> [state |-> "answered", answer |-> tx[c].text]

(* The commit; its answer may be lost, and the caller is told of a failure.*)
Commit(c) ==
  /\ pc[c] = IF tx[c].kind = "prepare" THEN "retrieved" ELSE "flushed"
  /\ \E outcome \in {"done", "failed"} : Goto(c, outcome)
  /\ exists' = TRUE
  /\ state' = IF Moves(c) THEN tx[c].write ELSE state
  /\ baseline' = (baseline \/ SetsBaseline(c))
  /\ rows' = rows \cup tx[c].new
  /\ asked' = [k \in Questions |->
                 IF k \in tx[c].question THEN Settle(c) ELSE asked[k]]
  /\ turns' = IF tx[c].kind = "answer" THEN turns \cup tx[c].question ELSE turns
  /\ UNCHANGED tx

(* A database error, or the process stops: nothing stays.                  *)
Fails(c) ==
  /\ pc[c] \notin {"idle", "done", "failed"}
  /\ Goto(c, "failed")
  /\ tx' = [tx EXCEPT ![c] = NoTx]
  /\ UNCHANGED memory
-----------------------------------------------------------------------------
Init ==
  /\ exists = FALSE /\ state = "active" /\ baseline = FALSE
  /\ rows = {} /\ turns = {}
  /\ asked = [k \in Questions |-> [state |-> "none", answer |-> NoAnswer]]
  /\ pc = [c \in Calls |-> "idle"]
  /\ tx = [c \in Calls |-> NoTx]

Proceed(c) ==
  Compare(c) \/ ReadSession(c) \/ Flush(c) \/ Retrieve(c) \/ Commit(c)

Next ==
  \/ \E q \in Requests : Resolve(q)
  \/ \E k \in Questions : Ask(k) \/ \E text \in Answers : Answer(k, text)
  \/ \E c \in Calls : Proceed(c) \/ Fails(c)

Spec == Init /\ [][Next]_vars
-----------------------------------------------------------------------------
RowRecords ==
  [id : Ids, rev : Nat \ {0}, text : Texts, content : Texts, by : Calls]
SessionStates == {"active", "awaiting_clarification"}
Transactions ==
  [kind : {"none", "prepare", "ask", "answer"},
   req : PrepareRequests, created : BOOLEAN,
   read : SessionStates, write : SessionStates, question : SUBSET Questions,
   text : Texts \cup {NoAnswer}, seen : SUBSET RowRecords,
   new : SUBSET RowRecords, given : SUBSET RowRecords]
Stages == {"idle", "resolved", "found", "ready", "flushed", "retrieved",
           "done", "failed"}

(* The session, its rows and the calls hold what the code stores there.    *)
TypeOK ==
  /\ exists \in BOOLEAN /\ state \in SessionStates /\ baseline \in BOOLEAN
  /\ rows \subseteq RowRecords
  /\ asked \in [Questions ->
       [state : {"none", "awaiting_answer", "answered"},
        answer : Texts \cup {NoAnswer}]]
  /\ turns \subseteq Questions
  /\ pc \in [Calls -> Stages]
  /\ tx \in [Calls -> Transactions]

(* However preparations and answers meet and fail, the session is a memory *)
(* of what both store: no history forks, skips or repeats a text (what is  *)
(* compared: hash and name), and a delta opens none, not even one that     *)
(* raced with a baseline that failed.                                      *)
Memory == INSTANCE SessionMemory WITH
  Contents <- {{t} : t \in Texts},
  open <- baseline,
  history <- [i \in Ids |-> TextsOf(rows, i)]
MemoryIsKept == Memory!Spec

(* A paused session waits for someone: however questions and answers meet, *)
(* the last answer resumes it, although each call writes the state only if *)
(* it differs from the one it read.                                        *)
PausedForAQuestion ==
  state = "awaiting_clarification" =>
    \E k \in Questions : asked[k].state = "awaiting_answer"

(* An answer that was acknowledged is the clarification's answer, its only *)
(* source and a turn, and stays so when others answer at the same time.    *)
AnswersAreKept ==
  /\ \A c \in Calls : pc[c] = "done" /\ tx[c].kind = "answer" =>
       \A k \in tx[c].question : asked[k].answer = tx[c].text
  /\ \A k \in Questions :
       /\ k \in turns <=> asked[k].state = "answered"
       /\ {x.text : x \in {y \in rows : y.id = k}} =
            {asked[k].answer} \ {NoAnswer}

(* What a preparation is given of a source it sent says what it sent,      *)
(* unless another call stored it: after this one compared, or before, and  *)
(* then under the very hash and name it sent, which _store_sources takes   *)
(* for the same text.                                                      *)
GivenWhatWasSent ==
  \A c \in Calls : \A x \in tx[c].given :
    /\ x.id \in DOMAIN tx[c].req.contents
    /\ x.content # tx[c].req.contents[x.id]
    => /\ x.by # c
       /\ x \in tx[c].seen => x.text = tx[c].req.units[x.id]
=============================================================================
