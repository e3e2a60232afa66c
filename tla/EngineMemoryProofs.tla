-------------------------- MODULE EngineMemoryProofs --------------------------
(***************************************************************************)
(* Proofs about EngineMemory, for any calls, sources, questions, texts and *)
(* requests.                                                               *)
(***************************************************************************)
EXTENDS EngineMemory, SourceHistoryProofs

Asking(c, k) == tx[c].kind = "ask" /\ k \in tx[c].question
Answering(c, k) == tx[c].kind = "answer" /\ k \in tx[c].question

(* What a call adds may come next in the history, and is its own once it   *)
(* is flushed; it holds a preparation's sources, as they were sent, or an  *)
(* answer's question.  Nothing of a call is there before it committed.     *)
NewGood(c) ==
  /\ \A x \in rows : x.by = c => pc[c] \in {"done", "failed"}
  /\ \A x \in tx[c].new : x.by = c
  /\ pc[c] \in {"ready", "flushed", "retrieved"} => Follow(tx[c].new, rows)
  /\ Holding(c) => Untaken(tx[c].new, rows)
  /\ tx[c].kind = "prepare" => \A x \in tx[c].new :
       x.id \in Sources /\ x.content = tx[c].req.contents[x.id]
  /\ tx[c].kind = "ask" => tx[c].new = {}
  /\ tx[c].kind = "answer" => \A x \in tx[c].new :
       x.id \in tx[c].question /\ x.rev = 1 /\ x.text = tx[c].text
  /\ tx[c].kind = "answer" /\ pc[c] \in {"ready", "flushed"} =>
       \A k \in tx[c].question : \E x \in tx[c].new : x.id = k /\ x.rev = 1

(* A preparation succeeds what it saw otherwise, is not given what it      *)
(* succeeds, and of its own rows only those it adds.                       *)
GivenGood(c) ==
  /\ tx[c].seen # {} => tx[c].kind = "prepare"
  /\ tx[c].given # {} => /\ tx[c].kind = "prepare"
                         /\ pc[c] \in {"retrieved", "done", "failed"}
  /\ \A x \in tx[c].given : x.by = c => x \in tx[c].new
  /\ \A x \in tx[c].given, y \in tx[c].new : y.id = x.id => y.rev <= x.rev
  /\ \A x \in tx[c].seen :
       x.id \in DOMAIN tx[c].req.units /\ x.text # tx[c].req.units[x.id]
       => \E y \in tx[c].new : y.id = x.id /\ y.rev = x.rev + 1

StageGood(c) ==
  /\ pc[c] \in {"resolved", "retrieved"} => tx[c].kind = "prepare"
  /\ pc[c] = "found" => tx[c].kind = "answer"
  /\ pc[c] \in {"ready", "flushed"} => tx[c].kind # "none"
  /\ tx[c].kind \in {"none", "prepare"} => tx[c].question = {}
  /\ tx[c].kind = "answer" => tx[c].text \in Texts
  /\ tx[c].kind = "ask" => tx[c].write = "awaiting_clarification"
                          /\ tx[c].question # {}
  /\ tx[c].kind = "answer" /\ pc[c] \in {"ready", "flushed"} => tx[c].write = "active"

(* Only a baseline may find no session, and only who asks a question that  *)
(* was not asked.                                                          *)
CallGood(c) ==
  /\ pc[c] \notin {"idle", "failed"} => exists \/ SetsBaseline(c)
  /\ \A k \in Questions :
       /\ Asking(c, k) /\ pc[c] \in {"ready", "flushed"} => asked[k].state = "none"
       /\ Answering(c, k) /\ pc[c] \in {"found", "ready", "flushed"} =>
            asked[k].state # "none"
       /\ Answering(c, k) /\ pc[c] = "done" => asked[k].answer = tx[c].text

(* Two calls hold no key together, and do not ask the same question.       *)
Apart(c, u) ==
  /\ Holding(c) /\ Holding(u) => Untaken(tx[c].new, tx[u].new)
  /\ \A k \in Questions :
       /\ Asking(c, k) /\ pc[c] \in {"ready", "flushed"}
       => ~(Asking(u, k) /\ pc[u] \in {"ready", "flushed"})

TextsIn(k) == {x.text : x \in {y \in rows : y.id = k}}
QuestionGood(k) ==
  /\ k \in turns <=> asked[k].state = "answered"
  /\ asked[k].state = "answered" <=> asked[k].answer # NoAnswer
  /\ TextsIn(k) = {asked[k].answer} \ {NoAnswer}
  /\ asked[k].state # "none" => exists

(* Whoever answers the question a paused session waits for read the pause, *)
(* and so writes that it is over.                                          *)
PauseGood ==
  state = "awaiting_clarification" =>
    \E k \in Questions :
      /\ asked[k].state = "awaiting_answer"
      /\ \A c \in Calls : Answering(c, k) /\ pc[c] \in {"ready", "flushed"} =>
           tx[c].read = "awaiting_clarification"

IInv ==
  /\ TypeOK
  /\ Chained(rows)
  /\ exists => baseline
  /\ ~exists => rows = {}
  /\ \A c \in Calls : NewGood(c) /\ GivenGood(c) /\ StageGood(c) /\ CallGood(c)
  /\ \A c, u \in Calls : c # u => Apart(c, u)
  /\ \A k \in Questions : QuestionGood(k)
  /\ PauseGood
-----------------------------------------------------------------------------
(***************************************************************************)
(* A step of one call, which changes nothing that is stored.               *)
(***************************************************************************)
LEMMA NoTxTyped == NoTx \in Transactions
<1>1. None \in Units
  <2>1. None \in [{} -> Texts]
    BY DEF None
  <2> QED
    BY <2>1 DEF Units
<1>2. NoTx.req \in PrepareRequests
  BY <1>1 DEF NoTx, PrepareRequests
<1> QED
  BY <1>2 DEF NoTx, Transactions, SessionStates

LEMMA ApartSymmetric ==
  ASSUME NEW c, NEW u, Apart(c, u)
  PROVE  Apart(u, c)
BY DEF Apart, Untaken, SameKey

(* If the call is in order after the step, everything is.                  *)
LEMMA CallStepKeeps ==
  ASSUME IInv, NEW c \in Calls, NEW stage \in Stages, NEW t \in Transactions,
         UNCHANGED memory,
         pc' = [pc EXCEPT ![c] = stage],
         tx' = [tx EXCEPT ![c] = t],
         NewGood(c)', GivenGood(c)', StageGood(c)', CallGood(c)',
         \A u \in Calls \ {c} : Apart(c, u)',
         \A k \in Questions :
           Answering(c, k)' /\ stage \in {"ready", "flushed"} =>
             \/ t.read = state
             \/ /\ Answering(c, k) /\ pc[c] \in {"ready", "flushed"}
                /\ t.read = tx[c].read
  PROVE  IInv'
<1>1. TypeOK
  BY DEF IInv
<1>2. /\ UNCHANGED <<exists, state, baseline, rows, asked, turns>>
      /\ pc'[c] = stage /\ tx'[c] = t
      /\ \A u \in Calls : u # c => pc'[u] = pc[u] /\ tx'[u] = tx[u]
  BY <1>1 DEF TypeOK, memory, session
<1>3. TypeOK'
  BY <1>1, <1>2 DEF TypeOK
<1>4. Chained(rows)' /\ (exists => baseline)' /\ (~exists => rows = {})'
  BY <1>2 DEF IInv
<1>5. ASSUME NEW u \in Calls
      PROVE  (NewGood(u) /\ GivenGood(u) /\ StageGood(u) /\ CallGood(u))'
  <2>1. CASE u = c
    BY <2>1
  <2>2. CASE u # c
    <3>1. NewGood(u)'
      BY <1>2, <2>2 DEF IInv, NewGood, Holding
    <3>2. GivenGood(u)' /\ StageGood(u)'
      BY <1>2, <2>2 DEF IInv, GivenGood, StageGood
    <3>3. CallGood(u)'
      BY <1>2, <2>2 DEF IInv, CallGood, SetsBaseline, Asking, Answering
    <3> QED
      BY <3>1, <3>2, <3>3
  <2> QED
    BY <2>1, <2>2
<1>6. ASSUME NEW u \in Calls, NEW v \in Calls, u # v PROVE Apart(u, v)'
  <2>1. CASE u = c
    BY <1>6, <2>1
  <2>2. CASE v = c
    <3>1. Apart(v, u)'
      BY <1>6, <2>2
    <3> QED
      BY <3>1 DEF Apart, Untaken, SameKey
  <2>3. CASE u # c /\ v # c
    BY <1>2, <1>6, <2>3 DEF IInv, Apart, Holding, Asking
  <2> QED
    BY <2>1, <2>2, <2>3
<1>7. ASSUME NEW k \in Questions PROVE QuestionGood(k)'
  BY <1>2 DEF IInv, QuestionGood, TextsIn
<1>8. PauseGood'
  <2> SUFFICES ASSUME state' = "awaiting_clarification" PROVE PauseGood'
    BY DEF PauseGood
  <2>1. PICK k \in Questions :
          /\ asked[k].state = "awaiting_answer"
          /\ \A u \in Calls : Answering(u, k) /\ pc[u] \in {"ready", "flushed"} =>
               tx[u].read = "awaiting_clarification"
    BY <1>2 DEF IInv, PauseGood
  <2>2. \A u \in Calls : Answering(u, k)' /\ pc'[u] \in {"ready", "flushed"} =>
          tx'[u].read = "awaiting_clarification"
    BY <1>2, <2>1 DEF Answering
  <2> QED
    BY <1>2, <2>1, <2>2 DEF PauseGood
<1> QED
  BY <1>3, <1>4, <1>5, <1>6, <1>7, <1>8 DEF IInv

(* A call that opens is the fresh one.                                     *)
LEMMA FreshOpens ==
  ASSUME NEW stage, NEW t, Opens(FreshCall, stage, t)
  PROVE  \E c \in Calls : /\ pc[c] = "idle"
                          /\ pc' = [pc EXCEPT ![c] = stage]
                          /\ tx' = [tx EXCEPT ![c] = t]
                          /\ UNCHANGED memory
BY DEF Opens, FreshCall, Goto

LEMMA ResolveKeeps ==
  ASSUME IInv, NEW q \in Requests, Resolve(q)
  PROVE  IInv'
<1> DEFINE t == [NoTx EXCEPT !.kind = "prepare", !.req = q, !.created = ~exists]
           stage == IF Refused(q, ~exists) THEN "failed" ELSE "resolved"
<1>1. Opens(FreshCall, stage, t)
  BY DEF Resolve
<1>2. /\ q \in PrepareRequests /\ q.mode \in {"baseline", "delta"}
      /\ exists \in BOOLEAN
  BY RequestsAreRequests DEF IInv, TypeOK, PrepareRequests
<1>3. t \in Transactions
  BY <1>2, NoTxTyped DEF Transactions
<1>4. /\ t.kind = "prepare" /\ t.req = q /\ t.question = {} /\ t.seen = {}
      /\ t.new = {} /\ t.given = {}
  BY DEF NoTx
<1>5. stage \in Stages /\ (stage = "failed" \/ exists \/ q.mode = "baseline")
  BY <1>2 DEF Stages, Refused
<1>6. stage \in {"failed", "resolved"}
  OBVIOUS
<1> HIDE DEF t, stage
<1>7. PICK c \in Calls : /\ pc[c] = "idle"
                       /\ pc' = [pc EXCEPT ![c] = stage]
                       /\ tx' = [tx EXCEPT ![c] = t]
                       /\ UNCHANGED memory
  BY <1>1, FreshOpens
<1>8. /\ pc'[c] = stage /\ tx'[c] = t /\ exists' = exists
      /\ rows' = rows /\ \A x \in rows : x.by # c
  BY <1>7 DEF IInv, TypeOK, NewGood, memory, session
<1>9. NewGood(c)' /\ GivenGood(c)' /\ StageGood(c)'
  BY <1>4, <1>6, <1>8 DEF NewGood, GivenGood, StageGood, Holding, Follow, Untaken
<1>10. CallGood(c)'
  BY <1>4, <1>5, <1>6, <1>8 DEF CallGood, SetsBaseline, Asking, Answering
<1>11. \A u \in Calls \ {c} : Apart(c, u)'
  BY <1>6, <1>8 DEF Apart, Holding
<1>12. stage \notin {"ready", "flushed"}
  BY <1>6
<1> QED
  BY <1>3, <1>5, <1>7, <1>9, <1>10, <1>11, <1>12, CallStepKeeps

LEMMA AskKeeps ==
  ASSUME IInv, NEW k \in Questions, Ask(k)
  PROVE  IInv'
<1> DEFINE t == [NoTx EXCEPT !.kind = "ask", !.question = {k}, !.read = state,
                             !.write = "awaiting_clarification"]
<1>1. /\ Opens(FreshCall, "ready", t)
      /\ exists /\ asked[k].state = "none"
      /\ ~\E u \in Calls : /\ tx[u].kind = "ask" /\ k \in tx[u].question
                           /\ pc[u] \in {"ready", "flushed"}
  BY DEF Ask
<1>2. t \in Transactions
  BY NoTxTyped DEF Transactions, SessionStates, IInv, TypeOK
<1>3. /\ t.kind = "ask" /\ t.question = {k} /\ t.seen = {} /\ t.new = {}
      /\ t.given = {} /\ t.write = "awaiting_clarification"
  BY DEF NoTx
<1> HIDE DEF t
<1>4. PICK c \in Calls : /\ pc[c] = "idle"
                       /\ pc' = [pc EXCEPT ![c] = "ready"]
                       /\ tx' = [tx EXCEPT ![c] = t]
                       /\ UNCHANGED memory
  BY <1>1, FreshOpens
<1>5. /\ pc'[c] = "ready" /\ tx'[c] = t /\ exists' = exists /\ asked' = asked
      /\ \A u \in Calls \ {c} : pc'[u] = pc[u] /\ tx'[u] = tx[u]
      /\ rows' = rows /\ \A x \in rows : x.by # c
  BY <1>4 DEF IInv, TypeOK, NewGood, memory, session
<1>6. NewGood(c)' /\ GivenGood(c)' /\ StageGood(c)'
  BY <1>3, <1>5 DEF NewGood, GivenGood, StageGood, Holding, Follow, Untaken
<1>7. CallGood(c)'
  BY <1>1, <1>3, <1>5 DEF CallGood, Asking, Answering
<1>8. \A u \in Calls \ {c} : Apart(c, u)'
  BY <1>1, <1>3, <1>5 DEF Apart, Holding, Asking
<1>9. \A j \in Questions : ~Answering(c, j)'
  BY <1>3, <1>5 DEF Answering
<1>10. "ready" \in Stages
  BY DEF Stages
<1> QED
  BY <1>2, <1>4, <1>6, <1>7, <1>8, <1>9, <1>10, CallStepKeeps

LEMMA AnswerKeeps ==
  ASSUME IInv, NEW k \in Questions, NEW text \in Answers, Answer(k, text)
  PROVE  IInv'
<1> DEFINE t == [NoTx EXCEPT !.kind = "answer", !.question = {k}, !.text = text]
           stage == CASE asked[k].state = "awaiting_answer" -> "found"
                      [] asked[k].answer = text -> "done"
                      [] OTHER -> "failed"
<1>1. asked[k].state # "none" /\ Opens(FreshCall, stage, t)
  BY DEF Answer
<1>2. t \in Transactions
  BY NoTxTyped, AnswersAreTexts DEF Transactions
<1>3. /\ t.kind = "answer" /\ t.question = {k} /\ t.seen = {} /\ t.new = {}
      /\ t.given = {} /\ t.text = text
  BY DEF NoTx
<1>4. /\ stage \in {"found", "done", "failed"}
      /\ stage = "done" => asked[k].answer = text
  <2>1. asked[k].state = "awaiting_answer" => stage = "found"
    <3>1. asked[k].state = "awaiting_answer" => asked[k].answer # text
      BY NoAnswerIsNoText, AnswersAreTexts DEF IInv, QuestionGood
    <3> QED
      BY <3>1
  <2>2. asked[k].state # "awaiting_answer" /\ asked[k].answer = text => stage = "done"
    OBVIOUS
  <2>3. asked[k].state # "awaiting_answer" /\ asked[k].answer # text => stage = "failed"
    OBVIOUS
  <2> HIDE DEF stage
  <2> QED
    BY <2>1, <2>2, <2>3
<1> HIDE DEF t, stage
<1>5. PICK c \in Calls : /\ pc[c] = "idle"
                       /\ pc' = [pc EXCEPT ![c] = stage]
                       /\ tx' = [tx EXCEPT ![c] = t]
                       /\ UNCHANGED memory
  BY <1>1, FreshOpens
<1>6. /\ pc'[c] = stage /\ tx'[c] = t /\ exists' = exists /\ asked' = asked
      /\ rows' = rows /\ \A x \in rows : x.by # c
  BY <1>5 DEF IInv, TypeOK, NewGood, memory, session
<1>7. NewGood(c)' /\ GivenGood(c)' /\ StageGood(c)'
  BY <1>3, <1>4, <1>6, AnswersAreTexts
     DEF NewGood, GivenGood, StageGood, Holding, Follow, Untaken
<1>8. exists
  BY <1>1 DEF IInv, QuestionGood
<1>9. CallGood(c)'
  BY <1>1, <1>3, <1>4, <1>6, <1>8 DEF CallGood, Asking, Answering
<1>10. \A u \in Calls \ {c} : Apart(c, u)'
  BY <1>3, <1>4, <1>6 DEF Apart, Holding, Asking
<1>11. stage \in Stages /\ stage \notin {"ready", "flushed"}
  BY <1>4 DEF Stages
<1> QED
  BY <1>2, <1>5, <1>7, <1>9, <1>10, <1>11, CallStepKeeps

(* What a preparation stores is what it sent, and may come next in the     *)
(* history it compared it with.                                            *)
LEMMA StoredFollow ==
  ASSUME NEW c, Chained(rows)
  PROVE  /\ Follow(Stored(c), rows)
         /\ \A x \in Stored(c) :
              /\ x = [id |-> x.id, rev |-> x.rev,
                      text |-> tx[c].req.units[x.id],
                      content |-> tx[c].req.contents[x.id], by |-> c]
              /\ x.id \in DOMAIN tx[c].req.units /\ x.by = c
              /\ x.content = tx[c].req.contents[x.id]
         /\ \A x \in Current(rows) :
              /\ x.id \in DOMAIN tx[c].req.units
              /\ x.text # tx[c].req.units[x.id]
              => \E y \in Stored(c) : y.id = x.id /\ y.rev = x.rev + 1
<1> DEFINE S == Successors(tx[c].req.units, rows, c)
           Row(x) == [id |-> x.id, rev |-> x.rev, text |-> x.text,
                      content |-> tx[c].req.contents[x.id], by |-> c]
<1>1. /\ Follow(S, rows)
      /\ \A x \in S : /\ x.id \in DOMAIN tx[c].req.units
                      /\ x.text = tx[c].req.units[x.id]
  BY SuccessorsFollow
<1>2. \A x \in Current(rows) :
        /\ x.id \in DOMAIN tx[c].req.units
        /\ x.text # tx[c].req.units[x.id]
        => \E y \in S : y.id = x.id /\ y.rev = x.rev + 1
  BY OtherTextIsSucceeded
<1>3. Stored(c) = {Row(x) : x \in S}
  BY DEF Stored
<1> HIDE DEF S
<1>4. ASSUME NEW y \in Stored(c)
      PROVE  \E x \in S : /\ y = Row(x)
                          /\ y.id = x.id /\ y.rev = x.rev /\ y.text = x.text
                          /\ y.content = tx[c].req.contents[x.id] /\ y.by = c
  BY <1>3
<1>5. ASSUME NEW x \in S PROVE Row(x) \in Stored(c) /\ Row(x).id = x.id /\ Row(x).rev = x.rev
  BY <1>3
<1> HIDE DEF Row
<1>6. Follow(Stored(c), rows)
  <2>1. \A x, y \in Stored(c) : x.id = y.id => x = y
    <3> SUFFICES ASSUME NEW x \in Stored(c), NEW y \in Stored(c), x.id = y.id
                 PROVE  x = y
      OBVIOUS
    <3>1. PICK x0 \in S : x = Row(x0) /\ x.id = x0.id
      BY <1>4
    <3>2. PICK y0 \in S : y = Row(y0) /\ y.id = y0.id
      BY <1>4
    <3>3. x0 = y0
      BY <1>1, <3>1, <3>2 DEF Follow
    <3> QED
      BY <3>1, <3>2, <3>3
  <2>2. ASSUME NEW x \in Stored(c)
        PROVE  /\ x.rev \in Nat \ {0}
               /\ x.rev > 1 => \E y \in rows : /\ y.id = x.id /\ y.rev = x.rev - 1
                                              /\ y.text # x.text
    <3>1. PICK x0 \in S : x.id = x0.id /\ x.rev = x0.rev /\ x.text = x0.text
      BY <1>4
    <3>2. /\ x0.rev \in Nat \ {0}
          /\ x0.rev > 1 => \E y \in rows : /\ y.id = x0.id /\ y.rev = x0.rev - 1
                                          /\ y.text # x0.text
      BY <1>1 DEF Follow
    <3> QED
      BY <3>1, <3>2
  <2> QED
    BY <2>1, <2>2 DEF Follow
<1>7. ASSUME NEW y \in Stored(c)
      PROVE  /\ y = [id |-> y.id, rev |-> y.rev,
                     text |-> tx[c].req.units[y.id],
                     content |-> tx[c].req.contents[y.id], by |-> c]
             /\ y.id \in DOMAIN tx[c].req.units /\ y.by = c
             /\ y.content = tx[c].req.contents[y.id]
  BY <1>1, <1>4 DEF Row
<1>8. ASSUME NEW x \in Current(rows), x.id \in DOMAIN tx[c].req.units,
             x.text # tx[c].req.units[x.id]
      PROVE  \E y \in Stored(c) : y.id = x.id /\ y.rev = x.rev + 1
  <2>1. PICK y \in S : y.id = x.id /\ y.rev = x.rev + 1
    BY <1>2, <1>8
  <2> QED
    BY <1>5, <2>1
<1> QED
  BY <1>6, <1>7, <1>8

LEMMA CompareKeeps ==
  ASSUME IInv, NEW c \in Calls, Compare(c)
  PROVE  IInv'
<1> DEFINE new == Stored(c)
           t == [tx[c] EXCEPT !.seen = Current(rows), !.new = new]
<1>1. /\ pc[c] = "resolved" /\ UNCHANGED memory
      /\ pc' = [pc EXCEPT ![c] = "ready"] /\ tx' = [tx EXCEPT ![c] = t]
  BY DEF Compare, Goto
<1>2. /\ TypeOK /\ Chained(rows)
      /\ tx[c] \in Transactions /\ tx[c].kind = "prepare" /\ tx[c].given = {}
  BY <1>1 DEF IInv, TypeOK, StageGood, GivenGood
<1>0. tx[c].req \in PrepareRequests
  BY <1>2 DEF Transactions
<1>3. PICK S \in SUBSET Sources :
        tx[c].req.units \in [S -> Texts] /\ tx[c].req.contents \in [S -> Texts]
  <2>1. PICK S \in SUBSET Sources : tx[c].req.units \in [S -> Texts]
    BY <1>0 DEF PrepareRequests, Units
  <2>2. PICK T \in SUBSET Sources : tx[c].req.contents \in [T -> Texts]
    BY <1>0 DEF PrepareRequests, Units
  <2>3. S = T
    BY <1>0, <2>1, <2>2 DEF PrepareRequests
  <2> QED
    BY <2>1, <2>2, <2>3
<1>4. /\ Follow(new, rows)
      /\ \A x \in new :
           /\ x = [id |-> x.id, rev |-> x.rev,
                   text |-> tx[c].req.units[x.id],
                   content |-> tx[c].req.contents[x.id], by |-> c]
           /\ x.id \in S /\ x.by = c
           /\ x.content = tx[c].req.contents[x.id]
  BY <1>2, <1>3, StoredFollow
<1> HIDE DEF new
<1>5. ASSUME NEW x \in new PROVE x \in RowRecords /\ x.id \in Sources
  <2>1. /\ x = [id |-> x.id, rev |-> x.rev, text |-> tx[c].req.units[x.id],
                content |-> tx[c].req.contents[x.id], by |-> c]
        /\ x.id \in Ids /\ x.id \in Sources
        /\ tx[c].req.units[x.id] \in Texts /\ tx[c].req.contents[x.id] \in Texts
    BY <1>3, <1>4 DEF Ids
  <2>2. x.rev \in Nat \ {0}
    BY <1>4 DEF Follow
  <2> QED
    BY <2>1, <2>2 DEF RowRecords
<1>6. Current(rows) \subseteq RowRecords
  BY <1>2 DEF Current, TypeOK
<1>7. t \in Transactions
  BY <1>2, <1>5, <1>6 DEF Transactions
<1>8. /\ t.kind = "prepare" /\ t.req = tx[c].req /\ t.question = tx[c].question
      /\ t.seen = Current(rows) /\ t.new = new /\ t.given = {}
  BY <1>2 DEF Transactions
<1> HIDE DEF t
<1>9. /\ pc'[c] = "ready" /\ tx'[c] = t
      /\ UNCHANGED <<rows, exists, asked>>
  BY <1>1, <1>2 DEF TypeOK, memory, session
<1>10. NewGood(c)'
  BY <1>1, <1>4, <1>5, <1>8, <1>9 DEF IInv, NewGood, Holding
<1>11. GivenGood(c)'
  <2>1. ASSUME NEW x \in Current(rows), x.id \in DOMAIN t.req.units,
               x.text # t.req.units[x.id]
        PROVE  \E y \in new : y.id = x.id /\ y.rev = x.rev + 1
    BY <1>2, <1>8, <2>1, StoredFollow DEF new
  <2> QED
    BY <1>8, <1>9, <2>1 DEF GivenGood
<1>12. StageGood(c)'
  BY <1>2, <1>8, <1>9 DEF IInv, StageGood
<1>13. CallGood(c)'
  BY <1>1, <1>2, <1>8, <1>9 DEF IInv, CallGood, SetsBaseline, Asking, Answering
<1>14. \A u \in Calls \ {c} : Apart(c, u)'
  BY <1>8, <1>9 DEF Apart, Holding, Asking
<1>15. \A k \in Questions : ~Answering(c, k)'
  BY <1>8, <1>9 DEF Answering
<1> QED
  BY <1>1, <1>7, <1>10, <1>11, <1>12, <1>13, <1>14, <1>15, CallStepKeeps DEF Stages

LEMMA ReadSessionKeeps ==
  ASSUME IInv, NEW c \in Calls, ReadSession(c)
  PROVE  IInv'
<1> DEFINE new == {[id |-> k, rev |-> 1, text |-> tx[c].text,
                    content |-> tx[c].text, by |-> c] : k \in tx[c].question}
           t == [tx[c] EXCEPT !.read = state, !.write = Resumed, !.new = new]
<1>1. /\ pc[c] = "found" /\ UNCHANGED memory
      /\ pc' = [pc EXCEPT ![c] = "ready"] /\ tx' = [tx EXCEPT ![c] = t]
  BY DEF ReadSession, Goto
<1>2. /\ TypeOK /\ tx[c] \in Transactions /\ tx[c].kind = "answer"
      /\ tx[c].text \in Texts /\ tx[c].given = {}
  BY <1>1 DEF IInv, TypeOK, StageGood, GivenGood
<1>3. tx[c].question \subseteq Questions
  BY <1>2 DEF Transactions
<1>4. /\ \A x \in new : /\ x \in RowRecords /\ x.id \in tx[c].question
                        /\ x.rev = 1 /\ x.text = tx[c].text /\ x.by = c
      /\ \A x, y \in new : x.id = y.id => x = y
      /\ \A k \in tx[c].question : \E x \in new : x.id = k /\ x.rev = 1
  <2>1. \A k \in tx[c].question :
          [id |-> k, rev |-> 1, text |-> tx[c].text,
           content |-> tx[c].text, by |-> c] \in RowRecords
    BY <1>2, <1>3 DEF RowRecords, Ids
  <2>2. ASSUME NEW x \in new
        PROVE  /\ x \in RowRecords /\ x.id \in tx[c].question
               /\ x.rev = 1 /\ x.text = tx[c].text /\ x.by = c
               /\ x = [id |-> x.id, rev |-> 1, text |-> tx[c].text,
                       content |-> tx[c].text, by |-> c]
    BY <2>1
  <2>3. ASSUME NEW k \in tx[c].question PROVE \E x \in new : x.id = k /\ x.rev = 1
    <3>1. [id |-> k, rev |-> 1, text |-> tx[c].text,
           content |-> tx[c].text, by |-> c] \in new
      OBVIOUS
    <3> QED
      BY <3>1
  <2> HIDE DEF new
  <2> QED
    BY <2>2, <2>3
<1> HIDE DEF new
<1>5. t \in Transactions
  BY <1>2, <1>4 DEF Transactions, TypeOK, Resumed, SessionStates
<1>6. /\ t.kind = "answer" /\ t.req = tx[c].req /\ t.question = tx[c].question
      /\ t.seen = tx[c].seen /\ t.new = new /\ t.given = {} /\ t.text = tx[c].text
      /\ t.read = state /\ t.write = "active"
  BY <1>2 DEF Transactions, Resumed
<1> HIDE DEF t
<1>7. /\ pc'[c] = "ready" /\ tx'[c] = t
      /\ UNCHANGED <<rows, exists, asked, state>>
      /\ \A u \in Calls \ {c} : pc'[u] = pc[u] /\ tx'[u] = tx[u]
  BY <1>1, <1>2 DEF TypeOK, memory, session
<1>8. Follow(new, rows)
  BY <1>4 DEF Follow
<1>9. NewGood(c)'
  BY <1>1, <1>4, <1>6, <1>7, <1>8 DEF IInv, NewGood, Holding
<1>10. GivenGood(c)'
  BY <1>2, <1>6, <1>7 DEF IInv, GivenGood
<1>11. StageGood(c)'
  BY <1>2, <1>6, <1>7 DEF StageGood
<1>12. CallGood(c)'
  BY <1>1, <1>2, <1>6, <1>7 DEF IInv, CallGood, SetsBaseline, Asking, Answering
<1>13. \A u \in Calls \ {c} : Apart(c, u)'
  BY <1>6, <1>7 DEF Apart, Holding, Asking
<1>14. "ready" \in Stages
  BY DEF Stages
<1> QED
  BY <1>1, <1>5, <1>6, <1>9, <1>10, <1>11, <1>12, <1>13, <1>14, CallStepKeeps

LEMMA FlushKeeps ==
  ASSUME IInv, NEW c \in Calls, Flush(c)
  PROVE  IInv'
<1> DEFINE stage == IF RowTaken(c) THEN "failed" ELSE "flushed"
<1>1. /\ pc[c] = "ready" /\ UNCHANGED <<memory, tx>>
      /\ \A u \in Calls \ {c} : Holding(u) => ~Overlap(c, u)
      /\ pc' = [pc EXCEPT ![c] = stage]
  BY DEF Flush, Goto
<1>2. TypeOK /\ tx[c] \in Transactions
  BY DEF IInv, TypeOK
<1>3. stage \in Stages /\ stage \in {"failed", "flushed"}
  BY DEF Stages
<1>4. stage = "flushed" => Untaken(tx[c].new, rows)
  BY DEF RowTaken, Untaken
<1> HIDE DEF stage
<1>5. /\ pc'[c] = stage /\ tx' = [tx EXCEPT ![c] = tx[c]] /\ tx'[c] = tx[c]
      /\ \A u \in Calls \ {c} : pc'[u] = pc[u] /\ tx'[u] = tx[u]
      /\ UNCHANGED <<rows, exists, asked, state>> /\ UNCHANGED memory
  BY <1>1, <1>2 DEF TypeOK, memory, session
<1>6. NewGood(c) /\ GivenGood(c) /\ StageGood(c) /\ CallGood(c)
  BY DEF IInv
<1>7. NewGood(c)'
  BY <1>1, <1>3, <1>4, <1>5, <1>6 DEF NewGood, Holding
<1>8. GivenGood(c)' /\ StageGood(c)'
  BY <1>1, <1>3, <1>5, <1>6 DEF GivenGood, StageGood
<1>9. CallGood(c)'
  BY <1>1, <1>3, <1>5, <1>6 DEF CallGood, SetsBaseline, Asking, Answering
<1>10. ASSUME NEW u \in Calls \ {c} PROVE Apart(c, u)'
  <2>1. Apart(c, u)
    BY DEF IInv
  <2>2. Holding(u) => Untaken(tx[c].new, tx[u].new)
    BY <1>1 DEF Overlap, Untaken
  <2> QED
    BY <1>1, <1>3, <1>5, <2>1, <2>2 DEF Apart, Holding, Asking
<1>11. \A k \in Questions : Answering(c, k)' => Answering(c, k)
  BY <1>5 DEF Answering
<1> QED
  BY <1>1, <1>2, <1>3, <1>5, <1>7, <1>8, <1>9, <1>10, <1>11, CallStepKeeps

LEMMA RetrieveKeeps ==
  ASSUME IInv, NEW c \in Calls, Retrieve(c)
  PROVE  IInv'
<1>1. PICK g \in Selections(rows \cup tx[c].new) :
        tx' = [tx EXCEPT ![c].given = g]
  BY DEF Retrieve
<1>2. /\ pc[c] = "flushed" /\ tx[c].kind = "prepare" /\ UNCHANGED memory
      /\ pc' = [pc EXCEPT ![c] = "retrieved"]
  BY DEF Retrieve, Goto
<1> DEFINE t == [tx[c] EXCEPT !.given = g]
<1>3. TypeOK /\ tx[c] \in Transactions
  BY DEF IInv, TypeOK
<1>4. g \subseteq Current(rows \cup tx[c].new)
  BY <1>1 DEF Selections
<1>5. g \subseteq RowRecords
  BY <1>3, <1>4 DEF Current, TypeOK, Transactions
<1>6. /\ \A x \in g, y \in tx[c].new : y.id = x.id => y.rev <= x.rev
      /\ \A x \in g : x.by = c => x \in tx[c].new
  BY <1>2, <1>4 DEF Current, IInv, NewGood
<1>7. t \in Transactions
  BY <1>3, <1>5 DEF Transactions
<1>8. /\ t.kind = tx[c].kind /\ t.req = tx[c].req /\ t.question = tx[c].question
      /\ t.seen = tx[c].seen /\ t.new = tx[c].new /\ t.given = g /\ t.text = tx[c].text
      /\ t.read = tx[c].read /\ t.write = tx[c].write
  BY <1>3 DEF Transactions
<1>9. tx' = [tx EXCEPT ![c] = t]
  BY <1>1
<1> HIDE DEF t
<1>10. /\ pc'[c] = "retrieved" /\ tx'[c] = t
       /\ \A u \in Calls \ {c} : pc'[u] = pc[u] /\ tx'[u] = tx[u]
       /\ UNCHANGED <<rows, exists, asked, state>>
  BY <1>2, <1>3, <1>9 DEF TypeOK, memory, session
<1>11. NewGood(c) /\ GivenGood(c) /\ StageGood(c) /\ CallGood(c)
  BY DEF IInv
<1>12. NewGood(c)'
  BY <1>2, <1>8, <1>10, <1>11 DEF NewGood, Holding
<1>13. GivenGood(c)'
  BY <1>2, <1>6, <1>8, <1>10, <1>11 DEF GivenGood
<1>14. StageGood(c)'
  BY <1>2, <1>8, <1>10, <1>11 DEF StageGood
<1>15. CallGood(c)'
  BY <1>2, <1>8, <1>10, <1>11 DEF CallGood, SetsBaseline, Asking, Answering
<1>16. ASSUME NEW u \in Calls \ {c} PROVE Apart(c, u)'
  <2>1. Apart(c, u)
    BY DEF IInv
  <2> QED
    BY <1>2, <1>8, <1>10, <2>1 DEF Apart, Holding, Asking
<1>17. "retrieved" \in Stages
  BY DEF Stages
<1> QED
  BY <1>2, <1>7, <1>9, <1>12, <1>13, <1>14, <1>15, <1>16, <1>17, CallStepKeeps

LEMMA FailsKeeps ==
  ASSUME IInv, NEW c \in Calls, Fails(c)
  PROVE  IInv'
<1>1. /\ pc[c] \notin {"idle", "done", "failed"} /\ UNCHANGED memory
      /\ pc' = [pc EXCEPT ![c] = "failed"] /\ tx' = [tx EXCEPT ![c] = NoTx]
  BY DEF Fails, Goto
<1>2. /\ pc'[c] = "failed" /\ tx'[c] = NoTx /\ rows' = rows
      /\ \A x \in rows : x.by # c
  BY <1>1 DEF IInv, TypeOK, NewGood, memory, session
<1>3. /\ NoTx.kind = "none" /\ NoTx.question = {} /\ NoTx.seen = {}
      /\ NoTx.new = {} /\ NoTx.given = {}
  BY DEF NoTx
<1>4. NewGood(c)' /\ GivenGood(c)' /\ StageGood(c)'
  BY <1>2, <1>3 DEF NewGood, GivenGood, StageGood, Holding
<1>5. CallGood(c)' /\ \A u \in Calls \ {c} : Apart(c, u)'
  BY <1>2, <1>3 DEF CallGood, Apart, Holding, Asking, Answering
<1>6. "failed" \in Stages
  BY DEF Stages
<1> QED
  BY <1>1, <1>4, <1>5, <1>6, NoTxTyped, CallStepKeeps

-----------------------------------------------------------------------------
(***************************************************************************)
(* The commit.                                                             *)
(***************************************************************************)
(* A call that commits holds what it adds, opens the memory unless it is   *)
(* open, and asks or answers a question that was not asked or answered.    *)
LEMMA CommitFacts ==
  ASSUME IInv, NEW c \in Calls, Commit(c)
  PROVE  /\ Holding(c) /\ tx[c] \in Transactions
         /\ Follow(tx[c].new, rows) /\ Untaken(tx[c].new, rows)
         /\ baseline' = TRUE
         /\ \A u \in Calls : u # c => pc'[u] = pc[u]
         /\ pc'[c] \in {"done", "failed"}
         /\ \A k \in tx[c].question : k \in Questions
         /\ \A k \in Questions :
              /\ Asking(c, k) => asked[k].state = "none"
              /\ Answering(c, k) => asked[k].state = "awaiting_answer"
              /\ k \in tx[c].question => Asking(c, k) \/ Answering(c, k)
<1>1. TypeOK /\ tx[c] \in Transactions /\ Chained(rows)
  BY DEF IInv, TypeOK
<1>2. NewGood(c) /\ StageGood(c) /\ CallGood(c) /\ (exists => baseline)
  BY DEF IInv
<1>3. /\ pc[c] \in {"flushed", "retrieved"}
      /\ tx[c].kind # "prepare" => pc[c] = "flushed"
      /\ baseline' = (baseline \/ SetsBaseline(c))
  BY DEF Commit
<1>4. /\ \A u \in Calls : u # c => pc'[u] = pc[u]
      /\ pc'[c] \in {"done", "failed"}
  BY <1>1 DEF Commit, Goto, TypeOK
<1>5. baseline' = TRUE
  <2>1. exists \/ SetsBaseline(c)
    BY <1>2, <1>3 DEF CallGood
  <2>2. baseline \in BOOLEAN /\ SetsBaseline(c) \in BOOLEAN
    BY <1>1 DEF TypeOK, SetsBaseline
  <2> QED
    BY <1>2, <1>3, <2>1, <2>2
<1>6. Holding(c) /\ Follow(tx[c].new, rows) /\ Untaken(tx[c].new, rows)
  BY <1>2, <1>3 DEF NewGood, Holding
<1>7. tx[c].question \subseteq Questions /\ tx[c].kind \in {"none", "prepare", "ask", "answer"}
  BY <1>1 DEF Transactions
<1>8. ASSUME NEW k \in Questions
      PROVE  /\ Asking(c, k) => asked[k].state = "none"
             /\ Answering(c, k) => asked[k].state = "awaiting_answer"
             /\ k \in tx[c].question => Asking(c, k) \/ Answering(c, k)
  <2>1. k \in tx[c].question => Asking(c, k) \/ Answering(c, k)
    BY <1>2, <1>7 DEF StageGood, Asking, Answering
  <2>2. Asking(c, k) => asked[k].state = "none"
    BY <1>2, <1>3 DEF CallGood, Asking
  <2>3. ASSUME Answering(c, k) PROVE asked[k].state = "awaiting_answer"
    <3>1. asked[k].state # "none" /\ \E x \in tx[c].new : x.id = k /\ x.rev = 1
      BY <1>2, <1>3, <2>3 DEF CallGood, NewGood, Answering
    <3>2. asked[k].state # "answered"
      <4> SUFFICES ASSUME asked[k].state = "answered" PROVE FALSE
        OBVIOUS
      <4>1. PICK y \in rows : y.id = k
        BY DEF IInv, QuestionGood, TextsIn
      <4>2. PICK n \in Nat : RevsOf(rows, k) = 1 .. n
        BY <1>1, RevisionsOfAny DEF Chained
      <4>3. 1 \in RevsOf(rows, k)
        BY <4>1, <4>2 DEF RevsOf
      <4> QED
        BY <1>6, <3>1, <4>3 DEF Untaken, SameKey, RevsOf
    <3> QED
      BY <1>1, <3>1, <3>2 DEF TypeOK
  <2> QED
    BY <2>1, <2>2, <2>3
<1> QED
  BY <1>1, <1>3, <1>4, <1>5, <1>6, <1>7, <1>8

(* What a commit makes of a question.                                      *)
LEMMA CommitSettles ==
  ASSUME IInv, NEW c \in Calls, Commit(c), NEW k \in Questions
  PROVE  /\ k \notin tx[c].question => asked'[k] = asked[k]
         /\ Asking(c, k) =>
              /\ asked'[k] = [state |-> "awaiting_answer", answer |-> NoAnswer]
              /\ asked'[k].state = "awaiting_answer" /\ asked'[k].answer = NoAnswer
         /\ Answering(c, k) =>
              /\ asked'[k] = [state |-> "answered", answer |-> tx[c].text]
              /\ asked'[k].state = "answered" /\ asked'[k].answer = tx[c].text
<1>1. asked'[k] = IF k \in tx[c].question THEN Settle(c) ELSE asked[k]
  BY DEF Commit
<1>2. ASSUME Asking(c, k)
      PROVE  asked'[k] = [state |-> "awaiting_answer", answer |-> NoAnswer]
  BY <1>1, <1>2 DEF Settle, Asking
<1>3. ASSUME Answering(c, k)
      PROVE  asked'[k] = [state |-> "answered", answer |-> tx[c].text]
  BY <1>1, <1>3 DEF Settle, Answering
<1> QED
  BY <1>1, <1>2, <1>3

LEMMA CommitKeepsTypes ==
  ASSUME IInv, NEW c \in Calls, Commit(c)
  PROVE  TypeOK'
<1>1. TypeOK /\ tx[c] \in Transactions /\ baseline' = TRUE
  BY CommitFacts DEF IInv
<1>2. /\ exists' = TRUE /\ state' = IF Moves(c) THEN tx[c].write ELSE state
      /\ rows' = rows \cup tx[c].new
      /\ asked' = [k \in Questions |-> asked'[k]]
      /\ turns' = IF tx[c].kind = "answer" THEN turns \cup tx[c].question ELSE turns
      /\ UNCHANGED tx
      /\ \E outcome \in {"done", "failed"} : pc' = [pc EXCEPT ![c] = outcome]
  BY DEF Commit, Goto
<1>3. ASSUME NEW k \in Questions
      PROVE  asked'[k] \in [state : {"none", "awaiting_answer", "answered"},
                            answer : Texts \cup {NoAnswer}]
  <2>1. k \in tx[c].question => Asking(c, k) \/ Answering(c, k)
    BY CommitFacts
  <2>2. Answering(c, k) => tx[c].text \in Texts
    BY DEF IInv, StageGood, Answering
  <2>3. CASE k \notin tx[c].question
    BY <1>1, <2>3, CommitSettles DEF TypeOK
  <2>4. CASE Asking(c, k)
    <3>1. asked'[k] = [state |-> "awaiting_answer", answer |-> NoAnswer]
      BY <2>4, CommitSettles
    <3> QED
      BY <3>1
  <2>5. CASE Answering(c, k)
    <3>1. asked'[k] = [state |-> "answered", answer |-> tx[c].text]
      BY <2>5, CommitSettles
    <3> QED
      BY <2>2, <2>5, <3>1
  <2> QED
    BY <2>1, <2>3, <2>4, <2>5
<1>4. state' \in SessionStates /\ rows' \subseteq RowRecords /\ turns' \subseteq Questions
  BY <1>1, <1>2 DEF TypeOK, Transactions
<1>5. asked' \in [Questions -> [state : {"none", "awaiting_answer", "answered"},
                                answer : Texts \cup {NoAnswer}]]
  BY <1>2, <1>3
<1>6. pc' \in [Calls -> Stages] /\ tx' \in [Calls -> Transactions]
  BY <1>1, <1>2 DEF TypeOK, Stages
<1> QED
  BY <1>1, <1>2, <1>4, <1>5, <1>6 DEF TypeOK

LEMMA CommitKeepsCalls ==
  ASSUME IInv, NEW c \in Calls, Commit(c), NEW u \in Calls
  PROVE  (NewGood(u) /\ GivenGood(u) /\ StageGood(u) /\ CallGood(u))'
<1>1. /\ rows' = rows \cup tx[c].new /\ exists' = TRUE /\ UNCHANGED tx
      /\ u # c => pc'[u] = pc[u]
      /\ u = c => pc[u] \in {"flushed", "retrieved"} /\ pc'[u] \in {"done", "failed"}
      /\ tx[u] \in Transactions
  BY CommitFacts DEF Commit, Holding, IInv, TypeOK
<1>2. NewGood(u) /\ GivenGood(u) /\ StageGood(u) /\ CallGood(u)
  BY DEF IInv
<1>3. NewGood(u)'
  <2>1. CASE u = c
    BY <1>1, <1>2, <2>1 DEF NewGood, Holding
  <2>2. CASE u # c
    <3>0. \A x \in rows' : x.by = u => pc'[u] \in {"done", "failed"}
      BY <1>1, <1>2, <2>2 DEF IInv, NewGood
    <3>1. Follow(tx[u].new, rows) => Follow(tx[u].new, rows')
      BY <1>1, FollowStays
    <3>2. Holding(u) => Untaken(tx[u].new, rows')
      <4>1. Holding(c) /\ Apart(u, c)
        BY <2>2, CommitFacts DEF IInv
      <4> QED
        BY <1>1, <1>2, <4>1 DEF NewGood, Apart, Untaken
    <3> QED
      BY <1>1, <1>2, <2>2, <3>0, <3>1, <3>2 DEF NewGood, Holding
  <2> QED
    BY <2>1, <2>2
<1>4. GivenGood(u)' /\ StageGood(u)'
  BY <1>1, <1>2 DEF GivenGood, StageGood
<1>5. ASSUME NEW k \in Questions, Asking(u, k)', pc'[u] \in {"ready", "flushed"}
      PROVE  asked'[k].state = "none"
  <2>1. u # c /\ Asking(u, k) /\ pc[u] \in {"ready", "flushed"}
    BY <1>1, <1>5 DEF Asking
  <2>2. asked[k].state = "none"
    BY <1>2, <2>1 DEF CallGood
  <2>3. ~Answering(c, k)
    BY <2>2, CommitFacts
  <2>4. ~Asking(c, k)
    <3>1. Apart(u, c)
      BY <2>1 DEF IInv
    <3>2. Asking(c, k) => pc[c] = "flushed"
      BY DEF Commit, Asking
    <3> QED
      BY <2>1, <3>1, <3>2 DEF Apart
  <2>5. k \notin tx[c].question
    BY <2>3, <2>4, CommitFacts
  <2> QED
    BY <2>2, <2>5, CommitSettles
<1>6. ASSUME NEW k \in Questions, Answering(u, k)',
             pc'[u] \in {"found", "ready", "flushed"}
      PROVE  asked'[k].state # "none"
  <2>1. Answering(u, k) /\ asked[k].state # "none"
    BY <1>1, <1>2, <1>6 DEF Answering, CallGood
  <2>2. k \in tx[c].question => Asking(c, k) \/ Answering(c, k)
    BY CommitFacts
  <2>3. /\ k \notin tx[c].question => asked'[k] = asked[k]
        /\ Asking(c, k) => asked'[k].state = "awaiting_answer"
        /\ Answering(c, k) => asked'[k].state = "answered"
    BY CommitSettles
  <2> QED
    BY <2>1, <2>2, <2>3
<1>7. ASSUME NEW k \in Questions, Answering(u, k)', pc'[u] = "done"
      PROVE  asked'[k].answer = tx'[u].text
  <2>1. Answering(u, k)
    BY <1>1, <1>7 DEF Answering
  <2>2. CASE u = c
    <3>1. asked'[k].answer = tx[c].text
      BY <2>1, <2>2, CommitSettles
    <3> QED
      BY <1>1, <2>2, <3>1
  <2>3. CASE u # c
    <3>1. asked[k].answer = tx[u].text /\ tx[u].text \in Texts
      BY <1>1, <1>2, <1>7, <2>1, <2>3 DEF CallGood, StageGood, Answering
    <3>2. asked[k].state = "answered"
      BY <3>1, NoAnswerIsNoText DEF IInv, QuestionGood
    <3>3. k \notin tx[c].question
      BY <3>2, CommitFacts
    <3> QED
      BY <1>1, <3>1, <3>3, CommitSettles
  <2> QED
    BY <2>2, <2>3
<1>8. CallGood(u)'
  BY <1>1, <1>5, <1>6, <1>7 DEF CallGood
<1> QED
  BY <1>3, <1>4, <1>8

LEMMA CommitKeepsQuestions ==
  ASSUME IInv, NEW c \in Calls, Commit(c), NEW k \in Questions
  PROVE  QuestionGood(k)'
<1>1. /\ rows' = rows \cup tx[c].new /\ exists' = TRUE
      /\ turns' = IF tx[c].kind = "answer" THEN turns \cup tx[c].question ELSE turns
  BY DEF Commit
<1>2. QuestionGood(k) /\ NewGood(c) /\ StageGood(c) /\ tx[c] \in Transactions
  BY DEF IInv, TypeOK
<1>3. TextsIn(k)' = TextsIn(k) \cup {x.text : x \in {y \in tx[c].new : y.id = k}}
  BY <1>1 DEF TextsIn
<1>4. CASE k \notin tx[c].question
  <2>1. asked'[k] = asked[k]
    BY <1>4, CommitSettles
  <2>2. ~\E y \in tx[c].new : y.id = k
    BY <1>2, <1>4, IdsAreDistinct, CommitFacts
       DEF NewGood, StageGood, Transactions, Commit, Holding
  <2>3. TextsIn(k)' = TextsIn(k)
    BY <1>3, <2>2
  <2> QED
    BY <1>1, <1>2, <1>4, <2>1, <2>3 DEF QuestionGood
<1>5. CASE Asking(c, k)
  <2>1. /\ asked'[k] = [state |-> "awaiting_answer", answer |-> NoAnswer]
        /\ asked[k].state = "none"
    BY <1>5, CommitSettles, CommitFacts
  <2>2. TextsIn(k)' = TextsIn(k) /\ TextsIn(k) = {} /\ turns' = turns
    BY <1>1, <1>2, <1>3, <1>5, <2>1 DEF NewGood, QuestionGood, Asking
  <2> QED
    BY <1>1, <1>2, <2>1, <2>2 DEF QuestionGood
<1>6. CASE Answering(c, k)
  <2>1. /\ asked'[k] = [state |-> "answered", answer |-> tx[c].text]
        /\ asked[k].state = "awaiting_answer"
        /\ tx[c].text \in Texts
    BY <1>2, <1>6, CommitSettles, CommitFacts DEF StageGood, Answering
  <2>2. {x.text : x \in {y \in tx[c].new : y.id = k}} = {tx[c].text}
    <3>1. pc[c] = "flushed"
      BY <1>6 DEF Commit, Answering
    <3>2. \E y \in tx[c].new : y.id = k
      BY <1>2, <1>6, <3>1 DEF NewGood, Answering
    <3>3. \A y \in tx[c].new : y.text = tx[c].text
      BY <1>2, <1>6 DEF NewGood, Answering
    <3> QED
      BY <3>2, <3>3
  <2>3. TextsIn(k) = {}
    BY <1>2, <2>1 DEF QuestionGood
  <2>4. TextsIn(k)' = {tx[c].text} /\ k \in turns'
    BY <1>1, <1>3, <1>6, <2>2, <2>3 DEF Answering
  <2> QED
    BY <1>1, <2>1, <2>4, NoAnswerIsNoText DEF QuestionGood
<1> QED
  BY <1>4, <1>5, <1>6, CommitFacts

LEMMA CommitKeepsPause ==
  ASSUME IInv, NEW c \in Calls, Commit(c)
  PROVE  PauseGood'
<1>1. /\ state' = IF Moves(c) THEN tx[c].write ELSE state
      /\ UNCHANGED tx
  BY DEF Commit
<1>2. StageGood(c) /\ tx[c] \in Transactions
  BY DEF IInv, TypeOK
<1>3. \A u \in Calls : /\ u # c => pc'[u] = pc[u]
                       /\ u = c => pc'[u] \in {"done", "failed"}
  BY CommitFacts
<1> SUFFICES ASSUME state' = "awaiting_clarification" PROVE PauseGood'
  BY DEF PauseGood
<1>4. CASE Moves(c)
  <2>1. tx[c].write = "awaiting_clarification" /\ tx[c].kind # "prepare"
    BY <1>1, <1>4 DEF Moves
  <2>2. tx[c].kind = "ask"
    <3>1. tx[c].kind # "prepare" => pc[c] = "flushed"
      BY DEF Commit
    <3> QED
      BY <1>2, <2>1, <3>1 DEF StageGood, Transactions
  <2>3. PICK k \in Questions : Asking(c, k)
    BY <1>2, <2>2, CommitFacts DEF StageGood, Asking
  <2>4. /\ asked[k].state = "none"
        /\ asked'[k] = [state |-> "awaiting_answer", answer |-> NoAnswer]
    BY <2>3, CommitFacts, CommitSettles
  <2>5. ASSUME NEW u \in Calls, Answering(u, k)', pc'[u] \in {"ready", "flushed"}
        PROVE  FALSE
    <3>1. u # c /\ pc[u] \in {"ready", "flushed"} /\ Answering(u, k)
      BY <1>1, <1>3, <2>5 DEF Answering
    <3> QED
      BY <2>4, <3>1 DEF IInv, CallGood
  <2> QED
    BY <2>4, <2>5 DEF PauseGood
<1>5. CASE ~Moves(c)
  <2>1. state = "awaiting_clarification"
    BY <1>1, <1>5
  <2>2. PICK k \in Questions :
          /\ asked[k].state = "awaiting_answer"
          /\ \A u \in Calls : Answering(u, k) /\ pc[u] \in {"ready", "flushed"} =>
               tx[u].read = "awaiting_clarification"
    BY <2>1 DEF IInv, PauseGood
  <2>3. ~Asking(c, k)
    BY <2>2, CommitFacts
  <2>4. ~Answering(c, k)
    <3> SUFFICES ASSUME Answering(c, k) PROVE FALSE
      OBVIOUS
    <3>1. pc[c] = "flushed" /\ tx[c].kind = "answer"
      BY DEF Commit, Answering
    <3>2. tx[c].read = "awaiting_clarification" /\ tx[c].write = "active"
      BY <1>2, <2>2, <3>1 DEF StageGood
    <3> QED
      BY <1>5, <3>1, <3>2 DEF Moves
  <2>5. asked'[k] = asked[k]
    BY <2>3, <2>4, CommitFacts, CommitSettles
  <2>6. \A u \in Calls : Answering(u, k)' /\ pc'[u] \in {"ready", "flushed"} =>
          tx'[u].read = "awaiting_clarification"
    BY <1>1, <1>3, <2>2 DEF Answering
  <2> QED
    BY <2>2, <2>5, <2>6 DEF PauseGood
<1> QED
  BY <1>4, <1>5

LEMMA CommitKeeps ==
  ASSUME IInv, NEW c \in Calls, Commit(c)
  PROVE  IInv'
<1>1. rows' = rows \cup tx[c].new /\ exists' = TRUE /\ UNCHANGED tx
  BY DEF Commit
<1>2. /\ Follow(tx[c].new, rows) /\ Untaken(tx[c].new, rows) /\ baseline' = TRUE
      /\ \A u \in Calls : /\ u # c => pc'[u] = pc[u]
                          /\ u = c => pc'[u] \in {"done", "failed"}
  BY CommitFacts
<1>3. Chained(rows)'
  BY <1>1, <1>2, CommitKeepsChained DEF IInv
<1>4. ASSUME NEW u \in Calls, NEW v \in Calls, u # v PROVE Apart(u, v)'
  <2>1. Apart(u, v)
    BY <1>4 DEF IInv
  <2>2. CASE u # c /\ v # c
    BY <1>1, <1>2, <2>1, <2>2 DEF Apart, Holding, Asking
  <2>3. CASE u = c \/ v = c
    BY <1>1, <1>2, <2>1, <2>3 DEF Apart, Holding, Asking
  <2> QED
    BY <2>2, <2>3
<1> QED
  BY <1>1, <1>2, <1>3, <1>4, CommitKeepsTypes, CommitKeepsCalls, CommitKeepsQuestions,
     CommitKeepsPause DEF IInv

-----------------------------------------------------------------------------
(***************************************************************************)
(* The invariant, and what follows from it.                                *)
(***************************************************************************)
LEMMA InitGood == Init => IInv
<1> SUFFICES ASSUME Init PROVE IInv
  OBVIOUS
<1>1. /\ rows = {} /\ turns = {} /\ state = "active" /\ baseline = FALSE
      /\ exists = FALSE
      /\ \A c \in Calls : pc[c] = "idle" /\ tx[c] = NoTx
      /\ \A k \in Questions : asked[k].state = "none" /\ asked[k].answer = NoAnswer
  BY DEF Init
<1>2. TypeOK
  BY NoTxTyped DEF Init, TypeOK, Stages, SessionStates
<1>3. Chained(rows) /\ PauseGood
  BY <1>1 DEF Chained, Numbered, OneRowEach, NoRepeats, PauseGood
<1>4. /\ NoTx.kind = "none" /\ NoTx.question = {} /\ NoTx.seen = {}
      /\ NoTx.new = {} /\ NoTx.given = {}
  BY DEF NoTx
<1>5. ASSUME NEW c \in Calls
      PROVE  NewGood(c) /\ GivenGood(c) /\ StageGood(c) /\ CallGood(c)
  BY <1>1, <1>4 DEF NewGood, GivenGood, StageGood, CallGood, Holding, Asking, Answering
<1>6. ASSUME NEW c \in Calls, NEW u \in Calls PROVE Apart(c, u)
  BY <1>1 DEF Apart, Holding
<1>7. ASSUME NEW k \in Questions PROVE QuestionGood(k)
  BY <1>1 DEF QuestionGood, TextsIn
<1> QED
  BY <1>1, <1>2, <1>3, <1>5, <1>6, <1>7 DEF IInv

LEMMA StutterKeeps ==
  ASSUME IInv, UNCHANGED vars
  PROVE  IInv'
<1>1. UNCHANGED <<exists, state, baseline, rows, asked, turns, pc, tx>>
  BY DEF vars, memory, session
<1>2. TypeOK' /\ Chained(rows)' /\ (exists => baseline)' /\ (~exists => rows = {})'
  BY <1>1 DEF IInv, TypeOK
<1>3. ASSUME NEW c \in Calls
      PROVE  (NewGood(c) /\ GivenGood(c) /\ StageGood(c) /\ CallGood(c))'
  BY <1>1 DEF IInv, NewGood, GivenGood, StageGood, CallGood, Holding, Asking,
              Answering, SetsBaseline
<1>4. ASSUME NEW c \in Calls, NEW u \in Calls, c # u PROVE Apart(c, u)'
  BY <1>1, <1>4 DEF IInv, Apart, Holding, Asking
<1>5. (\A k \in Questions : QuestionGood(k))' /\ PauseGood'
  BY <1>1 DEF IInv, QuestionGood, TextsIn, PauseGood, Answering
<1> QED
  BY <1>2, <1>3, <1>4, <1>5 DEF IInv

LEMMA StepKeeps == IInv /\ [Next]_vars => IInv'
<1> SUFFICES ASSUME IInv, [Next]_vars PROVE IInv'
  OBVIOUS
<1>1. ASSUME NEW q \in Requests, Resolve(q) PROVE IInv'
  BY <1>1, ResolveKeeps
<1>2. ASSUME NEW k \in Questions, Ask(k) PROVE IInv'
  BY <1>2, AskKeeps
<1>3. ASSUME NEW k \in Questions, NEW text \in Answers, Answer(k, text) PROVE IInv'
  BY <1>3, AnswerKeeps
<1>4. ASSUME NEW c \in Calls, Compare(c) PROVE IInv'
  BY <1>4, CompareKeeps
<1>5. ASSUME NEW c \in Calls, ReadSession(c) PROVE IInv'
  BY <1>5, ReadSessionKeeps
<1>6. ASSUME NEW c \in Calls, Flush(c) PROVE IInv'
  BY <1>6, FlushKeeps
<1>7. ASSUME NEW c \in Calls, Retrieve(c) PROVE IInv'
  BY <1>7, RetrieveKeeps
<1>8. ASSUME NEW c \in Calls, Commit(c) PROVE IInv'
  BY <1>8, CommitKeeps
<1>9. ASSUME NEW c \in Calls, Fails(c) PROVE IInv'
  BY <1>9, FailsKeeps
<1>10. CASE UNCHANGED vars
  BY <1>10, StutterKeeps
<1> QED
  BY <1>1, <1>2, <1>3, <1>4, <1>5, <1>6, <1>7, <1>8, <1>9, <1>10 DEF Next, Proceed

(* Every state of a document session satisfies the invariant.              *)
THEOREM Invariance == Spec => []IInv
BY InitGood, StepKeeps, PTL DEF Spec

(* The session, its rows and its calls stay well typed.                    *)
THEOREM TypesHold == Spec => []TypeOK
<1>1. IInv => TypeOK
  BY DEF IInv
<1> QED
  BY <1>1, Invariance, PTL

(* A paused session has a question that waits for its answer, however many *)
(* are asked and answered at the same time.                                *)
THEOREM PauseIsForAQuestion == Spec => []PausedForAQuestion
<1>1. IInv => PausedForAQuestion
  BY DEF IInv, PauseGood, PausedForAQuestion
<1> QED
  BY <1>1, Invariance, PTL

(* An acknowledged answer is the clarification's, its only source and its  *)
(* turn, for any number of answers that meet.                              *)
THEOREM AcknowledgedAnswersStay == Spec => []AnswersAreKept
<1>1. IInv => AnswersAreKept
  <2> SUFFICES ASSUME IInv PROVE AnswersAreKept
    OBVIOUS
  <2>1. ASSUME NEW c \in Calls, pc[c] = "done", tx[c].kind = "answer",
               NEW k \in tx[c].question
        PROVE  asked[k].answer = tx[c].text
    <3>1. k \in Questions
      BY DEF IInv, TypeOK, Transactions
    <3> QED
      BY <2>1, <3>1 DEF IInv, CallGood, Answering
  <2>2. ASSUME NEW k \in Questions
        PROVE  /\ k \in turns <=> asked[k].state = "answered"
               /\ {x.text : x \in {y \in rows : y.id = k}} =
                    {asked[k].answer} \ {NoAnswer}
    BY DEF IInv, QuestionGood, TextsIn
  <2> QED
    BY <2>1, <2>2 DEF AnswersAreKept
<1> QED
  BY <1>1, Invariance, PTL

(* What a preparation is given of a source it sent says what it sent,      *)
(* unless another call stored it after it compared, or before and under    *)
(* the hash and name it sent.                                              *)
THEOREM PreparationsAreCurrent == Spec => []GivenWhatWasSent
<1>1. IInv => GivenWhatWasSent
  <2> SUFFICES ASSUME IInv, NEW c \in Calls, NEW x \in tx[c].given,
                      x.id \in DOMAIN tx[c].req.contents,
                      x.content # tx[c].req.contents[x.id]
               PROVE  /\ x.by # c
                      /\ x \in tx[c].seen => x.text = tx[c].req.units[x.id]
    BY DEF GivenWhatWasSent
  <2>1. NewGood(c) /\ GivenGood(c) /\ tx[c] \in Transactions
    BY DEF IInv, TypeOK
  <2>2. x.by # c
    BY <2>1 DEF NewGood, GivenGood
  <2>3. ASSUME x \in tx[c].seen, x.text # tx[c].req.units[x.id] PROVE FALSE
    <3>1. x.id \in DOMAIN tx[c].req.units
      BY <2>1 DEF Transactions, PrepareRequests
    <3>2. PICK y \in tx[c].new : y.id = x.id /\ y.rev = x.rev + 1
      BY <2>1, <2>3, <3>1 DEF GivenGood
    <3>3. y.rev <= x.rev
      BY <2>1, <3>2 DEF GivenGood
    <3>4. x.rev \in Nat
      BY <2>1 DEF Transactions, RowRecords
    <3> QED
      BY <3>2, <3>3, <3>4
  <2> QED
    BY <2>2, <2>3
<1> QED
  BY <1>1, Invariance, PTL

(***************************************************************************)
(* The refinement: a commit is a step of SessionMemory, everything else a  *)
(* stutter.                                                                *)
(***************************************************************************)
LEMMA MemoryInit == Init => Memory!Init
<1> SUFFICES ASSUME Init PROVE Memory!Init
  OBVIOUS
<1>1. IInv /\ rows = {} /\ baseline = FALSE
  BY InitGood DEF Init
<1>2. ASSUME NEW i \in Ids
      PROVE  /\ TextsOf(rows, i) \in Seq({{t} : t \in Texts})
             /\ TextsOf(rows, i) = <<>>
  <2>1. RevsOf(rows, i) = 1 .. 0
    BY <1>1 DEF RevsOf
  <2>2. /\ TextsOf(rows, i) \in Seq({{t} : t \in Texts})
        /\ Len(TextsOf(rows, i)) = 0
    BY <1>1, <2>1, TextsAreASequence DEF IInv
  <2> QED
    BY <2>2
<1> QED
  BY <1>1, <1>2 DEF Memory!Init

(* What a commit does to one source.                                       *)
LEMMA CommitStepsMemory ==
  ASSUME IInv, NEW c \in Calls, Commit(c)
  PROVE  Memory!Next
<1>1. /\ rows' = rows \cup tx[c].new /\ baseline' = TRUE
      /\ Follow(tx[c].new, rows) /\ Untaken(tx[c].new, rows) /\ Chained(rows)
      /\ tx[c] \in Transactions
  BY CommitFacts DEF Commit, IInv
<1>0. \A x \in rows \cup tx[c].new : x.text \in Texts
  BY <1>1 DEF IInv, TypeOK, Transactions, RowRecords
<1>2. ASSUME NEW i \in Ids PROVE Memory!Kept(i) \/ Memory!Extended(i)
  <2>0. LeftOrExtended(rows, tx[c].new, i)
    BY <1>1, CommitExtends
  <2>1. \/ TextsOf(rows', i) = TextsOf(rows, i)
        \/ \E x \in tx[c].new :
             /\ x.id = i
             /\ TextsOf(rows', i) = Append(TextsOf(rows, i), {x.text})
             /\ TextsOf(rows, i) # <<>> =>
                  {x.text} # TextsOf(rows, i)[Len(TextsOf(rows, i))]
    BY <1>1, <2>0 DEF LeftOrExtended
  <2>2. CASE TextsOf(rows', i) = TextsOf(rows, i)
    BY <2>2 DEF Memory!Kept, TextsOf
  <2>3. ASSUME NEW x \in tx[c].new,
               TextsOf(rows', i) = Append(TextsOf(rows, i), {x.text}),
               TextsOf(rows, i) # <<>> =>
                 {x.text} # TextsOf(rows, i)[Len(TextsOf(rows, i))]
        PROVE  Memory!Extended(i)
    <3>1. {x.text} \in {{t} : t \in Texts}
      BY <1>0
    <3> QED
      BY <1>1, <2>3, <3>1 DEF Memory!Extended, Memory!Last, TextsOf
  <2> QED
    BY <2>1, <2>2, <2>3
<1> QED
  BY <1>1, <1>2 DEF Memory!Next

LEMMA OthersStutter ==
  ASSUME [Next]_vars, ~\E c \in Calls : Commit(c)
  PROVE  UNCHANGED <<rows, baseline>>
BY DEF Next, Proceed, Resolve, Ask, Answer, Opens, Compare, ReadSession, Flush,
       Retrieve, Fails, vars, memory, session

(* The sources, questions and answers of a document session are a memory   *)
(* that never forks, skips, repeats or forgets.                            *)
THEOREM SessionIsAMemory == Spec => MemoryIsKept
<1>1. IInv /\ [Next]_vars =>
        [Memory!Next]_<<baseline, [i \in Ids |-> TextsOf(rows, i)]>>
  <2> SUFFICES ASSUME IInv, [Next]_vars
               PROVE  [Memory!Next]_<<baseline, [i \in Ids |-> TextsOf(rows, i)]>>
    OBVIOUS
  <2>1. ASSUME NEW c \in Calls, Commit(c) PROVE Memory!Next
    BY <2>1, CommitStepsMemory
  <2>2. CASE ~\E c \in Calls : Commit(c)
    BY <2>2, OthersStutter DEF TextsOf
  <2> QED
    BY <2>1, <2>2
<1> QED
  BY <1>1, MemoryInit, Invariance, PTL DEF Spec, MemoryIsKept, Memory!Spec
===============================================================================
