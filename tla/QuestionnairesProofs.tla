------------------------- MODULE QuestionnairesProofs -------------------------
(***************************************************************************)
(* Proofs about Questionnaires, for any number of runs, keys, workers,     *)
(* requests and restarts, and for any rules of the gate.                   *)
(***************************************************************************)
EXTENDS Questionnaires, FiniteSetTheorems, TLAPS

Contents == [key : Keys, body : Bodies]
Acceptances == [key : Keys, body : Bodies, run : Runs, process : Nat]
Stages == {"waiting", "screening", "researching", "generating"}
States == {"unused", "queued", "running", "succeeded", "failed", "forgotten"}

Fields == {"material", "customer", "languages", "page"}

TypeOK ==
  /\ state \in [Runs -> States]
  /\ request \in [Runs -> Contents \cup {NoRun}]
  /\ \A r \in Runs : state[r] # "unused" => request[r] \in Contents
  /\ queue \in Seq(Runs)
  /\ holds \in [Workers -> Runs \cup {NoRun}]
  /\ stage \in [Workers -> Stages]
  /\ prompt = [w \in Workers |-> prompt[w]]
  /\ \A w \in Workers : DOMAIN prompt[w] = Fields
  /\ accepted \subseteq Acceptances
  /\ process \in Nat

InQueue(r) == \E n \in DOMAIN queue : queue[n] = r

(* The queue holds no run twice, and what is in it is what is queued.      *)
QueueGood ==
  /\ \A m, n \in DOMAIN queue : queue[m] = queue[n] => m = n
  /\ \A r \in Runs : state[r] = "queued" <=> InQueue(r)

(* A worker executes one run or none, two workers never the same one, and  *)
(* what is executed is what is running.                                    *)
WorkersGood ==
  /\ \A w \in Workers : holds[w] = NoRun <=> stage[w] = "waiting"
  /\ \A v, w \in Workers : holds[v] = holds[w] /\ holds[v] # NoRun => v = w
  /\ \A r \in Runs : state[r] = "running" <=> \E w \in Workers : holds[w] = r

Kept == \A r \in Runs : state[r] = "succeeded" => r \in files

(* The repository's index of keys has at most one run for a key.           *)
KeysAreApart ==
  \A r, s \in Known : request[r].key = request[s].key => r = s

(* An acceptance tells of its run what the repository does, and is of this *)
(* process just when the run is known.                                     *)
AcceptedGood ==
  \A x \in accepted :
    /\ state[x.run] # "unused"
    /\ request[x.run].key = x.key /\ request[x.run].body = x.body
    /\ x.process <= process
    /\ x.process = process <=> x.run \in Known

(* What a worker has for the model once the material and the customer are  *)
(* screened; the languages are the request's.                              *)
ScreenedFrom(b, shown, customer, languages) ==
  /\ customer = b.customer /\ ~Unsafe(b.customer)
  /\ languages = b.languages
  /\ DOMAIN shown # {}
  /\ \A i \in DOMAIN shown :
       i \in DOMAIN b.material /\ shown[i] = b.material[i] /\ ~Unsafe(shown[i])
  /\ \A i \in DOMAIN b.material : MustPass(b.material[i]) => i \in DOMAIN shown

PromptGood(w) ==
  /\ stage[w] \in {"researching", "generating"} =>
       ScreenedFrom(request[holds[w]].body, prompt[w].material,
                    prompt[w].customer, prompt[w].languages)
  /\ stage[w] = "generating" => ~Unsafe(prompt[w].page)

IInv ==
  /\ TypeOK /\ QueueGood /\ WorkersGood /\ Kept
  /\ KeysAreApart /\ AcceptedGood /\ AnswersAgree
  /\ \A w \in Workers : PromptGood(w)
-----------------------------------------------------------------------------
(***************************************************************************)
(* The gate.                                                               *)
(***************************************************************************)
(* What may be let through is not unsafe.                                  *)
LEMMA LetThroughIsNotUnsafe ==
  ASSUME NEW t, TRUE \in Decisions(t)
  PROVE  ~Unsafe(t)
BY DEF Unsafe

(* A scan of several units drops the unsafe ones, keeps the harmless ones, *)
(* and adds none.                                                          *)
LEMMA ScanIsSound ==
  ASSUME NEW units, NEW K \in Retained(units)
  PROVE  /\ K # {} /\ K \subseteq DOMAIN units
         /\ \A i \in K : ~Unsafe(units[i])
         /\ \A i \in DOMAIN units : MustPass(units[i]) => i \in K
<1>1. /\ K # {} /\ K \subseteq DOMAIN units
      /\ \A i \in DOMAIN units : (i \in K) \in Decisions(units[i])
  BY DEF Retained, LetThrough
<1>2. ASSUME NEW i \in K PROVE ~Unsafe(units[i])
  <2>1. TRUE \in Decisions(units[i])
    <3>1. i \in DOMAIN units /\ (i \in K) = TRUE
      BY <1>1
    <3> QED
      BY <1>1, <3>1
  <2> QED
    BY <2>1, LetThroughIsNotUnsafe
<1>3. ASSUME NEW i \in DOMAIN units, MustPass(units[i]) PROVE i \in K
  BY <1>1, <1>3 DEF MustPass
<1> QED
  BY <1>1, <1>2, <1>3

-----------------------------------------------------------------------------
(***************************************************************************)
(* The invariant holds at first, and every step keeps it.                  *)
(***************************************************************************)
LEMMA InitGood == Init => IInv
<1> SUFFICES ASSUME Init PROVE IInv
  OBVIOUS
<1>1. TypeOK
  BY DEF Init, TypeOK, States, Stages, NoPrompt, Fields, Contents
<1>2. QueueGood /\ WorkersGood /\ Kept
  BY NoRunIsNone DEF Init, QueueGood, WorkersGood, Kept, InQueue
<1>3. KeysAreApart /\ AcceptedGood /\ AnswersAgree
  BY DEF Init, KeysAreApart, AcceptedGood, AnswersAgree, Known
<1>4. \A w \in Workers : PromptGood(w)
  BY DEF Init, PromptGood
<1> QED
  BY <1>1, <1>2, <1>3, <1>4 DEF IInv

(* A request gets the run of its key, or one that nobody had.              *)
LEMMA StartKeeps ==
  ASSUME IInv, NEW k \in Keys, NEW b \in Bodies, Start(k, b)
  PROVE  IInv'
<1>1. PICK r \in Runs :
        /\ IF RunsOf(k) = {} THEN state[r] = "unused"
           ELSE r \in RunsOf(k) /\ request[r].body = b
        /\ state' = [state EXCEPT ![r] = IF @ = "unused" THEN "queued" ELSE @]
        /\ request' = [request EXCEPT ![r] = [key |-> k, body |-> b]]
        /\ queue' = IF Queues(r) THEN Append(queue, r) ELSE queue
        /\ accepted' = accepted \cup
             {[key |-> k, body |-> b, run |-> r, process |-> process]}
  BY DEF Start
<1>2. UNCHANGED <<holds, stage, prompt, files, process>>
  BY DEF Start, work
<1> DEFINE now == [key |-> k, body |-> b, run |-> r, process |-> process]
<1>3. TypeOK
  BY DEF IInv
<1>4. [key |-> k, body |-> b] \in Contents /\ now \in Acceptances
  BY <1>3 DEF TypeOK, Contents, Acceptances
<1>5. TypeOK'
  BY <1>1, <1>2, <1>3, <1>4 DEF TypeOK, States, Queues
<1>6. \A s \in Runs :
        /\ s # r => state'[s] = state[s] /\ request'[s] = request[s]
        /\ state'[r] = IF state[r] = "unused" THEN "queued" ELSE state[r]
        /\ request'[r].key = k /\ request'[r].body = b
  BY <1>1, <1>3 DEF TypeOK
<1>7. state[r] = "unused" \/ (r \in RunsOf(k) /\ request[r].body = b)
  BY <1>1
<1>8. \A s \in Runs : s \in Known' <=> s \in Known \/ s = r
  BY <1>6, <1>7 DEF Known, RunsOf
<1>9. \A s \in Runs : state[s] # "unused" =>
        /\ request'[s].key = request[s].key /\ request'[s].body = request[s].body
  BY <1>6, <1>7 DEF RunsOf
<1>10. \A s \in Known : request[s].key = k => s = r
  <2> SUFFICES ASSUME NEW s \in Known, request[s].key = k PROVE s = r
    OBVIOUS
  <2>1. s \in RunsOf(k)
    BY DEF RunsOf
  <2>2. r \in RunsOf(k)
    BY <1>1, <2>1
  <2> QED
    BY <2>2 DEF RunsOf, IInv, KeysAreApart
<1>11. QueueGood'
  <2>1. CASE state[r] = "unused"
    <3>1. queue' = Append(queue, r)
      BY <1>1, <2>1 DEF Queues
    <3>2. /\ DOMAIN queue' = DOMAIN queue \cup {Len(queue) + 1}
          /\ Len(queue) + 1 \notin DOMAIN queue
          /\ queue'[Len(queue) + 1] = r
          /\ \A n \in DOMAIN queue : queue'[n] = queue[n]
      BY <1>3, <3>1 DEF TypeOK
    <3>3. \A n \in DOMAIN queue : queue[n] # r
      BY <2>1 DEF IInv, QueueGood, InQueue
    <3> HIDE DEF now
    <3>4. \A m, n \in DOMAIN queue' : queue'[m] = queue'[n] => m = n
      BY <3>2, <3>3 DEF IInv, QueueGood
    <3>5. \A s \in Runs : InQueue(s)' <=> InQueue(s) \/ s = r
      BY <3>2 DEF InQueue
    <3> QED
      BY <1>6, <2>1, <3>4, <3>5 DEF IInv, QueueGood
  <2>2. CASE state[r] # "unused"
    <3>1. queue' = queue /\ \A s \in Runs : state'[s] = state[s]
      BY <1>1, <1>6, <2>2 DEF Queues
    <3> QED
      BY <3>1 DEF IInv, QueueGood, InQueue
  <2> QED
    BY <2>1, <2>2
<1>12. WorkersGood' /\ Kept'
  BY <1>2, <1>6 DEF IInv, WorkersGood, Kept
<1>13. KeysAreApart'
  <2> SUFFICES ASSUME NEW s \in Known', NEW t \in Known',
                      request'[s].key = request'[t].key
               PROVE  s = t
    BY DEF KeysAreApart
  <2>1. s \in Runs /\ t \in Runs
    BY DEF Known
  <2>2. CASE s # r /\ t # r
    BY <1>6, <1>8, <2>1, <2>2 DEF IInv, KeysAreApart
  <2>3. CASE s = r \/ t = r
    BY <1>6, <1>8, <1>10, <2>1, <2>3
  <2> QED
    BY <2>2, <2>3
<1>14. now \in accepted' /\ \A x \in accepted' : x \in accepted \/ x = now
  BY <1>1
<1>15. \A x \in accepted : x.run \in Runs /\ x.process \in Nat
  BY <1>3 DEF TypeOK, Acceptances
<1>16. now.run = r /\ now.key = k /\ now.body = b /\ now.process = process
  OBVIOUS
<1> HIDE DEF now
<1>17. AcceptedGood'
  <2> SUFFICES ASSUME NEW x \in accepted'
               PROVE  /\ state'[x.run] # "unused"
                      /\ request'[x.run].key = x.key
                      /\ request'[x.run].body = x.body
                      /\ x.process <= process'
                      /\ x.process = process' <=> x.run \in Known'
    BY DEF AcceptedGood
  <2>1. CASE x = now
    BY <1>2, <1>3, <1>6, <1>8, <1>16, <2>1 DEF TypeOK
  <2>2. CASE x \in accepted
    <3>1. /\ state[x.run] # "unused"
          /\ request[x.run].key = x.key /\ request[x.run].body = x.body
          /\ x.process <= process
          /\ x.process = process <=> x.run \in Known
      BY <2>2 DEF IInv, AcceptedGood
    <3>2. x.run = r => x.run \in Known
      BY <1>7, <3>1 DEF RunsOf
    <3> QED
      BY <1>2, <1>6, <1>8, <1>9, <1>15, <2>2, <3>1, <3>2
  <2> QED
    BY <1>14, <2>1, <2>2
<1>18. ASSUME NEW x \in accepted
       PROVE  /\ x.run = r <=> x.key = k /\ x.process = process
              /\ x.run = r => x.body = b
  <2>1. /\ state[x.run] # "unused"
        /\ request[x.run].key = x.key /\ request[x.run].body = x.body
        /\ x.process = process <=> x.run \in Known
    BY DEF IInv, AcceptedGood
  <2>2. x.run = r => r \in RunsOf(k) /\ request[r].body = b
    BY <1>7, <2>1
  <2> QED
    BY <1>10, <2>1, <2>2 DEF RunsOf
<1>19. AnswersAgree'
  <2> SUFFICES ASSUME NEW x \in accepted', NEW y \in accepted'
               PROVE  /\ x.run = y.run <=> x.key = y.key /\ x.process = y.process
                      /\ x.run = y.run => x.body = y.body
    BY DEF AnswersAgree
  <2>1. CASE x \in accepted /\ y \in accepted
    BY <2>1 DEF IInv, AnswersAgree
  <2>2. CASE x = now
    BY <1>14, <1>16, <1>18, <2>2
  <2>3. CASE y = now
    BY <1>14, <1>16, <1>18, <2>3
  <2> QED
    BY <1>14, <2>1, <2>2, <2>3
<1>20. ASSUME NEW w \in Workers PROVE PromptGood(w)'
  <2>1. CASE stage[w] = "waiting"
    BY <1>2, <2>1 DEF PromptGood
  <2>2. CASE stage[w] # "waiting"
    <3>1. holds[w] \in Runs /\ state[holds[w]] = "running"
      BY <2>2 DEF IInv, TypeOK, WorkersGood
    <3>2. request'[holds[w]].body = request[holds[w]].body
      BY <1>9, <3>1
    <3> QED
      BY <1>2, <3>2 DEF IInv, PromptGood
  <2> QED
    BY <2>1, <2>2
<1> QED
  BY <1>5, <1>11, <1>12, <1>13, <1>17, <1>19, <1>20 DEF IInv

(* A step that gives states to runs the process knows, none of which makes *)
(* it unknown, keeps what holds of keys and acceptances.                   *)
LEMMA AcceptancesKept ==
  ASSUME IInv, UNCHANGED <<request, accepted, process>>,
         \A s \in Runs : /\ s \in Known' <=> s \in Known
                         /\ state[s] # "unused" => state'[s] # "unused"
  PROVE  KeysAreApart' /\ AcceptedGood' /\ AnswersAgree'
<1>1. KeysAreApart' /\ AnswersAgree'
  BY DEF IInv, KeysAreApart, AnswersAgree, Known
<1>2. ASSUME NEW x \in accepted
      PROVE  /\ state'[x.run] # "unused"
             /\ request'[x.run].key = x.key
             /\ request'[x.run].body = x.body
             /\ x.process <= process'
             /\ x.process = process' <=> x.run \in Known'
  BY DEF IInv, AcceptedGood, TypeOK, Acceptances
<1> QED
  BY <1>1, <1>2 DEF AcceptedGood

(* The worker that takes the first run is the only one to execute it.      *)
LEMMA TakeKeeps ==
  ASSUME IInv, NEW w \in Workers, Take(w)
  PROVE  IInv'
<1> DEFINE r == Head(queue)
<1>1. /\ stage[w] = "waiting" /\ queue # <<>>
      /\ holds' = [holds EXCEPT ![w] = r]
      /\ stage' = [stage EXCEPT ![w] = "screening"]
      /\ queue' = Tail(queue)
      /\ state' = [state EXCEPT ![r] = "running"]
      /\ UNCHANGED <<request, prompt, files, accepted, process>>
  BY DEF Take
<1>2. TypeOK /\ QueueGood /\ WorkersGood
  BY DEF IInv
<1>3. /\ r \in Runs /\ r = queue[1] /\ 1 \in DOMAIN queue
      /\ queue' \in Seq(Runs)
      /\ \A n \in DOMAIN queue' : n + 1 \in DOMAIN queue /\ queue'[n] = queue[n + 1]
      /\ \A n \in DOMAIN queue : n # 1 => n - 1 \in DOMAIN queue' /\ queue'[n - 1] = queue[n]
  BY <1>1, <1>2 DEF TypeOK
<1> HIDE DEF r
<1>4. /\ \A s \in Runs : state'[s] = IF s = r THEN "running" ELSE state[s]
      /\ \A v \in Workers : /\ holds'[v] = IF v = w THEN r ELSE holds[v]
                            /\ stage'[v] = IF v = w THEN "screening" ELSE stage[v]
  BY <1>1, <1>2 DEF TypeOK
<1>5. state[r] = "queued"
  BY <1>2, <1>3 DEF QueueGood, InQueue
<1>6. TypeOK'
  BY <1>1, <1>2, <1>3, <1>4, <1>5 DEF TypeOK, States, Stages
<1>7. QueueGood'
  <2>1. \A m, n \in DOMAIN queue' : queue'[m] = queue'[n] => m = n
    <3> SUFFICES ASSUME NEW m \in DOMAIN queue', NEW n \in DOMAIN queue',
                        queue'[m] = queue'[n]
                 PROVE  m = n
      OBVIOUS
    <3>1. m \in Nat /\ n \in Nat
      BY <1>3
    <3>2. m + 1 = n + 1
      BY <1>2, <1>3 DEF QueueGood
    <3> QED
      BY <3>1, <3>2
  <2>2. ASSUME NEW s \in Runs PROVE InQueue(s)' <=> InQueue(s) /\ s # r
    <3>1. ASSUME NEW n \in DOMAIN queue', queue'[n] = s PROVE InQueue(s) /\ s # r
      <4>1. n \in Nat /\ n >= 1
        BY <1>3
      <4>2. n + 1 \in DOMAIN queue /\ queue[n + 1] = s
        BY <1>3, <3>1
      <4> QED
        BY <1>2, <1>3, <4>1, <4>2 DEF InQueue, QueueGood
    <3>2. ASSUME NEW n \in DOMAIN queue, queue[n] = s, s # r PROVE InQueue(s)'
      BY <1>3, <3>2 DEF InQueue
    <3> QED
      BY <3>1, <3>2 DEF InQueue
  <2> QED
    BY <1>2, <1>4, <2>1, <2>2 DEF QueueGood
<1>8. \A v \in Workers : holds[v] # r
  BY <1>2, <1>3, <1>5 DEF WorkersGood
<1>9. WorkersGood'
  BY <1>1, <1>2, <1>3, <1>4, <1>8, NoRunIsNone DEF WorkersGood
<1>10. Kept'
  BY <1>1, <1>4 DEF IInv, Kept
<1>11. \A s \in Runs : s \in Known' <=> s \in Known
  BY <1>4, <1>5 DEF Known
<1>12. KeysAreApart' /\ AcceptedGood' /\ AnswersAgree'
  BY <1>1, <1>4, <1>11, AcceptancesKept
<1>13. \A v \in Workers : PromptGood(v)'
  BY <1>1, <1>4 DEF IInv, PromptGood
<1> QED
  BY <1>6, <1>7, <1>9, <1>10, <1>12, <1>13 DEF IInv

(* A worker goes on with its run if what it has for the model is in order. *)
LEMMA AdvanceKeeps ==
  ASSUME IInv, NEW w \in Workers, stage[w] # "waiting",
         NEW to \in {"researching", "generating"}, NEW p,
         DOMAIN p = Fields,
         ScreenedFrom(request[holds[w]].body, p.material, p.customer, p.languages),
         to = "generating" => ~Unsafe(p.page),
         Advance(w, to, p)
  PROVE  IInv'
<1>1. /\ stage' = [stage EXCEPT ![w] = to]
      /\ prompt' = [prompt EXCEPT ![w] = p]
      /\ UNCHANGED <<state, request, queue, holds, files, accepted, process>>
  BY DEF Advance
<1>2. TypeOK
  BY DEF IInv
<1>3. \A v \in Workers : /\ stage'[v] = IF v = w THEN to ELSE stage[v]
                         /\ prompt'[v] = IF v = w THEN p ELSE prompt[v]
  BY <1>1, <1>2 DEF TypeOK
<1>4. TypeOK'
  BY <1>1, <1>2, <1>3 DEF TypeOK, Stages
<1>5. WorkersGood'
  BY <1>1, <1>3 DEF IInv, WorkersGood
<1>6. QueueGood' /\ Kept'
  BY <1>1 DEF IInv, QueueGood, Kept, InQueue
<1>7. KeysAreApart' /\ AcceptedGood' /\ AnswersAgree'
  BY <1>1, AcceptancesKept DEF Known
<1>8. \A v \in Workers : PromptGood(v)'
  BY <1>1, <1>3 DEF IInv, PromptGood
<1> QED
  BY <1>4, <1>5, <1>6, <1>7, <1>8 DEF IInv

(* What the scan leaves of a request is in order.                          *)
LEMMA ScreenKeeps ==
  ASSUME IInv, NEW w \in Workers, Screen(w)
  PROVE  IInv'
<1> DEFINE b == request[holds[w]].body
<1>1. PICK kept \in Retained(b.material) :
        Advance(w, IF b.web THEN "researching" ELSE "generating",
                [NoPrompt EXCEPT !.material = AsSecured(b.material, kept),
                                 !.customer = b.customer,
                                 !.languages = b.languages])
  BY DEF Screen
<1>2. stage[w] = "screening" /\ TRUE \in Decisions(b.customer)
  BY DEF Screen
<1> DEFINE shown == AsSecured(b.material, kept)
           p == [NoPrompt EXCEPT !.material = shown, !.customer = b.customer,
                                 !.languages = b.languages]
<1>3. /\ DOMAIN p = Fields /\ p.material = shown /\ p.customer = b.customer
      /\ p.languages = b.languages /\ p.page = Blank
  BY DEF NoPrompt, Fields
<1>4. DOMAIN shown = kept /\ \A i \in kept : shown[i] = b.material[i]
  BY DEF AsSecured
<1>5. Advance(w, IF b.web THEN "researching" ELSE "generating", p)
  BY <1>1
<1> HIDE DEF p, shown, b
<1>6. ScreenedFrom(b, shown, b.customer, b.languages)
  BY <1>2, <1>4, ScanIsSound, LetThroughIsNotUnsafe DEF ScreenedFrom
<1>7. ~Unsafe(Blank)
  BY BlankIsHarmless DEF Unsafe, Decisions, Matching
<1> QED
  BY <1>2, <1>3, <1>5, <1>6, <1>7, AdvanceKeeps DEF b

(* A page comes on top, if the search let one through.                     *)
LEMMA ResearchKeeps ==
  ASSUME IInv, NEW w \in Workers, Research(w)
  PROVE  IInv'
<1>1. PICK t \in SafePages : Advance(w, "generating", [prompt[w] EXCEPT !.page = t])
  BY DEF Research
<1> DEFINE p == [prompt[w] EXCEPT !.page = t]
<1>2. stage[w] = "researching"
  BY DEF Research
<1>3. DOMAIN prompt[w] = Fields
  BY DEF IInv, TypeOK
<1>4. /\ DOMAIN p = Fields /\ p.page = t
      /\ p.material = prompt[w].material /\ p.customer = prompt[w].customer
      /\ p.languages = prompt[w].languages
  BY <1>3 DEF Fields
<1>5. ~Unsafe(t)
  BY LetThroughIsNotUnsafe DEF SafePages
<1>6. ScreenedFrom(request[holds[w]].body, p.material, p.customer, p.languages)
  BY <1>2, <1>4 DEF IInv, PromptGood
<1>7. Advance(w, "generating", p)
  BY <1>1
<1> HIDE DEF p
<1> QED
  BY <1>2, <1>4, <1>5, <1>6, <1>7, AdvanceKeeps

(* A run that has ended is let go by its worker, and a document is there   *)
(* when it succeeded.                                                      *)
LEMMA EndKeeps ==
  ASSUME IInv, NEW w \in Workers, stage[w] # "waiting",
         NEW end \in Ended,
         state' = [state EXCEPT ![holds[w]] = end],
         files' \in {files, files \cup {holds[w]}},
         end = "succeeded" => holds[w] \in files',
         LetGo(w),
         UNCHANGED <<request, queue, accepted, process>>
  PROVE  IInv'
<1> DEFINE r == holds[w]
<1>1. TypeOK /\ QueueGood /\ WorkersGood
  BY DEF IInv
<1>2. r \in Runs /\ state[r] = "running"
  BY <1>1 DEF TypeOK, WorkersGood
<1> HIDE DEF r
<1>3. /\ \A s \in Runs : state'[s] = IF s = r THEN end ELSE state[s]
      /\ \A v \in Workers :
           /\ holds'[v] = IF v = w THEN NoRun ELSE holds[v]
           /\ stage'[v] = IF v = w THEN "waiting" ELSE stage[v]
           /\ prompt'[v] = IF v = w THEN NoPrompt ELSE prompt[v]
  BY <1>1 DEF LetGo, TypeOK, r
<1>4. end \in {"succeeded", "failed"}
  BY DEF Ended
<1>5. TypeOK'
  <2>1. DOMAIN NoPrompt = Fields
    BY DEF NoPrompt, Fields
  <2>2. /\ holds' \in [Workers -> Runs \cup {NoRun}]
        /\ stage' \in [Workers -> Stages]
        /\ prompt' = [v \in Workers |-> prompt'[v]]
        /\ \A v \in Workers : DOMAIN prompt'[v] = Fields
    BY <1>1, <1>3, <2>1 DEF LetGo, TypeOK, Stages
  <2>3. state' \in [Runs -> States]
    BY <1>1, <1>4 DEF TypeOK, States
  <2> QED
    BY <1>1, <1>2, <1>3, <2>2, <2>3 DEF TypeOK
<1>6. QueueGood'
  BY <1>1, <1>2, <1>3, <1>4 DEF QueueGood, InQueue
<1>7. \A v \in Workers : holds[v] = r => v = w
  BY <1>1, <1>2, NoRunIsNone DEF WorkersGood, r
<1>8. WorkersGood'
  BY <1>1, <1>2, <1>3, <1>4, <1>7, NoRunIsNone DEF WorkersGood, r
<1>9. Kept'
  BY <1>2, <1>3 DEF IInv, Kept, r
<1>10. \A s \in Runs : s \in Known' <=> s \in Known
  BY <1>2, <1>3, <1>4 DEF Known
<1>11. KeysAreApart' /\ AcceptedGood' /\ AnswersAgree'
  BY <1>2, <1>3, <1>4, <1>10, AcceptancesKept
<1>12. \A v \in Workers : PromptGood(v)'
  BY <1>3 DEF IInv, PromptGood
<1> QED
  BY <1>5, <1>6, <1>8, <1>9, <1>11, <1>12 DEF IInv

(* A new process knows no run, and no acceptance is its own.               *)
LEMMA RestartKeeps ==
  ASSUME IInv, Restart
  PROVE  IInv'
<1>1. /\ process' = process + 1
      /\ state' = [r \in Runs |-> IF r \in Known THEN "forgotten" ELSE state[r]]
      /\ queue' = <<>>
      /\ holds' = [w \in Workers |-> NoRun]
      /\ stage' = [w \in Workers |-> "waiting"]
      /\ prompt' = [w \in Workers |-> NoPrompt]
      /\ UNCHANGED <<request, files, accepted>>
  BY DEF Restart
<1>2. TypeOK
  BY DEF IInv
<1>3. \A r \in Runs : /\ state'[r] \in {"unused", "forgotten"}
                      /\ state[r] # "unused" => state'[r] # "unused"
                      /\ state'[r] # "unused" => state[r] # "unused"
  BY <1>1 DEF Known
<1>4. Known' = {}
  BY <1>3 DEF Known
<1>5. TypeOK'
  <2>1. DOMAIN NoPrompt = Fields
    BY DEF NoPrompt, Fields
  <2> QED
    BY <1>1, <1>2, <1>3, <2>1 DEF TypeOK, States, Stages
<1>6. QueueGood' /\ WorkersGood' /\ Kept'
  BY <1>1, <1>3, NoRunIsNone DEF QueueGood, WorkersGood, Kept, InQueue
<1>7. KeysAreApart'
  BY <1>4 DEF KeysAreApart
<1>8. AcceptedGood'
  <2> SUFFICES ASSUME NEW x \in accepted'
               PROVE  /\ state'[x.run] # "unused"
                      /\ request'[x.run].key = x.key
                      /\ request'[x.run].body = x.body
                      /\ x.process <= process'
                      /\ x.process = process' <=> x.run \in Known'
    BY DEF AcceptedGood
  <2>1. x \in accepted /\ x.run \in Runs /\ x.process \in Nat /\ process \in Nat
    BY <1>1, <1>2 DEF TypeOK, Acceptances
  <2>2. /\ state[x.run] # "unused"
        /\ request[x.run].key = x.key /\ request[x.run].body = x.body
        /\ x.process <= process
    BY <2>1 DEF IInv, AcceptedGood
  <2> QED
    BY <1>1, <1>3, <1>4, <2>1, <2>2
<1>9. AnswersAgree'
  BY <1>1 DEF IInv, AnswersAgree
<1>10. \A w \in Workers : PromptGood(w)'
  BY <1>1 DEF PromptGood
<1> QED
  BY <1>5, <1>6, <1>7, <1>8, <1>9, <1>10 DEF IInv

LEMMA StutterKeeps ==
  ASSUME IInv, UNCHANGED vars
  PROVE  IInv'
BY DEF IInv, vars, work, TypeOK, QueueGood, InQueue, WorkersGood, Kept,
       KeysAreApart, Known, AcceptedGood, AnswersAgree, PromptGood

LEMMA StepKeeps == IInv /\ [Next]_vars => IInv'
<1> SUFFICES ASSUME IInv, [Next]_vars PROVE IInv'
  OBVIOUS
<1>1. ASSUME NEW k \in Keys, NEW b \in Bodies, Start(k, b) PROVE IInv'
  BY <1>1, StartKeeps
<1>2. ASSUME NEW w \in Workers, Take(w) PROVE IInv'
  BY <1>2, TakeKeeps
<1>3. ASSUME NEW w \in Workers, Screen(w) PROVE IInv'
  BY <1>3, ScreenKeeps
<1>4. ASSUME NEW w \in Workers, Research(w) PROVE IInv'
  BY <1>4, ResearchKeeps
<1>5. ASSUME NEW w \in Workers, Rendered(w) PROVE IInv'
  BY <1>5, EndKeeps DEF Rendered, Ended
<1>6. ASSUME NEW w \in Workers, Fails(w) PROVE IInv'
  BY <1>6, EndKeeps DEF Fails, MarkFailed, Ended
<1>7. CASE Restart
  BY <1>7, RestartKeeps
<1>8. CASE UNCHANGED vars
  BY <1>8, StutterKeeps
<1> QED
  BY <1>1, <1>2, <1>3, <1>4, <1>5, <1>6, <1>7, <1>8 DEF Next, Work

(* Every state of the questionnaires satisfies the invariant.              *)
THEOREM Invariance == Spec => []IInv
BY InitGood, StepKeeps, PTL DEF Spec

-----------------------------------------------------------------------------
(***************************************************************************)
(* What the runs check.                                                    *)
(***************************************************************************)
(* A run is in the queue once if it is queued, and not otherwise.          *)
LEMMA QueuedOnce ==
  ASSUME QueueGood, NEW r \in Runs
  PROVE  Times(r) = IF state[r] = "queued" THEN 1 ELSE 0
<1> DEFINE places == {n \in DOMAIN queue : queue[n] = r}
<1>1. CASE state[r] = "queued"
  <2>1. PICK n \in DOMAIN queue : queue[n] = r
    BY <1>1 DEF QueueGood, InQueue
  <2>2. places = {n}
    BY <2>1 DEF QueueGood
  <2> QED
    BY <1>1, <2>2, FS_Singleton DEF Times
<1>2. CASE state[r] # "queued"
  <2>1. places = {}
    BY <1>2 DEF QueueGood, InQueue
  <2> QED
    BY <1>2, <2>1, FS_EmptySet DEF Times
<1> QED
  BY <1>1, <1>2

LEMMA IInvImplies == IInv => EachRunHasItsPlace /\ AnswersAgree /\ PromptsAreScreened
<1> SUFFICES ASSUME IInv PROVE EachRunHasItsPlace /\ AnswersAgree /\ PromptsAreScreened
  OBVIOUS
<1>1. EachRunHasItsPlace
  <2> SUFFICES ASSUME NEW r \in Runs
               PROVE  /\ Times(r) = IF state[r] = "queued" THEN 1 ELSE 0
                      /\ \/ state[r] = "running" /\ \E w \in Workers : Executing(r) = {w}
                         \/ state[r] # "running" /\ Executing(r) = {}
                      /\ Downloadable(r) <=> state[r] = "succeeded"
    BY DEF EachRunHasItsPlace
  <2>1. Times(r) = IF state[r] = "queued" THEN 1 ELSE 0
    BY QueuedOnce DEF IInv
  <2>2. CASE state[r] = "running"
    <3>1. PICK w \in Workers : holds[w] = r
      BY <2>2 DEF IInv, WorkersGood
    <3>2. Executing(r) = {w}
      BY <3>1, NoRunIsNone DEF IInv, WorkersGood, Executing
    <3> QED
      BY <2>1, <2>2, <3>2 DEF Downloadable
  <2>3. CASE state[r] # "running"
    <3>1. Executing(r) = {}
      BY <2>3 DEF IInv, WorkersGood, Executing
    <3>2. Downloadable(r) <=> state[r] = "succeeded"
      BY DEF IInv, Kept, Downloadable
    <3> QED
      BY <2>1, <2>3, <3>1, <3>2
  <2> QED
    BY <2>2, <2>3
<1>2. AnswersAgree
  BY DEF IInv
<1>3. ASSUME NEW w \in Workers, stage[w] = "generating"
      PROVE  LET b == request[holds[w]].body
                 shown == prompt[w].material
             IN  /\ prompt[w].customer = b.customer
                 /\ prompt[w].languages = b.languages
                 /\ \A i \in DOMAIN shown : shown[i] = b.material[i]
                 /\ \A i \in DOMAIN b.material :
                      MustPass(b.material[i]) => i \in DOMAIN shown
                 /\ DOMAIN shown # {}
                 /\ \A t \in {shown[i] : i \in DOMAIN shown}
                             \cup {b.customer, prompt[w].page} : ~Unsafe(t)
  BY <1>3 DEF IInv, PromptGood, ScreenedFrom
<1> QED
  BY <1>1, <1>2, <1>3 DEF PromptsAreScreened

(* A run that is known waits in the queue once, is executed by one worker  *)
(* or has ended, as its state says, and only a run that succeeded has a    *)
(* document: for any number of workers, repeated requests and restarts.    *)
THEOREM PlacesAreKept == Spec => []EachRunHasItsPlace
BY Invariance, IInvImplies, PTL

(* A key keeps its run and its body as long as the process lives.          *)
THEOREM AnswersAlwaysAgree == Spec => []AnswersAgree
BY Invariance, IInvImplies, PTL

(* Of material, customers and pages, the model is shown the run's own and  *)
(* a page at most, without what is unsafe and with all that is harmless,   *)
(* for any rules; the languages are the run's, and nobody screens them.    *)
THEOREM PromptsStayScreened == Spec => []PromptsAreScreened
BY Invariance, IInvImplies, PTL
===============================================================================
