----------------------------- MODULE Questionnaires -----------------------------
(***************************************************************************)
(* Discovery questionnaires: a repository and a queue in the memory of one *)
(* process, workers that execute a run once, and rendered files that       *)
(* outlive the process.  The material, the customer's fields and what the  *)
(* web says reach the model through the gate; the languages that a request *)
(* names, which are any strings, are written into the prompt as they are.  *)
(*                                                                         *)
(* A step is what the event loop does between two awaits, of which the     *)
(* scans of one request count as one.  Left out: the questionnaire's       *)
(* instruction and what the model answers, the answers to reads, which     *)
(* change nothing, and requests refused before they reach the repository.  *)
(***************************************************************************)
EXTENDS Integers, Sequences, FiniteSets, PromptGate

CONSTANTS
  Runs, Keys, Workers, NoRun,
  Texts,          (* what customers, their material and the web may say    *)
  Pages, Blank,   (* what a search may find; Blank is nothing              *)
  Bodies,         (* requests: the material by source, the customer's      *)
                  (* fields, the languages of the questionnaire, and       *)
                  (* whether the web may be searched                       *)
  MaxRestarts     (* bound: processes after the first                      *)

ASSUME NoRunIsNone == NoRun \notin Runs
ASSUME BodiesAreBodies ==
  \A b \in Bodies : /\ DOMAIN b = {"material", "customer", "languages", "web"}
                    /\ DOMAIN b.material # {}
                    /\ \A i \in DOMAIN b.material : b.material[i] \in Texts
                    /\ b.customer \in Texts /\ b.languages \in Texts
                    /\ b.web \in BOOLEAN
ASSUME PagesAreTexts == Pages \subseteq Texts /\ Blank \in Pages
ASSUME BlankIsHarmless == Matched[Blank] = {}
ASSUME RestartsAreCounted == MaxRestarts \in Nat

VARIABLES
  state,       (* per run; "forgotten" once the process that knew it ended *)
  request,     (* per run, its key and body                                *)
  queue,       (* runs waiting, first first                                *)
  holds,       (* per worker, the run it executes                          *)
  stage,       (* per worker, how far it is with it                        *)
  prompt,      (* per worker, what it has for the model so far             *)
  files,       (* runs whose document is on disk                           *)
  accepted,    (* every acceptance answered: request, run, process         *)
  process      (* processes started before this one                        *)

work == <<holds, stage, prompt>>
vars == <<state, request, queue, work, files, accepted, process>>

NoPrompt == [material |-> [i \in {} |-> Blank], customer |-> Blank,
             languages |-> Blank, page |-> Blank]

Known == {r \in Runs : state[r] \notin {"unused", "forgotten"}}
Ended == {"succeeded", "failed"}

(* Mutant: a key is free again once its run has ended.                     *)
UnfinishedOf(k) == {r \in Known : request[r].key = k /\ state[r] \notin Ended}
(* The repository's index of keys: it keeps a run as long as it lives.     *)
RunsOf(k) == {r \in Known : request[r].key = k}

(* Mutant: a repeated request queues its run again while it waits.         *)
QueuesWaiting(r) == state[r] \in {"unused", "queued"}
(* Only a run created by this request is queued.                           *)
Queues(r) == state[r] = "unused"

(* start: a request with a known key gets that key's run if the body is    *)
(* the same, a conflict otherwise, which changes nothing.                  *)
Start(k, b) ==
  /\ \E r \in Runs :
       /\ IF RunsOf(k) = {} THEN state[r] = "unused"
          ELSE r \in RunsOf(k) /\ request[r].body = b
       /\ state' = [state EXCEPT ![r] = IF @ = "unused" THEN "queued" ELSE @]
       /\ request' = [request EXCEPT ![r] = [key |-> k, body |-> b]]
       /\ queue' = IF Queues(r) THEN Append(queue, r) ELSE queue
       /\ accepted' = accepted \cup
            {[key |-> k, body |-> b, run |-> r, process |-> process]}
  /\ UNCHANGED <<work, files, process>>

(* A worker that waits gets the first run and marks it.                    *)
Take(w) ==
  /\ stage[w] = "waiting" /\ queue # <<>>
  /\ holds' = [holds EXCEPT ![w] = Head(queue)]
  /\ stage' = [stage EXCEPT ![w] = "screening"]
  /\ queue' = Tail(queue)
  /\ state' = [state EXCEPT ![Head(queue)] = "running"]
  /\ UNCHANGED <<request, prompt, files, accepted, process>>

Advance(w, to, p) ==
  /\ stage' = [stage EXCEPT ![w] = to]
  /\ prompt' = [prompt EXCEPT ![w] = p]
  /\ UNCHANGED <<state, request, queue, holds, files, accepted, process>>

(* Mutant: the prompt is built from the request that was stored.           *)
AsStored(material, kept) == material
(* _secure_request copies the request with the material that is left.      *)
AsSecured(material, kept) == [i \in kept |-> material[i]]

(* filter_model_sources, then require_safe_text on the customer's fields;  *)
(* nobody is asked about the languages.                                    *)
Screen(w) ==
  LET b == request[holds[w]].body
  IN  /\ stage[w] = "screening"
      /\ TRUE \in Decisions(b.customer)
      /\ \E kept \in Retained(b.material) :
           Advance(w, IF b.web THEN "researching" ELSE "generating",
                   [NoPrompt EXCEPT !.material = AsSecured(b.material, kept),
                                    !.customer = b.customer,
                                    !.languages = b.languages])

(* _get_research: a search that finds nothing leaves the page blank.       *)
SafePages == {t \in Pages : TRUE \in Decisions(t)}
Research(w) ==
  /\ stage[w] = "researching"
  /\ \E t \in SafePages : Advance(w, "generating", [prompt[w] EXCEPT !.page = t])

(* What a worker does with its run when it has ended.                      *)
LetGo(w) ==
  /\ holds' = [holds EXCEPT ![w] = NoRun]
  /\ stage' = [stage EXCEPT ![w] = "waiting"]
  /\ prompt' = [prompt EXCEPT ![w] = NoPrompt]

(* The model's answer is awaited before this; the document is rendered and *)
(* the run marked without an await.                                        *)
Rendered(w) ==
  /\ stage[w] = "generating"
  /\ files' = files \cup {holds[w]}
  /\ state' = [state EXCEPT ![holds[w]] = "succeeded"]
  /\ LetGo(w)
  /\ UNCHANGED <<request, queue, accepted, process>>

(* Mutant: the failure is logged and the run left as it is.                *)
LoggedOnly(r) == state' = state
MarkFailed(r) == state' = [state EXCEPT ![r] = "failed"]

(* The gate rejects, or anything else fails on the way; a failure of the   *)
(* renderer may leave part of a file.                                      *)
Fails(w) ==
  /\ stage[w] # "waiting"
  /\ MarkFailed(holds[w])
  /\ \/ UNCHANGED files
     \/ stage[w] = "generating" /\ files' = files \cup {holds[w]}
  /\ LetGo(w)
  /\ UNCHANGED <<request, queue, accepted, process>>

(* The process stops, workers are cancelled wherever they are, and another *)
(* starts with an empty memory.                                            *)
Restart ==
  /\ process < MaxRestarts
  /\ process' = process + 1
  /\ state' = [r \in Runs |-> IF r \in Known THEN "forgotten" ELSE state[r]]
  /\ queue' = <<>>
  /\ holds' = [w \in Workers |-> NoRun]
  /\ stage' = [w \in Workers |-> "waiting"]
  /\ prompt' = [w \in Workers |-> NoPrompt]
  /\ UNCHANGED <<request, files, accepted>>

Init ==
  /\ state = [r \in Runs |-> "unused"]
  /\ request = [r \in Runs |-> NoRun]
  /\ queue = <<>>
  /\ holds = [w \in Workers |-> NoRun]
  /\ stage = [w \in Workers |-> "waiting"]
  /\ prompt = [w \in Workers |-> NoPrompt]
  /\ files = {} /\ accepted = {} /\ process = 0

Work(w) == Take(w) \/ Screen(w) \/ Research(w) \/ Rendered(w) \/ Fails(w)
Next ==
  \/ \E k \in Keys, b \in Bodies : Start(k, b)
  \/ \E w \in Workers : Work(w)
  \/ Restart

(* Workers are tasks of a loop that serves them all, and whatever a run    *)
(* awaits (scan, research, model) has a timeout; nobody has to ask.        *)
Spec == Init /\ [][Next]_vars /\ \A w \in Workers : WF_vars(Work(w))
-----------------------------------------------------------------------------
Times(r) == Cardinality({n \in DOMAIN queue : queue[n] = r})
Executing(r) == {w \in Workers : holds[w] = r}
(* get_output_file: the run says that it has an output, and it is there.   *)
Downloadable(r) == state[r] = "succeeded" /\ r \in files

(* A run the process knows waits in the queue once, or is executed by one  *)
(* worker, or has ended, as its state says; nothing else is queued or      *)
(* executed, and of a run that succeeded, and of no other, there is a      *)
(* document to be had, whatever half of one a failure left on disk.        *)
EachRunHasItsPlace ==
  \A r \in Runs :
    /\ Times(r) = IF state[r] = "queued" THEN 1 ELSE 0
    /\ \/ state[r] = "running" /\ \E w \in Workers : Executing(r) = {w}
       \/ state[r] # "running" /\ Executing(r) = {}
    /\ Downloadable(r) <=> state[r] = "succeeded"

(* All requests with one key that a process accepts get one run, were of   *)
(* one body, and a run answers for one key of one process: whatever was    *)
(* accepted, failed or repeated in between.                                *)
AnswersAgree ==
  \A x, y \in accepted :
    /\ x.run = y.run <=> x.key = y.key /\ x.process = y.process
    /\ x.run = y.run => x.body = y.body

(* Of material, customers and pages, the model is shown the run's own and  *)
(* at most a page besides, none of them unsafe, and misses no source that  *)
(* is harmless; the languages it is shown are the run's own, whatever they *)
(* say.                                                                    *)
PromptsAreScreened ==
  \A w \in Workers : stage[w] = "generating" =>
    LET b == request[holds[w]].body
        shown == prompt[w].material
    IN  /\ prompt[w].customer = b.customer /\ prompt[w].languages = b.languages
        /\ \A i \in DOMAIN shown : shown[i] = b.material[i]
        /\ \A i \in DOMAIN b.material : MustPass(b.material[i]) => i \in DOMAIN shown
        /\ DOMAIN shown # {}
        /\ \A t \in {shown[i] : i \in DOMAIN shown} \cup {b.customer, prompt[w].page} :
             ~Unsafe(t)

(* A run that was accepted ends, unless the process does before.           *)
EveryQuestionnaireEnds ==
  \A r \in Runs : r \in Known ~> state[r] \in Ended \cup {"forgotten"}
=============================================================================
