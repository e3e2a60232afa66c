----------------------------- MODULE ContextBudgets -----------------------------
(***************************************************************************)
(* From the stored texts of a session to the bytes a model is sent: their  *)
(* chunks, the ranking, the retrieval budget, the conversation turns       *)
(* merged into what it leaves, the rendering into a provider's context     *)
(* budget, and the router's compaction for its fallback.  Everything is    *)
(* counted in bytes.                                                       *)
(*                                                                         *)
(* Left out: the scores (any order of the sources stands for them), which  *)
(* versions a message names and which titles match them (any two files may *)
(* be the pair), turns that repeat a text, how many bytes of a cut         *)
(* character are dropped (0 to 3; it is none here, the largest result),    *)
(* and paragraphs: between two words of a text there is one byte of space. *)
(***************************************************************************)
EXTENDS PromptBudgets, Sequences, SequencesExt, FiniteSets

CONSTANTS
  Files, Records, Messages,   (* sources: attachments, the Odoo record, chatter messages *)
  Texts,            (* what a source may say: the sizes of its words       *)
  ChunkBytes,       (* chatter_ai_context_chunk_bytes                      *)
  TurnSizes,        (* sizes a conversation turn may have                  *)
  MaxTurns,
  MaxSources, MaxBytes,   (* chatter_ai_retrieval_max_sources, _max_bytes  *)
  Contexts,         (* max_context_bytes of the providers, as configured   *)
  Instructions,     (* sizes of a prompt without its context, which always *)
                    (* has the fixed sentences of service.py:396           *)
  Caps,             (* source_byte_cap of the router's two profiles, which *)
                    (* config.py bounds below                              *)
  TitleSize, HeaderSize, TagSize   (* "title\n", "[kind: title | id]\n", "[id]" *)

Sources == Files \cup Records \cup Messages

ASSUME SizesAreNaturals ==
  /\ {MaxTurns, ChunkBytes, MaxSources, MaxBytes, TitleSize, HeaderSize, TagSize}
       \subseteq Nat \ {0}
  /\ Texts \subseteq Seq(Nat \ {0}) \ {<<>>}
  /\ TurnSizes \subseteq Nat
  /\ Contexts \in Seq(Nat) \ {<<>>}
  /\ \A size \in Instructions : size \in Nat /\ size >= 228
  /\ \A cap \in Caps : cap \in [primary : Nat, fallback : Nat] /\ cap.fallback >= 256
ASSUME SourcesAreFinite == IsFiniteSet(Sources)

VARIABLES
  text,        (* per source, the sizes of its words                       *)
  chunks,      (* per source, its chunks, which are texts themselves       *)
  pair,        (* the versions a message names, or none                    *)
  others,      (* the other sources, best first                            *)
  turns,       (* sizes of the recent turns, oldest first                  *)
  context,     (* the units retrieved                                      *)
  attempt,     (* providers tried                                          *)
  prompt,      (* what was rendered for the last one                       *)
  sent         (* what the router handed to a profile: its bytes, those of *)
               (* the prompt it is made of, and the profile's cap          *)

input == <<text, chunks, pair, others, turns>>
vars == <<text, chunks, pair, others, turns, context, attempt, prompt, sent>>

Nothing == [bytes |-> 0, of |-> 0, cap |-> 0]
Turn == "conversation_turn"
Kind(u) == IF u.src \in Files THEN "attachment"
           ELSE IF u.src \in Records THEN "record"
           ELSE IF u.src \in Messages THEN "chatter_message" ELSE Turn

Sum(s) == FoldLeft(LAMBDA n, x : n + x, 0, s)
(* The elements of s that are in A, in their order.                        *)
Keep(kept, x, A) == IF x \in A THEN Append(kept, x) ELSE kept
Those(s, A) == FoldLeft(LAMBDA kept, x : Keep(kept, x, A), <<>>, s)
-----------------------------------------------------------------------------
Bytes(words) == Sum(words) + Len(words) - 1

(* Mutant: the byte at which a word is cut is taken for a space.           *)
RestSpaced(size) == size - ChunkBytes - 1
RestOf(size) == size - ChunkBytes

(* The split at the last space among the first ChunkBytes bytes, or in the *)
(* middle of a word that fills them.                                       *)
Splits(words) ==
  {n \in 1 .. Len(words) - 1 : Bytes(SubSeq(words, 1, n)) < ChunkBytes}
FirstChunk(words) ==
  IF Splits(words) = {} THEN <<ChunkBytes>> ELSE SubSeq(words, 1, Max(Splits(words)))
Remaining(words) ==
  IF Splits(words) = {}
  THEN Those(<<RestOf(Head(words))>>, Nat \ {0}) \o Tail(words)
  ELSE SubSeq(words, Max(Splits(words)) + 1, Len(words))

(* One turn of the loop of _chunk_text.                                    *)
CutOff(r) ==
  IF r.rest = <<>> THEN r
  ELSE IF Bytes(r.rest) <= ChunkBytes
  THEN [chunks |-> Append(r.chunks, r.rest), rest |-> <<>>]
  ELSE [chunks |-> Append(r.chunks, FirstChunk(r.rest)), rest |-> Remaining(r.rest)]

(* A turn takes a word, or ChunkBytes bytes of one.                        *)
Rounds(words) == [n \in 1 .. Len(words) + Sum(words) \div ChunkBytes |-> n]
Uncut(words) == [chunks |-> <<>>, rest |-> words]
AllCut(words) == FoldLeft(LAMBDA r, n : CutOff(r), Uncut(words), Rounds(words))
Chunked(words) == AllCut(words).chunks

Unit(s, i) == [src |-> s, index |-> i, text |-> Bytes(chunks[s][i])]

(* Mutant: every source is drained before the next.                        *)
DrainOneByOne(order) ==
  FlattenSeq([n \in DOMAIN order |->
                [i \in DOMAIN chunks[order[n]] |-> Unit(order[n], i)]])
(* The first chunk of every source, then the second of those that have     *)
(* one, and so on.                                                         *)
Drain(order) ==
  LET longest == Max({0} \cup {Len(chunks[s]) : s \in ToSet(order)})
      round(i) == Those(order, {s \in Sources : Len(chunks[s]) >= i})
  IN  FlattenSeq([i \in 1 .. longest |->
                    [n \in DOMAIN round(i) |-> Unit(round(i)[n], i)]])

Ranked == Drain(pair) \o Drain(others)

Cost(u) == TitleSize + u.text
Spent(us) == Sum([n \in DOMAIN us |-> Cost(us[n])])

Fits(us, u) == Len(us) < MaxSources /\ Spent(us) + Cost(u) <= MaxBytes

(* The first unit is taken whatever its size; one that does not fit is     *)
(* passed over, and a smaller one may follow.                              *)
Take(us, u) == IF us = <<>> \/ Fits(us, u) THEN Append(us, u) ELSE us
Taken(us, from) == FoldLeft(Take, us, from)

(* _retrieve_chunks, then _merge_context with the newest turns first.      *)
Retrieve ==
  LET merged == Reverse([n \in DOMAIN turns |->
                           [src |-> Turn, index |-> n, text |-> turns[n]]])
      chosen == Taken(<<>>, Ranked)
      kept == SubSeq(chosen, 1, Least(Len(chosen), MaxSources))
  IN  /\ context = <<>>
      /\ context' = Taken(kept, merged)
      /\ UNCHANGED <<input, attempt, prompt, sent>>
-----------------------------------------------------------------------------
Suffix == 45     (* "\n[Source reduced for fallback context limit.]"        *)
Gap == 2         (* "\n\n" between units                                    *)
Heading == 9     (* "Sources: "                                             *)

Size(u) == HeaderSize + u.text
Joined(us) == Sum([n \in DOMAIN us |-> Size(us[n])]) + Gap * (Len(us) - 1)

(* Attachments, the record, the messages the other way round, the rest.    *)
Ordered(us) ==
  LET of(kind) == Those(us, {u \in ToSet(us) : Kind(u) = kind})
  IN  of("attachment") \o of("record") \o Reverse(of("chatter_message")) \o of(Turn)

(* The ids named at the top, as many as a third of the budget holds.       *)
Manifest(us, budget) ==
  LET room == Least(240, budget \div 3)
      items == Least(Len(us), (room + 1) \div (TagSize + 1))
  IN  IF items = 0 THEN 0 ELSE Heading + items * (TagSize + 1) - 1

Available(r, budget) == budget - r.used - IF r.used = 0 THEN 0 ELSE Gap

(* Mutant: what does not fit is cut without regard to the notice.          *)
CutUnnoticed(available) == available + Suffix
Cut(available) == Most(0, available - Suffix) + Suffix

(* One turn of the loop: r.full ends it.                                   *)
Place(r, u, budget) ==
  LET available == Available(r, budget)
      whole == Size(u) <= available
      bytes == IF whole THEN Size(u) ELSE Cut(available)
  IN  IF r.full \/ available <= 0
      THEN [r EXCEPT !.full = TRUE]
      ELSE [used |-> r.used + (IF r.used = 0 THEN 0 ELSE Gap) + bytes,
            shown |-> Append(r.shown, [unit |-> u,
                                       bytes |-> IF whole THEN bytes ELSE bytes - Suffix]),
            full |-> ~whole]

Placed(r, us, budget) == FoldLeft(LAMBDA placed, u : Place(placed, u, budget), r, us)

Render(us, budget) ==
  IF Joined(us) <= budget
  THEN [used |-> Joined(us), full |-> FALSE,
        shown |-> [n \in DOMAIN us |-> [unit |-> us[n], bytes |-> Size(us[n])]]]
  ELSE Placed([used |-> Manifest(us, budget), shown |-> <<>>, full |-> FALSE],
              Ordered(us), budget)

(* A stable sort, by insertion.                                            *)
Inserted(s, c) ==
  LET before == {x \in ToSet(s) : x >= c}
  IN  Those(s, before) \o <<c>> \o Those(s, ToSet(s) \ before)
LargestFirst == FoldLeft(Inserted, <<>>, Contexts)

(* The provider with the largest context first when there is a document.   *)
ProvidersFor(us) ==
  IF \E n \in DOMAIN us : Kind(us[n]) = "attachment"
  THEN LargestFirst
  ELSE Contexts

(* The next provider, the one before having failed.                        *)
Try ==
  /\ context # <<>>
  /\ attempt < Len(Contexts)
  /\ attempt' = attempt + 1
  /\ prompt' = Render(context, ProvidersFor(context)[attempt'])
  /\ sent' = Nothing
  /\ UNCHANGED <<input, context>>
-----------------------------------------------------------------------------
(* The primary profile takes a prompt within its cap.  The fallback gets   *)
(* the prompt as it is if the primary was unavailable and it is within the *)
(* fallback's cap; one that is larger, or that was rejected, is compacted, *)
(* and must then pass the fallback's own check of its cap.                 *)
Send(bytes, of, cap) == sent' = [bytes |-> bytes, of |-> of, cap |-> cap]
Route ==
  /\ attempt > 0 /\ sent = Nothing
  /\ \E rest \in Instructions, cap \in Caps :
       LET bytes == rest + prompt.used
       IN  \/ bytes <= cap.primary /\ Send(bytes, bytes, cap.primary)
           \/ /\ bytes <= cap.primary /\ bytes <= cap.fallback
              /\ Send(bytes, bytes, cap.fallback)
           \/ Send(Compacted(bytes, cap.fallback), bytes, cap.fallback)
  /\ UNCHANGED <<input, context, attempt, prompt>>
-----------------------------------------------------------------------------
NoPrompt == [used |-> 0, shown |-> <<>>, full |-> FALSE]

(* What is stored, asked and remembered when a run is prepared; a message  *)
(* that names two versions picks two files, and scores order the rest.     *)
Init ==
  /\ text \in [Sources -> Texts]
  /\ chunks = [s \in Sources |-> Chunked(text[s])]
  /\ pair \in {<<>>} \cup ({<<f, g>> : f, g \in Files} \ {<<f, f>> : f \in Files})
  /\ others \in SetToSeqs(Sources \ ToSet(pair))
  /\ turns \in BoundedSeq(TurnSizes, MaxTurns)
  /\ context = <<>> /\ attempt = 0
  /\ prompt = NoPrompt /\ sent = Nothing

Next == Retrieve \/ Try \/ Route

Spec == Init /\ [][Next]_vars
-----------------------------------------------------------------------------
(* The chunks of a text are the text: none is empty or too large, no byte  *)
(* of a word is lost or repeated where two of them meet, and a word ends   *)
(* where it ended in the text.                                             *)
Ends(words) == {Sum(SubSeq(words, 1, n)) : n \in DOMAIN words}
ChunksAreTheText ==
  \A s \in Sources :
    LET pieces == FlattenSeq(chunks[s])
    IN  /\ Sum(pieces) = Sum(text[s])
        /\ Ends(text[s]) \subseteq Ends(pieces)
        /\ \A n \in DOMAIN chunks[s] : Bytes(chunks[s][n]) \in 1 .. ChunkBytes

Budget == ProvidersFor(context)[attempt]

(* A rendered context exceeds its provider's budget by less than the       *)
(* notice that ends it, however units, gaps and the manifest add up.       *)
RenderedNearBudget == attempt > 0 => prompt.used < Budget + Suffix

(* Room for the manifest, the first chunk of one file, and a cut second.   *)
RoomForBoth ==
  LET first == Most(Bytes(chunks[pair[1]][1]), Bytes(chunks[pair[2]][1]))
  IN  /\ MaxSources >= 2
      /\ 2 * (TitleSize + first) <= MaxBytes
      /\ Head(LargestFirst) >=
           Heading + 240 + 2 * (Gap + HeaderSize) + first + Suffix + 1

(* Two versions that a message names both reach the first provider that is *)
(* asked, whatever else the session holds ("this ensures both files        *)
(* survive the final model byte budget", sessions.py:531), if there is     *)
(* room for one chunk of each.                                             *)
PairSurvives ==
  pair # <<>> /\ attempt = 1 /\ RoomForBoth =>
    \A f \in ToSet(pair) :
      \E x \in ToSet(prompt.shown) : x.unit.src = f /\ x.bytes > HeaderSize

(* What the router sends is within the cap of the profile it is sent with, *)
(* and a compaction never makes a prompt longer.                           *)
CompactionIsAccepted ==
  /\ sent.bytes <= sent.cap
  /\ sent.bytes <= sent.of
=============================================================================
