------------------------- MODULE ChatterSessionsProofs -------------------------
(***************************************************************************)
(* Proofs about ChatterSessions, for any runs, sources, texts, rules,      *)
(* requests and pasts, any source limit and pool, and any bound on the     *)
(* executions lost.                                                        *)
(***************************************************************************)
EXTENDS ChatterSessions, SourceHistoryProofs, FiniteSetTheorems

Prepared(r) == pc[r] \in {"summarizing", "working", "flushed", "retrieved"}
Answering(r) == pc[r] \in {"generating", "recorded", "done", "failed"}

(* Every unit has a row with its text, or with none if it was withheld.    *)
StoresAll(S, units) ==
  \A i \in DOMAIN units :
    \E x \in S : /\ x.id = i
                 /\ \/ x.text = units[i]
                    \/ x.text = Gone /\ ~MustPass(units[i])
IsStored(r) == HasTurn(r, "user") /\ StoresAll(rows, sent[r])

(* What a run adds may come next in the history, and is its own once it is *)
(* flushed; with it every unit is stored, under an open baseline.          *)
NewGood(r) ==
  /\ Connected(r) => /\ Follow(tx[r].new, rows)
                     /\ \/ baseline \/ tx[r].initial
                        \/ DOMAIN req[r].units = {} /\ tx[r].new = {}
  /\ Holding(r) => Untaken(tx[r].new, rows)
  /\ \A x \in tx[r].new : x.text \in Storable /\ x.id[2] <= stops
  /\ Prepared(r) => StoresAll(rows \cup tx[r].new, req[r].units)

(* A run succeeds what it saw otherwise, and is not given what it succeeds.*)
GivenGood(r) ==
  /\ tx[r].given # {} => pc[r] \in {"retrieved", "committed"}
  /\ \A x \in tx[r].given : x.id[2] <= stops
  /\ \A x \in tx[r].given, y \in tx[r].new : y.id = x.id => y.rev <= x.rev
  /\ \A x \in tx[r].seen :
       x.id \in DOMAIN tx[r].units /\ x.text # tx[r].units[x.id]
       => \E y \in tx[r].new : y.id = x.id /\ y.rev = x.rev + 1

(* The summary it will keep is the next one, once it is flushed.           *)
SummaryGood(r) ==
  /\ Connected(r) => tx[r].count <= summaries
  /\ Holding(r) /\ tx[r].summary => tx[r].count = summaries

(* An excerpt is at most one level deeper for each execution lost, and a   *)
(* run forgets what it was sent only once that is stored.                  *)
RequestGood(r) ==
  /\ \A i \in DOMAIN req[r].units :
       i[2] <= stops + 1 /\ (~Answering(r) => i[2] <= stops)
  /\ req[r].units = sent[r] \/ IsStored(r)
  /\ pc[r] \in {"committed", "generating", "recorded", "done"} => IsStored(r)

RunGood(r) == NewGood(r) /\ GivenGood(r) /\ SummaryGood(r) /\ RequestGood(r)

(* Two runs hold no key together, and not both the session row.            *)
Apart(r, u) ==
  Holding(r) /\ Holding(u) =>
    Untaken(tx[r].new, tx[u].new) /\ ~(Updates(r) /\ Updates(u))

RowsGood ==
  /\ Chained(rows)
  /\ rows # {} => baseline
  /\ \A x \in rows : x.text \in Storable /\ x.id[2] <= stops

KeptSummaries == {n \in turns : n.kind = "summary"}
TurnsGood ==
  /\ IsFiniteSet(KeptSummaries)
  /\ TurnsAreCounted

IInv ==
  /\ TypeOK /\ RowsGood /\ TurnsGood
  /\ \A r \in Runs : RunGood(r)
  /\ \A r, u \in Runs : r # u => Apart(r, u)
-------------------------------------------------------------------------------
(***************************************************************************)
(* Types, the gate and the units.                                          *)
(***************************************************************************)
LEMMA NoTxTyped == None \in Units /\ NoTx \in Transactions
<1>1. None \in Units
  <2>1. None \in [{} -> Contents]
    BY DEF None
  <2> QED
    BY <2>1 DEF Units, UnitsOf
<1> QED
  BY <1>1 DEF NoTx, Transactions

LEMMA OdooUnitsAreUnits ==
  ASSUME NEW units \in OdooUnits
  PROVE  units \in Units /\ \A i \in DOMAIN units : i[2] = 0
<1>1. PICK S \in SUBSET (Sources \X {0}) : units \in [S -> Contents]
  BY DEF OdooUnits, UnitsOf
<1>2. Sources \X {0} \subseteq Ids
  BY BoundsAreNaturals DEF Ids
<1>3. S \in SUBSET Ids
  BY <1>2
<1> QED
  BY <1>1, <1>3 DEF Units, UnitsOf

(* What the gate leaves of units: all of them, each as it was or withheld, *)
(* and only what may be stored.                                            *)
LEMMA SecuredUnits ==
  ASSUME NEW U \in Units, NEW units \in Secured(U, Gone)
  PROVE  /\ units \in Units /\ DOMAIN units = DOMAIN U
         /\ \A i \in DOMAIN U :
              /\ units[i] \in Storable
              /\ units[i] = U[i] \/ (units[i] = Gone /\ ~MustPass(U[i]))
<1>1. PICK S \in SUBSET Ids : U \in [S -> Contents]
  BY DEF Units, UnitsOf
<1>2. PICK K \in LetThrough(U) :
        units = [i \in DOMAIN U |-> IF i \in K THEN U[i] ELSE Gone]
  BY DEF Secured
<1>3. \A i \in S : (i \in K) \in Decisions(U[i])
  BY <1>1, <1>2 DEF LetThrough
<1>4. units \in [S -> Contents]
  BY <1>1, <1>2 DEF Contents
<1>5. ASSUME NEW i \in S
      PROVE  /\ units[i] \in Storable
             /\ units[i] = U[i] \/ (units[i] = Gone /\ ~MustPass(U[i]))
  <2>1. CASE i \in K
    <3>1. TRUE \in Decisions(U[i]) /\ units[i] = U[i] /\ U[i] \in Contents
      BY <1>1, <1>2, <1>3, <2>1
    <3>2. ~Unsafe(U[i])
      BY <3>1 DEF Unsafe
    <3> QED
      BY <3>1, <3>2 DEF Storable, Contents
  <2>2. CASE i \notin K
    <3>0. (i \in K) = FALSE
      BY <2>2
    <3>1. FALSE \in Decisions(U[i]) /\ units[i] = Gone
      BY <1>1, <1>2, <1>3, <2>2, <3>0
    <3>2. ~MustPass(U[i])
      BY <3>1 DEF MustPass
    <3> QED
      BY <3>1, <3>2 DEF Storable
  <2> QED
    BY <2>1, <2>2
<1> QED
  BY <1>1, <1>4, <1>5 DEF Units, UnitsOf

LEMMA StoresMore ==
  ASSUME NEW S, NEW T, S \subseteq T, NEW units, StoresAll(S, units)
  PROVE  StoresAll(T, units)
BY DEF StoresAll
-------------------------------------------------------------------------------
(***************************************************************************)
(* A step of one run, which changes nothing that is stored.                *)
(***************************************************************************)
OthersLeft(r) ==
  \A u \in Runs \ {r} : /\ pc'[u] = pc[u] /\ tx'[u] = tx[u]
                        /\ req'[u] = req[u] /\ sent'[u] = sent[u]

LEMMA ApartSymmetric ==
  ASSUME NEW r, NEW u, Apart(r, u)
  PROVE  Apart(u, r)
BY DEF Apart, Untaken, SameKey

LEMMA LevelsStay ==
  ASSUME NEW a \in Nat, NEW b \in Nat, a <= b
  PROVE  \A v \in Nat : v <= a + 1 => v <= b + 1
OBVIOUS

(* If the run is in order after the step, everything is.                   *)
LEMMA RunStepKeeps ==
  ASSUME IInv, NEW r \in Runs, UNCHANGED memory, TypeOK',
         stops' = stops \/ stops' = stops + 1,
         OthersLeft(r), RunGood(r)', \A u \in Runs \ {r} : Apart(r, u)'
  PROVE  IInv'
<1>1. UNCHANGED <<rows, turns, baseline, summaries>>
  BY DEF memory
<1>2. /\ stops \in Nat /\ stops' \in Nat /\ stops <= stops'
      /\ rows \subseteq RowRecords /\ tx \in [Runs -> Transactions]
      /\ req \in [Runs -> [mode : {"baseline", "delta"}, units : Units]]
  BY BoundsAreNaturals DEF IInv, TypeOK
<1>3. \A x \in RowRecords : x.id[2] \in Nat
  BY BoundsAreNaturals DEF RowRecords, Ids
<1>4. \A v \in Nat : v <= stops => v <= stops'
  BY <1>2
<1>5. RowsGood' /\ TurnsGood'
  BY <1>1, <1>2, <1>3, <1>4 DEF IInv, RowsGood, TurnsGood, TurnsAreCounted, KeptSummaries
<1>6. ASSUME NEW u \in Runs, u # r PROVE RunGood(u)'
  <2>1. /\ pc'[u] = pc[u] /\ tx'[u] = tx[u] /\ req'[u] = req[u] /\ sent'[u] = sent[u]
        /\ RunGood(u)
    BY <1>6 DEF OthersLeft, IInv
  <2>2. \A x \in tx[u].new \cup tx[u].given : x.id[2] \in Nat
    BY <1>2, <1>3 DEF Transactions
  <2>3. \A i \in DOMAIN req[u].units : i[2] \in Nat
    BY <1>2, BoundsAreNaturals DEF Units, UnitsOf, Ids
  <2>4. NewGood(u)'
    <3>1. /\ Connected(u)' = Connected(u) /\ Holding(u)' = Holding(u)
          /\ Prepared(u)' = Prepared(u)
      BY <2>1 DEF Connected, Holding, Prepared
    <3>2. \A x \in tx[u].new : x.text \in Storable /\ x.id[2] <= stops'
      BY <1>4, <2>1, <2>2 DEF RunGood, NewGood
    <3>4. Prepared(u) => StoresAll(rows' \cup tx'[u].new, req'[u].units)
      BY <1>1, <2>1 DEF RunGood, NewGood
    <3> QED
      BY <1>1, <2>1, <3>1, <3>2, <3>4 DEF RunGood, NewGood, StoresAll
  <2>5. GivenGood(u)' /\ SummaryGood(u)'
    BY <1>1, <1>4, <2>1, <2>2 DEF RunGood, GivenGood, SummaryGood, Connected, Holding
  <2>6. \A v \in Nat : v <= stops + 1 => v <= stops' + 1
    <3>1. stops \in Nat /\ stops' \in Nat /\ stops <= stops'
      BY <1>2
    <3> QED
      BY <3>1, LevelsStay
  <2>7. RequestGood(u)'
    BY <1>1, <1>4, <2>1, <2>3, <2>6
       DEF RunGood, RequestGood, Answering, IsStored, HasTurn, StoresAll
  <2> QED
    BY <2>4, <2>5, <2>7 DEF RunGood
<1>7. ASSUME NEW u \in Runs, NEW v \in Runs, u # v PROVE Apart(u, v)'
  <2>1. CASE u = r
    BY <1>7, <2>1
  <2>2. CASE v = r
    <3>1. Apart(v, u)'
      BY <1>7, <2>2
    <3> QED
      BY <3>1 DEF Apart, Untaken, SameKey
  <2>3. CASE u # r /\ v # r
    <3>1. Apart(u, v)
      BY <1>7 DEF IInv
    <3> QED
      BY <2>3, <3>1 DEF OthersLeft, Apart, Holding, Updates
  <2> QED
    BY <2>1, <2>2, <2>3
<1> QED
  BY <1>5, <1>6, <1>7 DEF IInv

(* Which run gets a request.                                               *)
LEMMA FreshPosts ==
  ASSUME NEW q, Post(q)
  PROVE  \E r \in Runs : /\ pc[r] = "new" /\ pc' = [pc EXCEPT ![r] = "queued"]
                         /\ req' = [req EXCEPT ![r] = q]
                         /\ sent' = [sent EXCEPT ![r] = q.units]
                         /\ UNCHANGED <<memory, tx, stops>>
BY DEF Post, FreshRun, Goto

LEMMA PostKeeps ==
  ASSUME IInv, NEW q \in Requests, Post(q)
  PROVE  IInv'
<1>1. PICK r \in Runs : /\ pc[r] = "new" /\ pc' = [pc EXCEPT ![r] = "queued"]
                        /\ req' = [req EXCEPT ![r] = q]
                        /\ sent' = [sent EXCEPT ![r] = q.units]
                        /\ UNCHANGED <<memory, tx, stops>>
  BY FreshPosts
<1>2. /\ q \in [mode : {"baseline", "delta"}, units : Units] /\ q.units \in OdooUnits
      /\ \A i \in DOMAIN q.units : i[2] = 0
  <2>1. q \in [mode : {"baseline", "delta"}, units : OdooUnits]
    BY RequestsAreRequests
  <2> QED
    BY <2>1, OdooUnitsAreUnits
<1>3. TypeOK' /\ OthersLeft(r)
  BY <1>1, <1>2 DEF IInv, TypeOK, memory, Stages, OthersLeft
<1>4. /\ pc'[r] = "queued" /\ tx'[r] = tx[r] /\ req'[r] = q /\ sent'[r] = q.units
      /\ stops' = stops /\ stops \in Nat /\ RunGood(r)
  BY <1>1, BoundsAreNaturals DEF IInv, TypeOK
<1>5. NewGood(r)' /\ GivenGood(r)' /\ SummaryGood(r)'
  BY <1>1, <1>4 DEF RunGood, NewGood, GivenGood, SummaryGood, Connected, Holding, Prepared
<1>6. RequestGood(r)'
  BY <1>2, <1>4 DEF RequestGood
<1>7. \A u \in Runs \ {r} : Apart(r, u)'
  BY <1>4 DEF Apart, Holding
<1> QED
  BY <1>1, <1>3, <1>5, <1>6, <1>7, RunStepKeeps DEF RunGood

LEMMA BeginKeeps ==
  ASSUME IInv, NEW r \in Runs, Begin(r)
  PROVE  IInv'
<1> DEFINE t == [NoTx EXCEPT !.initial = /\ req[r].mode = "baseline"
                                         /\ ~baseline
                                         /\ req[r].units # None,
                             !.count = summaries]
           stage == IF LacksBaseline(req[r]) THEN "failed" ELSE "scanning"
<1>1. /\ pc[r] = "queued" /\ pc' = [pc EXCEPT ![r] = stage]
      /\ tx' = [tx EXCEPT ![r] = t] /\ UNCHANGED <<memory, requests, stops>>
  BY DEF Begin, Goto
<1>2. /\ t \in Transactions /\ t.new = {} /\ t.given = {} /\ t.seen = {}
      /\ t.count = summaries
      /\ t.initial <=> /\ req[r].mode = "baseline" /\ ~baseline
                       /\ req[r].units # None
  BY NoTxTyped DEF NoTx, Transactions, IInv, TypeOK
<1>3. /\ stage \in {"failed", "scanning"}
      /\ stage = "scanning" =>
           baseline \/ t.initial \/ DOMAIN req[r].units = {}
  <2>1. req[r].units = None => DOMAIN req[r].units = {}
    BY DEF None
  <2>2. req[r].mode \in {"baseline", "delta"}
    BY DEF IInv, TypeOK
  <2> QED
    BY <1>2, <2>1, <2>2 DEF LacksBaseline
<1> HIDE DEF t, stage
<1>4. TypeOK' /\ OthersLeft(r)
  BY <1>1, <1>2, <1>3 DEF IInv, TypeOK, memory, requests, Stages, OthersLeft
<1>5. /\ pc'[r] = stage /\ tx'[r] = t /\ req'[r] = req[r] /\ sent'[r] = sent[r]
      /\ UNCHANGED <<stops, rows, turns, baseline, summaries>>
      /\ RunGood(r) /\ summaries \in Nat
  BY <1>1 DEF IInv, TypeOK, memory, requests
<1>6. NewGood(r)'
  BY <1>2, <1>3, <1>5 DEF NewGood, Connected, Holding, Prepared, Follow
<1>7. GivenGood(r)' /\ SummaryGood(r)'
  BY <1>2, <1>3, <1>5 DEF GivenGood, SummaryGood, Connected, Holding
<1>8. RequestGood(r)'
  BY <1>1, <1>3, <1>5
     DEF RunGood, RequestGood, Answering, IsStored, HasTurn, StoresAll
<1>9. \A u \in Runs \ {r} : Apart(r, u)'
  BY <1>3, <1>5 DEF Apart, Holding
<1> QED
  BY <1>1, <1>4, <1>5, <1>6, <1>7, <1>8, <1>9, RunStepKeeps DEF RunGood

LEMMA CompareKeeps ==
  ASSUME IInv, NEW r \in Runs, Compare(r)
  PROVE  IInv'
<1>1. PICK units \in Secured(req[r].units, Gone) :
        /\ Goto(r, IF Cardinality(Successors(units, rows, r)) \in SummarySizes
                   THEN "summarizing" ELSE "working")
        /\ tx' = [tx EXCEPT ![r].units = units,
                            ![r].new = Successors(units, rows, r),
                            ![r].seen = Current(rows)]
  BY DEF Compare
<1> DEFINE new == Successors(units, rows, r)
           t == [tx[r] EXCEPT !.units = units, !.new = new, !.seen = Current(rows)]
           stage == IF Cardinality(new) \in SummarySizes
                    THEN "summarizing" ELSE "working"
<1>2. /\ pc[r] = "scanning" /\ UNCHANGED <<memory, requests, stops>>
      /\ pc' = [pc EXCEPT ![r] = stage] /\ tx' = [tx EXCEPT ![r] = t]
  BY <1>1 DEF Compare, Goto
<1>3. /\ TypeOK /\ Chained(rows) /\ RunGood(r) /\ tx[r] \in Transactions
      /\ req[r].units \in Units /\ stops \in Nat
  BY BoundsAreNaturals DEF IInv, RowsGood, TypeOK
<1>4. /\ units \in Units /\ DOMAIN units = DOMAIN req[r].units
      /\ \A i \in DOMAIN units :
           /\ units[i] \in Storable
           /\ units[i] = req[r].units[i]
              \/ (units[i] = Gone /\ ~MustPass(req[r].units[i]))
  BY <1>1, <1>3, SecuredUnits
<1>5. PICK S \in SUBSET Ids : units \in [S -> Contents]
  BY <1>4 DEF Units, UnitsOf
<1>6. /\ Follow(new, rows)
      /\ \A x \in new :
           /\ x = [id |-> x.id, rev |-> x.rev, text |-> units[x.id], by |-> r]
           /\ x.id \in DOMAIN units /\ x.text = units[x.id]
  BY <1>3, SuccessorsFollow
<1>7. \A i \in DOMAIN units : \E x \in rows \cup new : x.id = i /\ x.text = units[i]
  <2> SUFFICES ASSUME NEW i \in DOMAIN units
               PROVE  \E x \in rows \cup new : x.id = i /\ x.text = units[i]
    OBVIOUS
  <2>1. CASE i \in Changed(units, rows)
    <3> DEFINE x == [id |-> i, rev |-> Revision(rows, i) + 1,
                     text |-> units[i], by |-> r]
    <3>1. x \in new /\ x.id = i /\ x.text = units[i]
      BY <2>1 DEF Successors
    <3> QED
      BY <3>1
  <2>2. CASE i \notin Changed(units, rows)
    <3>1. \E x \in Current(rows) : x.id = i /\ x.text = units[i]
      BY <2>2 DEF Changed
    <3>2. Current(rows) \subseteq rows
      BY DEF Current
    <3> QED
      BY <3>1, <3>2
  <2> QED
    BY <2>1, <2>2
<1>8. \A x \in Current(rows) :
        x.id \in DOMAIN units /\ x.text # units[x.id]
        => \E y \in new : y.id = x.id /\ y.rev = x.rev + 1
  BY <1>3, OtherTextIsSucceeded
<1>9. stage \in {"summarizing", "working"}
  OBVIOUS
<1> HIDE DEF new, stage
<1>10. ASSUME NEW x \in new PROVE x \in RowRecords
  <2>1. /\ x = [id |-> x.id, rev |-> x.rev, text |-> units[x.id], by |-> r]
        /\ x.id \in Ids /\ units[x.id] \in Contents /\ r \in Runs \cup {Before}
    BY <1>5, <1>6
  <2>2. x.rev \in Nat \ {0}
    BY <1>6 DEF Follow
  <2> QED
    BY <2>1, <2>2 DEF RowRecords
<1>11. Current(rows) \subseteq RowRecords
  BY <1>3 DEF Current, TypeOK
<1>12. /\ t \in Transactions /\ t.new = new /\ t.units = units
       /\ t.seen = Current(rows) /\ t.given = tx[r].given
       /\ t.count = tx[r].count /\ t.initial = tx[r].initial
  BY <1>3, <1>4, <1>10, <1>11 DEF Transactions
<1> HIDE DEF t
<1>13. TypeOK' /\ OthersLeft(r)
  BY <1>2, <1>3, <1>9, <1>12 DEF TypeOK, memory, requests, Stages, OthersLeft
<1>14. /\ pc'[r] = stage /\ tx'[r] = t /\ req'[r] = req[r] /\ sent'[r] = sent[r]
       /\ UNCHANGED <<stops, rows, turns, baseline, summaries>>
  BY <1>2, <1>3 DEF TypeOK, memory, requests
<1>15. NewGood(r)'
  <2>1. /\ Follow(new, rows)
        /\ baseline \/ t.initial \/ (DOMAIN req[r].units = {} /\ new = {})
    <3>1. baseline \/ t.initial \/ DOMAIN req[r].units = {}
      BY <1>2, <1>3, <1>12 DEF RunGood, NewGood, Connected
    <3> QED
      BY <1>4, <1>6, <3>1
  <2>2. \A x \in new : x.text \in Storable /\ x.id[2] <= stops
    BY <1>2, <1>3, <1>4, <1>6 DEF RunGood, RequestGood, Answering
  <2>3. StoresAll(rows \cup new, req[r].units)
    <3> SUFFICES ASSUME NEW i \in DOMAIN req[r].units
                 PROVE  \E x \in rows \cup new :
                          /\ x.id = i
                          /\ \/ x.text = req[r].units[i]
                             \/ x.text = Gone /\ ~MustPass(req[r].units[i])
      BY DEF StoresAll
    <3>1. PICK x \in rows \cup new : x.id = i /\ x.text = units[i]
      BY <1>4, <1>7
    <3> QED
      BY <1>4, <3>1
  <2> QED
    BY <1>9, <1>12, <1>14, <2>1, <2>2, <2>3
       DEF NewGood, Connected, Holding, StoresAll
<1>16. GivenGood(r)' /\ SummaryGood(r)'
  <2>1. t.given = {}
    BY <1>2, <1>3, <1>12 DEF RunGood, GivenGood
  <2> QED
    BY <1>2, <1>3, <1>8, <1>9, <1>12, <1>14, <2>1
       DEF RunGood, GivenGood, SummaryGood, Connected, Holding
<1>17. RequestGood(r)'
  BY <1>2, <1>3, <1>9, <1>14
     DEF RunGood, RequestGood, Answering, IsStored, HasTurn, StoresAll
<1>18. \A u \in Runs \ {r} : Apart(r, u)'
  BY <1>9, <1>14 DEF Apart, Holding
<1> QED
  BY <1>2, <1>13, <1>15, <1>16, <1>17, <1>18, RunStepKeeps DEF RunGood

LEMMA SummarizeKeeps ==
  ASSUME IInv, NEW r \in Runs, Summarize(r) \/ SummaryTimesOut(r)
  PROVE  IInv'
<1>1. PICK answered \in BOOLEAN : tx' = [tx EXCEPT ![r].summary = answered]
  <2>1. tx[r].summary \in BOOLEAN /\ tx[r] = [tx[r] EXCEPT !.summary = tx[r].summary]
    BY DEF IInv, TypeOK, Transactions
  <2>2. tx = [tx EXCEPT ![r] = tx[r]]
    BY DEF IInv, TypeOK
  <2> QED
    BY <2>1, <2>2 DEF Summarize, SummaryTimesOut
<1> DEFINE t == [tx[r] EXCEPT !.summary = answered]
<1>2. /\ pc[r] = "summarizing" /\ UNCHANGED <<memory, requests, stops>>
      /\ pc' = [pc EXCEPT ![r] = "working"] /\ tx' = [tx EXCEPT ![r] = t]
  BY <1>1 DEF Summarize, SummaryTimesOut, Goto
<1>3. TypeOK /\ RunGood(r) /\ tx[r] \in Transactions
  BY DEF IInv, TypeOK
<1>4. /\ t \in Transactions /\ t.new = tx[r].new /\ t.units = tx[r].units
      /\ t.seen = tx[r].seen /\ t.given = tx[r].given
      /\ t.count = tx[r].count /\ t.initial = tx[r].initial
  BY <1>3 DEF Transactions
<1> HIDE DEF t
<1>5. TypeOK' /\ OthersLeft(r)
  BY <1>2, <1>3, <1>4 DEF TypeOK, memory, requests, Stages, OthersLeft
<1>6. /\ pc'[r] = "working" /\ tx'[r] = t /\ req'[r] = req[r] /\ sent'[r] = sent[r]
      /\ UNCHANGED <<stops, rows, turns, baseline, summaries>>
  BY <1>2, <1>3 DEF TypeOK, memory, requests
<1>7. NewGood(r)'
  BY <1>2, <1>3, <1>4, <1>6
     DEF RunGood, NewGood, Connected, Holding, Prepared, StoresAll
<1>8. GivenGood(r)' /\ SummaryGood(r)'
  BY <1>2, <1>3, <1>4, <1>6 DEF RunGood, GivenGood, SummaryGood, Connected, Holding
<1>9. RequestGood(r)'
  BY <1>2, <1>3, <1>6
     DEF RunGood, RequestGood, Answering, IsStored, HasTurn, StoresAll
<1>10. \A u \in Runs \ {r} : Apart(r, u)'
  BY <1>6 DEF Apart, Holding
<1> QED
  BY <1>2, <1>5, <1>7, <1>8, <1>9, <1>10, RunStepKeeps DEF RunGood

(* A run without a transaction has nothing to get wrong in it.             *)
LEMMA ForgottenIsGood ==
  ASSUME NEW r \in Runs, tx'[r] = NoTx, ~Connected(r)'
  PROVE  /\ NewGood(r)' /\ GivenGood(r)' /\ SummaryGood(r)'
         /\ \A u \in Runs : Apart(r, u)'
<1>1. NoTx.new = {} /\ NoTx.given = {} /\ NoTx.seen = {}
  BY DEF NoTx
<1> QED
  BY <1>1 DEF NewGood, GivenGood, SummaryGood, Apart, Connected, Holding, Prepared

(* So a run may forget it whenever its request is in order.                *)
LEMMA ForgettingKeeps ==
  ASSUME IInv, NEW r \in Runs, Forget(r), NEW stage \in {"queued", "failed"},
         pc' = [pc EXCEPT ![r] = stage],
         UNCHANGED <<memory, requests>>, stops' \in 0 .. MaxStops,
         stops' = stops \/ stops' = stops + 1,
         \A i \in DOMAIN req[r].units :
           i[2] <= stops' + 1 /\ (stage # "failed" => i[2] <= stops')
  PROVE  IInv'
<1>1. TypeOK' /\ OthersLeft(r)
  BY NoTxTyped DEF Forget, IInv, TypeOK, memory, requests, Stages, OthersLeft
<1>2. /\ pc'[r] = stage /\ tx'[r] = NoTx /\ req'[r] = req[r] /\ sent'[r] = sent[r]
      /\ UNCHANGED <<rows, turns, baseline, summaries>> /\ RunGood(r)
  BY DEF Forget, IInv, TypeOK, memory, requests
<1>3. /\ NewGood(r)' /\ GivenGood(r)' /\ SummaryGood(r)'
      /\ \A u \in Runs : Apart(r, u)'
  BY <1>2, ForgottenIsGood DEF Connected
<1>4. RequestGood(r)'
  BY <1>2 DEF RunGood, RequestGood, Answering, IsStored, HasTurn, StoresAll
<1> QED
  BY <1>1, <1>3, <1>4, RunStepKeeps DEF RunGood

LEMMA FlushKeeps ==
  ASSUME IInv, NEW r \in Runs, Flush(r)
  PROVE  IInv'
<1>1. /\ pc[r] = "working" /\ UNCHANGED <<memory, requests, stops>>
      /\ TypeOK /\ RunGood(r) /\ stops \in 0 .. MaxStops
  BY DEF Flush, IInv, TypeOK
<1>2. CASE RowTaken(r) \/ SummaryTaken(r)
  <2>1. Forget(r) /\ pc' = [pc EXCEPT ![r] = "failed"]
    BY <1>2 DEF Flush, Goto
  <2> QED
    BY <1>1, <2>1, ForgettingKeeps DEF RunGood, RequestGood
<1>3. CASE ~(RowTaken(r) \/ SummaryTaken(r))
  <2>1. pc' = [pc EXCEPT ![r] = "flushed"] /\ UNCHANGED tx
    BY <1>3 DEF Flush, Goto
  <2>2. TypeOK' /\ OthersLeft(r)
    BY <1>1, <2>1 DEF TypeOK, memory, requests, Stages, OthersLeft
  <2>3. /\ pc'[r] = "flushed" /\ req'[r] = req[r] /\ sent'[r] = sent[r]
        /\ UNCHANGED <<tx, stops, rows, turns, baseline, summaries>>
    BY <1>1, <2>1 DEF TypeOK, memory, requests
  <2>4. Untaken(tx[r].new, rows)
    BY <1>3 DEF RowTaken, Untaken
  <2>5. NewGood(r)'
    BY <1>1, <2>3, <2>4
       DEF RunGood, NewGood, Connected, Holding, Prepared, StoresAll
  <2>6. ASSUME tx[r].summary PROVE tx[r].count = summaries
    <3>1. tx[r].count + 1 \notin {n.number : n \in KeptSummaries}
      BY <1>3, <2>6 DEF SummaryTaken, KeptSummaries
    <3>2. tx[r].count + 1 \notin 1 .. summaries
      BY <3>1 DEF IInv, TurnsGood, TurnsAreCounted, KeptSummaries
    <3>3. /\ tx[r].count \in Nat /\ summaries \in Nat
          /\ tx[r].count <= summaries
      BY <1>1 DEF TypeOK, Transactions, RunGood, SummaryGood, Connected
    <3> QED
      BY <3>2, <3>3
  <2>7. GivenGood(r)' /\ SummaryGood(r)'
    BY <1>1, <2>3, <2>6 DEF RunGood, GivenGood, SummaryGood, Connected, Holding
  <2>8. RequestGood(r)'
    BY <1>1, <2>3 DEF RunGood, RequestGood, Answering, IsStored, HasTurn, StoresAll
  <2>9. ASSUME NEW u \in Runs \ {r} PROVE Apart(r, u)'
    <3>1. Holding(u)' => ~Overlap(r, u)
      BY <2>2 DEF OthersLeft, Holding, Flush
    <3> QED
      BY <2>3, <3>1 DEF Apart, Overlap, Untaken, Updates
  <2> QED
    BY <1>1, <2>2, <2>5, <2>7, <2>8, <2>9, RunStepKeeps DEF RunGood
<1> QED
  BY <1>2, <1>3

LEMMA RetrieveKeeps ==
  ASSUME IInv, NEW r \in Runs, Retrieve(r)
  PROVE  IInv'
<1>1. PICK g \in Selections(Visible(r)) : tx' = [tx EXCEPT ![r].given = g]
  BY DEF Retrieve
<1> DEFINE t == [tx[r] EXCEPT !.given = g]
<1>2. /\ pc[r] = "flushed" /\ UNCHANGED <<memory, requests, stops>>
      /\ pc' = [pc EXCEPT ![r] = "retrieved"] /\ tx' = [tx EXCEPT ![r] = t]
  BY <1>1 DEF Retrieve, Goto
<1>3. TypeOK /\ RunGood(r) /\ tx[r] \in Transactions
  BY DEF IInv, TypeOK
<1>4. \A x \in g :
        x \in rows \cup tx[r].new /\ \A y \in tx[r].new : y.id = x.id => y.rev <= x.rev
  BY DEF Selections, Current, Visible
<1>5. g \subseteq RowRecords
  BY <1>3, <1>4 DEF TypeOK, Transactions
<1>6. /\ t \in Transactions /\ t.new = tx[r].new /\ t.units = tx[r].units
      /\ t.seen = tx[r].seen /\ t.given = g /\ t.summary = tx[r].summary
      /\ t.count = tx[r].count /\ t.initial = tx[r].initial
  BY <1>3, <1>5 DEF Transactions
<1> HIDE DEF t
<1>7. TypeOK' /\ OthersLeft(r)
  BY <1>2, <1>3, <1>6 DEF TypeOK, memory, requests, Stages, OthersLeft
<1>8. /\ pc'[r] = "retrieved" /\ tx'[r] = t /\ req'[r] = req[r] /\ sent'[r] = sent[r]
      /\ UNCHANGED <<stops, rows, turns, baseline, summaries>>
  BY <1>2, <1>3 DEF TypeOK, memory, requests
<1>9. NewGood(r)'
  BY <1>2, <1>3, <1>6, <1>8
     DEF RunGood, NewGood, Connected, Holding, Prepared, StoresAll
<1>10. GivenGood(r)'
  <2>1. \A x \in g : x.id[2] <= stops
    BY <1>3, <1>4 DEF RunGood, NewGood, IInv, RowsGood
  <2> QED
    BY <1>3, <1>4, <1>6, <1>8, <2>1 DEF RunGood, GivenGood
<1>11. SummaryGood(r)' /\ RequestGood(r)'
  BY <1>2, <1>3, <1>6, <1>8
     DEF RunGood, SummaryGood, Connected, Holding, RequestGood, Answering, IsStored,
         HasTurn, StoresAll
<1>12. ASSUME NEW u \in Runs \ {r} PROVE Apart(r, u)'
  <2>1. Apart(r, u) /\ Holding(r) /\ Holding(u)' = Holding(u) /\ tx'[u] = tx[u]
    BY <1>2, <1>7 DEF IInv, Holding, OthersLeft
  <2> QED
    BY <1>6, <1>8, <2>1 DEF Apart, Updates
<1> QED
  BY <1>2, <1>7, <1>9, <1>10, <1>11, <1>12, RunStepKeeps DEF RunGood

LEMMA SaveKeeps ==
  ASSUME IInv, NEW r \in Runs, Save(r)
  PROVE  IInv'
<1> DEFINE excerpt(x) == <<x.id[1], x.id[2] + 1>>
           D == {excerpt(x) : x \in tx[r].given}
           units == [i \in D |-> (CHOOSE x \in tx[r].given : excerpt(x) = i).text]
<1>1. /\ pc[r] = "committed" /\ pc' = [pc EXCEPT ![r] = "generating"]
      /\ req' = [req EXCEPT ![r].units = units]
      /\ Forget(r) /\ UNCHANGED <<memory, sent, stops>>
  BY DEF Save, Goto
<1>2. /\ TypeOK /\ RunGood(r) /\ tx[r] \in Transactions
      /\ stops \in Nat /\ stops <= MaxStops /\ MaxStops \in Nat
  BY BoundsAreNaturals DEF IInv, TypeOK
<1>3. ASSUME NEW x \in tx[r].given
      PROVE  /\ excerpt(x) \in Ids /\ excerpt(x)[2] <= stops + 1
             /\ x.text \in Contents
  <2>1. x \in RowRecords /\ x.id \in Sources \X (0 .. MaxStops + 1) /\ x.id[2] <= stops
    BY <1>2 DEF Transactions, RowRecords, Ids, RunGood, GivenGood
  <2>2. x.id[1] \in Sources /\ x.id[2] \in Nat /\ x.text \in Contents
    BY <1>2, <2>1 DEF RowRecords
  <2>3. x.id[2] + 1 \in 0 .. MaxStops + 1 /\ x.id[2] + 1 <= stops + 1
    BY <1>2, <2>1, <2>2
  <2> QED
    BY <2>2, <2>3 DEF Ids
<1>4. D \subseteq Ids /\ \A i \in D : i[2] <= stops + 1
  BY <1>3
<1>5. ASSUME NEW i \in D PROVE units[i] \in Contents
  <2>1. \E x \in tx[r].given : excerpt(x) = i
    OBVIOUS
  <2> HIDE DEF excerpt
  <2> DEFINE z == CHOOSE x \in tx[r].given : excerpt(x) = i
  <2>2. z \in tx[r].given
    BY <2>1
  <2> QED
    BY <1>3, <2>2
<1>6. DOMAIN units = D /\ units \in [D -> Contents]
  BY <1>5
<1> HIDE DEF units, D
<1>7. units \in Units
  BY <1>4, <1>6 DEF Units, UnitsOf
<1>8. TypeOK' /\ OthersLeft(r)
  BY <1>1, <1>2, <1>7, NoTxTyped DEF TypeOK, memory, Stages, OthersLeft, Forget
<1>9. /\ pc'[r] = "generating" /\ tx'[r] = NoTx /\ req'[r].units = units
      /\ sent'[r] = sent[r] /\ UNCHANGED <<stops, rows, turns, baseline, summaries>>
  BY <1>1, <1>2 DEF TypeOK, memory, Forget
<1>10. /\ NewGood(r)' /\ GivenGood(r)' /\ SummaryGood(r)'
       /\ \A u \in Runs : Apart(r, u)'
  BY <1>9, ForgottenIsGood DEF Connected
<1>11. RequestGood(r)'
  BY <1>1, <1>2, <1>4, <1>6, <1>9
     DEF RunGood, RequestGood, Answering, IsStored, HasTurn, StoresAll
<1> QED
  BY <1>1, <1>8, <1>10, <1>11, RunStepKeeps DEF RunGood

LEMMA FinishKeeps ==
  ASSUME IInv, NEW r \in Runs, Finish(r)
  PROVE  IInv'
<1>1. /\ pc[r] = "recorded" /\ pc' = [pc EXCEPT ![r] = "done"]
      /\ UNCHANGED <<memory, requests, tx, stops>> /\ TypeOK /\ RunGood(r)
  BY DEF Finish, Goto, IInv
<1>2. TypeOK' /\ OthersLeft(r)
  BY <1>1 DEF TypeOK, memory, requests, Stages, OthersLeft
<1>3. /\ pc'[r] = "done" /\ req'[r] = req[r] /\ sent'[r] = sent[r]
      /\ UNCHANGED <<tx, stops, rows, turns, baseline, summaries>>
  BY <1>1 DEF TypeOK, memory, requests
<1>4. NewGood(r)' /\ GivenGood(r)' /\ SummaryGood(r)' /\ \A u \in Runs : Apart(r, u)'
  BY <1>1, <1>3
     DEF RunGood, NewGood, GivenGood, SummaryGood, Apart, Connected, Holding, Prepared
<1>5. RequestGood(r)'
  BY <1>1, <1>3 DEF RunGood, RequestGood, Answering, IsStored, HasTurn, StoresAll
<1> QED
  BY <1>1, <1>2, <1>4, <1>5, RunStepKeeps DEF RunGood

LEMMA FailsKeeps ==
  ASSUME IInv, NEW r \in Runs, Fails(r)
  PROVE  IInv'
<1>1. /\ pc' = [pc EXCEPT ![r] = "failed"] /\ Forget(r)
      /\ UNCHANGED <<memory, requests, stops>> /\ RunGood(r)
      /\ stops \in 0 .. MaxStops
  BY DEF Fails, Goto, IInv, TypeOK
<1> QED
  BY <1>1, ForgettingKeeps DEF RunGood, RequestGood

(* An execution lost makes room for one more level of excerpts.            *)
LEMMA InterruptedKeeps ==
  ASSUME IInv, NEW r \in Runs, Interrupted(r)
  PROVE  IInv'
<1>1. /\ pc' = [pc EXCEPT ![r] = "queued"] /\ Forget(r)
      /\ UNCHANGED <<memory, requests>> /\ stops' = stops + 1 /\ RunGood(r)
      /\ stops \in Nat /\ stops < MaxStops /\ MaxStops \in Nat
      /\ req[r].units \in Units
  BY BoundsAreNaturals DEF Interrupted, Goto, IInv, TypeOK
<1>2. stops' \in 0 .. MaxStops
  BY <1>1
<1>3. ASSUME NEW i \in DOMAIN req[r].units PROVE i[2] <= stops' /\ i[2] <= stops' + 1
  <2>1. i[2] <= stops + 1
    BY <1>1 DEF RunGood, RequestGood
  <2>2. i[2] \in Nat
    BY <1>1, BoundsAreNaturals DEF Units, UnitsOf, Ids
  <2> QED
    BY <1>1, <2>1, <2>2
<1> QED
  BY <1>1, <1>2, <1>3, ForgettingKeeps
-------------------------------------------------------------------------------
(***************************************************************************)
(* What is stored: a reply, and a commit.                                  *)
(***************************************************************************)
(* What is stored stays stored.                                            *)
LEMMA StoredStays ==
  ASSUME NEW r, IsStored(r), rows \subseteq rows', turns \subseteq turns',
         sent'[r] = sent[r]
  PROVE  IsStored(r)'
<1>1. HasTurn(r, "user")'
  BY DEF IsStored, HasTurn
<1>2. StoresAll(rows', sent'[r])
  BY StoresMore DEF IsStored
<1> QED
  BY <1>1, <1>2 DEF IsStored, StoresAll

(* One turn more, of a run that had none of its kind, and no summary.      *)
LEMMA TurnIsCounted ==
  ASSUME IInv, NEW r \in Runs, NEW kind \in {"user", "assistant"}
  PROVE  /\ TurnOf(r, kind) \subseteq TurnRecords
         /\ \A n \in TurnOf(r, kind) :
              n.kind = kind /\ n.run = r /\ ~HasTurn(r, kind)
         /\ \A n, m \in TurnOf(r, kind) : n = m
<1>1. stops \in Nat
  BY BoundsAreNaturals DEF IInv, TypeOK
<1> QED
  BY <1>1 DEF TurnOf, TurnRecords

LEMMA RecordKeeps ==
  ASSUME IInv, NEW r \in Runs, Record(r)
  PROVE  IInv'
<1>1. /\ pc[r] = "generating" /\ pc' = [pc EXCEPT ![r] = "recorded"]
      /\ turns' \in {turns, turns \cup TurnOf(r, "assistant")}
      /\ UNCHANGED <<rows, baseline, summaries, req, sent, tx, stops>>
      /\ TypeOK
  BY DEF Record, Goto, requests, IInv
<1>2. /\ TurnOf(r, "assistant") \subseteq TurnRecords
      /\ \A n \in TurnOf(r, "assistant") :
           n.kind = "assistant" /\ n.run = r /\ ~HasTurn(r, "assistant")
      /\ \A n, m \in TurnOf(r, "assistant") : n = m
  BY TurnIsCounted
<1>3. TypeOK' /\ turns \subseteq turns'
  BY <1>1, <1>2 DEF TypeOK, Stages
<1>4. RowsGood'
  BY <1>1 DEF IInv, RowsGood
<1>5. TurnsGood'
  <2>1. KeptSummaries' = KeptSummaries
    BY <1>1, <1>2 DEF KeptSummaries
  <2>2. ASSUME NEW n \in turns' \ KeptSummaries', NEW m \in turns' \ KeptSummaries',
               n.kind = m.kind, n.run = m.run
        PROVE  n = m
    <3>1. /\ n \in turns \/ n \in TurnOf(r, "assistant")
          /\ m \in turns \/ m \in TurnOf(r, "assistant")
      BY <1>1
    <3>2. n \in turns /\ m \in turns => n = m
      BY <2>1, <2>2 DEF IInv, TurnsGood, TurnsAreCounted, KeptSummaries
    <3> QED
      BY <1>2, <2>2, <3>1, <3>2 DEF HasTurn
  <2> QED
    BY <1>1, <2>1, <2>2 DEF IInv, TurnsGood, TurnsAreCounted, KeptSummaries
<1>6. ASSUME NEW u \in Runs PROVE RunGood(u)'
  <2>1. RunGood(u) /\ (u # r => pc'[u] = pc[u]) /\ (u = r => pc'[u] = "recorded")
    BY <1>1 DEF IInv, TypeOK
  <2>2. NewGood(u)' /\ GivenGood(u)' /\ SummaryGood(u)'
    BY <1>1, <2>1 DEF RunGood, NewGood, GivenGood, SummaryGood, Connected, Holding,
                      Prepared, StoresAll
  <2>3. IsStored(u) => IsStored(u)'
    BY <1>1, <1>3, StoredStays
  <2>4. RequestGood(u)'
    BY <1>1, <2>1, <2>3 DEF RunGood, RequestGood, Answering
  <2> QED
    BY <2>2, <2>4 DEF RunGood
<1>7. ASSUME NEW u \in Runs, NEW v \in Runs, u # v PROVE Apart(u, v)'
  <2>1. Apart(u, v) /\ Holding(u)' = Holding(u) /\ Holding(v)' = Holding(v)
    BY <1>1, <1>7 DEF IInv, TypeOK, Holding
  <2> QED
    BY <1>1, <2>1 DEF Apart, Updates
<1> QED
  BY <1>3, <1>4, <1>5, <1>6, <1>7 DEF IInv

(* The summary a commit keeps, if any.                                     *)
SummaryOf(r) == [kind |-> "summary", run |-> r, number |-> tx[r].count + 1]
SummariesOf(r) == IF tx[r].summary THEN {SummaryOf(r)} ELSE {}

LEMMA CommitFacts ==
  ASSUME IInv, NEW r \in Runs, Commit(r)
  PROVE  /\ pc[r] = "retrieved" /\ RunGood(r) /\ tx[r] \in Transactions
         /\ rows' = rows \cup tx[r].new
         /\ Follow(tx[r].new, rows) /\ Untaken(tx[r].new, rows)
         /\ turns' = turns \cup TurnOf(r, "user") \cup SummariesOf(r)
         /\ baseline' = (baseline \/ tx[r].initial)
         /\ tx[r].new # {} => baseline'
         /\ tx[r].summary => tx[r].count = summaries
         /\ summaries' = IF tx[r].summary THEN summaries + 1 ELSE summaries
         /\ \/ pc'[r] = "committed" /\ tx'[r] = tx[r]
            \/ pc'[r] = "failed" /\ tx'[r] = NoTx
         /\ UNCHANGED <<req, sent, stops>> /\ OthersLeft(r)
<1>1. /\ pc[r] = "retrieved" /\ RunGood(r) /\ tx[r] \in Transactions /\ TypeOK
      /\ Connected(r) /\ Holding(r)
  BY DEF Commit, IInv, TypeOK, Connected, Holding
<1>2. /\ rows' = rows \cup tx[r].new
      /\ turns' = turns \cup TurnOf(r, "user") \cup SummariesOf(r)
      /\ baseline' = (baseline \/ tx[r].initial)
      /\ summaries' = IF tx[r].summary THEN tx[r].count + 1 ELSE summaries
      /\ \/ pc' = [pc EXCEPT ![r] = "committed"] /\ tx' = tx
         \/ pc' = [pc EXCEPT ![r] = "failed"] /\ tx' = [tx EXCEPT ![r] = NoTx]
      /\ UNCHANGED <<req, sent, stops>>
  BY DEF Commit, Visible, SummariesOf, SummaryOf, Goto, Forget, requests
<1>3. /\ Follow(tx[r].new, rows) /\ Untaken(tx[r].new, rows)
      /\ tx[r].new # {} => baseline'
      /\ tx[r].summary => tx[r].count = summaries
  BY <1>1, <1>2 DEF RunGood, NewGood, SummaryGood
<1>4. /\ \/ pc'[r] = "committed" /\ tx'[r] = tx[r]
         \/ pc'[r] = "failed" /\ tx'[r] = NoTx
      /\ OthersLeft(r)
  BY <1>1, <1>2 DEF TypeOK, OthersLeft
<1> QED
  BY <1>1, <1>2, <1>3, <1>4

LEMMA CommitKeepsTypes ==
  ASSUME IInv, NEW r \in Runs, Commit(r)
  PROVE  TypeOK'
<1>1. TypeOK
  BY DEF IInv
<1>2. /\ tx[r].new \subseteq RowRecords /\ tx[r].initial \in BOOLEAN
      /\ tx[r].count \in Nat
  BY CommitFacts DEF Transactions
<1>3. TurnOf(r, "user") \subseteq TurnRecords /\ SummariesOf(r) \subseteq TurnRecords
  BY <1>2, TurnIsCounted DEF SummariesOf, SummaryOf, TurnRecords
<1>4. rows' \subseteq RowRecords /\ turns' \subseteq TurnRecords
  BY <1>1, <1>2, <1>3, CommitFacts DEF TypeOK
<1>5. baseline' \in BOOLEAN /\ summaries' \in Nat
  BY <1>1, <1>2, CommitFacts DEF TypeOK
<1>6. pc' \in [Runs -> Stages] /\ tx' \in [Runs -> Transactions]
  BY <1>1, NoTxTyped DEF TypeOK, Commit, Goto, Forget, Stages
<1> QED
  BY <1>1, <1>4, <1>5, <1>6, CommitFacts DEF TypeOK

LEMMA CommitKeepsRows ==
  ASSUME IInv, NEW r \in Runs, Commit(r)
  PROVE  RowsGood'
<1>1. Chained(rows)'
  <2>1. Chained(rows \cup tx[r].new)
    BY CommitFacts, CommitKeepsChained DEF IInv, RowsGood
  <2> QED
    BY <2>1, CommitFacts
<1>2. \A x \in rows' : x.text \in Storable /\ x.id[2] <= stops'
  BY CommitFacts DEF IInv, RowsGood, RunGood, NewGood
<1>3. rows' # {} => baseline'
  BY CommitFacts DEF IInv, RowsGood
<1> QED
  BY <1>1, <1>2, <1>3 DEF RowsGood

LEMMA CommitKeepsTurns ==
  ASSUME IInv, NEW r \in Runs, Commit(r)
  PROVE  TurnsGood'
<1>1. /\ turns' = turns \cup TurnOf(r, "user") \cup SummariesOf(r)
      /\ tx[r].summary => tx[r].count = summaries
      /\ summaries' = IF tx[r].summary THEN summaries + 1 ELSE summaries
      /\ tx[r].summary \in BOOLEAN /\ summaries \in Nat
  BY CommitFacts DEF IInv, TypeOK, Transactions
<1>2. /\ \A n \in TurnOf(r, "user") :
           n.kind = "user" /\ n.run = r /\ ~HasTurn(r, "user")
      /\ \A n, m \in TurnOf(r, "user") : n = m
  BY TurnIsCounted
<1>3. \A n \in SummariesOf(r) : n.kind = "summary"
  BY DEF SummariesOf, SummaryOf
<1>4. KeptSummaries' = KeptSummaries \cup SummariesOf(r)
  BY <1>1, <1>2, <1>3 DEF KeptSummaries
<1>5. /\ IsFiniteSet(KeptSummaries) /\ Cardinality(KeptSummaries) = summaries
      /\ {n.number : n \in KeptSummaries} = 1 .. summaries
  BY DEF IInv, TurnsGood, TurnsAreCounted, KeptSummaries
<1>6. /\ IsFiniteSet(KeptSummaries') /\ Cardinality(KeptSummaries') = summaries'
      /\ {n.number : n \in KeptSummaries'} = 1 .. summaries'
  <2>1. CASE ~tx[r].summary
    BY <1>1, <1>4, <1>5, <2>1 DEF SummariesOf
  <2>2. CASE tx[r].summary
    <3>1. /\ KeptSummaries' = KeptSummaries \cup {SummaryOf(r)}
          /\ SummaryOf(r).number = summaries + 1 /\ summaries' = summaries + 1
      BY <1>1, <1>4, <2>2 DEF SummariesOf, SummaryOf
    <3>2. SummaryOf(r) \notin KeptSummaries
      <4>1. summaries + 1 \notin {n.number : n \in KeptSummaries}
        BY <1>1, <1>5
      <4> QED
        BY <3>1, <4>1
    <3>3. /\ IsFiniteSet(KeptSummaries')
          /\ Cardinality(KeptSummaries') = summaries + 1
      BY <1>5, <3>1, <3>2, FS_AddElement
    <3>4. {n.number : n \in KeptSummaries'}
            = {n.number : n \in KeptSummaries} \cup {summaries + 1}
      BY <3>1
    <3>5. (1 .. summaries) \cup {summaries + 1} = 1 .. summaries + 1
      BY <1>1
    <3> QED
      BY <1>5, <3>1, <3>3, <3>4, <3>5
  <2> QED
    BY <2>1, <2>2
<1>7. ASSUME NEW n \in turns' \ KeptSummaries', NEW m \in turns' \ KeptSummaries',
             n.kind = m.kind, n.run = m.run
      PROVE  n = m
  <2>1. /\ n \in turns \ KeptSummaries \/ n \in TurnOf(r, "user")
        /\ m \in turns \ KeptSummaries \/ m \in TurnOf(r, "user")
    BY <1>1, <1>4
  <2>2. \A x, y \in turns \ KeptSummaries : x.kind = y.kind /\ x.run = y.run => x = y
    BY DEF IInv, TurnsGood, TurnsAreCounted, KeptSummaries
  <2> QED
    BY <1>2, <1>7, <2>1, <2>2 DEF HasTurn
<1> QED
  BY <1>6, <1>7 DEF TurnsGood, TurnsAreCounted, KeptSummaries

(* The run that commits has stored what it was sent.                       *)
LEMMA CommitStores ==
  ASSUME IInv, NEW r \in Runs, Commit(r)
  PROVE  IsStored(r)'
<1>1. /\ rows' = rows \cup tx[r].new /\ sent' = sent
      /\ turns' = turns \cup TurnOf(r, "user") \cup SummariesOf(r)
      /\ req[r].units = sent[r] \/ IsStored(r)
      /\ StoresAll(rows \cup tx[r].new, req[r].units)
  BY CommitFacts DEF RunGood, RequestGood, NewGood, Prepared
<1>2. CASE IsStored(r)
  BY <1>1, <1>2, StoredStays
<1>3. CASE req[r].units = sent[r]
  <2>1. HasTurn(r, "user")'
    <3>1. CASE HasTurn(r, "user")
      BY <1>1, <3>1 DEF HasTurn
    <3>2. CASE ~HasTurn(r, "user")
      <4>1. [kind |-> "user", run |-> r, number |-> stops] \in turns'
        BY <1>1, <3>2 DEF TurnOf
      <4> QED
        BY <4>1 DEF HasTurn
    <3> QED
      BY <3>1, <3>2
  <2>2. StoresAll(rows', sent'[r])
    BY <1>1, <1>3
  <2> QED
    BY <2>1, <2>2 DEF IsStored, StoresAll
<1> QED
  BY <1>1, <1>2, <1>3

LEMMA CommitKeepsRuns ==
  ASSUME IInv, NEW r \in Runs, Commit(r), NEW u \in Runs
  PROVE  RunGood(u)'
<1>1. /\ rows' = rows \cup tx[r].new /\ turns \subseteq turns'
      /\ UNCHANGED <<req, sent, stops>> /\ RunGood(u)
      /\ stops \in Nat /\ summaries \in Nat
      /\ baseline' = (baseline \/ tx[r].initial)
      /\ summaries' = IF tx[r].summary THEN summaries + 1 ELSE summaries
  BY CommitFacts, BoundsAreNaturals DEF IInv, TypeOK
<1>2. CASE u = r
  <2>1. pc[u] = "retrieved" /\ IsStored(u)'
    BY <1>2, CommitFacts, CommitStores
  <2>2. CASE pc'[u] = "failed" /\ tx'[u] = NoTx
    <3>1. NewGood(u)' /\ GivenGood(u)' /\ SummaryGood(u)'
      BY <2>2, ForgottenIsGood DEF Connected
    <3>2. RequestGood(u)'
      BY <1>1, <2>1, <2>2 DEF RunGood, RequestGood, Answering
    <3> QED
      BY <3>1, <3>2 DEF RunGood
  <2>3. CASE pc'[u] = "committed" /\ tx'[u] = tx[u]
    <3>1. NewGood(u)' /\ GivenGood(u)' /\ SummaryGood(u)'
      BY <1>1, <2>3 DEF RunGood, NewGood, GivenGood, SummaryGood, Connected, Holding,
                        Prepared
    <3>2. RequestGood(u)'
      BY <1>1, <2>1, <2>3 DEF RunGood, RequestGood, Answering
    <3> QED
      BY <3>1, <3>2 DEF RunGood
  <2> QED
    BY <1>2, <2>2, <2>3, CommitFacts
<1>3. CASE u # r
  <2>1. /\ pc'[u] = pc[u] /\ tx'[u] = tx[u] /\ req'[u] = req[u] /\ sent'[u] = sent[u]
    BY <1>3, CommitFacts DEF OthersLeft
  <2>2. Holding(r) /\ Apart(u, r)
    BY <1>3, CommitFacts DEF IInv, Holding
  <2>3. NewGood(u)'
    <3>1. Connected(u) => Follow(tx[u].new, rows')
      BY <1>1, FollowStays DEF RunGood, NewGood
    <3>2. Holding(u) => Untaken(tx[u].new, rows')
      BY <1>1, <2>2 DEF RunGood, NewGood, Apart, Untaken
    <3>3. Prepared(u) => StoresAll(rows' \cup tx[u].new, req[u].units)
      <4>1. rows \cup tx[u].new \subseteq rows' \cup tx[u].new
        BY <1>1
      <4> QED
        BY <1>1, <4>1, StoresMore DEF RunGood, NewGood
    <3>4. /\ Connected(u)' = Connected(u) /\ Holding(u)' = Holding(u)
          /\ Prepared(u)' = Prepared(u)
      BY <2>1 DEF Connected, Holding, Prepared
    <3> QED
      BY <1>1, <2>1, <3>1, <3>2, <3>3, <3>4 DEF RunGood, NewGood, StoresAll
  <2>4. GivenGood(u)'
    BY <1>1, <2>1 DEF RunGood, GivenGood
  <2>5. SummaryGood(u)'
    <3>1. tx[u].count \in Nat
      BY DEF IInv, TypeOK, Transactions
    <3>2. Holding(u) /\ tx[u].summary => ~tx[r].summary
      BY <2>2 DEF Apart, Updates
    <3> QED
      BY <1>1, <2>1, <3>1, <3>2 DEF RunGood, SummaryGood, Connected, Holding
  <2>6. RequestGood(u)'
    <3>1. IsStored(u) => IsStored(u)'
      BY <1>1, StoredStays
    <3> QED
      BY <1>1, <2>1, <3>1 DEF RunGood, RequestGood, Answering
  <2> QED
    BY <2>3, <2>4, <2>5, <2>6 DEF RunGood
<1> QED
  BY <1>2, <1>3

LEMMA CommitKeeps ==
  ASSUME IInv, NEW r \in Runs, Commit(r)
  PROVE  IInv'
<1>1. ASSUME NEW u \in Runs, NEW v \in Runs, u # v PROVE Apart(u, v)'
  <2>1. CASE u = r \/ v = r
    <3>1. ~Holding(r)'
      BY CommitFacts DEF Holding
    <3> QED
      BY <2>1, <3>1 DEF Apart
  <2>2. CASE u # r /\ v # r
    <3>1. Apart(u, v)
      BY <1>1 DEF IInv
    <3> QED
      BY <2>2, <3>1, CommitFacts DEF OthersLeft, Apart, Holding, Updates
  <2> QED
    BY <2>1, <2>2
<1> QED
  BY <1>1, CommitKeepsTypes, CommitKeepsRows, CommitKeepsTurns, CommitKeepsRuns DEF IInv
-------------------------------------------------------------------------------
(***************************************************************************)
(* The invariant, and what follows from it.                                *)
(***************************************************************************)
(* The rows of a session of the past.                                      *)
LEMMA PastIsChained ==
  ASSUME NEW units \in Past
  PROVE  /\ Chained(Successors(units, {}, Before))
         /\ Successors(units, {}, Before) \subseteq RowRecords
         /\ \A x \in Successors(units, {}, Before) :
              x.text \in Storable /\ x.id[2] = 0 /\ x.id \in DOMAIN units
<1> DEFINE new == Successors(units, {}, Before)
<1>1. /\ units \in Units
      /\ \A i \in DOMAIN units : i[2] = 0 /\ units[i] \in Storable
  BY PastIsPast, OdooUnitsAreUnits
<1>2. PICK S \in SUBSET Ids : units \in [S -> Contents]
  BY <1>1 DEF Units, UnitsOf
<1>3. Chained({})
  BY DEF Chained, Numbered, OneRowEach, NoRepeats
<1>4. /\ Follow(new, {})
      /\ \A x \in new :
           /\ x = [id |-> x.id, rev |-> x.rev, text |-> units[x.id], by |-> Before]
           /\ x.id \in DOMAIN units /\ x.text = units[x.id]
  BY <1>3, SuccessorsFollow
<1> HIDE DEF new
<1>5. Chained({} \cup new)
  <2>1. Untaken(new, {})
    BY DEF Untaken
  <2> QED
    BY <1>3, <1>4, <2>1, CommitKeepsChained
<1>6. {} \cup new = new
  OBVIOUS
<1>7. ASSUME NEW x \in new PROVE x \in RowRecords
  <2>1. /\ x = [id |-> x.id, rev |-> x.rev, text |-> units[x.id], by |-> Before]
        /\ x.id \in Ids /\ units[x.id] \in Contents /\ x.rev \in Nat \ {0}
    BY <1>2, <1>4 DEF Follow
  <2> QED
    BY <2>1 DEF RowRecords
<1> QED
  BY <1>1, <1>4, <1>5, <1>6, <1>7 DEF new

LEMMA InitGood == Init => IInv
<1> SUFFICES ASSUME Init PROVE IInv
  OBVIOUS
<1>1. PICK units \in Past : /\ rows = Successors(units, {}, Before)
                            /\ baseline = (units # None)
  BY DEF Init
<1>2. /\ turns = {} /\ summaries = 0 /\ stops = 0
      /\ req = [r \in Runs |-> [mode |-> "baseline", units |-> None]]
      /\ sent = [r \in Runs |-> None]
      /\ pc = [r \in Runs |-> "new"] /\ tx = [r \in Runs |-> NoTx]
  BY DEF Init
<1>3. /\ Chained(rows) /\ rows \subseteq RowRecords
      /\ \A x \in rows : x.text \in Storable /\ x.id[2] = 0 /\ x.id \in DOMAIN units
  BY <1>1, PastIsChained
<1>4. stops \in 0 .. MaxStops
  BY <1>2, BoundsAreNaturals
<1>5. TypeOK
  BY <1>1, <1>2, <1>3, <1>4, NoTxTyped DEF TypeOK, Stages
<1>6. RowsGood
  <2>1. rows # {} => baseline
    <3>1. DOMAIN None = {}
      BY DEF None
    <3> QED
      BY <1>1, <1>3, <3>1
  <2> QED
    BY <1>2, <1>3, <2>1 DEF RowsGood
<1>7. TurnsGood
  <2>1. KeptSummaries = {} /\ 1 .. 0 = {}
    BY <1>2 DEF KeptSummaries
  <2> QED
    BY <1>2, <2>1, FS_EmptySet DEF TurnsGood, TurnsAreCounted, KeptSummaries
<1>8. ASSUME NEW r \in Runs PROVE RunGood(r)
  <2>1. /\ pc[r] = "new" /\ tx[r] = NoTx /\ req[r].units = None /\ sent[r] = None
        /\ DOMAIN None = {}
    BY <1>2 DEF None
  <2>2. NoTx.new = {} /\ NoTx.given = {} /\ NoTx.seen = {}
    BY DEF NoTx
  <2> QED
    BY <2>1, <2>2 DEF RunGood, NewGood, GivenGood, SummaryGood, RequestGood, Connected,
                      Holding, Prepared
<1>9. ASSUME NEW r \in Runs, NEW u \in Runs PROVE Apart(r, u)
  BY <1>2 DEF Apart, Holding
<1> QED
  BY <1>5, <1>6, <1>7, <1>8, <1>9 DEF IInv

LEMMA StutterKeeps ==
  ASSUME IInv, UNCHANGED vars
  PROVE  IInv'
<1>1. UNCHANGED <<rows, turns, baseline, summaries, req, sent, pc, tx, stops>>
  BY DEF vars
<1>2. TypeOK' /\ RowsGood' /\ TurnsGood'
  BY <1>1 DEF IInv, TypeOK, RowsGood, TurnsGood, TurnsAreCounted, KeptSummaries
<1>3. ASSUME NEW r \in Runs PROVE RunGood(r)'
  BY <1>1 DEF IInv, RunGood, NewGood, GivenGood, SummaryGood, RequestGood, Connected,
              Holding, Prepared, Answering, IsStored, HasTurn, StoresAll
<1>4. ASSUME NEW r \in Runs, NEW u \in Runs, r # u PROVE Apart(r, u)'
  BY <1>1, <1>4 DEF IInv, Apart, Holding, Updates
<1> QED
  BY <1>2, <1>3, <1>4 DEF IInv

LEMMA StepKeeps == IInv /\ [Next]_vars => IInv'
<1> SUFFICES ASSUME IInv, [Next]_vars PROVE IInv'
  OBVIOUS
<1>1. ASSUME NEW q \in Requests, Post(q) PROVE IInv'
  BY <1>1, PostKeeps
<1>2. ASSUME NEW r \in Runs, Begin(r) PROVE IInv'
  BY <1>2, BeginKeeps
<1>3. ASSUME NEW r \in Runs, Compare(r) PROVE IInv'
  BY <1>3, CompareKeeps
<1>4. ASSUME NEW r \in Runs, Summarize(r) \/ SummaryTimesOut(r) PROVE IInv'
  BY <1>4, SummarizeKeeps
<1>5. ASSUME NEW r \in Runs, Flush(r) PROVE IInv'
  BY <1>5, FlushKeeps
<1>6. ASSUME NEW r \in Runs, Retrieve(r) PROVE IInv'
  BY <1>6, RetrieveKeeps
<1>7. ASSUME NEW r \in Runs, Commit(r) PROVE IInv'
  BY <1>7, CommitKeeps
<1>8. ASSUME NEW r \in Runs, Save(r) PROVE IInv'
  BY <1>8, SaveKeeps
<1>9. ASSUME NEW r \in Runs, Record(r) PROVE IInv'
  BY <1>9, RecordKeeps
<1>10. ASSUME NEW r \in Runs, Finish(r) PROVE IInv'
  BY <1>10, FinishKeeps
<1>11. ASSUME NEW r \in Runs, Fails(r) PROVE IInv'
  BY <1>11, FailsKeeps
<1>12. ASSUME NEW r \in Runs, Interrupted(r) PROVE IInv'
  BY <1>12, InterruptedKeeps
<1>13. CASE UNCHANGED vars
  BY <1>13, StutterKeeps
<1> QED
  BY <1>1, <1>2, <1>3, <1>4, <1>5, <1>6, <1>7, <1>8, <1>9, <1>10, <1>11, <1>12, <1>13
     DEF Next, Proceed

(* Every state of a chatter session satisfies the invariant.               *)
THEOREM Invariance == Spec => []IInv
BY InitGood, StepKeeps, PTL DEF Spec

(* Rows, turns, requests and transactions stay well typed: in particular no*)
(* excerpt is deeper than the executions lost make it.                     *)
THEOREM TypesHold == Spec => []TypeOK
<1>1. IInv => TypeOK
  BY DEF IInv
<1> QED
  BY <1>1, Invariance, PTL

(* summary_revision counts the summaries kept, and no run records its      *)
(* message or its reply twice.                                             *)
THEOREM TurnsStayCounted == Spec => []TurnsAreCounted
<1>1. IInv => TurnsAreCounted
  BY DEF IInv, TurnsGood
<1> QED
  BY <1>1, Invariance, PTL

(* What a run is given of a source it sent is what the gate left of it, or *)
(* a revision it had not seen.                                             *)
THEOREM PreparationsAreCurrent == Spec => []GivenWhatWasSent
<1>1. IInv => GivenWhatWasSent
  <2> SUFFICES ASSUME IInv, NEW r \in Runs, NEW x \in tx[r].given,
                      x.id \in DOMAIN tx[r].units,
                      x.text # tx[r].units[x.id], x \in tx[r].seen
               PROVE  FALSE
    BY DEF GivenWhatWasSent
  <2>1. PICK y \in tx[r].new : y.id = x.id /\ y.rev = x.rev + 1
    BY DEF IInv, RunGood, GivenGood
  <2>2. y.rev <= x.rev
    BY <2>1 DEF IInv, RunGood, GivenGood
  <2>3. x.rev \in Nat
    BY DEF IInv, TypeOK, Transactions, RowRecords
  <2> QED
    BY <2>1, <2>2, <2>3
<1> QED
  BY <1>1, Invariance, PTL

(* A run that gets to its generation has its turn and every unit Odoo sent *)
(* in the history, however often its execution was lost.                   *)
THEOREM PreparedStaysStored == Spec => []PreparedIsStored
<1>1. IInv => PreparedIsStored
  BY DEF IInv, RunGood, RequestGood, IsStored, StoresAll, PreparedIsStored
<1> QED
  BY <1>1, Invariance, PTL

(***************************************************************************)
(* The refinement: a commit is a step of SessionMemory, everything else a  *)
(* stutter.                                                                *)
(***************************************************************************)
LEMMA MemoryInit == Init => Memory!Init
<1> SUFFICES ASSUME Init PROVE Memory!Init
  OBVIOUS
<1>1. IInv
  BY InitGood
<1>2. /\ Chained(rows) /\ (rows # {} => baseline)
      /\ \A x \in rows : x.text \in Storable
      /\ baseline \in BOOLEAN
  BY <1>1 DEF IInv, RowsGood, TypeOK
<1>3. ASSUME NEW i \in Ids
      PROVE  /\ TextsOf(rows, i) \in Seq({{t} : t \in Storable})
             /\ TextsOf(rows, i) # <<>> => baseline
  <2>1. PICK n \in Nat : RevsOf(rows, i) = 1 .. n
    BY <1>2, RevisionsOfAny DEF Chained
  <2>2. /\ TextsOf(rows, i) \in Seq({{t} : t \in Storable})
        /\ Len(TextsOf(rows, i)) = n
    BY <1>2, <2>1, TextsAreASequence
  <2>3. n > 0 => rows # {}
    BY <2>1 DEF RevsOf
  <2>4. n = 0 => TextsOf(rows, i) = <<>>
    BY <2>2, EmptySeq
  <2> QED
    BY <1>2, <2>2, <2>3, <2>4
<1> QED
  BY <1>2, <1>3 DEF Memory!Init

(* What a commit does to every source.                                     *)
LEMMA CommitStepsMemory ==
  ASSUME IInv, NEW r \in Runs, Commit(r)
  PROVE  Memory!Next
<1>1. /\ rows' = rows \cup tx[r].new /\ (baseline => baseline')
      /\ tx[r].new # {} => baseline'
      /\ Follow(tx[r].new, rows) /\ Untaken(tx[r].new, rows) /\ Chained(rows)
      /\ \A x \in tx[r].new : x.text \in Storable
  BY CommitFacts DEF IInv, RowsGood, RunGood, NewGood
<1>2. ASSUME NEW i \in Ids PROVE Memory!Kept(i) \/ Memory!Extended(i)
  <2>0. LeftOrExtended(rows, tx[r].new, i)
    BY <1>1, CommitExtends
  <2>1. \/ TextsOf(rows', i) = TextsOf(rows, i)
        \/ \E x \in tx[r].new :
             /\ x.id = i
             /\ TextsOf(rows', i) = Append(TextsOf(rows, i), {x.text})
             /\ TextsOf(rows, i) # <<>> =>
                  {x.text} # TextsOf(rows, i)[Len(TextsOf(rows, i))]
    BY <1>1, <2>0 DEF LeftOrExtended
  <2>2. CASE TextsOf(rows', i) = TextsOf(rows, i)
    BY <2>2 DEF Memory!Kept, TextsOf
  <2>3. ASSUME NEW x \in tx[r].new,
               TextsOf(rows', i) = Append(TextsOf(rows, i), {x.text}),
               TextsOf(rows, i) # <<>> =>
                 {x.text} # TextsOf(rows, i)[Len(TextsOf(rows, i))]
        PROVE  Memory!Extended(i)
    <3>1. {x.text} \in {{t} : t \in Storable} /\ baseline'
      BY <1>1
    <3> QED
      BY <1>1, <2>3, <3>1 DEF Memory!Extended, Memory!Last, TextsOf
  <2> QED
    BY <2>1, <2>2, <2>3
<1> QED
  BY <1>1, <1>2 DEF Memory!Next

LEMMA OthersStutter ==
  ASSUME [Next]_vars, ~\E r \in Runs : Commit(r)
  PROVE  UNCHANGED <<rows, baseline>>
BY DEF Next, Proceed, Post, Begin, Compare, Summarize, SummaryTimesOut, Flush,
       Retrieve, Save, Record, Finish, Fails, Interrupted, vars, memory

(* However preparations meet, fail or are repeated, a chatter session is a *)
(* memory that never forks, skips, repeats or forgets, and holds no text   *)
(* that the gate must withhold.                                            *)
THEOREM SessionIsAMemory == Spec => MemoryIsKept
<1>1. IInv /\ [Next]_vars =>
        [Memory!Next]_<<baseline, [i \in Ids |-> TextsOf(rows, i)]>>
  <2> SUFFICES ASSUME IInv, [Next]_vars
               PROVE  [Memory!Next]_<<baseline, [i \in Ids |-> TextsOf(rows, i)]>>
    OBVIOUS
  <2>1. ASSUME NEW r \in Runs, Commit(r) PROVE Memory!Next
    BY <2>1, CommitStepsMemory
  <2>2. CASE ~\E r \in Runs : Commit(r)
    BY <2>2, OthersStutter DEF TextsOf
  <2> QED
    BY <2>1, <2>2
<1> QED
  BY <1>1, MemoryInit, Invariance, PTL DEF Spec, MemoryIsKept, Memory!Spec
===============================================================================
