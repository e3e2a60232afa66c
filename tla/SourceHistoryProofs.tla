-------------------------- MODULE SourceHistoryProofs --------------------------
(***************************************************************************)
(* What the two session stores rely on when they extend a history: lemmas  *)
(* about the operators of SourceHistory, for any rows and units.           *)
(***************************************************************************)
EXTENDS SourceHistory, SequenceTheorems, TLAPS

RevsOf(S, i) == {x.rev : x \in {y \in S : y.id = i}}

(* The revisions of every source are 1 .. n, one row each, and no text is  *)
(* that of the revision before.                                            *)
Numbered(S) == \A i \in {x.id : x \in S} : \E n \in Nat : RevsOf(S, i) = 1 .. n
OneRowEach(S) == \A x, y \in S : SameKey(x, y) => x = y
NoRepeats(S) ==
  \A x, y \in S : x.id = y.id /\ y.rev = x.rev + 1 => x.text # y.text
Chained(S) == Numbered(S) /\ OneRowEach(S) /\ NoRepeats(S)

(* Rows that may come next: one for a source, the first or the successor   *)
(* of a row that is there and has another text.                            *)
Follow(new, S) ==
  /\ \A x, y \in new : x.id = y.id => x = y
  /\ \A x \in new :
       /\ x.rev \in Nat \ {0}
       /\ x.rev > 1 => \E y \in S : /\ y.id = x.id /\ y.rev = x.rev - 1
                                    /\ y.text # x.text

(* No key of new is taken in S.                                            *)
Untaken(new, S) == \A x \in new, y \in S : ~SameKey(x, y)
-----------------------------------------------------------------------------
(* The revisions of any source, of one without rows too, are 1 .. n.       *)
LEMMA RevisionsOfAny ==
  ASSUME NEW S, Numbered(S), NEW i
  PROVE  \E n \in Nat : RevsOf(S, i) = 1 .. n
<1>1. CASE i \in {x.id : x \in S}
  BY <1>1 DEF Numbered
<1>2. CASE i \notin {x.id : x \in S}
  <2>1. RevsOf(S, i) = {}
    BY <1>2 DEF RevsOf
  <2>2. 1 .. 0 = {}
    OBVIOUS
  <2> QED
    BY <2>1, <2>2
<1> QED
  BY <1>1, <1>2

(* The revision of a source is the largest there is.                       *)
LEMMA RevisionIsTheLast ==
  ASSUME NEW S, NEW i, NEW n \in Nat, RevsOf(S, i) = 1 .. n
  PROVE  Revision(S, i) = n
<1> DEFINE R == {0} \cup RevsOf(S, i)
<1>1. R = 0 .. n
  OBVIOUS
<1>2. n \in R /\ \A y \in R : n >= y
  BY <1>1
<1>3. \A x \in R : (\A y \in R : x >= y) => x = n
  BY <1>1
<1>4. Max(R) = n
  <2> HIDE DEF R
  <2> QED
    BY <1>2, <1>3 DEF Max
<1> QED
  BY <1>4 DEF Revision, RevsOf

(* In a chained history the current row of a source is the one of its      *)
(* last revision, and there is one if there is any row.                    *)
LEMMA CurrentIsTheLast ==
  ASSUME NEW S, Chained(S), NEW i, NEW n \in Nat, RevsOf(S, i) = 1 .. n
  PROVE  /\ \A x \in Current(S) : x.id = i => x.rev = n
         /\ \A x, y \in Current(S) : x.id = i /\ y.id = i => x = y
         /\ n > 0 => \E x \in Current(S) : x.id = i /\ x.rev = n
<1>1. \A x \in S : x.id = i => x.rev \in 1 .. n
  BY DEF RevsOf
<1>2. n > 0 => \E x \in S : x.id = i /\ x.rev = n
  BY DEF RevsOf
<1>3. \A x \in Current(S) : x.id = i => x.rev = n
  BY <1>1, <1>2 DEF Current
<1>4. \A x, y \in Current(S) : x.id = i /\ y.id = i => x = y
  BY <1>3 DEF Current, Chained, OneRowEach, SameKey
<1>5. n > 0 => \E x \in Current(S) : x.id = i /\ x.rev = n
  BY <1>1, <1>2 DEF Current
<1> QED
  BY <1>3, <1>4, <1>5

(* What a call adds has the sources and texts it was sent, and may come    *)
(* next in the history it compared them with.                              *)
LEMMA SuccessorsFollow ==
  ASSUME NEW S, Chained(S), NEW units, NEW c
  PROVE  /\ Follow(Successors(units, S, c), S)
         /\ \A x \in Successors(units, S, c) :
              /\ x = [id |-> x.id, rev |-> x.rev, text |-> units[x.id], by |-> c]
              /\ x.id \in DOMAIN units /\ x.text = units[x.id] /\ x.by = c
<1> DEFINE new == Successors(units, S, c)
<1>1. ASSUME NEW x \in new
      PROVE  /\ x = [id |-> x.id, rev |-> x.rev, text |-> units[x.id], by |-> c]
             /\ x.id \in Changed(units, S) /\ x.text = units[x.id] /\ x.by = c
             /\ x.rev = Revision(S, x.id) + 1
  BY DEF Successors
<1>2. \A x, y \in new : x.id = y.id => x = y
  <2> HIDE DEF new
  <2> QED
    BY <1>1
<1>3. ASSUME NEW x \in new
      PROVE  /\ x.rev \in Nat \ {0}
             /\ x.rev > 1 => \E y \in S : /\ y.id = x.id /\ y.rev = x.rev - 1
                                          /\ y.text # x.text
  <2>1. PICK n \in Nat : RevsOf(S, x.id) = 1 .. n
    BY RevisionsOfAny DEF Chained
  <2>2. x.rev = n + 1
    BY <1>1, <2>1, RevisionIsTheLast
  <2>3. CASE n > 0
    <3>1. PICK y \in Current(S) : y.id = x.id /\ y.rev = n
      BY <2>1, <2>3, CurrentIsTheLast
    <3>2. y \in S /\ y.text # x.text
      BY <1>1, <3>1 DEF Changed, Current
    <3> QED
      BY <2>2, <3>1, <3>2
  <2> QED
    BY <2>2, <2>3
<1>4. Changed(units, S) \subseteq DOMAIN units
  BY DEF Changed
<1> HIDE DEF new
<1> QED
  BY <1>1, <1>2, <1>3, <1>4 DEF Follow, new

(* A current row of a source that was sent with another text gets a        *)
(* successor.                                                              *)
LEMMA OtherTextIsSucceeded ==
  ASSUME NEW S, Chained(S), NEW units, NEW c, NEW x \in Current(S),
         x.id \in DOMAIN units, x.text # units[x.id]
  PROVE  \E y \in Successors(units, S, c) : y.id = x.id /\ y.rev = x.rev + 1
<1>1. PICK n \in Nat : RevsOf(S, x.id) = 1 .. n
  BY RevisionsOfAny DEF Chained
<1>2. x.rev = n /\ \A z \in Current(S) : z.id = x.id => z = x
  BY <1>1, CurrentIsTheLast
<1>3. x.id \in Changed(units, S)
  BY <1>2 DEF Changed
<1>4. Revision(S, x.id) = n
  BY <1>1, RevisionIsTheLast
<1> DEFINE y == [id |-> x.id, rev |-> Revision(S, x.id) + 1,
                 text |-> units[x.id], by |-> c]
<1>5. y \in Successors(units, S, c)
  BY <1>3 DEF Successors
<1>6. y.id = x.id /\ y.rev = x.rev + 1
  BY <1>2, <1>4
<1> QED
  BY <1>5, <1>6

(* What may come next stays so while the history grows.                    *)
LEMMA FollowStays ==
  ASSUME NEW S, NEW T, S \subseteq T, NEW new, Follow(new, S)
  PROVE  Follow(new, T)
BY DEF Follow

(* A row that comes next and whose key is not taken is the first after the *)
(* last.                                                                   *)
LEMMA NextIsNext ==
  ASSUME NEW S, Chained(S), NEW new, Follow(new, S), Untaken(new, S),
         NEW x \in new, NEW n \in Nat, RevsOf(S, x.id) = 1 .. n
  PROVE  x.rev = n + 1
<1>1. x.rev \in Nat \ {0} /\ (x.rev > 1 => x.rev - 1 \in RevsOf(S, x.id))
  BY DEF Follow, RevsOf
<1>2. x.rev \notin RevsOf(S, x.id)
  BY DEF Untaken, SameKey, RevsOf
<1> QED
  BY <1>1, <1>2

LEMMA RevisionsOfUnion ==
  ASSUME NEW S, NEW T, NEW i
  PROVE  RevsOf(S \cup T, i) = RevsOf(S, i) \cup RevsOf(T, i)
BY DEF RevsOf

(* A commit keeps the history chained if no key it adds was taken.         *)
LEMMA CommitKeepsChained ==
  ASSUME NEW S, Chained(S), NEW new, Follow(new, S), Untaken(new, S)
  PROVE  Chained(S \cup new)
<1> DEFINE T == S \cup new
<1>1. Numbered(T)
  <2> SUFFICES ASSUME NEW z \in T PROVE \E n \in Nat : RevsOf(T, z.id) = 1 .. n
    BY DEF Numbered
  <2>1. PICK n \in Nat : RevsOf(S, z.id) = 1 .. n
    BY RevisionsOfAny DEF Chained
  <2>2. CASE \E x \in new : x.id = z.id
    <3>1. PICK x \in new : x.id = z.id
      BY <2>2
    <3>2. x.rev = n + 1
      BY <2>1, <3>1, NextIsNext
    <3>3. RevsOf(new, z.id) = {n + 1}
      BY <3>1, <3>2 DEF Follow, RevsOf
    <3>4. RevsOf(T, z.id) = RevsOf(S, z.id) \cup RevsOf(new, z.id)
      BY RevisionsOfUnion
    <3>5. (1 .. n) \cup {n + 1} = 1 .. (n + 1) /\ n + 1 \in Nat
      OBVIOUS
    <3> QED
      BY <2>1, <3>3, <3>4, <3>5
  <2>3. CASE ~\E x \in new : x.id = z.id
    <3>1. RevsOf(new, z.id) = {}
      BY <2>3 DEF RevsOf
    <3>2. RevsOf(T, z.id) = RevsOf(S, z.id) \cup RevsOf(new, z.id)
      BY RevisionsOfUnion
    <3> QED
      BY <2>1, <3>1, <3>2
  <2> QED
    BY <2>2, <2>3
<1>2. OneRowEach(T)
  BY DEF Chained, OneRowEach, Untaken, Follow, SameKey
<1>3. NoRepeats(T)
  <2> SUFFICES ASSUME NEW x \in T, NEW y \in T, x.id = y.id, y.rev = x.rev + 1
               PROVE  x.text # y.text
    BY DEF NoRepeats
  <2>1. PICK n \in Nat : RevsOf(S, x.id) = 1 .. n
    BY RevisionsOfAny DEF Chained
  <2>2. \A z \in S : z.id = x.id => z.rev \in 1 .. n
    BY <2>1 DEF RevsOf
  <2>3. \A z \in new : z.id = x.id => z.rev = n + 1
    BY <2>1, NextIsNext
  <2>4. CASE y \in S
    BY <2>2, <2>3, <2>4 DEF Chained, NoRepeats
  <2>5. CASE y \in new
    <3>1. y.rev = n + 1 /\ x.rev = n /\ x \in S
      BY <2>2, <2>3, <2>5
    <3>2. PICK z \in S : z.id = y.id /\ z.rev = y.rev - 1 /\ z.text # y.text
      BY <2>2, <2>5, <3>1 DEF Follow
    <3>3. z = x
      BY <3>1, <3>2 DEF Chained, OneRowEach, SameKey
    <3> QED
      BY <3>2, <3>3
  <2> QED
    BY <2>4, <2>5
<1> QED
  BY <1>1, <1>2, <1>3 DEF Chained
-----------------------------------------------------------------------------
(* Function application in TextsOf, where a row stands for its text.       *)
LEMMA TextsAt ==
  ASSUME NEW S, Chained(S), NEW i, NEW x \in S, x.id = i
  PROVE  x.rev \in DOMAIN TextsOf(S, i) /\ TextsOf(S, i)[x.rev] = {x.text}
<1>1. x.rev \in DOMAIN TextsOf(S, i)
  BY DEF TextsOf
<1>2. {y \in S : y.id = i /\ y.rev = x.rev} = {x}
  BY DEF Chained, OneRowEach, SameKey
<1>3. TextsOf(S, i)[x.rev] = {y.text : y \in {z \in S : z.id = i /\ z.rev = x.rev}}
  BY <1>1 DEF TextsOf
<1> QED
  BY <1>1, <1>2, <1>3

(* The texts of a source in a chained history are a sequence of singletons.*)
LEMMA TextsAreASequence ==
  ASSUME NEW S, Chained(S), NEW T, \A x \in S : x.text \in T, NEW i,
         NEW n \in Nat, RevsOf(S, i) = 1 .. n
  PROVE  /\ TextsOf(S, i) \in Seq({{t} : t \in T})
         /\ Len(TextsOf(S, i)) = n
<1> DEFINE h == TextsOf(S, i)
           C == {{t} : t \in T}
<1>1. h = [k \in DOMAIN h |-> h[k]] /\ DOMAIN h = 1 .. n
  BY DEF TextsOf, RevsOf
<1>2. ASSUME NEW k \in 1 .. n PROVE h[k] \in C
  <2>1. PICK x \in S : x.id = i /\ x.rev = k
    BY DEF RevsOf
  <2>2. h[k] = {x.text}
    BY <2>1, TextsAt
  <2>3. {x.text} \in C
    OBVIOUS
  <2> QED
    BY <2>2, <2>3
<1> HIDE DEF h, C
<1>3. h \in [1 .. n -> C]
  BY <1>1, <1>2
<1>4. h \in Seq(C) /\ Len(h) = n
  BY <1>3
<1> QED
  BY <1>4 DEF h, C

(* The texts of a source are left, or one is appended that is not the last.*)
LeftOrExtended(S, new, i) ==
  LET h == TextsOf(S, i)
  IN  \/ TextsOf(S \cup new, i) = h
      \/ \E x \in new : /\ x.id = i
                        /\ TextsOf(S \cup new, i) = Append(h, {x.text})
                        /\ h # <<>> => {x.text} # h[Len(h)]

(* A commit does that to every source, if no key it adds was taken.        *)
LEMMA CommitExtends ==
  ASSUME NEW S, Chained(S), NEW new, Follow(new, S), Untaken(new, S), NEW i
  PROVE  LeftOrExtended(S, new, i)
<1> DEFINE U == S \cup new
           T == {x.text : x \in U}
           h == TextsOf(S, i)
           C == {{t} : t \in T}
<1>1. PICK n \in Nat : RevsOf(S, i) = 1 .. n
  BY RevisionsOfAny DEF Chained
<1>2. Chained(U)
  BY CommitKeepsChained
<1>3. CASE ~\E x \in new : x.id = i
  <2>1. \A k : {y \in U : y.id = i /\ y.rev = k} = {y \in S : y.id = i /\ y.rev = k}
    BY <1>3
  <2>2. {y \in U : y.id = i} = {y \in S : y.id = i}
    BY <1>3
  <2>3. TextsOf(U, i) = TextsOf(S, i)
    BY <2>1, <2>2 DEF TextsOf
  <2> QED
    BY <2>3 DEF LeftOrExtended
<1>4. ASSUME NEW x \in new, x.id = i PROVE LeftOrExtended(S, new, i)
  <2>1. x.rev = n + 1
    BY <1>1, <1>4, NextIsNext
  <2>2. h \in Seq(C) /\ Len(h) = n
    <3>1. \A y \in S : y.text \in T
      OBVIOUS
    <3> HIDE DEF T
    <3> QED
      BY <1>1, <3>1, TextsAreASequence
  <2>3. RevsOf(U, i) = 1 .. (n + 1)
    <3>1. RevsOf(new, i) = {n + 1}
      BY <1>4, <2>1 DEF RevsOf, Follow
    <3>2. RevsOf(U, i) = RevsOf(S, i) \cup RevsOf(new, i)
      BY RevisionsOfUnion
    <3>3. (1 .. n) \cup {n + 1} = 1 .. (n + 1)
      OBVIOUS
    <3> QED
      BY <1>1, <3>1, <3>2, <3>3
  <2>4. TextsOf(U, i) \in Seq(C) /\ Len(TextsOf(U, i)) = n + 1
    <3>1. n + 1 \in Nat /\ \A y \in U : y.text \in T
      OBVIOUS
    <3> HIDE DEF U, T
    <3> QED
      BY <1>2, <2>3, <3>1, TextsAreASequence
  <2>5. ASSUME NEW k \in 1 .. n
        PROVE  \E y \in S : /\ y.id = i /\ y.rev = k
                            /\ h[k] = {y.text} /\ TextsOf(U, i)[k] = {y.text}
    <3>1. PICK y \in S : y.id = i /\ y.rev = k
      BY <1>1 DEF RevsOf
    <3> QED
      BY <1>2, <3>1, TextsAt
  <2>6. TextsOf(U, i)[n + 1] = {x.text} /\ {x.text} \in C
    <3>1. x \in U
      OBVIOUS
    <3>2. {x.text} \in C
      OBVIOUS
    <3> HIDE DEF U, T, C
    <3> QED
      BY <1>2, <1>4, <2>1, <3>1, <3>2, TextsAt
  <2>7. h # <<>> => {x.text} # h[n]
    <3>1. SUFFICES ASSUME h # <<>> PROVE {x.text} # h[n]
      OBVIOUS
    <3>2. n \in 1 .. n
      BY <2>2, <3>1, EmptySeq
    <3>3. PICK y \in S : y.id = i /\ y.rev = n /\ h[n] = {y.text}
      BY <2>5, <3>2
    <3>4. PICK z \in S : z.id = i /\ z.rev = n /\ z.text # x.text
      BY <1>4, <2>1, <3>2 DEF Follow
    <3>5. z = y
      BY <3>3, <3>4 DEF Chained, OneRowEach, SameKey
    <3> QED
      BY <3>3, <3>4, <3>5
  <2> HIDE DEF h, C, U, T
  <2>8. /\ Append(h, {x.text}) \in Seq(C)
        /\ Len(Append(h, {x.text})) = n + 1
        /\ \A k \in 1 .. n : Append(h, {x.text})[k] = h[k]
        /\ Append(h, {x.text})[n + 1] = {x.text}
    BY <2>2, <2>6, AppendProperties
  <2>9. \A k \in 1 .. (n + 1) : TextsOf(U, i)[k] = Append(h, {x.text})[k]
    <3>1. \A k \in 1 .. (n + 1) : k \in 1 .. n \/ k = n + 1
      OBVIOUS
    <3>2. \A k \in 1 .. n : TextsOf(U, i)[k] = h[k]
      BY <2>5
    <3> QED
      BY <2>6, <2>8, <3>1, <3>2
  <2>10. TextsOf(U, i) = Append(h, {x.text})
    BY <2>4, <2>8, <2>9, SeqEqual
  <2> QED
    BY <1>4, <2>2, <2>7, <2>10 DEF LeftOrExtended, h, U
<1> QED
  BY <1>3, <1>4
===============================================================================
