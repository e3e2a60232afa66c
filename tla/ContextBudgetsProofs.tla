-------------------------- MODULE ContextBudgetsProofs --------------------------
(***************************************************************************)
(* Proofs about ContextBudgets, for any sources, texts, sizes, orders,     *)
(* providers and budgets.                                                  *)
(***************************************************************************)
EXTENDS ContextBudgets, SequenceTheorems, FiniteSetTheorems, TLAPS

(***************************************************************************)
(* Folds.  FoldLeft is a function on the subsets of 1 .. n that takes the  *)
(* greatest element off; on the sets 1 .. i it is a loop.                  *)
(***************************************************************************)
(* Induction over 0 .. n, for a set instead of a predicate: the least      *)
(* counterexample is not there.                                            *)
LEMMA Climb ==
  ASSUME NEW n \in Nat, NEW A, 0 \in A,
         \A i \in 1 .. n : i - 1 \in A => i \in A
  PROVE  \A i \in 0 .. n : i \in A
<1> DEFINE R == OpToRel(<, Nat)
           B == {i \in 0 .. n : i \notin A}
<1>1. SUFFICES ASSUME B # {} PROVE FALSE
  OBVIOUS
<1>2. IsWellFoundedOn(R, Nat)
  BY NatLessThanWellFounded
<1>3. PICK i \in B : \A j \in B : ~(<<j, i>> \in R)
  <2> HIDE DEF R
  <2>1. B \subseteq Nat
    OBVIOUS
  <2> HIDE DEF B
  <2> QED
    BY <1>1, <1>2, <2>1, WFMin
<1>4. i \in 1 .. n /\ i - 1 \in 0 .. n
  <2>1. i \in 0 .. n /\ i \notin A
    BY <1>3
  <2>2. i # 0
    BY <2>1
  <2> QED
    BY <2>1, <2>2
<1>5. i - 1 \notin B
  <2>1. i - 1 \in Nat /\ i \in Nat /\ i - 1 < i
    BY <1>4
  <2>2. <<i - 1, i>> \in R
    BY <2>1 DEF OpToRel
  <2> QED
    BY <1>3, <2>2
<1> QED
  BY <1>3, <1>4, <1>5

(* Max is the greatest of a set of positions.                              *)
LEMMA Greatest ==
  ASSUME NEW n \in Nat, NEW s \in SUBSET (1 .. n), s # {}
  PROVE  Max(s) \in s /\ \A y \in s : y <= Max(s)
<1> DEFINE A == {m \in 0 .. n : \A t \in SUBSET (1 .. m) :
                   t # {} => \E x \in t : \A y \in t : x >= y}
<1>1. 0 \in A
  <2>1. \A t \in SUBSET (1 .. 0) : t = {}
    OBVIOUS
  <2> HIDE DEF A
  <2>2. \A t \in SUBSET (1 .. 0) : t # {} => \E x \in t : \A y \in t : x >= y
    BY <2>1
  <2> QED
    BY <2>2 DEF A
<1>2. ASSUME NEW m \in 1 .. n, m - 1 \in A PROVE m \in A
  <2> SUFFICES ASSUME NEW t \in SUBSET (1 .. m), t # {}
               PROVE  \E x \in t : \A y \in t : x >= y
    BY <1>2
  <2>1. CASE m \in t
    BY <2>1
  <2>2. CASE m \notin t
    <3>1. t \in SUBSET (1 .. (m - 1))
      BY <2>2
    <3> QED
      BY <1>2, <3>1
  <2> QED
    BY <2>1, <2>2
<1>3. n \in A
  <2> HIDE DEF A
  <2> QED
    BY <1>1, <1>2, Climb
<1>4. \E x \in s : \A y \in s : x >= y
  BY <1>3
<1>5. Max(s) \in s /\ \A y \in s : Max(s) >= y
  BY <1>4 DEF Max
<1> QED
  BY <1>5

(* What FoldLeft takes off the positions 1 .. i.                           *)
LEMMA GreatestOfPrefix ==
  ASSUME NEW i \in Nat, i # 0
  PROVE  Max(1 .. i) = i /\ (1 .. i) \ {i} = 1 .. (i - 1)
<1>1. 1 .. i \in SUBSET (1 .. i) /\ 1 .. i # {}
  OBVIOUS
<1>2. Max(1 .. i) \in 1 .. i /\ \A y \in 1 .. i : y <= Max(1 .. i)
  BY <1>1, Greatest
<1> QED
  BY <1>2

(* A fold of n steps on S, and the loop it is on the sets 1 .. i.           *)
IsFold(g, n, S, base, step) ==
  /\ g \in [SUBSET (1 .. n) -> S]
  /\ \A s \in SUBSET (1 .. n) :
       g[s] = IF s = {} THEN base ELSE step[Max(s)][g[s \ {Max(s)}]]
Descends(h, n, S, base, step) ==
  /\ h[{}] = base
  /\ \A i \in 1 .. n : h[1 .. (i - 1)] \in S => h[1 .. i] = step[i][h[1 .. (i - 1)]]
IsLoop(f, n, S, base, step, result) ==
  /\ f \in [0 .. n -> S] /\ f[0] = base /\ f[n] = result
  /\ \A i \in 1 .. n : f[i] = step[i][f[i - 1]]

(* A fold of a total step is there.                                        *)
LEMMA FoldIsThere ==
  ASSUME NEW n \in Nat, NEW S, NEW base \in S, NEW step \in [1 .. n -> [S -> S]]
  PROVE  \E g : IsFold(g, n, S, base, step)
<1> DEFINE Good(m) ==
      \E g \in [SUBSET (1 .. m) -> S] :
        \A s \in SUBSET (1 .. m) :
          g[s] = IF s = {} THEN base ELSE step[Max(s)][g[s \ {Max(s)}]]
    A == {m \in 0 .. n : Good(m)}
<1>1. 0 \in A
  <2> DEFINE g == [s \in SUBSET (1 .. 0) |-> base]
  <2>1. g \in [SUBSET (1 .. 0) -> S]
    OBVIOUS
  <2>2. \A s \in SUBSET (1 .. 0) : s = {} /\ g[s] = base
    OBVIOUS
  <2> HIDE DEF g
  <2>3. Good(0)
    BY <2>1, <2>2
  <2> HIDE DEF Good
  <2> QED
    BY <2>3
<1>2. ASSUME NEW m \in 1 .. n, m - 1 \in A PROVE m \in A
  <2>1. PICK g \in [SUBSET (1 .. (m - 1)) -> S] :
          \A s \in SUBSET (1 .. (m - 1)) :
            g[s] = IF s = {} THEN base ELSE step[Max(s)][g[s \ {Max(s)}]]
    BY <1>2
  <2>2. \A s \in SUBSET (1 .. m) : s \ {m} \in SUBSET (1 .. (m - 1))
    OBVIOUS
  <2>3. \A s \in SUBSET (1 .. m) : m \notin s => s \in SUBSET (1 .. (m - 1))
    OBVIOUS
  <2> DEFINE h == [s \in SUBSET (1 .. m) |->
                     IF m \in s THEN step[m][g[s \ {m}]] ELSE g[s]]
  <2>4. h \in [SUBSET (1 .. m) -> S]
    <3> SUFFICES ASSUME NEW s \in SUBSET (1 .. m)
                 PROVE  (IF m \in s THEN step[m][g[s \ {m}]] ELSE g[s]) \in S
      OBVIOUS
    <3>1. g[s \ {m}] \in S /\ m \in 1 .. n
      BY <2>2
    <3>2. m \notin s => g[s] \in S
      BY <2>3
    <3> QED
      BY <3>1, <3>2
  <2>5. ASSUME NEW s \in SUBSET (1 .. m)
        PROVE  h[s] = IF s = {} THEN base ELSE step[Max(s)][h[s \ {Max(s)}]]
    <3>1. CASE m \in s
      <4>1. Max(s) = m
        <5>1. m \in Nat /\ s # {}
          BY <3>1
        <5>2. Max(s) \in s /\ \A y \in s : y <= Max(s)
          BY <5>1, Greatest
        <5>3. Max(s) \in 1 .. m /\ m <= Max(s)
          BY <3>1, <5>2
        <5> QED
          BY <5>3
      <4>2. h[s] = step[m][g[s \ {m}]] /\ s # {}
        BY <3>1
      <4>3. h[s \ {m}] = g[s \ {m}]
        <5>1. s \ {m} \in SUBSET (1 .. m) /\ m \notin s \ {m}
          OBVIOUS
        <5> QED
          BY <5>1
      <4> HIDE DEF h
      <4> QED
        BY <4>1, <4>2, <4>3
    <3>2. CASE m \notin s
      <4>1. h[s] = g[s] /\ s \in SUBSET (1 .. (m - 1))
        BY <2>3, <3>2
      <4>2. h[s \ {Max(s)}] = g[s \ {Max(s)}]
        <5>1. s \ {Max(s)} \in SUBSET (1 .. m) /\ m \notin s \ {Max(s)}
          BY <3>2
        <5> QED
          BY <5>1
      <4> HIDE DEF h
      <4> QED
        BY <2>1, <4>1, <4>2
    <3> QED
      BY <3>1, <3>2
  <2> HIDE DEF h
  <2>6. Good(m)
    BY <2>4, <2>5
  <2> HIDE DEF Good
  <2> QED
    BY <2>6
<1>3. n \in A
  <2> HIDE DEF A
  <2>1. \A m \in 0 .. n : m \in A
    BY <1>1, <1>2, Climb
  <2> QED
    BY <2>1
<1> QED
  BY <1>3 DEF IsFold

(* What it is on the sets 1 .. i is a loop.                                *)
LEMMA FoldIsLoop ==
  ASSUME NEW n \in Nat, NEW S, NEW base \in S, NEW step \in [1 .. n -> [S -> S]],
         NEW h, Descends(h, n, S, base, step)
  PROVE  \E f : IsLoop(f, n, S, base, step, h[1 .. n])
<1> DEFINE A == {i \in 0 .. n : h[1 .. i] \in S}
           f == [i \in 0 .. n |-> h[1 .. i]]
<1> USE DEF Descends
<1>1. 0 \in A
  <2>1. 1 .. 0 = {}
    OBVIOUS
  <2> QED
    BY <2>1
<1>2. ASSUME NEW i \in 1 .. n, i - 1 \in A PROVE i \in A
  <2>1. h[1 .. (i - 1)] \in S
    BY <1>2
  <2>2. h[1 .. i] = step[i][h[1 .. (i - 1)]]
    BY <2>1
  <2>3. step[i] \in [S -> S]
    OBVIOUS
  <2>4. h[1 .. i] \in S
    BY <2>1, <2>2, <2>3
  <2> QED
    BY <2>4
<1>3. \A i \in 0 .. n : i \in A
  <2> HIDE DEF A
  <2> QED
    BY <1>1, <1>2, Climb
<1>4. f \in [0 .. n -> S]
  BY <1>3
<1>5. f[0] = base /\ f[n] = h[1 .. n]
  <2>1. 1 .. 0 = {}
    OBVIOUS
  <2> QED
    BY <2>1
<1>6. \A i \in 1 .. n : f[i] = step[i][f[i - 1]]
  BY <1>3
<1> HIDE DEF f
<1> QED
  BY <1>4, <1>5, <1>6 DEF IsLoop
-----------------------------------------------------------------------------
(***************************************************************************)
(* The loops of the model.                                                 *)
(***************************************************************************)
(* The loop of Sum.                                                        *)
Adds(f, s) ==
  /\ f \in [0 .. Len(s) -> Nat]
  /\ f[0] = 0 /\ f[Len(s)] = Sum(s)
  /\ \A i \in 1 .. Len(s) : f[i] = f[i - 1] + s[i]
LEMMA SumLoop ==
  ASSUME NEW s \in Seq(Nat)
  PROVE  \E f : Adds(f, s)
<1> DEFINE n == Len(s)
           step == [i \in 1 .. n |-> [a \in Nat |-> a + s[i]]]
           Folds(h) == h = [t \in SUBSET (1 .. n) |->
                              IF t = {} THEN 0 ELSE h[t \ {Max(t)}] + s[Max(t)]]
<1>0. n \in Nat /\ DOMAIN s = 1 .. n /\ 0 \in Nat
  OBVIOUS
<1>1. step \in [1 .. n -> [Nat -> Nat]]
  OBVIOUS
<1>2. \A i \in 1 .. n, a \in Nat : step[i][a] = a + s[i]
  OBVIOUS
<1> HIDE DEF step, n
<1>3. \E h : Folds(h)
  <2>1. PICK g : IsFold(g, n, Nat, 0, step)
    BY <1>0, <1>1, FoldIsThere
  <2>2. \A t \in SUBSET (1 .. n) :
          t # {} => Max(t) \in 1 .. n /\ t \ {Max(t)} \in SUBSET (1 .. n)
    BY <1>0, Greatest
  <2>3. \A t \in SUBSET (1 .. n) :
          g[t] = IF t = {} THEN 0 ELSE g[t \ {Max(t)}] + s[Max(t)]
    BY <1>2, <2>1, <2>2 DEF IsFold
  <2> QED
    BY <2>1, <2>3 DEF IsFold
<1> DEFINE h == CHOOSE h : Folds(h)
<1>4. Folds(h)
  BY <1>3
<1>5. Sum(s) = h[1 .. n]
  BY <1>0 DEF Sum, FoldLeft, MapThenFoldSet
<1> HIDE DEF h
<1>6. h[{}] = 0
  BY <1>4
<1>7. \A i \in 1 .. n : h[1 .. i] = h[1 .. (i - 1)] + s[i]
  <2> TAKE i \in 1 .. n
  <2>1. Max(1 .. i) = i /\ (1 .. i) \ {i} = 1 .. (i - 1)
    BY GreatestOfPrefix
  <2>2. 1 .. i \in SUBSET (1 .. n) /\ 1 \in 1 .. i
    BY <1>0
  <2> QED
    BY <1>4, <2>1, <2>2
<1>8. PICK f : IsLoop(f, n, Nat, 0, step, h[1 .. n])
  <2>1. \A i \in 1 .. n :
          h[1 .. (i - 1)] \in Nat => h[1 .. i] = step[i][h[1 .. (i - 1)]]
    BY <1>2, <1>7
  <2>2. Descends(h, n, Nat, 0, step)
    BY <1>6, <2>1 DEF Descends
  <2> QED
    BY <1>0, <1>1, <2>2, FoldIsLoop
<1>9. \A i \in 1 .. n : f[i] = f[i - 1] + s[i]
  <2> TAKE i \in 1 .. n
  <2>1. i - 1 \in 0 .. n
    BY <1>0
  <2>2. f[i - 1] \in Nat
    BY <1>8, <2>1 DEF IsLoop
  <2> QED
    BY <1>2, <1>8, <2>2 DEF IsLoop
<1> QED
  BY <1>5, <1>8, <1>9 DEF Adds, n, IsLoop

Keeps(f, S, s, A) ==
  /\ f \in [0 .. Len(s) -> S]
  /\ f[0] = <<>> /\ f[Len(s)] = Those(s, A)
  /\ \A i \in 1 .. Len(s) : f[i] = Keep(f[i - 1], s[i], A)
(* Of Those.                                                               *)
LEMMA ThoseLoop ==
  ASSUME NEW T, NEW s \in Seq(T), NEW A,
         NEW S, <<>> \in S,
         \A a \in S, i \in 1 .. Len(s) : Keep(a, s[i], A) \in S
  PROVE  \E f : Keeps(f, S, s, A)
<1> DEFINE n == Len(s)
           step == [i \in 1 .. n |-> [a \in S |-> Keep(a, s[i], A)]]
           Folds(h) == h = [t \in SUBSET (1 .. n) |->
                              IF t = {} THEN <<>>
                              ELSE Keep(h[t \ {Max(t)}], s[Max(t)], A)]
<1>0. n \in Nat /\ DOMAIN s = 1 .. n
  OBVIOUS
<1>1. step \in [1 .. n -> [S -> S]]
  OBVIOUS
<1>2. \A i \in 1 .. n, a \in S : step[i][a] = Keep(a, s[i], A)
  OBVIOUS
<1> HIDE DEF step, n
<1>3. \E h : Folds(h)
  <2>1. PICK g : IsFold(g, n, S, <<>>, step)
    BY <1>0, <1>1, FoldIsThere
  <2>2. \A t \in SUBSET (1 .. n) :
          t # {} => Max(t) \in 1 .. n /\ t \ {Max(t)} \in SUBSET (1 .. n)
    BY <1>0, Greatest
  <2>3. ASSUME NEW t \in SUBSET (1 .. n), t # {}
        PROVE  g[t] = Keep(g[t \ {Max(t)}], s[Max(t)], A)
    <3>1. Max(t) \in 1 .. n /\ g[t \ {Max(t)}] \in S
      BY <2>1, <2>2, <2>3 DEF IsFold
    <3>2. g[t] = step[Max(t)][g[t \ {Max(t)}]]
      BY <2>1, <2>3 DEF IsFold
    <3> QED
      BY <1>2, <3>1, <3>2
  <2> QED
    BY <2>1, <2>3 DEF IsFold
<1> DEFINE h == CHOOSE h : Folds(h)
<1>4. Folds(h)
  BY <1>3
<1>5. Those(s, A) = h[1 .. n]
  BY <1>0 DEF Those, FoldLeft, MapThenFoldSet
<1> HIDE DEF h
<1>6. Descends(h, n, S, <<>>, step)
  <2>1. h[{}] = <<>>
    BY <1>4
  <2>2. ASSUME NEW i \in 1 .. n, h[1 .. (i - 1)] \in S
        PROVE  h[1 .. i] = step[i][h[1 .. (i - 1)]]
    <3>1. Max(1 .. i) = i /\ (1 .. i) \ {i} = 1 .. (i - 1)
      BY GreatestOfPrefix
    <3>2. 1 .. i \in SUBSET (1 .. n) /\ 1 \in 1 .. i
      BY <1>0
    <3>3. h[1 .. i] = Keep(h[1 .. (i - 1)], s[i], A)
      BY <1>4, <3>1, <3>2
    <3> QED
      BY <1>2, <2>2, <3>3
  <2> QED
    BY <2>1, <2>2 DEF Descends
<1>7. PICK f : IsLoop(f, n, S, <<>>, step, h[1 .. n])
  BY <1>0, <1>1, <1>6, FoldIsLoop
<1>8. \A i \in 1 .. n : f[i] = Keep(f[i - 1], s[i], A)
  <2> TAKE i \in 1 .. n
  <2>1. i - 1 \in 0 .. n
    BY <1>0
  <2>2. f[i - 1] \in S
    BY <1>7, <2>1 DEF IsLoop
  <2> QED
    BY <1>2, <1>7, <2>2 DEF IsLoop
<1> QED
  BY <1>5, <1>7, <1>8 DEF Keeps, n, IsLoop

Takes(f, S, us, from) ==
  /\ f \in [0 .. Len(from) -> S]
  /\ f[0] = us /\ f[Len(from)] = Taken(us, from)
  /\ \A i \in 1 .. Len(from) : f[i] = Take(f[i - 1], from[i])
(* Of Taken.                                                               *)
LEMMA TakenLoop ==
  ASSUME NEW T, NEW from \in Seq(T), NEW us,
         NEW S, us \in S,
         \A a \in S, i \in 1 .. Len(from) : Take(a, from[i]) \in S
  PROVE  \E f : Takes(f, S, us, from)
<1> DEFINE n == Len(from)
           step == [i \in 1 .. n |-> [a \in S |-> Take(a, from[i])]]
           Folds(h) == h = [t \in SUBSET (1 .. n) |->
                              IF t = {} THEN us
                              ELSE Take(h[t \ {Max(t)}], from[Max(t)])]
<1>0. n \in Nat /\ DOMAIN from = 1 .. n
  OBVIOUS
<1>1. step \in [1 .. n -> [S -> S]]
  OBVIOUS
<1>2. \A i \in 1 .. n, a \in S : step[i][a] = Take(a, from[i])
  OBVIOUS
<1> HIDE DEF step, n
<1>3. \E h : Folds(h)
  <2>1. PICK g : IsFold(g, n, S, us, step)
    BY <1>0, <1>1, FoldIsThere
  <2>2. \A t \in SUBSET (1 .. n) :
          t # {} => Max(t) \in 1 .. n /\ t \ {Max(t)} \in SUBSET (1 .. n)
    BY <1>0, Greatest
  <2>3. ASSUME NEW t \in SUBSET (1 .. n), t # {}
        PROVE  g[t] = Take(g[t \ {Max(t)}], from[Max(t)])
    <3>1. Max(t) \in 1 .. n /\ g[t \ {Max(t)}] \in S
      BY <2>1, <2>2, <2>3 DEF IsFold
    <3>2. g[t] = step[Max(t)][g[t \ {Max(t)}]]
      BY <2>1, <2>3 DEF IsFold
    <3> QED
      BY <1>2, <3>1, <3>2
  <2> QED
    BY <2>1, <2>3 DEF IsFold
<1> DEFINE h == CHOOSE h : Folds(h)
<1>4. Folds(h)
  BY <1>3
<1>5. Taken(us, from) = h[1 .. n]
  BY <1>0 DEF Taken, FoldLeft, MapThenFoldSet
<1> HIDE DEF h
<1>6. Descends(h, n, S, us, step)
  <2>1. h[{}] = us
    BY <1>4
  <2>2. ASSUME NEW i \in 1 .. n, h[1 .. (i - 1)] \in S
        PROVE  h[1 .. i] = step[i][h[1 .. (i - 1)]]
    <3>1. Max(1 .. i) = i /\ (1 .. i) \ {i} = 1 .. (i - 1)
      BY GreatestOfPrefix
    <3>2. 1 .. i \in SUBSET (1 .. n) /\ 1 \in 1 .. i
      BY <1>0
    <3>3. h[1 .. i] = Take(h[1 .. (i - 1)], from[i])
      BY <1>4, <3>1, <3>2
    <3> QED
      BY <1>2, <2>2, <3>3
  <2> QED
    BY <2>1, <2>2 DEF Descends
<1>7. PICK f : IsLoop(f, n, S, us, step, h[1 .. n])
  BY <1>0, <1>1, <1>6, FoldIsLoop
<1>8. \A i \in 1 .. n : f[i] = Take(f[i - 1], from[i])
  <2> TAKE i \in 1 .. n
  <2>1. i - 1 \in 0 .. n
    BY <1>0
  <2>2. f[i - 1] \in S
    BY <1>7, <2>1 DEF IsLoop
  <2> QED
    BY <1>2, <1>7, <2>2 DEF IsLoop
<1> QED
  BY <1>5, <1>7, <1>8 DEF Takes, n, IsLoop

Places(f, S, r, us, budget) ==
  /\ f \in [0 .. Len(us) -> S]
  /\ f[0] = r /\ f[Len(us)] = Placed(r, us, budget)
  /\ \A i \in 1 .. Len(us) : f[i] = Place(f[i - 1], us[i], budget)
(* Of Placed.                                                              *)
LEMMA PlacedLoop ==
  ASSUME NEW T, NEW us \in Seq(T), NEW r, NEW budget,
         NEW S, r \in S,
         \A a \in S, i \in 1 .. Len(us) : Place(a, us[i], budget) \in S
  PROVE  \E f : Places(f, S, r, us, budget)
<1> DEFINE n == Len(us)
           step == [i \in 1 .. n |-> [a \in S |-> Place(a, us[i], budget)]]
           Folds(h) == h = [t \in SUBSET (1 .. n) |->
                              IF t = {} THEN r
                              ELSE Place(h[t \ {Max(t)}], us[Max(t)], budget)]
<1>0. n \in Nat /\ DOMAIN us = 1 .. n
  OBVIOUS
<1>1. step \in [1 .. n -> [S -> S]]
  OBVIOUS
<1>2. \A i \in 1 .. n, a \in S : step[i][a] = Place(a, us[i], budget)
  OBVIOUS
<1> HIDE DEF step, n
<1>3. \E h : Folds(h)
  <2>1. PICK g : IsFold(g, n, S, r, step)
    BY <1>0, <1>1, FoldIsThere
  <2>2. \A t \in SUBSET (1 .. n) :
          t # {} => Max(t) \in 1 .. n /\ t \ {Max(t)} \in SUBSET (1 .. n)
    BY <1>0, Greatest
  <2>3. ASSUME NEW t \in SUBSET (1 .. n), t # {}
        PROVE  g[t] = Place(g[t \ {Max(t)}], us[Max(t)], budget)
    <3>1. Max(t) \in 1 .. n /\ g[t \ {Max(t)}] \in S
      BY <2>1, <2>2, <2>3 DEF IsFold
    <3>2. g[t] = step[Max(t)][g[t \ {Max(t)}]]
      BY <2>1, <2>3 DEF IsFold
    <3> QED
      BY <1>2, <3>1, <3>2
  <2> QED
    BY <2>1, <2>3 DEF IsFold
<1> DEFINE h == CHOOSE h : Folds(h)
<1>4. Folds(h)
  BY <1>3
<1>5. Placed(r, us, budget) = h[1 .. n]
  BY <1>0 DEF Placed, FoldLeft, MapThenFoldSet
<1> HIDE DEF h
<1>6. Descends(h, n, S, r, step)
  <2>1. h[{}] = r
    BY <1>4
  <2>2. ASSUME NEW i \in 1 .. n, h[1 .. (i - 1)] \in S
        PROVE  h[1 .. i] = step[i][h[1 .. (i - 1)]]
    <3>1. Max(1 .. i) = i /\ (1 .. i) \ {i} = 1 .. (i - 1)
      BY GreatestOfPrefix
    <3>2. 1 .. i \in SUBSET (1 .. n) /\ 1 \in 1 .. i
      BY <1>0
    <3>3. h[1 .. i] = Place(h[1 .. (i - 1)], us[i], budget)
      BY <1>4, <3>1, <3>2
    <3> QED
      BY <1>2, <2>2, <3>3
  <2> QED
    BY <2>1, <2>2 DEF Descends
<1>7. PICK f : IsLoop(f, n, S, r, step, h[1 .. n])
  BY <1>0, <1>1, <1>6, FoldIsLoop
<1>8. \A i \in 1 .. n : f[i] = Place(f[i - 1], us[i], budget)
  <2> TAKE i \in 1 .. n
  <2>1. i - 1 \in 0 .. n
    BY <1>0
  <2>2. f[i - 1] \in S
    BY <1>7, <2>1 DEF IsLoop
  <2> QED
    BY <1>2, <1>7, <2>2 DEF IsLoop
<1> QED
  BY <1>5, <1>7, <1>8 DEF Places, n, IsLoop

Inserts(f, S) ==
  /\ f \in [0 .. Len(Contexts) -> S]
  /\ f[0] = <<>> /\ f[Len(Contexts)] = LargestFirst
  /\ \A i \in 1 .. Len(Contexts) : f[i] = Inserted(f[i - 1], Contexts[i])
(* Of the providers' sort.                                                 *)
LEMMA InsertedLoop ==
  ASSUME Contexts \in Seq(Nat),
         NEW S, <<>> \in S,
         \A a \in S, i \in 1 .. Len(Contexts) : Inserted(a, Contexts[i]) \in S
  PROVE  \E f : Inserts(f, S)
<1> DEFINE n == Len(Contexts)
           step == [i \in 1 .. n |-> [a \in S |-> Inserted(a, Contexts[i])]]
           Folds(h) == h = [t \in SUBSET (1 .. n) |->
                              IF t = {} THEN <<>>
                              ELSE Inserted(h[t \ {Max(t)}], Contexts[Max(t)])]
<1>0. n \in Nat /\ DOMAIN Contexts = 1 .. n
  OBVIOUS
<1>1. step \in [1 .. n -> [S -> S]]
  OBVIOUS
<1>2. \A i \in 1 .. n, a \in S : step[i][a] = Inserted(a, Contexts[i])
  OBVIOUS
<1> HIDE DEF step, n
<1>3. \E h : Folds(h)
  <2>1. PICK g : IsFold(g, n, S, <<>>, step)
    BY <1>0, <1>1, FoldIsThere
  <2>2. \A t \in SUBSET (1 .. n) :
          t # {} => Max(t) \in 1 .. n /\ t \ {Max(t)} \in SUBSET (1 .. n)
    BY <1>0, Greatest
  <2>3. ASSUME NEW t \in SUBSET (1 .. n), t # {}
        PROVE  g[t] = Inserted(g[t \ {Max(t)}], Contexts[Max(t)])
    <3>1. Max(t) \in 1 .. n /\ g[t \ {Max(t)}] \in S
      BY <2>1, <2>2, <2>3 DEF IsFold
    <3>2. g[t] = step[Max(t)][g[t \ {Max(t)}]]
      BY <2>1, <2>3 DEF IsFold
    <3> QED
      BY <1>2, <3>1, <3>2
  <2> QED
    BY <2>1, <2>3 DEF IsFold
<1> DEFINE h == CHOOSE h : Folds(h)
<1>4. Folds(h)
  BY <1>3
<1>5. LargestFirst = h[1 .. n]
  BY <1>0 DEF LargestFirst, FoldLeft, MapThenFoldSet
<1> HIDE DEF h
<1>6. Descends(h, n, S, <<>>, step)
  <2>1. h[{}] = <<>>
    BY <1>4
  <2>2. ASSUME NEW i \in 1 .. n, h[1 .. (i - 1)] \in S
        PROVE  h[1 .. i] = step[i][h[1 .. (i - 1)]]
    <3>1. Max(1 .. i) = i /\ (1 .. i) \ {i} = 1 .. (i - 1)
      BY GreatestOfPrefix
    <3>2. 1 .. i \in SUBSET (1 .. n) /\ 1 \in 1 .. i
      BY <1>0
    <3>3. h[1 .. i] = Inserted(h[1 .. (i - 1)], Contexts[i])
      BY <1>4, <3>1, <3>2
    <3> QED
      BY <1>2, <2>2, <3>3
  <2> QED
    BY <2>1, <2>2 DEF Descends
<1>7. PICK f : IsLoop(f, n, S, <<>>, step, h[1 .. n])
  BY <1>0, <1>1, <1>6, FoldIsLoop
<1>8. \A i \in 1 .. n : f[i] = Inserted(f[i - 1], Contexts[i])
  <2> TAKE i \in 1 .. n
  <2>1. i - 1 \in 0 .. n
    BY <1>0
  <2>2. f[i - 1] \in S
    BY <1>7, <2>1 DEF IsLoop
  <2> QED
    BY <1>2, <1>7, <2>2 DEF IsLoop
<1> QED
  BY <1>5, <1>7, <1>8 DEF Inserts, n, IsLoop

CutsOff(f, S, words) ==
  /\ f \in [0 .. Len(Rounds(words)) -> S]
  /\ f[0] = Uncut(words) /\ f[Len(Rounds(words))] = AllCut(words)
  /\ \A i \in 1 .. Len(Rounds(words)) : f[i] = CutOff(f[i - 1])
(* Of AllCut.                                                              *)
LEMMA CuttingLoop ==
  ASSUME NEW words, Rounds(words) \in Seq(Nat),
         NEW S, Uncut(words) \in S,
         \A a \in S, i \in 1 .. Len(Rounds(words)) : CutOff(a) \in S
  PROVE  \E f : CutsOff(f, S, words)
<1> DEFINE n == Len(Rounds(words))
           step == [i \in 1 .. n |-> [a \in S |-> CutOff(a)]]
           Folds(h) == h = [t \in SUBSET (1 .. n) |->
                              IF t = {} THEN Uncut(words)
                              ELSE CutOff(h[t \ {Max(t)}])]
<1>0. n \in Nat /\ DOMAIN Rounds(words) = 1 .. n
  OBVIOUS
<1>1. step \in [1 .. n -> [S -> S]]
  OBVIOUS
<1>2. \A i \in 1 .. n, a \in S : step[i][a] = CutOff(a)
  OBVIOUS
<1> HIDE DEF step, n
<1>3. \E h : Folds(h)
  <2>1. PICK g : IsFold(g, n, S, Uncut(words), step)
    BY <1>0, <1>1, FoldIsThere
  <2>2. \A t \in SUBSET (1 .. n) :
          t # {} => Max(t) \in 1 .. n /\ t \ {Max(t)} \in SUBSET (1 .. n)
    BY <1>0, Greatest
  <2>3. ASSUME NEW t \in SUBSET (1 .. n), t # {}
        PROVE  g[t] = CutOff(g[t \ {Max(t)}])
    <3>1. Max(t) \in 1 .. n /\ g[t \ {Max(t)}] \in S
      BY <2>1, <2>2, <2>3 DEF IsFold
    <3>2. g[t] = step[Max(t)][g[t \ {Max(t)}]]
      BY <2>1, <2>3 DEF IsFold
    <3> QED
      BY <1>2, <3>1, <3>2
  <2> QED
    BY <2>1, <2>3 DEF IsFold
<1> DEFINE h == CHOOSE h : Folds(h)
<1>4. Folds(h)
  BY <1>3
<1>5. AllCut(words) = h[1 .. n]
  BY <1>0 DEF AllCut, FoldLeft, MapThenFoldSet
<1> HIDE DEF h
<1>6. Descends(h, n, S, Uncut(words), step)
  <2>1. h[{}] = Uncut(words)
    BY <1>4
  <2>2. ASSUME NEW i \in 1 .. n, h[1 .. (i - 1)] \in S
        PROVE  h[1 .. i] = step[i][h[1 .. (i - 1)]]
    <3>1. Max(1 .. i) = i /\ (1 .. i) \ {i} = 1 .. (i - 1)
      BY GreatestOfPrefix
    <3>2. 1 .. i \in SUBSET (1 .. n) /\ 1 \in 1 .. i
      BY <1>0
    <3>3. h[1 .. i] = CutOff(h[1 .. (i - 1)])
      BY <1>4, <3>1, <3>2
    <3> QED
      BY <1>2, <2>2, <3>3
  <2> QED
    BY <2>1, <2>2 DEF Descends
<1>7. PICK f : IsLoop(f, n, S, Uncut(words), step, h[1 .. n])
  BY <1>0, <1>1, <1>6, FoldIsLoop
<1>8. \A i \in 1 .. n : f[i] = CutOff(f[i - 1])
  <2> TAKE i \in 1 .. n
  <2>1. i - 1 \in 0 .. n
    BY <1>0
  <2>2. f[i - 1] \in S
    BY <1>7, <2>1 DEF IsLoop
  <2> QED
    BY <1>2, <1>7, <2>2 DEF IsLoop
<1> QED
  BY <1>5, <1>7, <1>8 DEF CutsOff, n, IsLoop
-----------------------------------------------------------------------------
(***************************************************************************)
(* Types.                                                                  *)
(***************************************************************************)
Words == Seq(Nat \ {0})
SomeWords == Words \ {<<>>}
Units == [src : Sources \cup {Turn}, index : Nat, text : Nat]

LEMMA SumIsNat == ASSUME NEW s \in Seq(Nat) PROVE Sum(s) \in Nat
<1>1. PICK f : Adds(f, s)
  BY SumLoop
<1>2. Len(s) \in 0 .. Len(s)
  OBVIOUS
<1> QED
  BY <1>1, <1>2 DEF Adds

LEMMA WordsAreNaturals == \A words \in Words : words \in Seq(Nat)
BY DEF Words

LEMMA BytesIsNat == ASSUME NEW words \in SomeWords PROVE Bytes(words) \in Nat
<1>1. words \in Seq(Nat) /\ Len(words) \in Nat \ {0}
  BY WordsAreNaturals, EmptySeq DEF SomeWords, Words
<1>2. Sum(words) \in Nat
  BY <1>1, SumIsNat
<1> QED
  BY <1>1, <1>2 DEF Bytes

LEMMA ThoseAre ==
  ASSUME NEW T, NEW s \in Seq(T), NEW A
  PROVE  Those(s, A) \in Seq(T \cap A)
<1> DEFINE S == Seq(T \cap A)
<1>1. <<>> \in S
  OBVIOUS
<1>2. \A a \in S, i \in 1 .. Len(s) : Keep(a, s[i], A) \in S
  <2> TAKE a \in S, i \in 1 .. Len(s)
  <2>1. s[i] \in T
    BY ElementOfSeq
  <2>2. s[i] \in A => Append(a, s[i]) \in S
    BY <2>1
  <2> QED
    BY <2>2 DEF Keep
<1>3. PICK f : Keeps(f, S, s, A)
  <2> HIDE DEF S
  <2> QED
    BY <1>1, <1>2, ThoseLoop
<1>4. Len(s) \in 0 .. Len(s)
  OBVIOUS
<1> QED
  BY <1>3, <1>4 DEF Keeps

(* The split of a text is one of its spaces.                               *)
LEMMA SplitsInside ==
  ASSUME NEW words \in Words, Splits(words) # {}
  PROVE  /\ Max(Splits(words)) \in 1 .. (Len(words) - 1)
         /\ Max(Splits(words)) \in Splits(words)
<1>1. Splits(words) \in SUBSET (1 .. (Len(words) - 1))
  BY DEF Splits
<1>2. Len(words) - 1 \in Nat
  <2>1. 1 .. (Len(words) - 1) # {}
    BY <1>1
  <2>2. Len(words) \in Nat
    BY DEF Words
  <2> QED
    BY <2>1, <2>2
<1>3. Max(Splits(words)) \in Splits(words)
  BY <1>1, <1>2, Greatest
<1> QED
  BY <1>1, <1>3

LEMMA FirstChunkTyped ==
  ASSUME NEW words \in SomeWords
  PROVE  FirstChunk(words) \in SomeWords
<1>1. words \in Words
  BY DEF SomeWords
<1>2. CASE Splits(words) = {}
  <2>1. FirstChunk(words) = <<ChunkBytes>>
    BY <1>2 DEF FirstChunk
  <2>2. ChunkBytes \in Nat \ {0}
    BY SizesAreNaturals
  <2> QED
    BY <2>1, <2>2 DEF SomeWords, Words
<1>3. CASE Splits(words) # {}
  <2>1. PICK m \in 1 .. (Len(words) - 1) : m = Max(Splits(words))
    BY <1>1, <1>3, SplitsInside
  <2>2. FirstChunk(words) = SubSeq(words, 1, m)
    BY <1>3, <2>1 DEF FirstChunk
  <2>3. SubSeq(words, 1, m) \in Words /\ Len(SubSeq(words, 1, m)) = m
    BY <1>1, <2>1, SubSeqProperties DEF Words
  <2>4. m # 0
    BY <2>1
  <2> QED
    BY <2>2, <2>3, <2>4 DEF SomeWords
<1> QED
  BY <1>2, <1>3

LEMMA RemainingTyped ==
  ASSUME NEW words \in SomeWords
  PROVE  Remaining(words) \in Words
<1>1. words \in Words /\ words # <<>>
  BY DEF SomeWords
<1>2. CASE Splits(words) = {}
  <2> DEFINE r == RestOf(Head(words))
  <2>1. Those(<<r>>, Nat \ {0}) \in Seq({r} \cap (Nat \ {0}))
    <3>1. <<r>> \in Seq({r})
      OBVIOUS
    <3> QED
      BY <3>1, ThoseAre
  <2>2. Those(<<r>>, Nat \ {0}) \in Words
    BY <2>1, SeqMonotonic DEF Words
  <2>3. Tail(words) \in Words
    BY <1>1, HeadTailProperties DEF Words
  <2>4. Remaining(words) = Those(<<r>>, Nat \ {0}) \o Tail(words)
    BY <1>2 DEF Remaining
  <2> QED
    BY <2>2, <2>3, <2>4, ConcatProperties DEF Words
<1>3. CASE Splits(words) # {}
  <2>1. PICK m \in 1 .. (Len(words) - 1) : m = Max(Splits(words))
    BY <1>1, <1>3, SplitsInside
  <2>2. Remaining(words) = SubSeq(words, m + 1, Len(words))
    BY <1>3, <2>1 DEF Remaining
  <2> QED
    BY <1>1, <2>1, <2>2, SubSeqProperties DEF Words
<1> QED
  BY <1>2, <1>3

Cuts == [chunks : Seq(SomeWords), rest : Words]

LEMMA CutOffTyped == ASSUME NEW r \in Cuts PROVE CutOff(r) \in Cuts
<1>1. r.chunks \in Seq(SomeWords) /\ r.rest \in Words
  BY DEF Cuts
<1>2. r.rest # <<>> => r.rest \in SomeWords
  BY <1>1 DEF SomeWords
<1>3. <<>> \in Words
  BY DEF Words
<1>4. r.rest # <<>> => FirstChunk(r.rest) \in SomeWords /\ Remaining(r.rest) \in Words
  BY <1>2, FirstChunkTyped, RemainingTyped
<1>5. \A c \in SomeWords : Append(r.chunks, c) \in Seq(SomeWords)
  BY <1>1
<1> QED
  BY <1>1, <1>2, <1>3, <1>4, <1>5 DEF CutOff, Cuts

LEMMA RoundsTyped ==
  ASSUME NEW words \in Words
  PROVE  /\ Len(words) + Sum(words) \div ChunkBytes \in Nat
         /\ Rounds(words) \in Seq(Nat)
         /\ Len(Rounds(words)) = Len(words) + Sum(words) \div ChunkBytes
<1>1. Sum(words) \in Nat /\ Len(words) \in Nat
  BY WordsAreNaturals, SumIsNat DEF Words
<1>2. ChunkBytes \in Nat \ {0}
  BY SizesAreNaturals
<1>3. Sum(words) \div ChunkBytes \in Nat
  BY <1>1, <1>2
<1> DEFINE n == Len(words) + Sum(words) \div ChunkBytes
<1>4. n \in Nat
  BY <1>1, <1>3
<1>5. Rounds(words) = [i \in 1 .. n |-> i]
  BY DEF Rounds
<1> HIDE DEF n
<1>6. Rounds(words) \in [1 .. n -> Nat]
  BY <1>4, <1>5
<1>7. Rounds(words) \in Seq(Nat) /\ Len(Rounds(words)) = n
  BY <1>4, <1>6, IsASeq, LenProperties
<1> QED
  BY <1>4, <1>7 DEF n

LEMMA ChunkedTyped == ASSUME NEW words \in Words PROVE Chunked(words) \in Seq(SomeWords)
<1>1. Uncut(words) \in Cuts
  BY DEF Uncut, Cuts
<1>2. Rounds(words) \in Seq(Nat)
  BY RoundsTyped
<1>3. PICK f : CutsOff(f, Cuts, words)
  BY <1>1, <1>2, CutOffTyped, CuttingLoop
<1>4. Len(Rounds(words)) \in 0 .. Len(Rounds(words))
  BY <1>2
<1>5. AllCut(words) \in Cuts
  BY <1>3, <1>4 DEF CutsOff
<1> QED
  BY <1>5 DEF Chunked, Cuts
-----------------------------------------------------------------------------
(***************************************************************************)
(* Retrieval.                                                              *)
(***************************************************************************)
(* A loop of a total step is there.                                        *)
LEMMA LoopIsThere ==
  ASSUME NEW n \in Nat, NEW S, NEW base \in S, NEW step \in [1 .. n -> [S -> S]]
  PROVE  \E f, result : IsLoop(f, n, S, base, step, result)
<1>1. PICK g : IsFold(g, n, S, base, step)
  BY FoldIsThere
<1>2. g[{}] = base
  <2>1. {} \in SUBSET (1 .. n)
    OBVIOUS
  <2> QED
    BY <1>1, <2>1 DEF IsFold
<1>3. ASSUME NEW i \in 1 .. n PROVE g[1 .. i] = step[i][g[1 .. (i - 1)]]
  <2>1. Max(1 .. i) = i /\ (1 .. i) \ {i} = 1 .. (i - 1)
    BY GreatestOfPrefix
  <2>2. 1 .. i \in SUBSET (1 .. n) /\ 1 \in 1 .. i
    OBVIOUS
  <2> QED
    BY <1>1, <2>1, <2>2 DEF IsFold
<1>4. Descends(g, n, S, base, step)
  BY <1>2, <1>3 DEF Descends
<1> QED
  BY <1>4, FoldIsLoop

Flattens(f, T, seqs) ==
  /\ f \in [0 .. Len(seqs) -> Seq(T)]
  /\ f[0] = <<>> /\ f[Len(seqs)] = FlattenSeq(seqs)
  /\ \A i \in 1 .. Len(seqs) : f[i] = f[i - 1] \o seqs[i]
LEMMA FlattenLoop ==
  ASSUME NEW T, NEW seqs \in Seq(Seq(T))
  PROVE  \E f : Flattens(f, T, seqs)
<1> DEFINE n == Len(seqs)
           S == Seq(T)
           step == [i \in 1 .. n |-> [a \in S |-> a \o seqs[i]]]
           Unrolls(h) == h = [i \in 1 .. n |->
                                 IF i = 1 THEN seqs[i] ELSE h[i - 1] \o seqs[i]]
<1>0. n \in Nat /\ <<>> \in S /\ \A i \in 1 .. n : seqs[i] \in S
  BY ElementOfSeq
<1>1. step \in [1 .. n -> [S -> S]]
  BY <1>0, ConcatProperties
<1>2. \A i \in 1 .. n, a \in S : step[i][a] = a \o seqs[i]
  OBVIOUS
<1> HIDE DEF step, n, S
<1>3. PICK f, result : IsLoop(f, n, S, <<>>, step, result)
  BY <1>0, <1>1, LoopIsThere
<1>4. f \in [0 .. n -> S] /\ f[0] = <<>>
  BY <1>3 DEF IsLoop
<1>5. ASSUME NEW i \in 1 .. n PROVE f[i] = f[i - 1] \o seqs[i]
  <2>1. i - 1 \in 0 .. n
    BY <1>0
  <2> QED
    BY <1>2, <1>3, <1>4, <2>1 DEF IsLoop
<1>6. 1 \in 1 .. n => f[1] = seqs[1]
  <2> SUFFICES ASSUME 1 \in 1 .. n PROVE f[1] = seqs[1]
    OBVIOUS
  <2>0. 1 - 1 = 0
    OBVIOUS
  <2>1. f[1] = <<>> \o seqs[1]
    <3>1. f[1] = f[1 - 1] \o seqs[1]
      BY <1>5
    <3> QED
      BY <1>4, <2>0, <3>1
  <2>2. seqs[1] \in Seq(T)
    BY <1>0 DEF S
  <2> QED
    BY <2>1, <2>2, ConcatEmptySeq
<1>7. CASE n = 0
  <2>1. seqs = <<>>
    BY <1>7, EmptySeq DEF n
  <2>2. FlattenSeq(seqs) = <<>>
    BY <1>7, <2>1 DEF FlattenSeq, n
  <2> QED
    BY <1>4, <1>5, <1>7, <2>2 DEF Flattens, n, S
<1>8. CASE n # 0
  <2>1. Unrolls([i \in 1 .. n |-> f[i]])
    <3> DEFINE g == [i \in 1 .. n |-> f[i]]
    <3>1. ASSUME NEW i \in 1 .. n
          PROVE  g[i] = IF i = 1 THEN seqs[i] ELSE g[i - 1] \o seqs[i]
      <4>1. CASE i = 1
        BY <1>6, <4>1
      <4>2. CASE i # 1
        <5>1. i - 1 \in 1 .. n
          BY <1>0, <4>2
        <5> QED
          BY <1>5, <4>2, <5>1
      <4> QED
        BY <4>1, <4>2
    <3>2. g = [i \in 1 .. n |-> g[i]]
      OBVIOUS
    <3> HIDE DEF g
    <3>3. Unrolls(g)
      BY <3>1, <3>2
    <3> QED
      BY <3>3 DEF g
  <2> DEFINE h == CHOOSE h : Unrolls(h)
  <2>2. Unrolls(h)
    BY <2>1
  <2>3. FlattenSeq(seqs) = h[n]
    BY <1>8 DEF FlattenSeq, n
  <2> HIDE DEF h
  <2>4. \A i \in 0 .. n : i \in {j \in 0 .. n : j # 0 => h[j] = f[j]}
    <3> DEFINE A == {j \in 0 .. n : j # 0 => h[j] = f[j]}
    <3>1. 0 \in A
      BY <1>0
    <3>2. ASSUME NEW i \in 1 .. n, i - 1 \in A PROVE i \in A
      <4>1. h[i] = IF i = 1 THEN seqs[i] ELSE h[i - 1] \o seqs[i]
        BY <2>2
      <4>2. i # 1 => h[i - 1] = f[i - 1]
        BY <3>2
      <4>3. h[i] = f[i]
        BY <1>5, <1>6, <4>1, <4>2
      <4> QED
        BY <4>3
    <3> HIDE DEF A
    <3>3. \A i \in 0 .. n : i \in A
      BY <1>0, <3>1, <3>2, Climb
    <3> QED
      BY <3>3 DEF A
  <2>5. f[n] = FlattenSeq(seqs)
    BY <1>0, <1>8, <2>3, <2>4
  <2> QED
    BY <1>4, <1>5, <2>5 DEF Flattens, n, S
<1> QED
  BY <1>7, <1>8
LEMMA FlattenTyped ==
  ASSUME NEW T, NEW seqs \in Seq(Seq(T))
  PROVE  FlattenSeq(seqs) \in Seq(T)
<1>1. PICK f : Flattens(f, T, seqs)
  BY FlattenLoop
<1>2. Len(seqs) \in 0 .. Len(seqs)
  OBVIOUS
<1> QED
  BY <1>1, <1>2 DEF Flattens

ChunksTyped == chunks \in [Sources -> Seq(SomeWords)]

(* The most chunks of a source among some.                                 *)
Lengths(order) == {0} \cup {Len(chunks[s]) : s \in ToSet(order)}
LEMMA LongestIsLongest ==
  ASSUME ChunksTyped, NEW order \in Seq(Sources)
  PROVE  /\ Max(Lengths(order)) \in Nat
         /\ \A i \in 1 .. Len(order) : Len(chunks[order[i]]) <= Max(Lengths(order))
<1> DEFINE n == Len(order)
           Some(m) == {0} \cup {Len(chunks[order[i]]) : i \in 1 .. m}
           A == {m \in 0 .. n : \E x \in Some(m) : \A y \in Some(m) : x >= y}
<1>0. n \in Nat /\ \A i \in 1 .. n : Len(chunks[order[i]]) \in Nat
  <2>1. \A i \in 1 .. n : order[i] \in Sources
    BY ElementOfSeq
  <2> QED
    BY <2>1, LenProperties DEF ChunksTyped
<1>1. 0 \in A
  <2>1. Some(0) = {0}
    OBVIOUS
  <2> QED
    BY <1>0, <2>1
<1>2. ASSUME NEW m \in 1 .. n, m - 1 \in A PROVE m \in A
  <2>1. PICK x \in Some(m - 1) : \A y \in Some(m - 1) : x >= y
    BY <1>2
  <2> DEFINE z == Len(chunks[order[m]])
  <2>2. Some(m) = Some(m - 1) \cup {z}
    <3>1. 1 .. m = 1 .. (m - 1) \cup {m}
      OBVIOUS
    <3> QED
      BY <3>1
  <2>3. x \in Nat /\ z \in Nat /\ \A y \in Some(m - 1) : y \in Nat
    BY <1>0
  <2>4. \E w \in {x, z} : \A y \in Some(m - 1) \cup {z} : w >= y
    <3> HIDE DEF z, Some
    <3>1. CASE x >= z
      BY <2>1, <2>3, <3>1
    <3>2. CASE z >= x
      <4>1. \A y \in Some(m - 1) \cup {z} : z >= y
        BY <2>1, <2>3, <3>2
      <4> QED
        BY <4>1
    <3> QED
      BY <2>3, <3>1, <3>2
  <2>5. \E w \in Some(m) : \A y \in Some(m) : w >= y
    <3> HIDE DEF z, Some
    <3> QED
      BY <2>1, <2>2, <2>4
  <2> QED
    BY <2>5
<1>3. n \in A
  <2> HIDE DEF A
  <2>1. \A m \in 0 .. n : m \in A
    BY <1>0, <1>1, <1>2, Climb
  <2> QED
    BY <1>0, <2>1
<1>4. Lengths(order) = Some(n)
  <2>1. ToSet(order) = {order[i] : i \in 1 .. n}
    BY DEF ToSet
  <2> QED
    BY <2>1 DEF Lengths
<1>5. Max(Lengths(order)) \in Some(n) /\ \A y \in Some(n) : Max(Lengths(order)) >= y
  <2>1. \E x \in Some(n) : \A y \in Some(n) : x >= y
    BY <1>3
  <2> HIDE DEF Some
  <2> QED
    BY <1>4, <2>1 DEF Max
<1> QED
  BY <1>0, <1>5

(* The sources that have an i-th chunk.                                    *)
RoundOf(order, i) == Those(order, {s \in Sources : Len(chunks[s]) >= i})
DrainRound(order, i) ==
  [n \in DOMAIN RoundOf(order, i) |-> Unit(RoundOf(order, i)[n], i)]

LEMMA RoundTyped ==
  ASSUME ChunksTyped, NEW order \in Seq(Sources), NEW i \in Nat \ {0}
  PROVE  DrainRound(order, i) \in Seq(Units)
<1> DEFINE A == {s \in Sources : Len(chunks[s]) >= i}
           round == RoundOf(order, i)
<1>1. round \in Seq(Sources \cap A)
  BY ThoseAre DEF RoundOf
<1>2. ASSUME NEW s \in Sources \cap A PROVE Unit(s, i) \in Units
  <2>1. chunks[s] \in Seq(SomeWords) /\ i \in 1 .. Len(chunks[s])
    BY <1>2 DEF ChunksTyped
  <2>2. chunks[s][i] \in SomeWords
    BY <2>1, ElementOfSeq
  <2> QED
    BY <2>2, BytesIsNat DEF Unit, Units
<1> HIDE DEF A, round
<1>3. \A n \in 1 .. Len(round) : Unit(round[n], i) \in Units
  BY <1>1, <1>2, ElementOfSeq
<1>4. [n \in 1 .. Len(round) |-> Unit(round[n], i)] \in Seq(Units)
  <2>1. Len(round) \in Nat
    BY <1>1, LenProperties
  <2>2. [n \in 1 .. Len(round) |-> Unit(round[n], i)] \in [1 .. Len(round) -> Units]
    BY <1>3
  <2> QED
    BY <2>1, <2>2, IsASeq
<1>5. DOMAIN round = 1 .. Len(round)
  BY <1>1, LenProperties
<1> QED
  BY <1>4, <1>5 DEF DrainRound, round

LEMMA DrainIsRounds ==
  ASSUME NEW order
  PROVE  Drain(order) =
           FlattenSeq([i \in 1 .. Max(Lengths(order)) |-> DrainRound(order, i)])
<1>1. Max(Lengths(order)) = Max({0} \cup {Len(chunks[s]) : s \in ToSet(order)})
  BY DEF Lengths
<1> QED
  BY <1>1 DEF Drain, DrainRound, RoundOf

LEMMA DrainTyped ==
  ASSUME ChunksTyped, NEW order \in Seq(Sources)
  PROVE  Drain(order) \in Seq(Units)
<1> DEFINE n == Max(Lengths(order))
           rounds == [i \in 1 .. n |-> DrainRound(order, i)]
<1>1. n \in Nat
  BY LongestIsLongest
<1> HIDE DEF n
<1>2. rounds \in [1 .. n -> Seq(Units)]
  <2>1. \A i \in 1 .. n : i \in Nat \ {0}
    BY <1>1
  <2> QED
    BY <2>1, RoundTyped
<1>3. rounds \in Seq(Seq(Units))
  BY <1>1, <1>2, IsASeq
<1> HIDE DEF rounds
<1>4. FlattenSeq(rounds) \in Seq(Units)
  BY <1>3, FlattenTyped
<1> QED
  BY <1>4, DrainIsRounds DEF n, rounds
LEMMA TakeTyped ==
  ASSUME NEW us \in Seq(Units), NEW u \in Units
  PROVE  Take(us, u) \in Seq(Units)
BY DEF Take

LEMMA TakenTyped ==
  ASSUME NEW us \in Seq(Units), NEW from \in Seq(Units)
  PROVE  Taken(us, from) \in Seq(Units)
<1>1. \A a \in Seq(Units), i \in 1 .. Len(from) : Take(a, from[i]) \in Seq(Units)
  BY ElementOfSeq, TakeTyped
<1>2. PICK f : Takes(f, Seq(Units), us, from)
  BY <1>1, TakenLoop
<1>3. Len(from) \in 0 .. Len(from)
  OBVIOUS
<1> QED
  BY <1>2, <1>3 DEF Takes

LEMMA ReverseTyped ==
  ASSUME NEW T, NEW s \in Seq(T)
  PROVE  /\ Reverse(s) \in Seq(T) /\ Len(Reverse(s)) = Len(s)
         /\ \A i \in 1 .. Len(s) : Reverse(s)[i] = s[Len(s) - i + 1]
<1> DEFINE n == Len(s)
<1>1. n \in Nat
  OBVIOUS
<1>2. \A i \in 1 .. n : s[n - i + 1] \in T
  <2> TAKE i \in 1 .. n
  <2>1. n - i + 1 \in 1 .. n
    BY <1>1
  <2> QED
    BY <2>1, ElementOfSeq
<1>3. Reverse(s) = [i \in 1 .. n |-> s[n - i + 1]]
  BY DEF Reverse
<1> HIDE DEF n
<1>4. Reverse(s) \in [1 .. n -> T]
  BY <1>2, <1>3
<1>5. Reverse(s) \in Seq(T) /\ Len(Reverse(s)) = n
  BY <1>1, <1>4, IsASeq, LenProperties
<1> QED
  BY <1>3, <1>5 DEF n

(* What the turns are as units, the newest first.                          *)
Merged == Reverse([n \in DOMAIN turns |-> [src |-> Turn, index |-> n, text |-> turns[n]]])
Chosen == Taken(<<>>, Ranked)
KeptOf == SubSeq(Chosen, 1, Least(Len(Chosen), MaxSources))

LEMMA MergedTyped ==
  ASSUME turns \in Seq(Nat)
  PROVE  Merged \in Seq(Units)
<1> DEFINE us == [n \in DOMAIN turns |-> [src |-> Turn, index |-> n, text |-> turns[n]]]
<1>1. Len(turns) \in Nat /\ DOMAIN turns = 1 .. Len(turns)
  OBVIOUS
<1>2. us \in [1 .. Len(turns) -> Units]
  BY <1>1, ElementOfSeq DEF Units
<1>3. us \in Seq(Units)
  <2> HIDE DEF us
  <2> QED
    BY <1>1, <1>2, IsASeq
<1> HIDE DEF us
<1>4. Reverse(us) \in Seq(Units)
  BY <1>3, ReverseTyped
<1> QED
  BY <1>4 DEF Merged, us

LEMMA KeptTyped ==
  ASSUME ChunksTyped, pair \in Seq(Sources), others \in Seq(Sources)
  PROVE  /\ Ranked \in Seq(Units) /\ Chosen \in Seq(Units) /\ KeptOf \in Seq(Units)
         /\ Least(Len(Chosen), MaxSources) \in 0 .. Len(Chosen)
<1>1. Ranked \in Seq(Units)
  BY DrainTyped, ConcatProperties DEF Ranked
<1>2. Chosen \in Seq(Units)
  BY <1>1, TakenTyped, EmptySeq DEF Chosen
<1>3. Least(Len(Chosen), MaxSources) \in 0 .. Len(Chosen)
  <2>1. Len(Chosen) \in Nat /\ MaxSources \in Nat
    BY <1>2, SizesAreNaturals, LenProperties
  <2> QED
    BY <2>1 DEF Least
<1>4. KeptOf \in Seq(Units)
  BY <1>2, <1>3, SubSeqProperties DEF KeptOf
<1> QED
  BY <1>1, <1>2, <1>3, <1>4

LEMMA RetrieveIs ==
  ASSUME Retrieve
  PROVE  context' = Taken(KeptOf, Merged)
BY DEF Retrieve, Merged, KeptOf, Chosen

LEMMA RetrievedTyped ==
  ASSUME ChunksTyped, pair \in Seq(Sources), others \in Seq(Sources), turns \in Seq(Nat),
         Retrieve
  PROVE  context' \in Seq(Units)
BY KeptTyped, MergedTyped, TakenTyped, RetrieveIs
-----------------------------------------------------------------------------
(***************************************************************************)
(* Rendering.                                                              *)
(***************************************************************************)
LEMMA SizeIsNat == \A u \in Units : Size(u) \in Nat
BY SizesAreNaturals DEF Size, Units

LEMMA JoinedIsInt == ASSUME NEW us \in Seq(Units) PROVE Joined(us) \in Int
<1> DEFINE sizes == [n \in DOMAIN us |-> Size(us[n])]
<1>1. Len(us) \in Nat /\ DOMAIN us = 1 .. Len(us)
  OBVIOUS
<1>2. \A n \in 1 .. Len(us) : Size(us[n]) \in Nat
  BY ElementOfSeq, SizeIsNat
<1>3. sizes \in [1 .. Len(us) -> Nat]
  BY <1>1, <1>2
<1> HIDE DEF sizes
<1>4. sizes \in Seq(Nat)
  BY <1>1, <1>3, IsASeq
<1>5. Sum(sizes) \in Nat
  BY <1>4, SumIsNat
<1> QED
  BY <1>1, <1>5 DEF Joined, Gap, sizes

LEMMA JoinedIsNat ==
  ASSUME NEW us \in Seq(Units), us # <<>>
  PROVE  Joined(us) \in Nat
<1> DEFINE sizes == [n \in DOMAIN us |-> Size(us[n])]
<1>1. Len(us) \in Nat \ {0} /\ DOMAIN us = 1 .. Len(us)
  BY EmptySeq
<1>2. \A n \in 1 .. Len(us) : Size(us[n]) \in Nat
  BY ElementOfSeq, SizeIsNat
<1>3. sizes \in [1 .. Len(us) -> Nat]
  BY <1>1, <1>2
<1> HIDE DEF sizes
<1>4. sizes \in Seq(Nat)
  BY <1>1, <1>3, IsASeq
<1>5. Sum(sizes) \in Nat
  BY <1>4, SumIsNat
<1>6. Joined(us) = Sum(sizes) + Gap * (Len(us) - 1)
  BY DEF Joined, sizes
<1> QED
  BY <1>1, <1>5, <1>6 DEF Gap

LEMMA OrderedTyped ==
  ASSUME NEW us \in Seq(Units)
  PROVE  Ordered(us) \in Seq(Units)
<1> DEFINE of(kind) == Those(us, {u \in ToSet(us) : Kind(u) = kind})
<1>1. \A kind : of(kind) \in Seq(Units)
  <2> TAKE kind
  <2> DEFINE A == {u \in ToSet(us) : Kind(u) = kind}
  <2>1. Those(us, A) \in Seq(Units \cap A)
    BY ThoseAre
  <2> HIDE DEF A
  <2>2. Those(us, A) \in Seq(Units)
    BY <2>1, SeqMonotonic
  <2> QED
    BY <2>2 DEF A
<1>2. Ordered(us) = of("attachment") \o of("record") \o Reverse(of("chatter_message")) \o of(Turn)
  BY DEF Ordered
<1> HIDE DEF of
<1> QED
  BY <1>1, <1>2, ReverseTyped, ConcatProperties

Shown == [unit : Units, bytes : Int]
(* A rendering in progress: what is used overruns the budget by less than  *)
(* the notice.                                                             *)
Renderings(budget) ==
  {r \in [used : Nat, shown : Seq(Shown), full : BOOLEAN] : r.used < budget + Suffix}

LEMMA DivTimes == \A a \in Nat, b \in Nat \ {0} : (a \div b) * b <= a
OBVIOUS

LEMMA ManifestFits ==
  ASSUME NEW us \in Seq(Units), NEW budget \in Nat
  PROVE  /\ Manifest(us, budget) \in Nat
         /\ Manifest(us, budget) < budget + Suffix
         /\ Manifest(us, budget) <= Heading + 240
<1> DEFINE room == Least(240, budget \div 3)
           items == Least(Len(us), (room + 1) \div (TagSize + 1))
<1>1. room \in Nat /\ room <= budget /\ room <= 240
  BY DEF Least
<1>2. TagSize \in Nat
  BY SizesAreNaturals
<1> HIDE DEF room
<1>3. (room + 1) \div (TagSize + 1) \in Nat
  BY <1>1, <1>2
<1>4. ((room + 1) \div (TagSize + 1)) * (TagSize + 1) <= room + 1
  <2>1. room + 1 \in Nat /\ TagSize + 1 \in Nat \ {0}
    BY <1>1, <1>2
  <2> QED
    BY <2>1, DivTimes
<1>5. items \in Nat /\ items * (TagSize + 1) <= room + 1
  <2> DEFINE q == (room + 1) \div (TagSize + 1)
  <2>1. q \in Nat /\ q * (TagSize + 1) <= room + 1
    BY <1>3, <1>4
  <2> HIDE DEF q
  <2>2. Len(us) \in Nat
    OBVIOUS
  <2>3. \A m \in Nat : m <= q => m * (TagSize + 1) <= q * (TagSize + 1)
    BY <1>2, <2>1
  <2>4. \A m \in Nat : m <= q => m * (TagSize + 1) <= room + 1
    BY <1>1, <1>2, <2>1, <2>3
  <2>5. Least(Len(us), q) \in Nat /\ Least(Len(us), q) <= q
    BY <2>1, <2>2 DEF Least
  <2>6. Least(Len(us), q) * (TagSize + 1) <= room + 1
    BY <2>4, <2>5
  <2> QED
    BY <2>5, <2>6 DEF q
<1>6. Manifest(us, budget) = IF items = 0 THEN 0 ELSE Heading + items * (TagSize + 1) - 1
  BY DEF Manifest, room
<1> HIDE DEF items
<1>7. items * (TagSize + 1) \in Nat
  BY <1>2, <1>5
<1> QED
  BY <1>1, <1>5, <1>6, <1>7 DEF Heading, Suffix
(* One unit more: whole, cut to the room there is, or cut to the notice.   *)
LEMMA PlaceFits ==
  ASSUME NEW budget \in Nat, NEW r \in Renderings(budget), NEW u \in Units
  PROVE  Place(r, u, budget) \in Renderings(budget)
<1> DEFINE gap == IF r.used = 0 THEN 0 ELSE Gap
           available == Available(r, budget)
           whole == Size(u) <= available
           bytes == IF whole THEN Size(u) ELSE Cut(available)
<1>1. /\ r \in [used : Nat, shown : Seq(Shown), full : BOOLEAN]
      /\ r.used \in Nat /\ r.shown \in Seq(Shown) /\ r.used < budget + 45
  BY DEF Renderings, Suffix
<1>2. Size(u) \in Nat
  BY SizeIsNat
<1>3. gap \in Nat /\ available = budget - r.used - gap /\ available \in Int
  BY <1>1 DEF Gap, Available
<1>4. CASE r.full \/ available <= 0
  <2>1. Place(r, u, budget) = [r EXCEPT !.full = TRUE]
    BY <1>4 DEF Place
  <2> QED
    BY <1>1, <2>1 DEF Renderings, Suffix
<1>5. CASE ~(r.full \/ available <= 0)
  <2> DEFINE x == [unit |-> u, bytes |-> IF whole THEN bytes ELSE bytes - Suffix]
             next == [used |-> r.used + gap + bytes, shown |-> Append(r.shown, x),
                      full |-> ~whole]
  <2>1. Place(r, u, budget) = next
    BY <1>5 DEF Place
  <2>2. /\ bytes \in Nat
        /\ r.used + gap + bytes \in Nat
        /\ r.used + gap + bytes < budget + 45
    <3> HIDE DEF gap, available
    <3>1. CASE whole
      BY <1>1, <1>2, <1>3, <1>5, <3>1
    <3>2. CASE ~whole
      <4>1. Cut(available) \in Nat /\ available >= 1
            /\ (Cut(available) = available \/ Cut(available) = 45)
        BY <1>3, <1>5, <3>2 DEF Cut, Most, Suffix
      <4>2. bytes = Cut(available)
        BY <3>2
      <4> HIDE DEF bytes
      <4> QED
        BY <1>1, <1>3, <4>1, <4>2
    <3> QED
      BY <3>1, <3>2
  <2>3. x \in Shown
    BY <2>2 DEF Shown, Suffix
  <2> HIDE DEF bytes, gap, x, whole
  <2>4. Append(r.shown, x) \in Seq(Shown)
    BY <1>1, <2>3
  <2>5. whole \in BOOLEAN
    BY DEF whole
  <2>6. next \in [used : Nat, shown : Seq(Shown), full : BOOLEAN]
    BY <2>2, <2>4
  <2> QED
    BY <2>1, <2>2, <2>6 DEF Renderings, Suffix
<1> QED
  BY <1>4, <1>5

LEMMA PlacedFits ==
  ASSUME NEW budget \in Nat, NEW r \in Renderings(budget), NEW us \in Seq(Units)
  PROVE  Placed(r, us, budget) \in Renderings(budget)
<1>1. \A a \in Renderings(budget), i \in 1 .. Len(us) :
        Place(a, us[i], budget) \in Renderings(budget)
  BY ElementOfSeq, PlaceFits
<1> DEFINE S == Renderings(budget)
<1> HIDE DEF S
<1>2. \A a \in S, i \in 1 .. Len(us) : Place(a, us[i], budget) \in S
  BY <1>1 DEF S
<1>3. r \in S
  BY DEF S
<1>4. PICK f : Places(f, S, r, us, budget)
  BY <1>2, <1>3, PlacedLoop
<1>5. Len(us) \in 0 .. Len(us)
  OBVIOUS
<1>6. Placed(r, us, budget) \in S
  BY <1>4, <1>5 DEF Places
<1> QED
  BY <1>6 DEF S

LEMMA ShowsAll ==
  ASSUME NEW us \in Seq(Units)
  PROVE  [n \in DOMAIN us |-> [unit |-> us[n], bytes |-> Size(us[n])]] \in Seq(Shown)
<1> DEFINE shown == [n \in DOMAIN us |-> [unit |-> us[n], bytes |-> Size(us[n])]]
<1>1. Len(us) \in Nat /\ DOMAIN us = 1 .. Len(us)
  OBVIOUS
<1>2. \A n \in 1 .. Len(us) : us[n] \in Units /\ Size(us[n]) \in Int
  BY ElementOfSeq, SizeIsNat
<1>3. shown \in [1 .. Len(us) -> Shown]
  BY <1>1, <1>2 DEF Shown
<1> HIDE DEF shown
<1>4. shown \in Seq(Shown)
  BY <1>1, <1>3, IsASeq
<1> QED
  BY <1>4 DEF shown

LEMMA RenderFits ==
  ASSUME NEW us \in Seq(Units), us # <<>>, NEW budget \in Nat
  PROVE  Render(us, budget) \in Renderings(budget)
<1>1. CASE Joined(us) <= budget
  <2> DEFINE shown == [n \in DOMAIN us |-> [unit |-> us[n], bytes |-> Size(us[n])]]
  <2>1. shown \in Seq(Shown)
    BY ShowsAll
  <2> HIDE DEF shown
  <2>2. Joined(us) \in Nat /\ Joined(us) < budget + Suffix
    BY <1>1, JoinedIsNat DEF Suffix
  <2>3. Render(us, budget) = [used |-> Joined(us), full |-> FALSE, shown |-> shown]
    BY <1>1 DEF Render, shown
  <2> QED
    BY <2>1, <2>2, <2>3 DEF Renderings
<1>2. CASE ~(Joined(us) <= budget)
  <2> DEFINE r == [used |-> Manifest(us, budget), shown |-> <<>>, full |-> FALSE]
  <2>1. r \in Renderings(budget)
    BY ManifestFits DEF Renderings
  <2>2. Render(us, budget) = Placed(r, Ordered(us), budget)
    BY <1>2 DEF Render
  <2> HIDE DEF r
  <2> QED
    BY <2>1, <2>2, OrderedTyped, PlacedFits
<1> QED
  BY <1>1, <1>2
-----------------------------------------------------------------------------
(***************************************************************************)
(* The providers.                                                          *)
(***************************************************************************)
LEMMA KeepTyped ==
  ASSUME NEW T, NEW s \in Seq(T), NEW A
  PROVE  \A a \in Seq(T), i \in 1 .. Len(s) : Keep(a, s[i], A) \in Seq(T)
<1> TAKE a \in Seq(T), i \in 1 .. Len(s)
<1>1. s[i] \in T
  BY ElementOfSeq
<1> QED
  BY <1>1 DEF Keep

(* What is in a set and what is not are together as long as the whole.     *)
LEMMA ThoseAndOthers ==
  ASSUME NEW T, NEW s \in Seq(T), NEW A
  PROVE  Len(Those(s, A)) + Len(Those(s, ToSet(s) \ A)) = Len(s)
<1> DEFINE n == Len(s)
           B == ToSet(s) \ A
           S == Seq(T)
<1>0. n \in Nat /\ <<>> \in S /\ \A i \in 1 .. n : s[i] \in T /\ s[i] \in ToSet(s)
  BY ElementOfSeq DEF ToSet
<1>1. PICK f : Keeps(f, S, s, A)
  BY KeepTyped, ThoseLoop, EmptySeq
<1>2. PICK g : Keeps(g, S, s, B)
  BY KeepTyped, ThoseLoop, EmptySeq
<1>3. /\ f \in [0 .. n -> S] /\ f[0] = <<>> /\ f[n] = Those(s, A)
      /\ g \in [0 .. n -> S] /\ g[0] = <<>> /\ g[n] = Those(s, B)
      /\ \A i \in 1 .. n : /\ f[i] = Keep(f[i - 1], s[i], A)
                           /\ g[i] = Keep(g[i - 1], s[i], B)
  BY <1>1, <1>2 DEF Keeps
<1> HIDE DEF n, S, B
<1> DEFINE M == {i \in 0 .. n : Len(f[i]) + Len(g[i]) = i}
<1>4. 0 \in M
  BY <1>0, <1>3, EmptySeq
<1>5. ASSUME NEW i \in 1 .. n, i - 1 \in M PROVE i \in M
  <2>0. i - 1 \in 0 .. n /\ s[i] \in T
    BY <1>0
  <2>1. f[i - 1] \in Seq(T) /\ g[i - 1] \in Seq(T)
    <3>1. f[i - 1] \in S /\ g[i - 1] \in S
      BY <1>3, <2>0
    <3> QED
      BY <3>1 DEF S
  <2>2. Len(f[i - 1]) \in Nat /\ Len(g[i - 1]) \in Nat /\ Len(f[i - 1]) + Len(g[i - 1]) = i - 1
    BY <1>5, <2>1, LenProperties
  <2>3. /\ Len(Append(f[i - 1], s[i])) = Len(f[i - 1]) + 1
        /\ Len(Append(g[i - 1], s[i])) = Len(g[i - 1]) + 1
    BY <2>0, <2>1, AppendProperties
  <2>4. s[i] \in B <=> s[i] \notin A
    BY <1>0 DEF B
  <2>5. f[i] = Keep(f[i - 1], s[i], A) /\ g[i] = Keep(g[i - 1], s[i], B)
    BY <1>3
  <2>6. \/ (Len(f[i]) = Len(f[i - 1]) + 1 /\ Len(g[i]) = Len(g[i - 1]))
        \/ (Len(f[i]) = Len(f[i - 1]) /\ Len(g[i]) = Len(g[i - 1]) + 1)
    BY <2>3, <2>4, <2>5 DEF Keep
  <2>7. Len(f[i]) + Len(g[i]) = i
    <3> DEFINE x == Len(f[i - 1])
               y == Len(g[i - 1])
               v == Len(f[i])
               w == Len(g[i])
    <3>1. x \in Nat /\ y \in Nat /\ x + y = i - 1
      BY <2>2
    <3>2. (v = x + 1 /\ w = y) \/ (v = x /\ w = y + 1)
      BY <2>6
    <3>3. i \in Int
      BY <1>0
    <3> HIDE DEF x, y, v, w
    <3>4. v + w = i
      BY <3>1, <3>2, <3>3
    <3> QED
      BY <3>4 DEF v, w
  <2>8. i \in 0 .. n
    BY <1>0
  <2> QED
    BY <2>7, <2>8
<1>6. n \in M
  <2> HIDE DEF M
  <2>1. \A i \in 0 .. n : i \in M
    BY <1>0, <1>4, <1>5, Climb
  <2> QED
    BY <1>0, <2>1
<1> QED
  BY <1>3, <1>6 DEF n, B

LEMMA InsertedTyped ==
  ASSUME NEW s \in Seq(Nat), NEW c \in Nat
  PROVE  Inserted(s, c) \in Seq(Nat) /\ Len(Inserted(s, c)) = Len(s) + 1
<1> DEFINE A == {x \in ToSet(s) : x >= c}
           before == Those(s, A)
           after == Those(s, ToSet(s) \ A)
<1>1. before \in Seq(Nat) /\ after \in Seq(Nat)
  <2>1. \A C : Those(s, C) \in Seq(Nat)
    <3> TAKE C
    <3>1. Those(s, C) \in Seq(Nat \cap C)
      BY ThoseAre
    <3> QED
      BY <3>1, SeqMonotonic
  <2> QED
    BY <2>1
<1>2. Len(before) + Len(after) = Len(s)
  BY ThoseAndOthers
<1>3. <<c>> \in Seq(Nat) /\ Len(<<c>>) = 1
  OBVIOUS
<1>4. Inserted(s, c) = before \o <<c>> \o after
  BY DEF Inserted
<1> HIDE DEF before, after
<1>5. before \o <<c>> \in Seq(Nat) /\ Len(before \o <<c>>) = Len(before) + 1
  BY <1>1, <1>3, ConcatProperties
<1>6. /\ before \o <<c>> \o after \in Seq(Nat)
      /\ Len(before \o <<c>> \o after) = Len(before) + 1 + Len(after)
  BY <1>1, <1>5, ConcatProperties
<1>7. Len(before) \in Nat /\ Len(after) \in Nat
  BY <1>1
<1> QED
  <2>1. Len(before \o <<c>> \o after) = Len(s) + 1
    <3> DEFINE x == Len(before \o <<c>> \o after)
               y == Len(before)
               z == Len(after)
    <3>1. x = y + 1 + z /\ y + z = Len(s) /\ y \in Nat /\ z \in Nat
      BY <1>2, <1>6, <1>7 DEF before, after
    <3> HIDE DEF x, y, z
    <3>2. x = Len(s) + 1
      BY <3>1
    <3> QED
      BY <3>2 DEF x
  <2> QED
    BY <1>4, <1>6, <2>1

LEMMA LargestFirstTyped == LargestFirst \in Seq(Nat) /\ Len(LargestFirst) = Len(Contexts)
<1> DEFINE n == Len(Contexts)
<1>1. Contexts \in Seq(Nat) /\ n \in Nat
  BY SizesAreNaturals
<1>2. \A a \in Seq(Nat), i \in 1 .. n :
        Inserted(a, Contexts[i]) \in Seq(Nat) /\ Len(Inserted(a, Contexts[i])) = Len(a) + 1
  BY <1>1, ElementOfSeq, InsertedTyped
<1>3. PICK f : Inserts(f, Seq(Nat))
  BY <1>1, <1>2, InsertedLoop, EmptySeq
<1>4. /\ f \in [0 .. n -> Seq(Nat)] /\ f[0] = <<>> /\ f[n] = LargestFirst
      /\ \A i \in 1 .. n : f[i] = Inserted(f[i - 1], Contexts[i])
  BY <1>3 DEF Inserts
<1> HIDE DEF n
<1> DEFINE M == {i \in 0 .. n : Len(f[i]) = i}
<1>5. 0 \in M
  BY <1>1, <1>4, EmptySeq
<1>6. ASSUME NEW i \in 1 .. n, i - 1 \in M PROVE i \in M
  <2>1. i - 1 \in 0 .. n /\ f[i - 1] \in Seq(Nat)
    BY <1>1, <1>4
  <2>2. Len(f[i]) = Len(f[i - 1]) + 1
    BY <1>2, <1>4, <2>1
  <2> QED
    BY <1>6, <2>2
<1>7. n \in M
  <2> HIDE DEF M
  <2>1. \A i \in 0 .. n : i \in M
    BY <1>1, <1>5, <1>6, Climb
  <2> QED
    BY <1>1, <2>1
<1>8. f[n] \in Seq(Nat) /\ Len(f[n]) = n
  BY <1>1, <1>4, <1>7
<1> QED
  BY <1>4, <1>8 DEF n
LEMMA ProvidersTyped ==
  ASSUME NEW us, NEW n \in 1 .. Len(Contexts)
  PROVE  ProvidersFor(us)[n] \in Nat
<1>1. Contexts \in Seq(Nat)
  BY SizesAreNaturals
<1>2. \A s \in Seq(Nat) : n \in 1 .. Len(s) => s[n] \in Nat
  BY ElementOfSeq
<1>3. Contexts[n] \in Nat /\ LargestFirst[n] \in Nat
  BY <1>1, <1>2, LargestFirstTyped
<1> QED
  BY <1>3 DEF ProvidersFor

(***************************************************************************)
(* The router.                                                             *)
(***************************************************************************)
(* A compacted prompt is within the cap, and no longer than it was, for    *)
(* every cap the configuration admits and every prompt the service builds. *)
LEMMA CompactionFits ==
  ASSUME NEW bytes \in Nat, bytes >= 228, NEW cap \in Nat, cap >= 256
  PROVE  /\ Compacted(bytes, cap) \in Nat
         /\ Compacted(bytes, cap) <= cap
         /\ Compacted(bytes, cap) <= bytes
<1> DEFINE target == Target(bytes, cap)
           head == (6 * target) \div 10
<1>1. /\ target \in Nat \ {0}
      /\ target <= (3 * bytes) \div 4
      /\ target <= cap - 57
  BY DEF Target, Least, Most, Marker
<1>2. (3 * bytes) \div 4 <= bytes - 57
  OBVIOUS
<1> HIDE DEF target
<1>3. head \in Nat /\ head < target
  BY <1>1
<1>4. Compacted(bytes, cap) = IF target >= bytes THEN bytes ELSE head + Marker + (target - head)
  BY <1>1, <1>3 DEF Compacted, target
<1> HIDE DEF head
<1> QED
  BY <1>1, <1>2, <1>3, <1>4 DEF Marker
-----------------------------------------------------------------------------
(***************************************************************************)
(* The invariant: what is stored, retrieved, rendered and sent is typed,   *)
(* and a rendering is within the notice of its provider's budget.          *)
(***************************************************************************)
Sendings == [bytes : Nat, of : Nat, cap : Nat]

InputGood ==
  /\ ChunksTyped
  /\ pair \in Seq(Sources) /\ others \in Seq(Sources) /\ turns \in Seq(Nat)
RenderedGood ==
  /\ context \in Seq(Units)
  /\ attempt \in 0 .. Len(Contexts)
  /\ attempt > 0 => context # <<>> /\ prompt \in Renderings(Budget)
  /\ prompt.used \in Nat
IInv == InputGood /\ RenderedGood /\ CompactionIsAccepted

LEMMA InitTyped == Init => InputGood
<1> SUFFICES ASSUME Init PROVE InputGood
  OBVIOUS
<1>1. \A words \in Texts : words \in Words
  BY SizesAreNaturals DEF Words
<1>2. ChunksTyped
  <2>1. \A s \in Sources : Chunked(text[s]) \in Seq(SomeWords)
    BY <1>1, ChunkedTyped DEF Init
  <2> QED
    BY <2>1 DEF Init, ChunksTyped
<1>3. pair \in Seq(Sources)
  <2>1. \A f, g \in Files : <<f, g>> \in Seq(Sources)
    BY DEF Sources
  <2>2. pair = <<>> \/ \E f, g \in Files : pair = <<f, g>>
    BY DEF Init
  <2> QED
    BY <2>1, <2>2, EmptySeq
<1>4. others \in Seq(Sources)
  <2> DEFINE S == Sources \ ToSet(pair)
  <2>1. Cardinality(S) \in Nat
    BY SourcesAreFinite, FS_Subset, FS_CardinalityType
  <2>2. others \in [1 .. Cardinality(S) -> S]
    <3>1. others \in SetToSeqs(S)
      BY DEF Init
    <3> HIDE DEF S
    <3> QED
      BY <3>1 DEF SetToSeqs
  <2>3. others \in [1 .. Cardinality(S) -> Sources]
    BY <2>2
  <2> HIDE DEF S
  <2> QED
    BY <2>1, <2>3, IsASeq
<1>5. turns \in Seq(Nat)
  <2>1. PICK n \in 0 .. MaxTurns : turns \in [1 .. n -> TurnSizes]
    <3>1. turns \in BoundedSeq(TurnSizes, MaxTurns)
      BY DEF Init
    <3> QED
      BY <3>1 DEF BoundedSeq, SeqOf
  <2>2. TurnSizes \subseteq Nat /\ MaxTurns \in Nat
    BY SizesAreNaturals
  <2>3. n \in Nat
    BY <2>2
  <2>4. turns \in [1 .. n -> Nat]
    BY <2>1, <2>2
  <2> QED
    BY <2>3, <2>4, IsASeq
<1> QED
  BY <1>2, <1>3, <1>4, <1>5 DEF InputGood

LEMMA InitGood == Init => IInv
<1> SUFFICES ASSUME Init PROVE IInv
  OBVIOUS
<1>1. Len(Contexts) \in Nat
  BY SizesAreNaturals
<1>2. RenderedGood
  BY <1>1 DEF Init, RenderedGood, NoPrompt
<1>3. CompactionIsAccepted
  BY DEF Init, Nothing, CompactionIsAccepted
<1> QED
  BY <1>2, <1>3, InitTyped DEF IInv

LEMMA RetrieveKeeps == IInv /\ Retrieve => IInv'
<1> SUFFICES ASSUME IInv, Retrieve PROVE IInv'
  OBVIOUS
<1>1. context = <<>> /\ UNCHANGED <<input, attempt, prompt, sent>>
  BY DEF Retrieve
<1>2. InputGood'
  BY <1>1 DEF IInv, InputGood, ChunksTyped, input
<1>3. context' \in Seq(Units)
  BY RetrievedTyped DEF IInv, InputGood
<1>4. attempt = 0
  BY <1>1, SizesAreNaturals DEF IInv, RenderedGood
<1>5. RenderedGood'
  BY <1>1, <1>3, <1>4 DEF IInv, RenderedGood
<1>6. CompactionIsAccepted'
  BY <1>1 DEF IInv, CompactionIsAccepted
<1> QED
  BY <1>2, <1>5, <1>6 DEF IInv

LEMMA TryKeeps == IInv /\ Try => IInv'
<1> SUFFICES ASSUME IInv, Try PROVE IInv'
  OBVIOUS
<1>1. /\ context # <<>> /\ attempt < Len(Contexts) /\ attempt' = attempt + 1
      /\ prompt' = Render(context, ProvidersFor(context)[attempt'])
      /\ sent' = Nothing /\ UNCHANGED <<input, context>>
  BY DEF Try
<1>2. InputGood'
  BY <1>1 DEF IInv, InputGood, ChunksTyped, input
<1>3. context \in Seq(Units) /\ Len(Contexts) \in Nat /\ attempt \in 0 .. Len(Contexts)
  BY SizesAreNaturals DEF IInv, RenderedGood
<1>4. attempt' \in 1 .. Len(Contexts)
  BY <1>1, <1>3
<1>5. ProvidersFor(context)[attempt'] \in Nat
  BY <1>4, ProvidersTyped
<1>6. prompt' \in Renderings(Budget')
  <2>1. Budget' = ProvidersFor(context)[attempt']
    BY <1>1 DEF Budget, ProvidersFor, Kind
  <2> QED
    BY <1>1, <1>3, <1>5, <2>1, RenderFits
<1>7. prompt'.used \in Nat
  BY <1>6 DEF Renderings
<1>8. RenderedGood'
  BY <1>1, <1>3, <1>4, <1>6, <1>7 DEF RenderedGood
<1>9. CompactionIsAccepted'
  BY <1>1 DEF CompactionIsAccepted, Nothing
<1> QED
  BY <1>2, <1>8, <1>9 DEF IInv

LEMMA RouteKeeps == IInv /\ Route => IInv'
<1> SUFFICES ASSUME IInv, Route PROVE IInv'
  OBVIOUS
<1>1. UNCHANGED <<input, context, attempt, prompt>>
  BY DEF Route
<1>2. InputGood'
  BY <1>1 DEF IInv, InputGood, ChunksTyped, input
<1>3. Budget' = Budget
  BY <1>1 DEF Budget, ProvidersFor, Kind
<1>4. RenderedGood'
  BY <1>1, <1>3 DEF IInv, RenderedGood
<1>5. CompactionIsAccepted'
  <2>1. PICK rest \in Instructions, cap \in Caps :
          LET bytes == rest + prompt.used
          IN  \/ bytes <= cap.primary /\ Send(bytes, bytes, cap.primary)
              \/ /\ bytes <= cap.primary /\ bytes <= cap.fallback
                 /\ Send(bytes, bytes, cap.fallback)
              \/ Send(Compacted(bytes, cap.fallback), bytes, cap.fallback)
    BY DEF Route
  <2> DEFINE bytes == rest + prompt.used
  <2>2. bytes \in Nat /\ bytes >= 228
    <3>1. rest \in Nat /\ rest >= 228 /\ prompt.used \in Nat
      BY SizesAreNaturals DEF IInv, RenderedGood
    <3> QED
      BY <3>1
  <2>3. cap.primary \in Nat /\ cap.fallback \in Nat /\ cap.fallback >= 256
    BY SizesAreNaturals
  <2> HIDE DEF bytes
  <2>4. \/ bytes <= cap.primary /\ sent' = [bytes |-> bytes, of |-> bytes, cap |-> cap.primary]
        \/ bytes <= cap.fallback /\ sent' = [bytes |-> bytes, of |-> bytes, cap |-> cap.fallback]
        \/ sent' = [bytes |-> Compacted(bytes, cap.fallback), of |-> bytes, cap |-> cap.fallback]
    BY <2>1 DEF Send, bytes
  <2>5. Compacted(bytes, cap.fallback) <= cap.fallback /\ Compacted(bytes, cap.fallback) <= bytes
    BY <2>2, <2>3, CompactionFits
  <2> QED
    BY <2>2, <2>4, <2>5 DEF CompactionIsAccepted
<1> QED
  BY <1>2, <1>4, <1>5 DEF IInv

LEMMA StepKeeps == IInv /\ [Next]_vars => IInv'
<1>1. CASE UNCHANGED vars
  <2> SUFFICES ASSUME IInv PROVE IInv'
    OBVIOUS
  <2>1. Budget' = Budget
    BY <1>1 DEF vars, Budget, ProvidersFor, Kind
  <2> QED
    BY <1>1, <2>1 DEF vars, IInv, InputGood, ChunksTyped, RenderedGood, CompactionIsAccepted
<1> QED
  BY <1>1, RetrieveKeeps, TryKeeps, RouteKeeps DEF Next

(* What is stored is cut into chunks that are texts, whatever the texts;   *)
(* and what is retrieved, rendered and sent is what IInv says.             *)
THEOREM Invariance == Spec => []IInv
BY InitGood, StepKeeps, PTL DEF Spec

(* However units, gaps, the manifest and the notice add up, a rendered     *)
(* context exceeds its provider's budget by less than the notice.          *)
THEOREM RenderingsStayNear == Spec => []RenderedNearBudget
<1>1. IInv => RenderedNearBudget
  BY DEF IInv, RenderedGood, RenderedNearBudget, Renderings
<1> QED
  BY <1>1, Invariance, PTL

(* What the router sends passes the check of its profile's cap, and a      *)
(* compaction makes no prompt longer.                                      *)
THEOREM CompactionsPass == Spec => []CompactionIsAccepted
<1>1. IInv => CompactionIsAccepted
  BY DEF IInv
<1> QED
  BY <1>1, Invariance, PTL
-----------------------------------------------------------------------------
(***************************************************************************)
(* Chunking.  A turn of the loop cuts a chunk off the rest: the chunks and *)
(* the rest together stay a cut of the text, and the most rounds the rest  *)
(* may take are one less.  No text outlasts its rounds.                    *)
(***************************************************************************)
(* The sums of the prefixes of a sequence.                                 *)
LEMMA PrefixSums ==
  ASSUME NEW s \in Seq(Nat), NEW f, Adds(f, s), NEW n \in 0 .. Len(s)
  PROVE  Sum(SubSeq(s, 1, n)) = f[n]
<1> DEFINE p == SubSeq(s, 1, n)
<1>0. Len(s) \in Nat /\ n \in Nat /\ n <= Len(s)
  OBVIOUS
<1>1. p \in Seq(Nat) /\ Len(p) = n /\ \A i \in 1 .. n : p[i] = s[i]
  <2>1. \A i \in 1 .. n : s[i] \in Nat
    BY <1>0
  <2> QED
    BY <1>0, <2>1, SubSeqProperties
<1> HIDE DEF p
<1>2. PICK g : Adds(g, p)
  BY <1>1, SumLoop
<1> DEFINE A == {i \in 0 .. n : g[i] = f[i]}
<1>3. 0 \in A
  BY <1>0, <1>2 DEF Adds
<1>4. ASSUME NEW i \in 1 .. n, i - 1 \in A PROVE i \in A
  <2>1. i \in 1 .. Len(s) /\ i \in 1 .. Len(p)
    BY <1>0, <1>1
  <2>2. g[i] = g[i - 1] + p[i] /\ f[i] = f[i - 1] + s[i]
    BY <1>2, <2>1 DEF Adds
  <2>3. p[i] = s[i]
    BY <1>1
  <2> QED
    BY <1>4, <2>2, <2>3
<1>5. n \in A
  <2> HIDE DEF A
  <2>1. \A i \in 0 .. n : i \in A
    BY <1>0, <1>3, <1>4, Climb
  <2> QED
    BY <1>0, <2>1
<1> QED
  BY <1>1, <1>2, <1>5 DEF Adds, p

LEMMA SumOfNone == Sum(<<>>) = 0
<1>1. <<>> \in Seq(Nat) /\ Len(<<>>) = 0
  OBVIOUS
<1>2. PICK f : Adds(f, <<>>)
  BY <1>1, SumLoop
<1> QED
  BY <1>1, <1>2 DEF Adds

LEMMA SumOfAppend ==
  ASSUME NEW s \in Seq(Nat), NEW x \in Nat
  PROVE  Sum(Append(s, x)) = Sum(s) + x
<1> DEFINE t == Append(s, x)
           n == Len(s)
<1>1. t \in Seq(Nat) /\ n \in Nat /\ Len(t) = n + 1 /\ t[n + 1] = x
  BY AppendProperties
<1>2. SubSeq(t, 1, n) = s
  OBVIOUS
<1> HIDE DEF t, n
<1>3. PICK f : Adds(f, t)
  BY <1>1, SumLoop
<1>4. n \in 0 .. Len(t)
  BY <1>1
<1>5. f[n] = Sum(s)
  BY <1>1, <1>2, <1>3, <1>4, PrefixSums
<1>6. f[n + 1] = f[n] + x
  <2>1. n + 1 \in 1 .. Len(t) /\ (n + 1) - 1 = n
    BY <1>1
  <2> QED
    BY <1>1, <1>3, <2>1 DEF Adds
<1>7. Sum(t) = f[n + 1]
  BY <1>1, <1>3 DEF Adds
<1> QED
  BY <1>5, <1>6, <1>7 DEF t

LEMMA ConcatOfAppend ==
  ASSUME NEW T, NEW s \in Seq(T), NEW p \in Seq(T), NEW x \in T
  PROVE  /\ s \o p \in Seq(T)
         /\ s \o Append(p, x) = Append(s \o p, x)
<1>1. s \o p \in Seq(T) /\ <<x>> \in Seq(T)
  BY ConcatProperties
<1>2. Append(p, x) = p \o <<x>> /\ Append(s \o p, x) = (s \o p) \o <<x>>
  BY <1>1, AppendIsConcat
<1>3. (s \o p) \o <<x>> = s \o (p \o <<x>>)
  BY <1>1, ConcatAssociative
<1> QED
  BY <1>1, <1>2, <1>3

LEMMA SumOfConcat ==
  ASSUME NEW s \in Seq(Nat), NEW t \in Seq(Nat)
  PROVE  Sum(s \o t) = Sum(s) + Sum(t)
<1> DEFINE n == Len(t)
           A == {i \in 0 .. n : Sum(s \o SubSeq(t, 1, i)) = Sum(s) + Sum(SubSeq(t, 1, i))}
<1>0. n \in Nat /\ Sum(s) \in Nat
  BY SumIsNat
<1>1. 0 \in A
  <2>1. SubSeq(t, 1, 0) = <<>>
    BY SubSeqEmpty
  <2>2. s \o <<>> = s
    BY ConcatEmptySeq
  <2>3. Sum(s \o SubSeq(t, 1, 0)) = Sum(s) + Sum(SubSeq(t, 1, 0))
    <3>1. Sum(s) = Sum(s) + 0
      BY <1>0
    <3> QED
      BY <2>1, <2>2, <3>1, SumOfNone
  <2>4. 0 \in 0 .. n
    BY <1>0
  <2> QED
    BY <2>3, <2>4
<1>2. ASSUME NEW i \in 1 .. n, i - 1 \in A PROVE i \in A
  <2> DEFINE p == SubSeq(t, 1, i - 1)
  <2>1. t[i] \in Nat /\ i - 1 \in 0 .. n
    OBVIOUS
  <2>2. p \in Seq(Nat)
    BY <2>1
  <2>3. SubSeq(t, 1, i) = Append(p, t[i])
    BY <2>1
  <2>4. s \o Append(p, t[i]) = Append(s \o p, t[i]) /\ s \o p \in Seq(Nat)
    <3> DEFINE x == t[i]
    <3>1. x \in Nat
      BY <2>1
    <3> HIDE DEF p, x
    <3>2. s \o p \in Seq(Nat) /\ s \o Append(p, x) = Append(s \o p, x)
      BY <2>2, <3>1, ConcatOfAppend
    <3> QED
      BY <3>2 DEF x
  <2>5. Sum(s \o p) = Sum(s) + Sum(p)
    BY <1>2
  <2> HIDE DEF p
  <2>6. Sum(Append(s \o p, t[i])) = Sum(s \o p) + t[i]
    BY <2>1, <2>4, SumOfAppend
  <2>7. Sum(Append(p, t[i])) = Sum(p) + t[i] /\ Sum(p) \in Nat
    BY <2>1, <2>2, SumOfAppend, SumIsNat
  <2>8. Sum(s \o SubSeq(t, 1, i)) = Sum(s) + Sum(SubSeq(t, 1, i))
    <3>1. (Sum(s) + Sum(p)) + t[i] = Sum(s) + (Sum(p) + t[i])
      BY <1>0, <2>1, <2>7
    <3> QED
      BY <2>3, <2>4, <2>5, <2>6, <2>7, <3>1
  <2> QED
    BY <2>8
<1>3. n \in A
  <2> HIDE DEF A, n
  <2>1. \A i \in 0 .. n : i \in A
    BY <1>0, <1>1, <1>2, Climb
  <2> QED
    BY <1>0, <2>1
<1>4. SubSeq(t, 1, n) = t
  BY SubSeqFull
<1> QED
  BY <1>3, <1>4

LEMMA SumOfOne == ASSUME NEW x \in Nat PROVE Sum(<<x>>) = x
<1>1. <<x>> = Append(<<>>, x) /\ <<>> \in Seq(Nat)
  OBVIOUS
<1>2. Sum(Append(<<>>, x)) = Sum(<<>>) + x
  BY <1>1, SumOfAppend
<1> QED
  BY <1>1, <1>2, SumOfNone

(* Words are not empty: their bytes are at least as many as they are.      *)
LEMMA SumIsLong ==
  ASSUME NEW words \in Words
  PROVE  Sum(words) >= Len(words)
<1> DEFINE n == Len(words)
<1>0. n \in Nat /\ words \in Seq(Nat) /\ \A i \in 1 .. n : words[i] \in Nat \ {0}
  BY ElementOfSeq, WordsAreNaturals DEF Words
<1>1. PICK f : Adds(f, words)
  BY <1>0, SumLoop
<1> DEFINE A == {i \in 0 .. n : f[i] >= i}
<1>2. 0 \in A
  BY <1>0, <1>1 DEF Adds
<1>3. ASSUME NEW i \in 1 .. n, i - 1 \in A PROVE i \in A
  <2>1. f[i] = f[i - 1] + words[i]
    BY <1>1 DEF Adds
  <2>2. f[i - 1] \in Nat
    BY <1>0, <1>1 DEF Adds
  <2>3. words[i] >= 1 /\ words[i] \in Nat
    BY <1>0
  <2> QED
    BY <1>3, <2>1, <2>2, <2>3
<1>4. n \in A
  <2> HIDE DEF A, n
  <2>1. \A i \in 0 .. n : i \in A
    BY <1>0, <1>2, <1>3, Climb
  <2> QED
    BY <1>0, <2>1
<1> QED
  BY <1>1, <1>4 DEF Adds

LEMMA BytesArePositive ==
  ASSUME NEW words \in SomeWords
  PROVE  Bytes(words) \in Nat \ {0}
<1>1. words \in Words /\ Len(words) \in Nat \ {0}
  BY EmptySeq DEF SomeWords, Words
<1>2. Sum(words) \in Nat /\ Sum(words) >= Len(words)
  BY <1>1, SumIsLong, SumIsNat, WordsAreNaturals
<1> QED
  BY <1>1, <1>2 DEF Bytes

(* Where words end in two texts, one after the other.                      *)
Moved(ends, by) == {by + e : e \in ends}
LEMMA EndsOfConcat ==
  ASSUME NEW s \in Seq(Nat), NEW t \in Seq(Nat)
  PROVE  Ends(s \o t) = Ends(s) \cup Moved(Ends(t), Sum(s))
<1> DEFINE u == s \o t
           m == Len(s)
           k == Len(t)
<1>0. u \in Seq(Nat) /\ m \in Nat /\ k \in Nat /\ Len(u) = m + k
      /\ DOMAIN s = 1 .. m /\ DOMAIN t = 1 .. k /\ DOMAIN u = 1 .. (m + k)
  OBVIOUS
<1>1. \A n \in 1 .. m : SubSeq(u, 1, n) = SubSeq(s, 1, n)
  OBVIOUS
<1>2. \A n \in 1 .. k : SubSeq(u, 1, m + n) = s \o SubSeq(t, 1, n)
  OBVIOUS
<1>3. \A n \in 1 .. k : Sum(s \o SubSeq(t, 1, n)) = Sum(s) + Sum(SubSeq(t, 1, n))
  <2> TAKE n \in 1 .. k
  <2>1. SubSeq(t, 1, n) \in Seq(Nat)
    OBVIOUS
  <2> QED
    BY <2>1, SumOfConcat
<1>4. \A n \in 1 .. (m + k) : n \in 1 .. m \/ n - m \in 1 .. k
  BY <1>0
<1>5. \A n \in 1 .. k : m + n \in 1 .. (m + k)
  BY <1>0
<1>6. \A n \in 1 .. m : n \in 1 .. (m + k)
  BY <1>0
<1> HIDE DEF u, m, k
<1>7. ASSUME NEW e \in Ends(u) PROVE e \in Ends(s) \cup Moved(Ends(t), Sum(s))
  <2>1. PICK n \in 1 .. (m + k) : e = Sum(SubSeq(u, 1, n))
    BY <1>0 DEF Ends
  <2>2. CASE n \in 1 .. m
    BY <1>0, <1>1, <2>1, <2>2 DEF Ends
  <2>3. CASE n - m \in 1 .. k
    <3>1. m + (n - m) = n
      BY <1>0
    <3>2. e = Sum(s) + Sum(SubSeq(t, 1, n - m))
      BY <1>2, <1>3, <2>1, <2>3, <3>1
    <3>3. Sum(SubSeq(t, 1, n - m)) \in Ends(t)
      BY <1>0, <2>3 DEF Ends
    <3> QED
      BY <3>2, <3>3 DEF Moved
  <2> QED
    BY <1>4, <2>2, <2>3
<1>8. ASSUME NEW e \in Ends(s) PROVE e \in Ends(u)
  <2>1. PICK n \in 1 .. m : e = Sum(SubSeq(s, 1, n))
    BY <1>0 DEF Ends
  <2> QED
    BY <1>0, <1>1, <1>6, <2>1 DEF Ends
<1>9. ASSUME NEW e \in Moved(Ends(t), Sum(s)) PROVE e \in Ends(u)
  <2>1. PICK n \in 1 .. k : e = Sum(s) + Sum(SubSeq(t, 1, n))
    BY <1>0 DEF Ends, Moved
  <2> QED
    BY <1>0, <1>2, <1>3, <1>5, <2>1 DEF Ends
<1>10. Ends(u) = Ends(s) \cup Moved(Ends(t), Sum(s))
  BY <1>7, <1>8, <1>9
<1> QED
  BY <1>10 DEF u

(* A text cut at more places: it has the bytes of the other, and a word    *)
(* ends where one of the other does.                                       *)
SameText(cut, words) ==
  /\ Sum(cut) = Sum(words)
  /\ Ends(words) \subseteq Ends(cut)

LEMMA SameTextAfter ==
  ASSUME NEW s \in Seq(Nat), NEW cut \in Seq(Nat), NEW words \in Seq(Nat),
         SameText(cut, words)
  PROVE  SameText(s \o cut, s \o words)
<1>1. Sum(s \o cut) = Sum(s) + Sum(cut) /\ Sum(s \o words) = Sum(s) + Sum(words)
  BY SumOfConcat
<1>2. /\ Ends(s \o cut) = Ends(s) \cup Moved(Ends(cut), Sum(s))
      /\ Ends(s \o words) = Ends(s) \cup Moved(Ends(words), Sum(s))
  BY EndsOfConcat
<1>3. Moved(Ends(words), Sum(s)) \subseteq Moved(Ends(cut), Sum(s))
  BY DEF SameText, Moved
<1> QED
  BY <1>1, <1>2, <1>3 DEF SameText

LEMMA PrefixOfOne ==
  ASSUME NEW T, NEW s \in Seq(T), NEW x, s # <<>>, Head(s) = x
  PROVE  SubSeq(s, 1, 1) = <<x>>
<1>1. Len(s) \in Nat \ {0} /\ s[1] = x
  BY EmptySeq
<1>2. 1 \in 1 .. Len(s) /\ x \in T
  BY <1>1, ElementOfSeq
<1> DEFINE p == SubSeq(s, 1, 1)
<1>3. p \in Seq(T) /\ Len(p) = 1 /\ p[1] = x
  BY <1>1, <1>2
<1> HIDE DEF p
<1>4. p = <<x>>
  BY <1>2, <1>3
<1> QED
  BY <1>4 DEF p

LEMMA EndsOfOne == ASSUME NEW x \in Nat PROVE Ends(<<x>>) = {x}
<1> DEFINE s == <<x>>
<1>1. s \in Seq(Nat) /\ s # <<>> /\ Head(s) = x /\ DOMAIN s = {1}
  OBVIOUS
<1> HIDE DEF s
<1>2. SubSeq(s, 1, 1) = <<x>>
  BY <1>1, PrefixOfOne
<1>3. Ends(s) = {Sum(SubSeq(s, 1, 1))}
  BY <1>1 DEF Ends
<1>4. Sum(<<x>>) = x
  BY SumOfOne
<1> QED
  BY <1>2, <1>3, <1>4 DEF s

LEMMA ThoseOfOne ==
  ASSUME NEW x \in Nat, NEW A
  PROVE  Those(<<x>>, A) = IF x \in A THEN <<x>> ELSE <<>>
<1> DEFINE s == <<x>>
           S == Seq(Nat)
<1>1. s \in Seq(Nat) /\ Len(s) = 1 /\ s[1] = x /\ <<>> \in S
  OBVIOUS
<1>2. \A a \in S, i \in 1 .. Len(s) : Keep(a, s[i], A) \in S
  <2> TAKE a \in S, i \in 1 .. Len(s)
  <2>1. s[i] \in Nat
    BY <1>1
  <2>2. Append(a, s[i]) \in S
    BY <2>1
  <2> QED
    BY <2>2 DEF Keep
<1> HIDE DEF s, S
<1>3. PICK f : Keeps(f, S, s, A)
  BY <1>1, <1>2, ThoseLoop
<1>4. f[1] = Keep(f[0], x, A) /\ f[0] = <<>> /\ f[1] = Those(s, A)
  <2>1. 1 \in 1 .. Len(s) /\ 1 - 1 = 0
    BY <1>1
  <2> QED
    BY <1>1, <1>3, <2>1 DEF Keeps
<1>5. Append(<<>>, x) = <<x>>
  OBVIOUS
<1> QED
  BY <1>4, <1>5 DEF Keep, s

(* A text too large for a chunk, without a space in the first ChunkBytes   *)
(* bytes, has a first word that fills them.                                *)
LEMMA FirstWordIsLarge ==
  ASSUME NEW words \in SomeWords, Splits(words) = {}, Bytes(words) > ChunkBytes
  PROVE  /\ Head(words) \in Nat /\ Head(words) >= ChunkBytes
         /\ Tail(words) \in Words /\ words = <<Head(words)>> \o Tail(words)
<1>1. words \in Seq(Nat \ {0}) /\ words # <<>> /\ Len(words) \in Nat \ {0}
  BY EmptySeq DEF SomeWords, Words
<1>2. Head(words) \in Nat \ {0} /\ Tail(words) \in Words
  BY <1>1, HeadTailProperties DEF Words
<1>3. words = <<Head(words)>> \o Tail(words)
  BY <1>1
<1> DEFINE x == Head(words)
<1>4. ChunkBytes \in Nat
  BY SizesAreNaturals
<1>5. Bytes(<<x>>) = x
  <2>1. Sum(<<x>>) = x /\ Len(<<x>>) = 1
    BY <1>2, SumOfOne
  <2> QED
    BY <1>2, <2>1 DEF Bytes
<1>6. CASE Len(words) = 1
  <2>1. words = <<x>>
    BY <1>1, <1>6
  <2> QED
    BY <1>2, <1>3, <1>4, <1>5, <2>1
<1>7. CASE Len(words) # 1
  <2>1. 1 \in 1 .. Len(words) - 1
    <3> DEFINE n == Len(words)
    <3>1. n \in Nat \ {0} /\ n # 1
      BY <1>1, <1>7
    <3> HIDE DEF n
    <3>2. 1 \in 1 .. n - 1
      BY <3>1
    <3> QED
      BY <3>2 DEF n
  <2>2. SubSeq(words, 1, 1) = <<x>>
    BY <1>1, PrefixOfOne
  <2>3. ~(Bytes(SubSeq(words, 1, 1)) < ChunkBytes)
    BY <2>1 DEF Splits
  <2>4. ~(x < ChunkBytes)
    BY <1>5, <2>2, <2>3
  <2>5. x >= ChunkBytes
    BY <1>2, <1>4, <2>4
  <2> QED
    BY <1>2, <1>3, <2>5
<1> QED
  BY <1>6, <1>7

(* Where such a word is cut.                                               *)
LEMMA CutInAWord ==
  ASSUME NEW words \in SomeWords, Splits(words) = {}, Bytes(words) > ChunkBytes
  PROVE  /\ Head(words) = ChunkBytes => Remaining(words) = Tail(words)
         /\ Head(words) # ChunkBytes =>
              Remaining(words) = <<Head(words) - ChunkBytes>> \o Tail(words)
<1> DEFINE x == Head(words)
           d == x - ChunkBytes
           t == Tail(words)
<1>1. x \in Nat /\ x >= ChunkBytes /\ t \in Words /\ ChunkBytes \in Nat
  BY FirstWordIsLarge, SizesAreNaturals
<1>2. d \in Nat
  BY <1>1
<1>3. Remaining(words) = Those(<<d>>, Nat \ {0}) \o t
  BY DEF Remaining, RestOf
<1>4. Those(<<d>>, Nat \ {0}) = IF d \in Nat \ {0} THEN <<d>> ELSE <<>>
  <2> HIDE DEF d
  <2> QED
    BY <1>2, ThoseOfOne
<1>5. <<>> \o t = t
  BY <1>1, ConcatEmptySeq DEF Words
<1>6. CASE x = ChunkBytes
  <2>1. d = 0
    BY <1>1, <1>6
  <2>2. Those(<<d>>, Nat \ {0}) = <<>>
    BY <1>4, <2>1
  <2> QED
    BY <1>3, <1>5, <1>6, <2>2
<1>7. CASE x # ChunkBytes
  <2>1. d \in Nat \ {0}
    BY <1>1, <1>7
  <2> QED
    BY <1>3, <1>4, <1>7, <2>1
<1> QED
  BY <1>6, <1>7

(* A chunk and what remains are the text they are cut off.                 *)
LEMMA CutIsSameText ==
  ASSUME NEW words \in SomeWords, Bytes(words) > ChunkBytes
  PROVE  SameText(FirstChunk(words) \o Remaining(words), words)
<1>0. words \in Words /\ words \in Seq(Nat) /\ ChunkBytes \in Nat
  BY WordsAreNaturals, SizesAreNaturals DEF SomeWords
<1>1. CASE Splits(words) # {}
  <2>1. PICK m \in 1 .. (Len(words) - 1) : m = Max(Splits(words))
    BY <1>0, <1>1, SplitsInside
  <2>2. FirstChunk(words) = SubSeq(words, 1, m) /\ Remaining(words) = SubSeq(words, m + 1, Len(words))
    BY <1>1, <2>1 DEF FirstChunk, Remaining
  <2>3. SubSeq(words, 1, m) \o SubSeq(words, m + 1, Len(words)) = SubSeq(words, 1, Len(words))
    <3>1. Len(words) \in Nat /\ m \in 0 .. Len(words) /\ 1 \in 1 .. Len(words) + 1
          /\ m \in 1 - 1 .. Len(words) /\ Len(words) \in m .. Len(words)
      BY <1>0, <2>1 DEF Words
    <3> QED
      BY <1>0, <3>1, ConcatAdjacentSubSeq
  <2>4. SubSeq(words, 1, Len(words)) = words
    BY <1>0, SubSeqFull
  <2> QED
    BY <2>2, <2>3, <2>4 DEF SameText
<1>2. CASE Splits(words) = {}
  <2> DEFINE x == Head(words)
             c == ChunkBytes
             d == x - c
             t == Tail(words)
  <2>1. /\ x \in Nat /\ x >= c /\ t \in Words /\ words = <<x>> \o t
        /\ FirstChunk(words) = <<c>>
    BY <1>2, FirstWordIsLarge DEF FirstChunk
  <2>2. /\ x = c => Remaining(words) = t
        /\ x # c => Remaining(words) = <<d>> \o t
    BY <1>2, CutInAWord
  <2>3. t \in Seq(Nat) /\ d \in Nat /\ c \in Nat /\ c + d = x
    BY <1>0, <2>1, WordsAreNaturals
  <2> HIDE DEF x, d, t, c
  <2>4. CASE x = c
    <3>1. FirstChunk(words) \o Remaining(words) = words
      BY <2>1, <2>2, <2>4
    <3> QED
      BY <3>1 DEF SameText
  <2>5. CASE x # c
    <3> DEFINE r == <<d>> \o t
    <3>1. r \in Seq(Nat) /\ <<c>> \in Seq(Nat) /\ <<x>> \in Seq(Nat) /\ <<d>> \in Seq(Nat)
      BY <2>1, <2>3
    <3>2. Sum(<<c>>) = c /\ Sum(<<d>>) = d /\ Sum(<<x>>) = x /\ Sum(t) \in Nat
      BY <2>1, <2>3, SumOfOne, SumIsNat
    <3>3. Ends(<<c>>) = {c} /\ Ends(<<d>>) = {d} /\ Ends(<<x>>) = {x}
      BY <2>1, <2>3, EndsOfOne
    <3>4. Sum(r) = d + Sum(t) /\ Ends(r) = {d} \cup Moved(Ends(t), d)
      BY <2>3, <3>1, <3>2, <3>3, SumOfConcat, EndsOfConcat
    <3>5. Sum(words) = x + Sum(t) /\ Ends(words) = {x} \cup Moved(Ends(t), x)
      BY <2>1, <2>3, <3>1, <3>2, <3>3, SumOfConcat, EndsOfConcat
    <3> HIDE DEF r
    <3>6. Sum(<<c>> \o r) = c + Sum(r) /\ Ends(<<c>> \o r) = {c} \cup Moved(Ends(r), c)
      BY <3>1, <3>2, <3>3, SumOfConcat, EndsOfConcat
    <3>7. Sum(<<c>> \o r) = Sum(words)
      BY <2>3, <3>2, <3>4, <3>5, <3>6
    <3>8. ASSUME NEW e \in Ends(words) PROVE e \in Ends(<<c>> \o r)
      <4>1. CASE e = x
        BY <2>3, <3>4, <3>6, <4>1 DEF Moved
      <4>2. CASE e \in Moved(Ends(t), x)
        <5>1. PICK y \in Ends(t) : e = x + y
          BY <4>2 DEF Moved
        <5>2. y \in Nat
          <6>1. PICK n \in DOMAIN t : y = Sum(SubSeq(t, 1, n))
            BY <5>1 DEF Ends
          <6>2. SubSeq(t, 1, n) \in Seq(Nat)
            BY <2>3, <6>1
          <6> QED
            BY <6>1, <6>2, SumIsNat
        <5>3. e = c + (d + y)
          BY <2>3, <5>1, <5>2
        <5>4. d + y \in Ends(r)
          BY <3>4, <5>1 DEF Moved
        <5> QED
          BY <3>6, <5>3, <5>4 DEF Moved
      <4> QED
        BY <3>5, <4>1, <4>2
    <3>9. FirstChunk(words) \o Remaining(words) = <<c>> \o r
      BY <2>1, <2>2, <2>5 DEF r
    <3> QED
      BY <3>7, <3>8, <3>9 DEF SameText
  <2> QED
    BY <2>4, <2>5
<1> QED
  BY <1>1, <1>2

(* A chunk is neither empty nor too large.                                 *)
LEMMA ChunkFits ==
  ASSUME NEW words \in SomeWords, Bytes(words) > ChunkBytes
  PROVE  Bytes(FirstChunk(words)) \in 1 .. ChunkBytes
<1>0. words \in Words /\ ChunkBytes \in Nat \ {0}
  BY SizesAreNaturals DEF SomeWords
<1>1. FirstChunk(words) \in SomeWords
  BY FirstChunkTyped
<1>2. Bytes(FirstChunk(words)) \in Nat \ {0}
  BY <1>1, BytesArePositive
<1>3. CASE Splits(words) # {}
  <2>1. Max(Splits(words)) \in Splits(words)
    BY <1>0, <1>3, SplitsInside
  <2>2. Bytes(FirstChunk(words)) < ChunkBytes
    BY <1>3, <2>1 DEF Splits, FirstChunk
  <2> QED
    BY <1>0, <1>2, <2>2
<1>4. CASE Splits(words) = {}
  <2>1. FirstChunk(words) = <<ChunkBytes>>
    BY <1>4 DEF FirstChunk
  <2>2. Sum(<<ChunkBytes>>) = ChunkBytes /\ Len(<<ChunkBytes>>) = 1
    BY <1>0, SumOfOne
  <2>3. Bytes(<<ChunkBytes>>) = ChunkBytes
    BY <1>0, <2>2 DEF Bytes
  <2> QED
    BY <1>0, <2>1, <2>3
<1> QED
  BY <1>3, <1>4

LEMMA FlattenOfAppend ==
  ASSUME NEW T, NEW seqs \in Seq(Seq(T)), NEW c \in Seq(T)
  PROVE  FlattenSeq(Append(seqs, c)) = FlattenSeq(seqs) \o c
<1> DEFINE all == Append(seqs, c)
           n == Len(seqs)
<1>1. /\ all \in Seq(Seq(T)) /\ n \in Nat /\ Len(all) = n + 1
      /\ all[n + 1] = c /\ \A i \in 1 .. n : all[i] = seqs[i]
  BY AppendProperties
<1> HIDE DEF all
<1>2. PICK f : Flattens(f, T, seqs)
  BY FlattenLoop
<1>3. PICK g : Flattens(g, T, all)
  BY <1>1, FlattenLoop
<1> DEFINE A == {i \in 0 .. n : g[i] = f[i]}
<1> HIDE DEF n
<1>4. 0 \in A
  BY <1>1, <1>2, <1>3 DEF Flattens
<1>5. ASSUME NEW i \in 1 .. n, i - 1 \in A PROVE i \in A
  <2>1. i \in 1 .. Len(all) /\ i \in 1 .. Len(seqs)
    BY <1>1 DEF n
  <2>2. g[i] = g[i - 1] \o all[i] /\ f[i] = f[i - 1] \o seqs[i]
    BY <1>2, <1>3, <2>1 DEF Flattens
  <2>3. all[i] = seqs[i] /\ g[i - 1] = f[i - 1]
    BY <1>1, <1>5
  <2>4. g[i] = f[i] /\ i \in 0 .. n
    BY <1>1, <2>2, <2>3
  <2> QED
    BY <2>4
<1>6. g[n] = f[n]
  <2> HIDE DEF A
  <2>1. \A i \in 0 .. n : i \in A
    BY <1>1, <1>4, <1>5, Climb
  <2> QED
    BY <1>1, <2>1 DEF A
<1>7. g[n + 1] = g[n] \o c
  <2>1. n + 1 \in 1 .. Len(all) /\ (n + 1) - 1 = n
    BY <1>1
  <2> QED
    BY <1>1, <1>3, <2>1 DEF Flattens
<1>8. g[n + 1] = FlattenSeq(all) /\ f[n] = FlattenSeq(seqs)
  BY <1>1, <1>2, <1>3 DEF Flattens, n
<1> QED
  BY <1>6, <1>7, <1>8 DEF all

(* What has been cut off a text, and what remains of it, are the text.     *)
Whole(r) == FlattenSeq(r.chunks) \o r.rest
ChunksFit(r) == \A n \in 1 .. Len(r.chunks) : Bytes(r.chunks[n]) \in 1 .. ChunkBytes
CutWell(r, words) == SameText(Whole(r), words) /\ ChunksFit(r)

LEMMA ConcatOfThree ==
  \A s, t, u \in Seq(Nat) : (s \o t) \o u = s \o (t \o u)
BY ConcatAssociative

(* A chunk more.                                                           *)
LEMMA OneMoreChunk ==
  ASSUME NEW r \in Cuts, NEW words, CutWell(r, words),
         NEW c \in Words, NEW rest \in Words,
         SameText(c \o rest, r.rest), Bytes(c) \in 1 .. ChunkBytes
  PROVE  CutWell([chunks |-> Append(r.chunks, c), rest |-> rest], words)
<1> DEFINE s == [chunks |-> Append(r.chunks, c), rest |-> rest]
           cut == FlattenSeq(r.chunks)
<1>1. r.chunks \in Seq(SomeWords) /\ r.rest \in Words
  BY DEF Cuts
<1>2. r.chunks \in Seq(Seq(Nat))
  <2>1. SomeWords \subseteq Seq(Nat)
    BY WordsAreNaturals DEF SomeWords
  <2> QED
    BY <1>1, <2>1, SeqMonotonic
<1>3. c \in Seq(Nat) /\ rest \in Seq(Nat) /\ r.rest \in Seq(Nat) /\ c \o rest \in Seq(Nat)
  BY <1>1, WordsAreNaturals, ConcatProperties
<1>4. cut \in Seq(Nat)
  BY <1>2, FlattenTyped
<1>5. Whole(s) = cut \o (c \o rest)
  <2>1. FlattenSeq(s.chunks) = cut \o c
    BY <1>2, <1>3, FlattenOfAppend
  <2>2. s.rest = rest
    OBVIOUS
  <2>3. (cut \o c) \o rest = cut \o (c \o rest)
    BY <1>3, <1>4, ConcatOfThree
  <2> HIDE DEF cut, s
  <2> QED
    BY <2>1, <2>2, <2>3 DEF Whole
<1>6. SameText(cut \o (c \o rest), cut \o r.rest)
  <2> HIDE DEF cut
  <2> QED
    BY <1>3, <1>4, SameTextAfter
<1>7. SameText(Whole(s), words)
  BY <1>5, <1>6 DEF CutWell, SameText, Whole
<1>8. ChunksFit(s)
  <2> DEFINE n == Len(r.chunks)
             all == Append(r.chunks, c)
  <2>1. /\ n \in Nat /\ Len(all) = n + 1 /\ all[n + 1] = c
        /\ \A i \in 1 .. n : all[i] = r.chunks[i]
    BY <1>2, <1>3, AppendProperties
  <2>2. \A i \in 1 .. n : Bytes(r.chunks[i]) \in 1 .. ChunkBytes
    BY DEF CutWell, ChunksFit
  <2>3. s.chunks = all
    OBVIOUS
  <2> HIDE DEF n, all, s
  <2>4. \A i \in 1 .. (n + 1) : i \in 1 .. n \/ i = n + 1
    BY <2>1
  <2>5. \A i \in 1 .. Len(all) : Bytes(all[i]) \in 1 .. ChunkBytes
    BY <2>1, <2>2, <2>4
  <2> QED
    BY <2>3, <2>5 DEF ChunksFit
<1> QED
  BY <1>7, <1>8 DEF CutWell

LEMMA CutOffKeeps ==
  ASSUME NEW r \in Cuts, NEW words, CutWell(r, words)
  PROVE  CutWell(CutOff(r), words)
<1>1. r.chunks \in Seq(SomeWords) /\ r.rest \in Words /\ ChunkBytes \in Nat
  BY SizesAreNaturals DEF Cuts
<1>2. CASE r.rest = <<>>
  BY <1>2 DEF CutOff
<1>3. CASE r.rest # <<>> /\ Bytes(r.rest) <= ChunkBytes
  <2>1. Bytes(r.rest) \in Nat \ {0}
    BY <1>1, <1>3, BytesArePositive DEF SomeWords
  <2>2. Bytes(r.rest) \in 1 .. ChunkBytes
    BY <1>1, <1>3, <2>1
  <2>3. <<>> \in Words /\ r.rest \o <<>> = r.rest
    BY <1>1, ConcatEmptySeq DEF Words
  <2>4. SameText(r.rest \o <<>>, r.rest)
    BY <2>3 DEF SameText
  <2>5. CutOff(r) = [chunks |-> Append(r.chunks, r.rest), rest |-> <<>>]
    BY <1>3 DEF CutOff
  <2> QED
    BY <1>1, <2>2, <2>3, <2>4, <2>5, OneMoreChunk
<1>4. CASE r.rest # <<>> /\ ~(Bytes(r.rest) <= ChunkBytes)
  <2>1. r.rest \in SomeWords
    BY <1>1, <1>4 DEF SomeWords
  <2>2. Bytes(r.rest) \in Nat /\ Bytes(r.rest) > ChunkBytes
    BY <1>1, <1>4, <2>1, BytesIsNat
  <2>3. FirstChunk(r.rest) \in Words /\ Remaining(r.rest) \in Words
    BY <2>1, FirstChunkTyped, RemainingTyped DEF SomeWords
  <2>4. SameText(FirstChunk(r.rest) \o Remaining(r.rest), r.rest)
    BY <2>1, <2>2, CutIsSameText
  <2>5. Bytes(FirstChunk(r.rest)) \in 1 .. ChunkBytes
    BY <2>1, <2>2, ChunkFits
  <2>6. CutOff(r) = [chunks |-> Append(r.chunks, FirstChunk(r.rest)), rest |-> Remaining(r.rest)]
    BY <1>4 DEF CutOff
  <2> QED
    BY <2>3, <2>4, <2>5, <2>6, OneMoreChunk
<1> QED
  BY <1>2, <1>3, <1>4

(* How many rounds a text takes at most.                                   *)
MostRounds(words) == Len(words) + Sum(words) \div ChunkBytes
LEMMA DivOfMore ==
  \A a, b \in Nat, c \in Nat \ {0} :
    (a + b) \div c >= b \div c /\ (a + b) \div c \in Nat /\ b \div c \in Nat
OBVIOUS
LEMMA DivOfOneMore ==
  \A a \in Nat, c \in Nat \ {0} :
    (a + c) \div c = a \div c + 1 /\ a \div c \in Nat
OBVIOUS

LEMMA TurnsDecrease ==
  ASSUME NEW words \in SomeWords, Bytes(words) > ChunkBytes
  PROVE  MostRounds(Remaining(words)) < MostRounds(words)
<1>0. /\ words \in Words /\ words \in Seq(Nat) /\ Len(words) \in Nat
      /\ ChunkBytes \in Nat \ {0}
  BY WordsAreNaturals, SizesAreNaturals DEF SomeWords
<1>1. CASE Splits(words) # {}
  <2>1. PICK m \in 1 .. (Len(words) - 1) : m = Max(Splits(words))
    BY <1>0, <1>1, SplitsInside
  <2> DEFINE s == SubSeq(words, 1, m)
             t == SubSeq(words, m + 1, Len(words))
             n == Len(words)
  <2>2. Remaining(words) = t
    BY <1>1, <2>1 DEF Remaining
  <2>3. s \in Seq(Nat) /\ t \in Seq(Nat) /\ Len(t) = n - m
    <3>1. \A i \in 1 .. n : words[i] \in Nat
      BY <1>0, ElementOfSeq
    <3>2. n \in Nat /\ m \in 1 .. n /\ m + 1 <= n /\ n - (m + 1) + 1 = n - m
      BY <1>0, <2>1
    <3>3. \A i \in m + 1 .. n : i \in 1 .. n
      BY <3>2
    <3>4. \A i \in 1 .. m : i \in 1 .. n
      BY <3>2
    <3>5. m \in Int /\ m + 1 \in Int /\ n \in Int
      BY <3>2
    <3>6. s \in Seq(Nat)
      BY <3>1, <3>4, <3>5, SubSeqProperties
    <3>7. t \in Seq(Nat) /\ Len(t) = n - m
      BY <3>1, <3>2, <3>3, <3>5, SubSeqProperties
    <3> QED
      BY <3>6, <3>7
  <2>4. s \o t = words
    <3>1. m \in 0 .. Len(words) /\ 1 \in 1 .. Len(words) + 1
          /\ m \in 1 - 1 .. Len(words) /\ Len(words) \in m .. Len(words)
      BY <1>0, <2>1
    <3>2. s \o t = SubSeq(words, 1, Len(words))
      BY <1>0, <3>1, ConcatAdjacentSubSeq
    <3> QED
      BY <1>0, <3>2, SubSeqFull
  <2>5. m \in Nat /\ m > 0 /\ n \in Nat
    BY <1>0, <2>1
  <2> HIDE DEF s, t, n
  <2>6. Sum(words) = Sum(s) + Sum(t) /\ Sum(s) \in Nat /\ Sum(t) \in Nat
    BY <2>3, <2>4, SumOfConcat, SumIsNat
  <2>7. /\ Sum(words) \div ChunkBytes >= Sum(t) \div ChunkBytes
        /\ Sum(words) \div ChunkBytes \in Nat /\ Sum(t) \div ChunkBytes \in Nat
    BY <1>0, <2>6, DivOfMore
  <2>8. Len(words) = n
    BY DEF n
  <2> QED
    BY <2>2, <2>3, <2>5, <2>7, <2>8 DEF MostRounds
<1>2. CASE Splits(words) = {}
  <2> DEFINE x == Head(words)
             c == ChunkBytes
             d == x - c
             t == Tail(words)
  <2>1. x \in Nat /\ x >= c /\ t \in Words /\ words = <<x>> \o t
    BY <1>2, FirstWordIsLarge
  <2>2. /\ x = c => Remaining(words) = t
        /\ x # c => Remaining(words) = <<d>> \o t
    BY <1>2, CutInAWord
  <2>3. t \in Seq(Nat) /\ d \in Nat /\ c \in Nat \ {0} /\ x = d + c
    BY <1>0, <2>1, WordsAreNaturals
  <2> HIDE DEF x, d, t
  <2>4. Sum(t) \in Nat /\ Len(t) \in Nat /\ Sum(<<x>>) = x /\ Sum(<<d>>) = d
    BY <2>1, <2>3, SumOfOne, SumIsNat
  <2>5. /\ Sum(<<x>> \o t) = x + Sum(t) /\ Sum(<<d>> \o t) = d + Sum(t)
        /\ Len(<<x>> \o t) = 1 + Len(t) /\ Len(<<d>> \o t) = 1 + Len(t)
    <3>1. <<x>> \in Seq(Nat) /\ <<d>> \in Seq(Nat) /\ Len(<<x>>) = 1 /\ Len(<<d>>) = 1
      BY <2>1, <2>3
    <3>2. Sum(<<x>> \o t) = Sum(<<x>>) + Sum(t) /\ Sum(<<d>> \o t) = Sum(<<d>>) + Sum(t)
      BY <2>3, <3>1, SumOfConcat
    <3>3. /\ Len(<<x>> \o t) = Len(<<x>>) + Len(t)
          /\ Len(<<d>> \o t) = Len(<<d>>) + Len(t)
      BY <2>3, <3>1, ConcatProperties
    <3> QED
      BY <2>4, <3>1, <3>2, <3>3
  <2> DEFINE a == d + Sum(t)
             k == Len(t)
  <2>6. a \in Nat /\ x + Sum(t) = a + c /\ k \in Nat
    BY <2>1, <2>3, <2>4
  <2>7. Sum(words) = a + c /\ Len(words) = 1 + k
    BY <2>1, <2>5, <2>6
  <2>8. (a + c) \div c = a \div c + 1 /\ a \div c \in Nat
    BY <2>3, <2>6, DivOfOneMore
  <2>9. MostRounds(words) = 1 + k + a \div c + 1
    BY <2>6, <2>7, <2>8 DEF MostRounds
  <2>10. CASE x = c
    <3>1. a = Sum(t)
      BY <2>3, <2>4, <2>10
    <3>2. MostRounds(Remaining(words)) = k + a \div c
      BY <2>2, <2>10, <3>1 DEF MostRounds
    <3> QED
      BY <2>6, <2>8, <2>9, <3>2
  <2>11. CASE x # c
    <3>1. MostRounds(Remaining(words)) = 1 + k + a \div c
      BY <2>2, <2>5, <2>11 DEF MostRounds
    <3> QED
      BY <2>6, <2>8, <2>9, <3>1
  <2> QED
    BY <2>10, <2>11
<1> QED
  BY <1>1, <1>2

LEMMA CutOffShortens ==
  ASSUME NEW r \in Cuts, NEW n \in Nat, n # 0, r.rest = <<>> \/ MostRounds(r.rest) <= n
  PROVE  CutOff(r).rest = <<>> \/ MostRounds(CutOff(r).rest) <= n - 1
<1>1. r.rest \in Words /\ ChunkBytes \in Nat \ {0}
  BY SizesAreNaturals DEF Cuts
<1>2. CASE r.rest = <<>> \/ Bytes(r.rest) <= ChunkBytes
  BY <1>2 DEF CutOff
<1>3. CASE r.rest # <<>> /\ ~(Bytes(r.rest) <= ChunkBytes)
  <2>1. r.rest \in SomeWords
    BY <1>1, <1>3 DEF SomeWords
  <2>2. Bytes(r.rest) \in Nat /\ Bytes(r.rest) > ChunkBytes
    BY <1>1, <1>3, <2>1, BytesIsNat
  <2>3. MostRounds(Remaining(r.rest)) < MostRounds(r.rest)
    BY <2>1, <2>2, TurnsDecrease
  <2>4. CutOff(r).rest = Remaining(r.rest)
    BY <1>3 DEF CutOff
  <2>5. MostRounds(r.rest) \in Nat
    BY <1>1, RoundsTyped DEF MostRounds
  <2>6. MostRounds(Remaining(r.rest)) \in Nat
    BY <2>1, RemainingTyped, RoundsTyped DEF MostRounds
  <2> QED
    BY <1>3, <2>3, <2>4, <2>5, <2>6
<1> QED
  BY <1>2, <1>3

(* Every text is cut to its end, well.                                     *)
LEMMA AllIsCut ==
  ASSUME NEW words \in Words
  PROVE  AllCut(words) \in Cuts /\ AllCut(words).rest = <<>> /\ CutWell(AllCut(words), words)
<1> DEFINE n == Len(Rounds(words))
<1>1. Uncut(words) \in Cuts
  BY DEF Uncut, Cuts
<1>2. Rounds(words) \in Seq(Nat) /\ n = MostRounds(words) /\ n \in Nat
  BY RoundsTyped DEF MostRounds
<1>3. PICK f : CutsOff(f, Cuts, words)
  BY <1>1, <1>2, CutOffTyped, CuttingLoop
<1> DEFINE A == {i \in 0 .. n : /\ f[i].rest = <<>> \/ MostRounds(f[i].rest) <= n - i
                                /\ CutWell(f[i], words)}
<1> HIDE DEF n
<1>4. 0 \in A
  <2>1. f[0] = Uncut(words)
    BY <1>3 DEF CutsOff
  <2>2. f[0].rest = words /\ f[0].chunks = <<>>
    BY <2>1 DEF Uncut
  <2>3. Whole(f[0]) = words
    <3>1. FlattenSeq(<<>>) = <<>>
      BY DEF FlattenSeq
    <3>2. <<>> \o words = words
      BY ConcatEmptySeq DEF Words
    <3> QED
      BY <2>2, <3>1, <3>2 DEF Whole
  <2>4. CutWell(f[0], words)
    BY <2>2, <2>3 DEF CutWell, SameText, ChunksFit
  <2>5. MostRounds(f[0].rest) <= n - 0
    BY <1>2, <2>2
  <2> QED
    BY <1>2, <2>4, <2>5
<1>5. ASSUME NEW i \in 1 .. n, i - 1 \in A PROVE i \in A
  <2>1. i \in Nat /\ i - 1 \in 0 .. n /\ i \in 0 .. n /\ n - (i - 1) \in Nat
        /\ n - (i - 1) # 0 /\ (n - (i - 1)) - 1 = n - i
    BY <1>2
  <2>2. f[i] = CutOff(f[i - 1]) /\ f[i - 1] \in Cuts
    BY <1>3, <2>1 DEF CutsOff, n
  <2>3. /\ f[i - 1].rest = <<>> \/ MostRounds(f[i - 1].rest) <= n - (i - 1)
        /\ CutWell(f[i - 1], words)
    BY <1>5
  <2>4. f[i].rest = <<>> \/ MostRounds(f[i].rest) <= n - i
    <3> DEFINE r == f[i - 1]
               k == n - (i - 1)
    <3>1. r \in Cuts /\ k \in Nat /\ k # 0 /\ (r.rest = <<>> \/ MostRounds(r.rest) <= k)
      BY <2>1, <2>2, <2>3
    <3>2. f[i] = CutOff(r) /\ k - 1 = n - i
      BY <2>1, <2>2
    <3> HIDE DEF r, k
    <3>3. CutOff(r).rest = <<>> \/ MostRounds(CutOff(r).rest) <= k - 1
      BY <3>1, CutOffShortens
    <3> QED
      BY <3>2, <3>3
  <2>5. CutWell(f[i], words)
    BY <2>2, <2>3, CutOffKeeps
  <2> QED
    BY <2>1, <2>4, <2>5
<1>6. n \in A
  <2> HIDE DEF A
  <2>1. \A i \in 0 .. n : i \in A
    BY <1>2, <1>4, <1>5, Climb
  <2> QED
    BY <1>2, <2>1
<1>7. f[n] = AllCut(words) /\ f[n] \in Cuts
  BY <1>2, <1>3 DEF CutsOff, n
<1>8. f[n].rest = <<>>
  <2> SUFFICES ASSUME MostRounds(f[n].rest) <= n - n PROVE f[n].rest = <<>>
    BY <1>6
  <2> DEFINE rest == f[n].rest
  <2>1. rest \in Words /\ MostRounds(rest) <= 0
    BY <1>2, <1>7 DEF Cuts
  <2>2. Len(rest) \in Nat /\ Sum(rest) \in Nat /\ ChunkBytes \in Nat \ {0}
    BY <2>1, SumIsNat, WordsAreNaturals, SizesAreNaturals DEF Words
  <2> HIDE DEF rest
  <2>3. Sum(rest) \div ChunkBytes \in Nat
    BY <2>2
  <2>4. Len(rest) = 0
    BY <2>1, <2>2, <2>3 DEF MostRounds
  <2>5. rest = <<>>
    BY <2>1, <2>4, EmptySeq DEF Words
  <2> QED
    BY <2>5 DEF rest
<1> QED
  BY <1>6, <1>7, <1>8

LEMMA ChunkedIsTheText ==
  ASSUME NEW words \in Words
  PROVE  /\ SameText(FlattenSeq(Chunked(words)), words)
         /\ \A n \in DOMAIN Chunked(words) : Bytes(Chunked(words)[n]) \in 1 .. ChunkBytes
<1> DEFINE r == AllCut(words)
           pieces == FlattenSeq(r.chunks)
<1>1. r \in Cuts /\ r.rest = <<>> /\ CutWell(r, words)
  BY AllIsCut
<1> HIDE DEF r
<1>2. r.chunks \in Seq(SomeWords)
  BY <1>1 DEF Cuts
<1>3. pieces \in Seq(Nat)
  <2>1. SomeWords \subseteq Seq(Nat)
    BY WordsAreNaturals DEF SomeWords
  <2>2. r.chunks \in Seq(Seq(Nat))
    BY <1>2, <2>1, SeqMonotonic
  <2> QED
    BY <2>2, FlattenTyped
<1>4. Whole(r) = pieces
  <2>1. Whole(r) = pieces \o <<>>
    BY <1>1 DEF Whole
  <2> HIDE DEF pieces
  <2> QED
    BY <1>3, <2>1, ConcatEmptySeq
<1>5. Chunked(words) = r.chunks /\ DOMAIN r.chunks = 1 .. Len(r.chunks)
  BY <1>2 DEF Chunked, r
<1>6. SameText(pieces, words)
  BY <1>1, <1>4 DEF CutWell
<1>7. \A n \in DOMAIN r.chunks : Bytes(r.chunks[n]) \in 1 .. ChunkBytes
  BY <1>1, <1>5 DEF CutWell, ChunksFit
<1> HIDE DEF pieces
<1>8. FlattenSeq(Chunked(words)) = pieces
  BY <1>5 DEF pieces
<1> QED
  BY <1>5, <1>6, <1>7, <1>8

(* The chunks of every text are the text: no byte of a word is lost or     *)
(* repeated where two of them meet, a word ends where it ended, and none   *)
(* is empty or too large, whatever the texts and the size of a chunk.      *)
THEOREM ChunkingLosesNothing == Spec => []ChunksAreTheText
<1>1. ASSUME Init PROVE ChunksAreTheText
  <2>1. ASSUME NEW s \in Sources
        PROVE  /\ SameText(FlattenSeq(chunks[s]), text[s])
               /\ \A n \in DOMAIN chunks[s] : Bytes(chunks[s][n]) \in 1 .. ChunkBytes
    <3>1. text[s] \in Words
      BY <1>1, SizesAreNaturals DEF Init, Words
    <3>2. chunks[s] = Chunked(text[s])
      BY <1>1 DEF Init
    <3> QED
      BY <3>1, <3>2, ChunkedIsTheText
  <2> QED
    BY <2>1 DEF ChunksAreTheText, SameText
<1>2. ASSUME ChunksAreTheText, [Next]_vars PROVE ChunksAreTheText'
  <2>1. text' = text /\ chunks' = chunks
    BY <1>2 DEF Next, Retrieve, Try, Route, vars, input
  <2> QED
    BY <1>2, <2>1 DEF ChunksAreTheText
<1> QED
  BY <1>1, <1>2, PTL DEF Spec
-----------------------------------------------------------------------------
(***************************************************************************)
(* The pair.  The first chunks of the two versions come first in the       *)
(* ranking, are taken first, come first in what is rendered, and are       *)
(* shown.                                                                  *)
(***************************************************************************)
(* The first two of a sequence.                                            *)
Begins(s, a, b) == Len(s) >= 2 /\ s[1] = a /\ s[2] = b

LEMMA BeginsAppend ==
  ASSUME NEW T, NEW s \in Seq(T), NEW a, NEW b, Begins(s, a, b), NEW x \in T
  PROVE  Begins(Append(s, x), a, b)
<1>1. Len(s) \in Nat /\ 1 \in 1 .. Len(s) /\ 2 \in 1 .. Len(s)
  BY DEF Begins
<1>2. /\ Len(Append(s, x)) = Len(s) + 1
      /\ \A i \in 1 .. Len(s) : Append(s, x)[i] = s[i]
  BY AppendProperties
<1> QED
  BY <1>1, <1>2 DEF Begins

LEMMA BeginsConcat ==
  ASSUME NEW T, NEW s \in Seq(T), NEW a, NEW b, Begins(s, a, b), NEW t \in Seq(T)
  PROVE  Begins(s \o t, a, b)
<1>1. Len(s) \in Nat /\ Len(t) \in Nat /\ Len(s) >= 2
  BY DEF Begins
<1>2. /\ Len(s \o t) = Len(s) + Len(t)
      /\ \A i \in 1 .. Len(s) + Len(t) :
           (s \o t)[i] = IF i <= Len(s) THEN s[i] ELSE t[i - Len(s)]
  BY ConcatProperties
<1>3. 1 \in 1 .. Len(s) + Len(t) /\ 2 \in 1 .. Len(s) + Len(t)
  BY <1>1
<1>4. (s \o t)[1] = s[1] /\ (s \o t)[2] = s[2]
  BY <1>1, <1>2, <1>3
<1> QED
  BY <1>1, <1>2, <1>4 DEF Begins

LEMMA BeginsPair ==
  ASSUME NEW T, NEW a \in T, NEW b \in T
  PROVE  Append(<<>>, a) = <<a>> /\ Begins(Append(<<a>>, b), a, b)
BY DEF Begins

(* What begins with two elements of A, without the others.                 *)
LEMMA ThoseBegin ==
  ASSUME NEW T, NEW s \in Seq(T), NEW a \in T, NEW b \in T, NEW A,
         Begins(s, a, b), a \in A, b \in A
  PROVE  Begins(Those(s, A), a, b)
<1> DEFINE n == Len(s)
           S == Seq(T)
<1>1. n \in Nat /\ n >= 2 /\ s[1] = a /\ s[2] = b /\ <<>> \in S
  BY DEF Begins
<1>2. \A i \in 1 .. n : s[i] \in T
  BY ElementOfSeq
<1>3. \A x \in S, i \in 1 .. Len(s) : Keep(x, s[i], A) \in S
  BY <1>2 DEF Keep
<1>4. PICK f : Keeps(f, S, s, A)
  <2> HIDE DEF S
  <2> QED
    BY <1>1, <1>3, ThoseLoop
<1> HIDE DEF n
<1>5. /\ f \in [0 .. n -> S] /\ f[0] = <<>> /\ f[n] = Those(s, A)
      /\ \A i \in 1 .. n : f[i] = Keep(f[i - 1], s[i], A)
  BY <1>4 DEF Keeps, n
<1>6. f[1] = <<a>>
  <2>1. 1 \in 1 .. n /\ 1 - 1 = 0
    BY <1>1
  <2>2. f[1] = Keep(<<>>, a, A)
    BY <1>1, <1>5, <2>1
  <2> QED
    BY <2>2, BeginsPair DEF Keep
<1>7. Begins(f[2], a, b)
  <2>1. 2 \in 1 .. n /\ 2 - 1 = 1
    BY <1>1
  <2>2. f[2] = Keep(<<a>>, b, A)
    BY <1>1, <1>5, <1>6, <2>1
  <2> QED
    BY <2>2, BeginsPair DEF Keep
<1> DEFINE M == {i \in 0 .. n : i >= 2 => Begins(f[i], a, b)}
<1>8. 0 \in M
  BY <1>1
<1>9. ASSUME NEW i \in 1 .. n, i - 1 \in M PROVE i \in M
  <2>0. i \in 0 .. n /\ i - 1 \in 0 .. n
    BY <1>1
  <2>1. CASE i <= 2
    <3>1. i = 1 \/ i = 2
      BY <1>1, <2>1
    <3> QED
      BY <1>7, <2>0, <3>1
  <2>2. CASE ~(i <= 2)
    <3>1. Begins(f[i - 1], a, b) /\ f[i - 1] \in S
      BY <1>5, <1>9, <2>0, <2>2
    <3>2. f[i] = f[i - 1] \/ f[i] = Append(f[i - 1], s[i])
      BY <1>5 DEF Keep
    <3>3. s[i] \in T
      BY <1>2 DEF n
    <3>4. Begins(f[i], a, b)
      BY <3>1, <3>2, <3>3, BeginsAppend
    <3> QED
      BY <2>0, <3>4
  <2> QED
    BY <2>1, <2>2
<1>10. n \in M
  <2> HIDE DEF M
  <2>1. \A i \in 0 .. n : i \in M
    BY <1>1, <1>8, <1>9, Climb
  <2> QED
    BY <1>1, <2>1
<1> QED
  BY <1>1, <1>5, <1>10

LEMMA FlattenBegins ==
  ASSUME NEW T, NEW seqs \in Seq(Seq(T)), NEW a, NEW b, seqs # <<>>,
         Begins(seqs[1], a, b)
  PROVE  Begins(FlattenSeq(seqs), a, b)
<1> DEFINE n == Len(seqs)
<1>1. n \in Nat \ {0} /\ 1 \in 1 .. n
  BY EmptySeq
<1>2. PICK f : Flattens(f, T, seqs)
  BY FlattenLoop
<1>3. /\ f \in [0 .. n -> Seq(T)] /\ f[0] = <<>> /\ f[n] = FlattenSeq(seqs)
      /\ \A i \in 1 .. n : f[i] = f[i - 1] \o seqs[i]
  BY <1>2 DEF Flattens
<1>4. \A i \in 1 .. n : seqs[i] \in Seq(T)
  BY ElementOfSeq
<1> HIDE DEF n
<1>5. f[1] = seqs[1]
  <2>1. f[1] = <<>> \o seqs[1]
    <3>1. 1 - 1 = 0
      OBVIOUS
    <3> QED
      BY <1>1, <1>3, <3>1
  <2>2. seqs[1] \in Seq(T)
    BY <1>1, <1>4
  <2> QED
    BY <2>1, <2>2, ConcatEmptySeq
<1> DEFINE M == {i \in 0 .. n : i # 0 => Begins(f[i], a, b)}
<1>6. 0 \in M
  BY <1>1
<1>7. ASSUME NEW i \in 1 .. n, i - 1 \in M PROVE i \in M
  <2>1. i \in 0 .. n /\ i - 1 \in 0 .. n
    BY <1>1
  <2>2. CASE i = 1
    BY <1>5, <2>1, <2>2
  <2>3. CASE i # 1
    <3>0. i - 1 # 0
      BY <1>1, <2>3
    <3>1. Begins(f[i - 1], a, b) /\ f[i - 1] \in Seq(T) /\ seqs[i] \in Seq(T)
      BY <1>3, <1>4, <1>7, <2>1, <3>0
    <3>2. Begins(f[i - 1] \o seqs[i], a, b)
      BY <3>1, BeginsConcat
    <3>3. Begins(f[i], a, b)
      BY <1>3, <3>2
    <3> QED
      BY <2>1, <3>3
  <2> QED
    BY <2>2, <2>3
<1>8. n \in M
  <2> HIDE DEF M
  <2>1. \A i \in 0 .. n : i \in M
    BY <1>1, <1>6, <1>7, Climb
  <2> QED
    BY <1>1, <2>1
<1> QED
  BY <1>1, <1>3, <1>8

(* The first chunks of two sources come first, whatever follows.           *)
Stored == \A s \in Sources : chunks[s] # <<>>
LEMMA DrainBegins ==
  ASSUME ChunksTyped, Stored, NEW f \in Sources, NEW g \in Sources
  PROVE  Begins(Drain(<<f, g>>), Unit(f, 1), Unit(g, 1))
<1> DEFINE order == <<f, g>>
           A == {s \in Sources : Len(chunks[s]) >= 1}
           round == RoundOf(order, 1)
           n == Max(Lengths(order))
           rounds == [i \in 1 .. n |-> DrainRound(order, i)]
<1>1. order \in Seq(Sources) /\ Begins(order, f, g) /\ Len(order) = 2
  BY DEF Begins
<1>2. \A s \in Sources : Len(chunks[s]) \in Nat \ {0}
  <2> TAKE s \in Sources
  <2>1. chunks[s] \in Seq(SomeWords) /\ chunks[s] # <<>>
    BY DEF ChunksTyped, Stored
  <2> QED
    BY <2>1, EmptySeq
<1>3. f \in A /\ g \in A
  BY <1>2
<1> HIDE DEF order
<1>4. Begins(round, f, g)
  <2>1. Begins(Those(order, A), f, g)
    <3> HIDE DEF A
    <3> QED
      BY <1>1, <1>3, ThoseBegin
  <2> QED
    BY <2>1 DEF RoundOf
<1>5. DrainRound(order, 1) \in Seq(Units)
  BY <1>1, RoundTyped
<1>6. Begins(DrainRound(order, 1), Unit(f, 1), Unit(g, 1))
  <2>1. round \in Seq(Sources)
    <3>1. round \in Seq(Sources \cap A)
      BY <1>1, ThoseAre DEF RoundOf
    <3> QED
      BY <3>1, SeqMonotonic
  <2> HIDE DEF round
  <2>2. Len(round) \in Nat /\ Len(round) >= 2 /\ round[1] = f /\ round[2] = g
        /\ DOMAIN round = 1 .. Len(round)
    BY <1>4, <2>1 DEF Begins
  <2>3. DrainRound(order, 1) = [i \in DOMAIN round |-> Unit(round[i], 1)]
    BY DEF DrainRound, round
  <2>4. 1 \in DOMAIN round /\ 2 \in DOMAIN round
    BY <2>2
  <2>5. DOMAIN DrainRound(order, 1) = 1 .. Len(round)
    BY <2>2, <2>3
  <2>6. Len(DrainRound(order, 1)) = Len(round)
    BY <1>5, <2>2, <2>5
  <2> QED
    BY <2>2, <2>3, <2>4, <2>6 DEF Begins
<1>7. n \in Nat /\ n >= 1
  <2>1. n \in Nat /\ \A i \in 1 .. Len(order) : Len(chunks[order[i]]) <= n
    BY <1>1, LongestIsLongest
  <2>2. 1 \in 1 .. Len(order) /\ order[1] = f
    BY <1>1 DEF Begins
  <2>3. Len(chunks[f]) <= n
    BY <2>1, <2>2
  <2> QED
    BY <1>2, <2>1, <2>3
<1> HIDE DEF n
<1>8. rounds \in [1 .. n -> Seq(Units)]
  <2>1. \A i \in 1 .. n : i \in Nat \ {0}
    BY <1>7
  <2> QED
    BY <1>1, <2>1, RoundTyped
<1>9. rounds[1] = DrainRound(order, 1)
  BY <1>7
<1>10. Drain(order) = FlattenSeq(rounds)
  BY DrainIsRounds DEF n
<1> HIDE DEF rounds
<1>11. rounds \in Seq(Seq(Units)) /\ Len(rounds) = n
  BY <1>7, <1>8, IsASeq, LenProperties
<1>12. rounds # <<>>
  BY <1>7, <1>11
<1>13. Begins(Drain(order), Unit(f, 1), Unit(g, 1))
  BY <1>6, <1>9, <1>10, <1>11, <1>12, FlattenBegins
<1> QED
  BY <1>13 DEF order

(* What has been taken stays taken.                                        *)
LEMMA TakenStays ==
  ASSUME NEW us \in Seq(Units), NEW from \in Seq(Units), NEW a, NEW b, Begins(us, a, b)
  PROVE  Begins(Taken(us, from), a, b)
<1> DEFINE n == Len(from)
           S == Seq(Units)
<1>1. n \in Nat /\ \A i \in 1 .. n : from[i] \in Units
  BY ElementOfSeq
<1>2. \A x \in S, i \in 1 .. Len(from) : Take(x, from[i]) \in S
  BY <1>1, TakeTyped
<1>3. PICK f : Takes(f, S, us, from)
  <2> HIDE DEF S
  <2>1. us \in S
    BY DEF S
  <2> QED
    BY <1>2, <2>1, TakenLoop
<1> HIDE DEF n
<1>4. /\ f \in [0 .. n -> S] /\ f[0] = us /\ f[n] = Taken(us, from)
      /\ \A i \in 1 .. n : f[i] = Take(f[i - 1], from[i])
  BY <1>3 DEF Takes, n
<1> DEFINE M == {i \in 0 .. n : Begins(f[i], a, b)}
<1>5. 0 \in M
  BY <1>1, <1>4
<1>6. ASSUME NEW i \in 1 .. n, i - 1 \in M PROVE i \in M
  <2>1. i \in 0 .. n /\ i - 1 \in 0 .. n
    BY <1>1
  <2>2. Begins(f[i - 1], a, b) /\ f[i - 1] \in Seq(Units) /\ from[i] \in Units
    BY <1>1, <1>4, <1>6, <2>1
  <2>3. f[i] = f[i - 1] \/ f[i] = Append(f[i - 1], from[i])
    BY <1>4 DEF Take
  <2>4. Begins(f[i], a, b)
    BY <2>2, <2>3, BeginsAppend
  <2> QED
    BY <2>1, <2>4
<1>7. n \in M
  <2> HIDE DEF M
  <2>1. \A i \in 0 .. n : i \in M
    BY <1>1, <1>5, <1>6, Climb
  <2> QED
    BY <1>1, <2>1
<1> QED
  BY <1>4, <1>7

(* The first is taken whatever its size, and the second if it fits.        *)
LEMMA FirstTwoTaken ==
  ASSUME NEW from \in Seq(Units), NEW a \in Units, NEW b \in Units, Begins(from, a, b),
         Fits(<<a>>, b)
  PROVE  Begins(Taken(<<>>, from), a, b)
<1> DEFINE n == Len(from)
           S == Seq(Units)
<1>1. n \in Nat /\ n >= 2 /\ from[1] = a /\ from[2] = b /\ <<>> \in S
  BY DEF Begins
<1>2. \A i \in 1 .. n : from[i] \in Units
  BY ElementOfSeq
<1>3. \A x \in S, i \in 1 .. Len(from) : Take(x, from[i]) \in S
  BY <1>2, TakeTyped
<1>4. PICK f : Takes(f, S, <<>>, from)
  <2> HIDE DEF S
  <2> QED
    BY <1>1, <1>3, TakenLoop
<1> HIDE DEF n
<1>5. /\ f \in [0 .. n -> S] /\ f[0] = <<>> /\ f[n] = Taken(<<>>, from)
      /\ \A i \in 1 .. n : f[i] = Take(f[i - 1], from[i])
  BY <1>4 DEF Takes, n
<1>6. f[1] = <<a>>
  <2>1. 1 \in 1 .. n /\ 1 - 1 = 0
    BY <1>1
  <2>2. f[1] = Take(<<>>, a)
    BY <1>1, <1>5, <2>1
  <2> QED
    BY <2>2, BeginsPair DEF Take
<1>7. Begins(f[2], a, b)
  <2>1. 2 \in 1 .. n /\ 2 - 1 = 1
    BY <1>1
  <2>2. f[2] = Take(<<a>>, b)
    BY <1>1, <1>5, <1>6, <2>1
  <2> QED
    BY <2>2, BeginsPair DEF Take
<1> DEFINE M == {i \in 0 .. n : i >= 2 => Begins(f[i], a, b)}
<1>8. 0 \in M
  BY <1>1
<1>9. ASSUME NEW i \in 1 .. n, i - 1 \in M PROVE i \in M
  <2>0. i \in 0 .. n /\ i - 1 \in 0 .. n
    BY <1>1
  <2>1. CASE i <= 2
    <3>1. i = 1 \/ i = 2
      BY <1>1, <2>1
    <3> QED
      BY <1>7, <2>0, <3>1
  <2>2. CASE ~(i <= 2)
    <3>1. Begins(f[i - 1], a, b) /\ f[i - 1] \in S
      BY <1>5, <1>9, <2>0, <2>2
    <3>2. f[i] = f[i - 1] \/ f[i] = Append(f[i - 1], from[i])
      BY <1>5 DEF Take
    <3>3. from[i] \in Units
      BY <1>2 DEF n
    <3>4. Begins(f[i], a, b)
      BY <3>1, <3>2, <3>3, BeginsAppend
    <3> QED
      BY <2>0, <3>4
  <2> QED
    BY <2>1, <2>2
<1>10. n \in M
  <2> HIDE DEF M
  <2>1. \A i \in 0 .. n : i \in M
    BY <1>1, <1>8, <1>9, Climb
  <2> QED
    BY <1>1, <2>1
<1> QED
  BY <1>1, <1>5, <1>10

LEMMA SpentOnOne == ASSUME NEW u \in Units PROVE Spent(<<u>>) = Cost(u) /\ Cost(u) \in Nat
<1>1. Cost(u) \in Nat
  BY SizesAreNaturals DEF Cost, Units
<1>2. [n \in DOMAIN <<u>> |-> Cost(<<u>>[n])] = <<Cost(u)>>
  OBVIOUS
<1>3. Sum(<<Cost(u)>>) = Cost(u)
  BY <1>1, SumOfOne
<1> QED
  BY <1>1, <1>2, <1>3 DEF Spent

LEMMA FirstChunkIsUnit ==
  ASSUME ChunksTyped, Stored, NEW s \in Sources
  PROVE  /\ Unit(s, 1) \in Units /\ Unit(s, 1).src = s
         /\ Unit(s, 1).text = Bytes(chunks[s][1]) /\ Bytes(chunks[s][1]) \in Nat \ {0}
<1>1. chunks[s] \in Seq(SomeWords) /\ chunks[s] # <<>>
  BY DEF ChunksTyped, Stored
<1>2. 1 \in 1 .. Len(chunks[s])
  BY <1>1, EmptySeq
<1>3. chunks[s][1] \in SomeWords
  BY <1>1, <1>2, ElementOfSeq
<1>4. Bytes(chunks[s][1]) \in Nat \ {0}
  BY <1>3, BytesArePositive
<1> QED
  BY <1>4 DEF Unit, Units

(* The two versions come first in what is retrieved, if there is room.     *)
LEMMA PairRetrieved ==
  ASSUME ChunksTyped, Stored, NEW f \in Files, NEW g \in Files, pair = <<f, g>>,
         others \in Seq(Sources), turns \in Seq(Nat), RoomForBoth
  PROVE  Begins(Taken(KeptOf, Merged), Unit(f, 1), Unit(g, 1))
<1> DEFINE a == Unit(f, 1)
           b == Unit(g, 1)
<1>0. f \in Sources /\ g \in Sources /\ pair \in Seq(Sources)
  <2>1. f \in Sources /\ g \in Sources
    BY DEF Sources
  <2> QED
    BY <2>1
<1>1. /\ a \in Units /\ a.text = Bytes(chunks[f][1]) /\ Bytes(chunks[f][1]) \in Nat \ {0}
      /\ b \in Units /\ b.text = Bytes(chunks[g][1]) /\ Bytes(chunks[g][1]) \in Nat \ {0}
  BY <1>0, FirstChunkIsUnit
<1>2. Begins(Drain(pair), a, b) /\ Drain(pair) \in Seq(Units) /\ Drain(others) \in Seq(Units)
  BY <1>0, DrainBegins, DrainTyped
<1> HIDE DEF a, b
<1>3. Begins(Ranked, a, b) /\ Ranked \in Seq(Units)
  BY <1>2, BeginsConcat, ConcatProperties DEF Ranked
<1>4. Fits(<<a>>, b)
  <2>1. pair[1] = f /\ pair[2] = g
    OBVIOUS
  <2>2. /\ MaxSources >= 2
        /\ 2 * (TitleSize + Most(Bytes(chunks[f][1]), Bytes(chunks[g][1]))) <= MaxBytes
    BY <2>1 DEF RoomForBoth
  <2>3. Spent(<<a>>) = Cost(a) /\ Cost(a) = TitleSize + a.text /\ Cost(b) = TitleSize + b.text
    BY <1>1, SpentOnOne DEF Cost
  <2>4. TitleSize \in Nat /\ MaxBytes \in Nat /\ MaxSources \in Nat /\ Len(<<a>>) = 1
    BY SizesAreNaturals
  <2>5. Spent(<<a>>) + Cost(b) <= MaxBytes
    BY <1>1, <2>2, <2>3, <2>4 DEF Most
  <2> QED
    BY <2>2, <2>4, <2>5 DEF Fits
<1>5. Begins(Chosen, a, b)
  BY <1>1, <1>3, <1>4, FirstTwoTaken DEF Chosen
<1>6. /\ Chosen \in Seq(Units) /\ KeptOf \in Seq(Units)
      /\ Least(Len(Chosen), MaxSources) \in 0 .. Len(Chosen)
  BY <1>0, KeptTyped
<1>7. Begins(KeptOf, a, b)
  <2> DEFINE m == Least(Len(Chosen), MaxSources)
  <2>1. Len(Chosen) \in Nat /\ Len(Chosen) >= 2 /\ MaxSources \in Nat /\ MaxSources >= 2
    BY <1>5, <1>6, SizesAreNaturals DEF Begins, RoomForBoth
  <2>2. m \in Nat /\ m >= 2 /\ m <= Len(Chosen)
    BY <2>1 DEF Least
  <2>3. KeptOf = SubSeq(Chosen, 1, m)
    BY DEF KeptOf
  <2> HIDE DEF m
  <2>4. \A i \in 1 .. m : Chosen[i] \in Units
    BY <1>6, <2>1, <2>2, ElementOfSeq
  <2>5. Len(KeptOf) = m /\ KeptOf[1] = Chosen[1] /\ KeptOf[2] = Chosen[2]
    BY <2>2, <2>3, <2>4, SubSeqProperties
  <2> QED
    BY <1>5, <2>2, <2>5 DEF Begins
<1>8. Begins(Taken(KeptOf, Merged), a, b)
  BY <1>6, <1>7, MergedTyped, TakenStays
<1> QED
  BY <1>8 DEF a, b

LEMMA FilesComeFirst ==
  ASSUME NEW us \in Seq(Units), NEW a \in Units, NEW b \in Units, Begins(us, a, b),
         Kind(a) = "attachment", Kind(b) = "attachment"
  PROVE  Begins(Ordered(us), a, b)
<1> DEFINE of(kind) == Those(us, {u \in ToSet(us) : Kind(u) = kind})
<1>1. \A kind : of(kind) \in Seq(Units)
  <2> TAKE kind
  <2> DEFINE A == {u \in ToSet(us) : Kind(u) = kind}
  <2>1. Those(us, A) \in Seq(Units \cap A)
    BY ThoseAre
  <2> HIDE DEF A
  <2>2. Those(us, A) \in Seq(Units)
    BY <2>1, SeqMonotonic
  <2> QED
    BY <2>2 DEF A
<1>2. Begins(of("attachment"), a, b)
  <2> DEFINE A == {u \in ToSet(us) : Kind(u) = "attachment"}
  <2>1. a \in ToSet(us) /\ b \in ToSet(us)
    <3>1. 1 \in DOMAIN us /\ 2 \in DOMAIN us /\ us[1] = a /\ us[2] = b
      BY DEF Begins
    <3> QED
      BY <3>1 DEF ToSet
  <2>2. a \in A /\ b \in A
    BY <2>1
  <2> HIDE DEF A
  <2>3. Begins(Those(us, A), a, b)
    BY <2>2, ThoseBegin
  <2> QED
    BY <2>3 DEF A
<1>3. Ordered(us) = of("attachment") \o of("record") \o Reverse(of("chatter_message")) \o of(Turn)
  BY DEF Ordered
<1> DEFINE first == of("attachment")
           second == of("record")
           third == Reverse(of("chatter_message"))
           fourth == of(Turn)
<1>4. /\ first \in Seq(Units) /\ second \in Seq(Units) /\ third \in Seq(Units)
      /\ fourth \in Seq(Units)
  BY <1>1, ReverseTyped
<1>5. Ordered(us) = ((first \o second) \o third) \o fourth /\ Begins(first, a, b)
  BY <1>2, <1>3
<1> HIDE DEF first, second, third, fourth
<1>6. Begins(first \o second, a, b) /\ first \o second \in Seq(Units)
  BY <1>4, <1>5, BeginsConcat, ConcatProperties
<1> DEFINE twice == first \o second
<1> HIDE DEF twice
<1>7. Begins(twice \o third, a, b) /\ twice \o third \in Seq(Units)
  BY <1>4, <1>6, BeginsConcat, ConcatProperties DEF twice
<1> DEFINE thrice == twice \o third
<1> HIDE DEF thrice
<1>8. Begins(thrice \o fourth, a, b)
  BY <1>4, <1>7, BeginsConcat DEF thrice
<1> QED
  BY <1>5, <1>8 DEF thrice, twice

AddsToShown(r, shown) ==
  shown = r.shown \/ \E z : shown = Append(r.shown, z)
LEMMA PlaceShows ==
  ASSUME NEW r \in [used : Nat, shown : Seq(Shown), full : BOOLEAN], NEW u, NEW budget
  PROVE  AddsToShown(r, Place(r, u, budget).shown)
<1>1. CASE r.full \/ Available(r, budget) <= 0
  BY <1>1 DEF Place, AddsToShown
<1>2. CASE ~(r.full \/ Available(r, budget) <= 0)
  <2> DEFINE whole == Size(u) <= Available(r, budget)
             bytes == IF whole THEN Size(u) ELSE Cut(Available(r, budget))
             z == [unit |-> u, bytes |-> IF whole THEN bytes ELSE bytes - Suffix]
  <2>1. Place(r, u, budget).shown = Append(r.shown, z)
    BY <1>2 DEF Place
  <2> HIDE DEF z
  <2> QED
    BY <2>1 DEF AddsToShown
<1> QED
  BY <1>1, <1>2

(* What is shown stays shown.                                              *)
LEMMA PlacedStays ==
  ASSUME NEW budget \in Nat, NEW us \in Seq(Units), NEW r \in Renderings(budget),
         NEW n \in 0 .. Len(us), NEW f, Places(f, Renderings(budget), r, us, budget),
         NEW x, NEW y, Begins(f[n].shown, x, y)
  PROVE  Begins(Placed(r, us, budget).shown, x, y)
<1> DEFINE S == Renderings(budget)
           k == Len(us)
           M == {i \in 0 .. k : i >= n => Begins(f[i].shown, x, y)}
<1>1. k \in Nat /\ n \in Nat /\ n <= k
  OBVIOUS
<1>2. /\ f \in [0 .. k -> S] /\ f[k] = Placed(r, us, budget)
      /\ \A i \in 1 .. k : f[i] = Place(f[i - 1], us[i], budget)
  BY DEF Places
<1>3. 0 \in M
  BY <1>1
<1>4. ASSUME NEW i \in 1 .. k, i - 1 \in M PROVE i \in M
  <2>1. i \in 0 .. k /\ i - 1 \in 0 .. k
    BY <1>1
  <2>2. CASE i <= n
    <3>1. i < n \/ i = n
      BY <1>1, <2>2
    <3> QED
      BY <1>1, <2>1, <3>1
  <2>3. CASE ~(i <= n)
    <3>1. i - 1 >= n
      BY <1>1, <2>3
    <3>2. Begins(f[i - 1].shown, x, y) /\ f[i - 1] \in S
      BY <1>2, <1>4, <2>1, <3>1
    <3>3. f[i - 1].shown \in Seq(Shown) /\ f[i] \in S
      BY <1>2, <2>1, <3>2 DEF Renderings
    <3>4. f[i].shown = f[i - 1].shown \/ \E z : f[i].shown = Append(f[i - 1].shown, z)
      <4>1. f[i] = Place(f[i - 1], us[i], budget)
        BY <1>2
      <4>2. f[i - 1] \in [used : Nat, shown : Seq(Shown), full : BOOLEAN]
        BY <3>2 DEF Renderings
      <4> DEFINE s == f[i - 1]
                 u == us[i]
      <4> HIDE DEF s, u
      <4>3. AddsToShown(s, Place(s, u, budget).shown)
        BY <4>2, PlaceShows DEF s
      <4> QED
        BY <4>1, <4>3 DEF s, u, AddsToShown
    <3>5. Begins(f[i].shown, x, y)
      <4>1. CASE f[i].shown = f[i - 1].shown
        BY <3>2, <4>1
      <4>2. CASE \E z : f[i].shown = Append(f[i - 1].shown, z)
        <5>1. PICK z : f[i].shown = Append(f[i - 1].shown, z)
          BY <4>2
        <5> DEFINE s == f[i - 1].shown
        <5>2. s \in Seq(Shown) /\ Begins(s, x, y)
          BY <3>2, <3>3
        <5>3. Begins(Append(s, z), x, y)
          <6> HIDE DEF s
          <6>1. s \in Seq(Shown \cup {z}) /\ z \in Shown \cup {z}
            BY <5>2, SeqMonotonic
          <6> QED
            BY <5>2, <6>1, BeginsAppend
        <5> QED
          BY <5>1, <5>3
      <4> QED
        BY <3>4, <4>1, <4>2
    <3> QED
      BY <2>1, <3>5
  <2> QED
    BY <2>2, <2>3
<1>5. k \in M
  <2> HIDE DEF M
  <2>1. \A i \in 0 .. k : i \in M
    BY <1>1, <1>3, <1>4, Climb
  <2> QED
    BY <1>1, <2>1
<1> QED
  BY <1>1, <1>2, <1>5

(* A budget with room for the manifest, a unit, and a cut second.          *)
RoomFor(a, b, budget) ==
  /\ budget >= Heading + 240 + 2 * (Gap + HeaderSize) + a.text + Suffix + 1
  /\ budget >= Heading + 240 + 2 * (Gap + HeaderSize) + b.text + Suffix + 1
Shows(r, a, b) ==
  \E x, y : /\ Begins(r.shown, x, y)
            /\ x.unit = a /\ x.bytes > HeaderSize
            /\ y.unit = b /\ y.bytes > HeaderSize

LEMMA TwoArePlaced ==
  ASSUME NEW budget \in Nat, NEW a \in Units, NEW b \in Units, NEW m \in Nat,
         m <= Heading + 240, RoomFor(a, b, budget), a.text > 0, b.text > 0
  PROVE  LET r == [used |-> m, shown |-> <<>>, full |-> FALSE]
         IN  Shows(Place(Place(r, a, budget), b, budget), a, b)
<1> DEFINE r == [used |-> m, shown |-> <<>>, full |-> FALSE]
           gap == IF m = 0 THEN 0 ELSE Gap
           H == HeaderSize
           x == [unit |-> a, bytes |-> Size(a)]
           s == [used |-> m + gap + Size(a), shown |-> Append(<<>>, x), full |-> FALSE]
           left == budget - (m + gap + Size(a)) - Gap
           y == [unit |-> b,
                 bytes |-> IF Size(b) <= left THEN Size(b) ELSE Cut(left) - Suffix]
<1>1. /\ a.text \in Nat /\ b.text \in Nat /\ a.text > 0 /\ b.text > 0
      /\ H \in Nat \ {0} /\ Size(a) = H + a.text /\ Size(b) = H + b.text
      /\ Gap = 2 /\ Suffix = 45 /\ Heading = 9
  BY SizesAreNaturals DEF Units, Size, Gap, Suffix, Heading
<1>2. gap \in {0, 2} /\ m <= 249
  BY <1>1
<1>3. budget >= 9 + 240 + 2 * (2 + H) + a.text + 46
  BY <1>1 DEF RoomFor
<1>4. Available(r, budget) = budget - m - gap
  BY DEF Available
<1> HIDE DEF gap
<1>5. Size(a) <= budget - m - gap /\ budget - m - gap > 0
  BY <1>1, <1>2, <1>3
<1>6. Place(r, a, budget) = s
  <2>1. ~(r.full \/ Available(r, budget) <= 0) /\ Size(a) <= Available(r, budget)
    BY <1>1, <1>2, <1>4, <1>5
  <2>2. r.used = m /\ r.shown = <<>>
    OBVIOUS
  <2> QED
    BY <2>1, <2>2 DEF Place, gap
<1>7. left \in Int /\ left >= H + 46
  BY <1>1, <1>2, <1>3
<1>8. Available(s, budget) = left
  <2>1. s.used = m + gap + Size(a) /\ s.used # 0
    BY <1>1, <1>2
  <2> QED
    BY <2>1 DEF Available
<1> HIDE DEF left
<1>9. Place(s, b, budget).shown = Append(s.shown, y)
  <2>1. ~(s.full \/ Available(s, budget) <= 0)
    BY <1>1, <1>7, <1>8
  <2> QED
    BY <1>8, <2>1 DEF Place
<1>10. x.bytes > H /\ y.bytes > H
  <2>1. CASE Size(b) <= left
    BY <1>1, <2>1
  <2>2. CASE ~(Size(b) <= left)
    <3>1. Cut(left) = left
      BY <1>1, <1>7 DEF Cut, Most
    <3> QED
      BY <1>1, <1>7, <2>2, <3>1
  <2> QED
    BY <2>1, <2>2
<1>11. Begins(Append(s.shown, y), x, y)
  <2> HIDE DEF x, y
  <2>1. Append(<<>>, x) = <<x>> /\ Begins(Append(<<x>>, y), x, y)
    <3>1. x \in {x, y} /\ y \in {x, y}
      OBVIOUS
    <3> QED
      BY <3>1, BeginsPair
  <2> QED
    BY <2>1
<1>12. x.unit = a /\ y.unit = b
  OBVIOUS
<1> HIDE DEF x, y, s, r
<1>13. Shows(Place(s, b, budget), a, b)
  BY <1>9, <1>10, <1>11, <1>12 DEF Shows
<1> QED
  BY <1>6, <1>13 DEF r

(* A rendering of units that begin with two files shows both.              *)
LEMMA BothAreShown ==
  ASSUME NEW us \in Seq(Units), NEW a \in Units, NEW b \in Units, Begins(us, a, b),
         Kind(a) = "attachment", Kind(b) = "attachment", a.text > 0, b.text > 0,
         NEW budget \in Nat, RoomFor(a, b, budget)
  PROVE  Shows(Render(us, budget), a, b)
<1>1. Len(us) \in Nat /\ Len(us) >= 2 /\ us[1] = a /\ us[2] = b /\ DOMAIN us = 1 .. Len(us)
  BY DEF Begins
<1>2. CASE Joined(us) <= budget
  <2> DEFINE shown == [n \in DOMAIN us |-> [unit |-> us[n], bytes |-> Size(us[n])]]
  <2>1. shown \in Seq(Shown)
    BY ShowsAll
  <2>2. Render(us, budget).shown = shown
    BY <1>2 DEF Render
  <2>3. 1 \in DOMAIN us /\ 2 \in DOMAIN us
    BY <1>1
  <2>4. shown[1] = [unit |-> a, bytes |-> Size(a)] /\ shown[2] = [unit |-> b, bytes |-> Size(b)]
    BY <1>1, <2>3
  <2>5. Len(shown) = Len(us)
    BY <1>1, <2>1
  <2>6. Size(a) > HeaderSize /\ Size(b) > HeaderSize
    BY SizesAreNaturals DEF Size, Units
  <2> HIDE DEF shown
  <2>7. Begins(shown, shown[1], shown[2])
    BY <1>1, <2>5 DEF Begins
  <2> QED
    BY <2>2, <2>4, <2>6, <2>7 DEF Shows
<1>3. CASE ~(Joined(us) <= budget)
  <2> DEFINE m == Manifest(us, budget)
             r == [used |-> m, shown |-> <<>>, full |-> FALSE]
             all == Ordered(us)
             S == Renderings(budget)
  <2>1. m \in Nat /\ m < budget + Suffix /\ m <= Heading + 240
    BY ManifestFits
  <2>2. Render(us, budget) = Placed(r, all, budget)
    BY <1>3 DEF Render
  <2>3. all \in Seq(Units) /\ Begins(all, a, b)
    BY OrderedTyped, FilesComeFirst
  <2>4. Shows(Place(Place(r, a, budget), b, budget), a, b)
    <3> HIDE DEF m
    <3> QED
      BY <2>1, TwoArePlaced
  <2>5. r \in S
    <3> HIDE DEF m
    <3> QED
      BY <2>1 DEF Renderings
  <2> HIDE DEF r, all, m
  <2>6. \A s \in S, i \in 1 .. Len(all) : Place(s, all[i], budget) \in S
    <3> TAKE s \in S, i \in 1 .. Len(all)
    <3>1. all[i] \in Units
      BY <2>3, ElementOfSeq
    <3> QED
      BY <3>1, PlaceFits
  <2>7. PICK f : Places(f, S, r, all, budget)
    <3> HIDE DEF S
    <3> QED
      BY <2>3, <2>5, <2>6, PlacedLoop
  <2>8. Len(all) \in Nat /\ Len(all) >= 2 /\ all[1] = a /\ all[2] = b
    BY <2>3 DEF Begins
  <2>9. f[2] = Place(Place(r, a, budget), b, budget)
    <3>1. 1 \in 1 .. Len(all) /\ 2 \in 1 .. Len(all) /\ 1 - 1 = 0 /\ 2 - 1 = 1
      BY <2>8
    <3>2. f[0] = r /\ f[1] = Place(f[0], a, budget) /\ f[2] = Place(f[1], b, budget)
      BY <2>7, <2>8, <3>1 DEF Places
    <3> QED
      BY <3>2
  <2>10. PICK x, y : /\ Begins(f[2].shown, x, y)
                     /\ x.unit = a /\ x.bytes > HeaderSize
                     /\ y.unit = b /\ y.bytes > HeaderSize
    BY <2>4, <2>9 DEF Shows
  <2>11. 2 \in 0 .. Len(all)
    BY <2>8
  <2>12. Begins(Placed(r, all, budget).shown, x, y)
    BY <2>3, <2>5, <2>7, <2>10, <2>11, PlacedStays
  <2> QED
    BY <2>2, <2>10, <2>12 DEF Shows
<1> QED
  BY <1>2, <1>3

(* The retrieved context, and what was rendered of it, are what the input  *)
(* of the run makes them.                                                  *)
PairTyped == pair = <<>> \/ \E f, g \in Files : pair = <<f, g>>
Retrieved ==
  /\ context # <<>> => context = Taken(KeptOf, Merged)
  /\ attempt > 0 => prompt = Render(context, ProvidersFor(context)[attempt])
PairInv == Stored /\ PairTyped /\ Retrieved

LEMMA InitPair == Init => PairInv
<1> SUFFICES ASSUME Init PROVE PairInv
  OBVIOUS
<1>1. Stored
  <2> SUFFICES ASSUME NEW s \in Sources PROVE chunks[s] # <<>>
    BY DEF Stored
  <2>1. text[s] \in Words /\ text[s] # <<>> /\ chunks[s] = Chunked(text[s])
    BY SizesAreNaturals DEF Init, Words
  <2>2. Len(text[s]) \in Nat \ {0}
    BY <2>1, EmptySeq DEF Words
  <2>3. Sum(text[s]) >= Len(text[s]) /\ Sum(text[s]) \in Nat
    BY <2>1, SumIsLong, SumIsNat, WordsAreNaturals
  <2>4. Sum(FlattenSeq(chunks[s])) = Sum(text[s])
    BY <2>1, ChunkedIsTheText DEF SameText
  <2>5. FlattenSeq(<<>>) = <<>>
    BY DEF FlattenSeq
  <2>6. chunks[s] = <<>> => Sum(text[s]) = 0
    BY <2>4, <2>5, SumOfNone
  <2> QED
    BY <2>2, <2>3, <2>6
<1>2. PairTyped
  BY DEF Init, PairTyped
<1>3. Retrieved
  BY DEF Init, Retrieved
<1> QED
  BY <1>1, <1>2, <1>3 DEF PairInv

(* What the context is made of does not change.                            *)
LEMMA InputStays ==
  ASSUME UNCHANGED input
  PROVE  /\ Stored' = Stored /\ PairTyped' = PairTyped
         /\ Taken(KeptOf, Merged)' = Taken(KeptOf, Merged)
<1> USE DEF input
<1>1. Stored' = Stored /\ PairTyped' = PairTyped
  BY DEF Stored, PairTyped
<1>2. Ranked' = Ranked
  BY DEF Ranked, Drain, Unit
<1>3. Chosen' = Chosen
  BY <1>2 DEF Chosen
<1>4. KeptOf' = KeptOf
  BY <1>3 DEF KeptOf
<1>5. Merged' = Merged
  BY DEF Merged
<1> QED
  BY <1>1, <1>4, <1>5

LEMMA StepPair ==
  ASSUME IInv, PairInv, [Next]_vars
  PROVE  PairInv'
<1>1. UNCHANGED input
  <2>1. Retrieve => UNCHANGED input
    BY DEF Retrieve
  <2>2. Try => UNCHANGED input
    BY DEF Try
  <2>3. Route => UNCHANGED input
    BY DEF Route
  <2>4. UNCHANGED vars => UNCHANGED input
    BY DEF vars, input
  <2> QED
    BY <2>1, <2>2, <2>3, <2>4 DEF Next
<1>2. Stored' /\ PairTyped' /\ Taken(KeptOf, Merged)' = Taken(KeptOf, Merged)
  BY <1>1, InputStays DEF PairInv
<1>3. CASE Retrieve
  <2>1. context = <<>> /\ UNCHANGED <<input, attempt, prompt, sent>>
    BY <1>3 DEF Retrieve
  <2>2. attempt = 0
    BY <2>1, SizesAreNaturals DEF IInv, RenderedGood
  <2>3. context' = Taken(KeptOf, Merged)
    BY <1>3, RetrieveIs
  <2>4. Retrieved'
    BY <1>2, <2>1, <2>2, <2>3 DEF Retrieved
  <2> QED
    BY <1>2, <2>4 DEF PairInv
<1>4. CASE Try
  <2>1. /\ context' = context
        /\ prompt' = Render(context, ProvidersFor(context)[attempt'])
    BY <1>4 DEF Try
  <2>2. \A n : ProvidersFor(context')[n] = ProvidersFor(context)[n]
    BY <2>1
  <2>3. prompt' = Render(context', ProvidersFor(context')[attempt'])
    BY <2>1
  <2>4. Retrieved'
    BY <1>2, <2>1, <2>3 DEF PairInv, Retrieved
  <2> QED
    BY <1>2, <2>4 DEF PairInv
<1>5. CASE Route \/ UNCHANGED vars
  <2>1. context' = context /\ attempt' = attempt /\ prompt' = prompt
    <3>1. CASE Route
      BY <3>1 DEF Route
    <3>2. CASE UNCHANGED vars
      BY <3>2 DEF vars
    <3> QED
      BY <1>5, <3>1, <3>2
  <2>2. Retrieved'
    BY <1>2, <2>1 DEF PairInv, Retrieved
  <2> QED
    BY <1>2, <2>2 DEF PairInv
<1> QED
  BY <1>3, <1>4, <1>5 DEF Next

LEMMA PairIsShown == IInv /\ PairInv => PairSurvives
<1> SUFFICES ASSUME IInv, PairInv, pair # <<>>, attempt = 1, RoomForBoth
             PROVE  \A s \in ToSet(pair) :
                      \E x \in ToSet(prompt.shown) : x.unit.src = s /\ x.bytes > HeaderSize
  BY DEF PairSurvives
<1>1. PICK f \in Files, g \in Files : pair = <<f, g>>
  BY DEF PairInv, PairTyped
<1> DEFINE a == Unit(f, 1)
           b == Unit(g, 1)
           budget == Head(LargestFirst)
<1>2. /\ ChunksTyped /\ others \in Seq(Sources) /\ turns \in Seq(Nat)
      /\ context \in Seq(Units) /\ context # <<>> /\ Stored
      /\ prompt \in Renderings(Budget)
  BY DEF IInv, InputGood, RenderedGood, PairInv
<1>3. f \in Sources /\ g \in Sources
  BY DEF Sources
<1>4. /\ a \in Units /\ a.src = f /\ a.text = Bytes(chunks[f][1]) /\ Bytes(chunks[f][1]) \in Nat \ {0}
      /\ b \in Units /\ b.src = g /\ b.text = Bytes(chunks[g][1]) /\ Bytes(chunks[g][1]) \in Nat \ {0}
  BY <1>2, <1>3, FirstChunkIsUnit
<1>5. Begins(context, a, b)
  <2>1. context = Taken(KeptOf, Merged)
    BY <1>2 DEF PairInv, Retrieved
  <2> QED
    BY <1>1, <1>2, <2>1, PairRetrieved
<1>6. Kind(a) = "attachment" /\ Kind(b) = "attachment"
  BY <1>4 DEF Kind
<1>7. prompt = Render(context, LargestFirst[1])
  <2>1. 1 \in DOMAIN context /\ context[1] = a
    BY <1>2, <1>5 DEF Begins
  <2>2. ProvidersFor(context) = LargestFirst
    BY <1>6, <2>1 DEF ProvidersFor
  <2> QED
    BY <2>2 DEF PairInv, Retrieved
<1>8. LargestFirst[1] = budget /\ budget \in Nat
  <2>1. LargestFirst \in Seq(Nat) /\ Len(LargestFirst) \in Nat \ {0}
    BY LargestFirstTyped, SizesAreNaturals, EmptySeq
  <2>2. 1 \in 1 .. Len(LargestFirst)
    BY <2>1
  <2> QED
    BY <2>1, <2>2, ElementOfSeq
<1>9. RoomFor(a, b, budget)
  <2> DEFINE first == Most(Bytes(chunks[f][1]), Bytes(chunks[g][1]))
  <2>1. pair[1] = f /\ pair[2] = g
    BY <1>1
  <2>2. budget >= Heading + 240 + 2 * (Gap + HeaderSize) + first + Suffix + 1
    BY <2>1 DEF RoomForBoth
  <2>3. first \in Nat /\ a.text <= first /\ b.text <= first /\ a.text \in Nat /\ b.text \in Nat
    BY <1>4 DEF Most
  <2>4. HeaderSize \in Nat
    BY SizesAreNaturals
  <2> HIDE DEF first, a, b, budget
  <2> QED
    BY <1>8, <2>2, <2>3, <2>4 DEF RoomFor, Heading, Gap, Suffix
<1> HIDE DEF a, b, budget
<1>10. Shows(prompt, a, b)
  <2>1. a.text > 0 /\ b.text > 0
    BY <1>4
  <2> QED
    BY <1>2, <1>4, <1>5, <1>6, <1>7, <1>8, <1>9, <2>1, BothAreShown
<1>11. PICK x, y : /\ Begins(prompt.shown, x, y)
                   /\ x.unit = a /\ x.bytes > HeaderSize
                   /\ y.unit = b /\ y.bytes > HeaderSize
  BY <1>10 DEF Shows
<1>12. x \in ToSet(prompt.shown) /\ y \in ToSet(prompt.shown)
  <2>1. prompt.shown \in Seq(Shown)
    BY <1>2 DEF Renderings
  <2>2. 1 \in DOMAIN prompt.shown /\ 2 \in DOMAIN prompt.shown
        /\ prompt.shown[1] = x /\ prompt.shown[2] = y
    BY <1>11, <2>1 DEF Begins
  <2> QED
    BY <2>2 DEF ToSet
<1>13. ToSet(pair) = {f, g}
  BY <1>1 DEF ToSet
<1> QED
  BY <1>4, <1>11, <1>12, <1>13

(* Two versions that a message names both reach the first provider that is *)
(* asked, if there is room for a chunk of each, whatever else the session  *)
(* holds, however it is ranked, and whatever the sizes.                    *)
THEOREM PairReachesTheModel == Spec => []PairSurvives
<1>1. Spec => []PairInv
  <2>1. Init => PairInv
    BY InitPair
  <2>2. IInv /\ PairInv /\ [Next]_vars => PairInv'
    BY StepPair
  <2> QED
    BY <2>1, <2>2, Invariance, PTL DEF Spec
<1>2. IInv /\ PairInv => PairSurvives
  BY PairIsShown
<1> QED
  BY <1>1, <1>2, Invariance, PTL
=============================================================================
