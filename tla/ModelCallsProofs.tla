-------------------------- MODULE ModelCallsProofs --------------------------
(***************************************************************************)
(* Proofs about ModelCalls: the limits of the usage windows hold for any   *)
(* number of calls, profiles, keys and minutes.                            *)
(***************************************************************************)
EXTENDS ModelCalls, FiniteSetTheorems, TLAPS

(***************************************************************************)
(* Sums over finite sets and their greatest element.  The induction is on  *)
(* the smallest subset that would be a counterexample.                     *)
(***************************************************************************)
(* A set of naturals has a least one.                                      *)
LEMMA NatMin ==
  ASSUME NEW A \in SUBSET Nat, A # {}
  PROVE  \E n \in A : \A m \in A : n <= m
<1> DEFINE R == OpToRel(<, Nat)
<1>1. IsWellFoundedOn(R, Nat)
  BY NatLessThanWellFounded
<1> HIDE DEF R
<1>2. PICK n \in A : \A m \in A : ~(<<m, n>> \in R)
  BY <1>1, WFMin
<1>3. \A m \in A : ~(m < n)
  <2> SUFFICES ASSUME NEW m \in A, m < n PROVE FALSE
    OBVIOUS
  <2>1. m \in Nat /\ n \in Nat /\ <<m, n>> \notin R
    BY <1>2
  <2>2. <<m, n>> \in R
    BY <2>1 DEF R, OpToRel
  <2> QED
    BY <2>1, <2>2
<1> QED
  BY <1>3

Pick(s) == CHOOSE x \in s : TRUE

(* A set of subsets has a smallest one.                                    *)
LEMMA Smallest ==
  ASSUME NEW S, IsFiniteSet(S), NEW T \in SUBSET (SUBSET S), T # {}
  PROVE  \E s \in T : s # {} => s \ {Pick(s)} \notin T
<1> DEFINE A == {Cardinality(s) : s \in T}
<1>1. \A s \in T : IsFiniteSet(s) /\ Cardinality(s) \in Nat
  BY FS_Subset, FS_CardinalityType
<1>2. A \in SUBSET Nat /\ A # {}
  BY <1>1
<1>3. PICK n \in A : \A m \in A : n <= m
  BY <1>2, NatMin
<1>4. PICK s \in T : Cardinality(s) = n
  BY <1>3
<1>5. ASSUME s # {}, s \ {Pick(s)} \in T PROVE FALSE
  <2>1. Pick(s) \in s
    BY <1>5 DEF Pick
  <2>2. Cardinality(s \ {Pick(s)}) = n - 1
    BY <1>1, <1>4, <2>1, FS_RemoveElement
  <2>3. n <= n - 1 /\ n \in Nat
    BY <1>2, <1>3, <1>5, <2>2
  <2> QED
    BY <2>3
<1> QED
  BY <1>4, <1>5

(* The sum of s, given the sums of its subsets.                            *)
Added(g, f, s) == IF s = {} THEN 0 ELSE f[Pick(s)] + g[s \ {Pick(s)}]
Adds(g, f, S) == g = [s \in SUBSET S |-> Added(g, f, s)]

(* What the fold of the community modules is.                              *)
LEMMA SumIsChosen ==
  ASSUME NEW f, NEW S
  PROVE  SumFunctionOnSet(f, S) = (CHOOSE g : Adds(g, f, S))[S]
BY DEF SumFunctionOnSet, FoldFunctionOnSet, MapThenFoldSet, Adds, Added, Pick

(* The sums of the subsets of up to n elements are there, by induction.    *)
UpTo(n, f, S) ==
  \E g : \A s \in SUBSET S : Cardinality(s) <= n => g[s] = Added(g, f, s)

LEMMA SumIsThere ==
  ASSUME NEW f, NEW S, IsFiniteSet(S)
  PROVE  \E g : Adds(g, f, S)
<1>0. \A s \in SUBSET S : IsFiniteSet(s) /\ Cardinality(s) \in Nat
  BY FS_Subset, FS_CardinalityType
<1>1. UpTo(Cardinality(S), f, S)
  <2> DEFINE A == {n \in Nat : ~UpTo(n, f, S)}
  <2>1. SUFFICES ASSUME A # {} PROVE FALSE
    BY FS_CardinalityType
  <2>2. PICK n \in A : \A m \in A : n <= m
    BY <2>1, NatMin
  <2>3. n # 0
    <3> SUFFICES UpTo(0, f, S)
      BY <2>2
    <3> DEFINE g == [s \in SUBSET S |-> 0]
    <3>1. \A s \in SUBSET S : Cardinality(s) <= 0 => s = {}
      BY <1>0, FS_EmptySet
    <3>2. \A s \in SUBSET S : Cardinality(s) <= 0 => g[s] = Added(g, f, s)
      BY <3>1 DEF Added
    <3> HIDE DEF g
    <3> QED
      BY <3>2 DEF UpTo
  <2>4. n - 1 \in Nat /\ n - 1 \notin A
    BY <2>2, <2>3
  <2>5. PICK h : \A s \in SUBSET S : Cardinality(s) <= n - 1 => h[s] = Added(h, f, s)
    BY <2>4 DEF UpTo
  <2> DEFINE g == [s \in SUBSET S |-> Added(h, f, s)]
  <2>6. \A s \in SUBSET S : g[s] = Added(h, f, s)
    OBVIOUS
  <2> HIDE DEF g
  <2>7. ASSUME NEW s \in SUBSET S, Cardinality(s) <= n PROVE g[s] = Added(g, f, s)
    <3>1. CASE s = {}
      BY <2>6, <3>1 DEF Added
    <3>2. CASE s # {}
      <4> DEFINE t == s \ {Pick(s)}
      <4>1. Pick(s) \in s /\ t \in SUBSET S
        BY <3>2 DEF Pick
      <4>2. Cardinality(t) = Cardinality(s) - 1
        BY <1>0, <4>1, FS_RemoveElement
      <4>3. Cardinality(t) <= n - 1
        BY <1>0, <2>2, <2>7, <4>2
      <4>4. h[t] = g[t]
        BY <2>5, <2>6, <4>1, <4>3
      <4>5. g[s] = f[Pick(s)] + h[t] /\ Added(g, f, s) = f[Pick(s)] + g[t]
        BY <2>6, <3>2 DEF Added
      <4> QED
        BY <4>4, <4>5
    <3> QED
      BY <3>1, <3>2
  <2>8. UpTo(n, f, S)
    BY <2>7 DEF UpTo
  <2> QED
    BY <2>2, <2>8
<1>2. PICK h : \A s \in SUBSET S : Cardinality(s) <= Cardinality(S) => h[s] = Added(h, f, s)
  BY <1>1 DEF UpTo
<1>3. \A s \in SUBSET S : h[s] = Added(h, f, s)
  BY <1>2, FS_Subset
<1> DEFINE g == [s \in SUBSET S |-> h[s]]
<1>4. \A s \in SUBSET S : g[s] = Added(g, f, s)
  <2> SUFFICES ASSUME NEW s \in SUBSET S PROVE g[s] = Added(g, f, s)
    OBVIOUS
  <2>1. s # {} => s \ {Pick(s)} \in SUBSET S
    OBVIOUS
  <2>2. g[s] = Added(h, f, s)
    BY <1>3
  <2>3. Added(g, f, s) = Added(h, f, s)
    BY <2>1 DEF Added
  <2> QED
    BY <2>2, <2>3
<1>5. Adds(g, f, S)
  <2>1. g = [s \in SUBSET S |-> g[s]]
    OBVIOUS
  <2> HIDE DEF g
  <2> QED
    BY <1>4, <2>1 DEF Adds
<1> QED
  BY <1>5

(* Every partial sum of a set: what SumFunctionOnSet computes.             *)
SumsUp(g, f, S) ==
  /\ SumFunctionOnSet(f, S) = g[S]
  /\ \A s \in SUBSET S : g[s] = Added(g, f, s)

LEMMA SumSteps ==
  ASSUME NEW f, NEW S, IsFiniteSet(S)
  PROVE  \E g : SumsUp(g, f, S)
<1> DEFINE g == CHOOSE h : Adds(h, f, S)
<1>1. Adds(g, f, S)
  BY SumIsThere
<1> HIDE DEF g
<1>2. \A s \in SUBSET S : g[s] = Added(g, f, s)
  BY <1>1 DEF Adds
<1>3. SumFunctionOnSet(f, S) = g[S]
  BY SumIsChosen DEF g
<1> QED
  BY <1>2, <1>3 DEF SumsUp

(* A sum of naturals is one, and nothing adds up to nothing.               *)
LEMMA SumIsNat ==
  ASSUME NEW f, NEW S, IsFiniteSet(S), \A x \in S : f[x] \in Nat
  PROVE  /\ SumFunctionOnSet(f, S) \in Nat
         /\ (\A x \in S : f[x] = 0) => SumFunctionOnSet(f, S) = 0
<1>0. PICK g : SumsUp(g, f, S)
  BY SumSteps
<1>1. /\ SumFunctionOnSet(f, S) = g[S]
      /\ \A s \in SUBSET S : g[s] = Added(g, f, s)
  BY <1>0 DEF SumsUp
<1> DEFINE Good(s) == g[s] \in Nat /\ ((\A x \in S : f[x] = 0) => g[s] = 0)
           T == {s \in SUBSET S : ~Good(s)}
<1>2. SUFFICES ASSUME T # {} PROVE FALSE
  BY <1>1
<1>3. PICK s \in T : s # {} => s \ {Pick(s)} \notin T
  BY <1>2, Smallest
<1>4. s # {}
  BY <1>1, <1>3 DEF Added
<1>5. Pick(s) \in S /\ Good(s \ {Pick(s)}) /\ g[s] = f[Pick(s)] + g[s \ {Pick(s)}]
  BY <1>1, <1>3, <1>4 DEF Added, Pick
<1>6. Good(s)
  <2>1. f[Pick(s)] \in Nat /\ g[s \ {Pick(s)}] \in Nat
    BY <1>5
  <2> QED
    BY <1>5, <2>1
<1> QED
  BY <1>3, <1>6

(* h differs from f in m, by n.                                            *)
Differ(f, h, S, m, n) ==
  \A x \in S : f[x] \in Nat /\ h[x] = f[x] + (IF x = m THEN n ELSE 0)

(* So does the sum, if m is there.                                         *)
LEMMA SumChanges ==
  ASSUME NEW f, NEW h, NEW S, IsFiniteSet(S), NEW m, NEW n \in Int,
         Differ(f, h, S, m, n)
  PROVE  SumFunctionOnSet(h, S) = SumFunctionOnSet(f, S) + (IF m \in S THEN n ELSE 0)
<1>0. /\ \E g : SumsUp(g, f, S)
      /\ \E k : SumsUp(k, h, S)
  BY SumSteps
<1>1. PICK g : /\ SumFunctionOnSet(f, S) = g[S]
               /\ \A s \in SUBSET S : g[s] = Added(g, f, s)
  BY <1>0 DEF SumsUp
<1>2. PICK k : /\ SumFunctionOnSet(h, S) = k[S]
               /\ \A s \in SUBSET S : k[s] = Added(k, h, s)
  BY <1>0 DEF SumsUp
<1> DEFINE Good(s) == g[s] \in Int /\ k[s] = g[s] + (IF m \in s THEN n ELSE 0)
           T == {s \in SUBSET S : ~Good(s)}
<1>3. SUFFICES ASSUME T # {} PROVE FALSE
  BY <1>1, <1>2
<1>4. PICK s \in T : s # {} => s \ {Pick(s)} \notin T
  BY <1>3, Smallest
<1>5. s # {}
  <2>1. g[{}] = 0 /\ k[{}] = 0
    BY <1>1, <1>2 DEF Added
  <2>2. Good({})
    BY <2>1
  <2> QED
    BY <1>4, <2>2
<1> DEFINE p == Pick(s)
           t == s \ {p}
<1>6. /\ p \in s /\ p \in S /\ t \in SUBSET S
      /\ g[s] = f[p] + g[t] /\ k[s] = h[p] + k[t]
  BY <1>1, <1>2, <1>4, <1>5 DEF Added, Pick
<1>7. Good(t)
  BY <1>4, <1>5
<1>8. Good(s)
  <2>1. f[p] \in Nat /\ h[p] = f[p] + (IF p = m THEN n ELSE 0) /\ g[t] \in Int
    BY <1>6, <1>7 DEF Differ
  <2>2. CASE p = m
    <3>1. m \notin t /\ m \in s
      BY <1>6, <2>2
    <3> QED
      BY <1>6, <1>7, <2>1, <2>2, <3>1
  <2>3. CASE p # m
    <3>1. m \in t <=> m \in s
      BY <2>3
    <3> QED
      BY <1>6, <1>7, <2>1, <2>3, <3>1
  <2> QED
    BY <2>2, <2>3
<1> QED
  BY <1>4, <1>8

(* A finite set of naturals has a greatest one.                            *)
LEMMA NatMax ==
  ASSUME NEW S \in SUBSET Nat, IsFiniteSet(S), S # {}
  PROVE  Max(S) \in S /\ \A y \in S : y <= Max(S)
<1> DEFINE Greatest(x, s) == x \in s /\ \A y \in s : x >= y
           T == {s \in SUBSET S : s # {} /\ ~\E x \in s : Greatest(x, s)}
<1>1. T = {}
  <2> SUFFICES ASSUME T # {} PROVE FALSE
    OBVIOUS
  <2>1. PICK s \in T : s # {} => s \ {Pick(s)} \notin T
    BY Smallest
  <2>2. Pick(s) \in s
    BY <2>1 DEF Pick
  <2> DEFINE p == Pick(s)
             t == s \ {p}
  <2>3. CASE t = {}
    <3>1. s = {p} /\ p \in Nat
      BY <2>2, <2>3
    <3>2. Greatest(p, s)
      BY <3>1
    <3> QED
      BY <2>1, <2>2, <3>2
  <2>4. CASE t # {}
    <3>1. PICK x \in t : Greatest(x, t)
      BY <2>1, <2>4
    <3>2. x \in Nat /\ p \in Nat /\ x \in s
      BY <2>2, <3>1
    <3>3. CASE x >= p
      <4>1. Greatest(x, s)
        BY <3>1, <3>2, <3>3
      <4> QED
        BY <2>1, <3>2, <4>1
    <3>4. CASE ~(x >= p)
      <4>1. \A y \in t : y \in Nat /\ p >= y
        BY <3>1, <3>2, <3>4
      <4>2. Greatest(p, s)
        BY <2>2, <3>2, <4>1
      <4> QED
        BY <2>1, <2>2, <4>2
    <3> QED
      BY <3>3, <3>4
  <2> QED
    BY <2>3, <2>4
<1>2. \E x \in S : \A y \in S : x >= y
  BY <1>1
<1>3. Max(S) \in S /\ \A y \in S : Max(S) >= y
  BY <1>2 DEF Max
<1> QED
  BY <1>3

-----------------------------------------------------------------------------
(* The arithmetic of days.                                                 *)
LEMMA DaysOfMinutes == \A m \in Minutes : DayOf(m) \in Days
BY DEF Days

(* Working calls are typed by their profile.                               *)
Working == {"admitting", "sleeping", "sending"}
Placed(call) == call.pc \in Working => call.profile \in Profiles

HistoryTyped ==
  /\ sent \in [Keys -> Nat]
  /\ sentFirst \in [Keys -> Nat]
  /\ unguarded \in [Keys -> Nat]

(* A call that is over is typed.                                           *)
LEMMA EndedTypes ==
  ASSUME NEW pc \in {"idle", "answered", "unavailable"}
  PROVE  Ended(pc) \in CallRecords /\ Placed(Ended(pc))
BY TimeAssumption DEF Ended, CallRecords, Placed, Working, Minutes

(* The sizes of prompts and of tokens are naturals.                        *)
LEMMA CompactedIsNat ==
  ASSUME NEW bytes \in Nat, NEW cap \in Nat
  PROVE  Compacted(bytes, cap) \in Nat
<1> DEFINE target == Target(bytes, cap)
           head == (6 * target) \div 10
<1>1. (3 * bytes) \div 4 \in Nat /\ (9 * cap) \div 10 \in Nat
  OBVIOUS
<1>2. target \in Nat
  BY <1>1 DEF Target, Least, Most, Marker
<1> HIDE DEF target
<1>3. head \in Nat /\ head <= target
  BY <1>2
<1> HIDE DEF head
<1>4. QED
  BY <1>2, <1>3 DEF Compacted, Marker, target, head

LEMMA InputTokensIsNat ==
  ASSUME NEW bytes \in Nat
  PROVE  InputTokens(bytes) \in Nat
BY DEF InputTokens

(* So is one that starts to acquire.                                       *)
LEMMA AcquiringTypes ==
  ASSUME TypeOK, NEW p \in Profiles, NEW bytes \in Nat
  PROVE  Acquiring(p, bytes) \in CallRecords /\ Placed(Acquiring(p, bytes))
BY DEF Acquiring, Ended, CallRecords, Placed, TypeOK

(* And one that proceeds without a guard.                                  *)
LEMMA ProceedingTypes ==
  ASSUME TypeOK, NEW c \in Calls, NEW p \in Profiles, NEW bytes \in Nat
  PROVE  Proceeding(c, p, bytes) \in CallRecords /\ Placed(Proceeding(c, p, bytes))
<1> DEFINE call == Acquiring(p, bytes)
<1>1. call \in CallRecords /\ Placed(call) /\ call.profile = p
  BY AcquiringTypes DEF Acquiring, Ended
<1> HIDE DEF call
<1>2. /\ [call EXCEPT !.pc = "sending"] \in CallRecords
      /\ Placed([call EXCEPT !.pc = "sending"])
  BY <1>1 DEF CallRecords, Placed
<1> QED
  BY <1>1, <1>2 DEF Proceeding, call

(* Whatever follows a failed profile is a typed call.                      *)
LEMMA WithoutProfileTypes ==
  ASSUME TypeOK, NEW c \in Calls, NEW p, NEW rejected \in BOOLEAN
  PROVE  /\ WithoutProfile(c, p, rejected) \in CallRecords
         /\ Placed(WithoutProfile(c, p, rejected))
<1>1. CASE HasFallback(c, p)
  <2>1. Fallback[c] \in Profiles
    BY <1>1, CallsAssumption DEF HasFallback
  <2>2. ByteCap[Fallback[c]] \in Nat /\ prompt[c] \in Nat
    BY <2>1, ProfilesAssumption DEF TypeOK
  <2>3. FallbackBytes(c, rejected) \in Nat
    BY <2>2, CompactedIsNat DEF FallbackBytes
  <2>4. QED
    BY <2>1, <2>3, ProceedingTypes, EndedTypes DEF WithoutProfile
<1>2. CASE ~HasFallback(c, p)
  BY <1>2, EndedTypes DEF WithoutProfile
<1>3. QED
  BY <1>1, <1>2

(* One call moves to a typed place.                                        *)
LEMMA OneCallMoves ==
  ASSUME TypeOK, NEW c \in Calls, NEW call \in CallRecords, Placed(call), Go(c, call)
  PROVE  /\ calls' \in [Calls -> CallRecords]
         /\ \A d \in Calls : Placed(calls'[d])
BY DEF Go, TypeOK, Placed, Working

(* What the fields of a call are.                                          *)
LEMMA CallFields ==
  ASSUME TypeOK, NEW c \in Calls
  PROVE  /\ calls[c].stamp \in Minutes /\ calls[c].tries \in Nat
         /\ calls[c].bytes \in Nat /\ prompt[c] \in Nat
         /\ calls[c].pc \in Working =>
              /\ calls[c].profile \in Profiles
              /\ KeyOf[calls[c].profile] \in Keys
              /\ NeedOf(c) \in Nat
BY ProfilesAssumption, InputTokensIsNat DEF TypeOK, CallRecords, Working, NeedOf

(* A charged window is a window.                                           *)
LEMMA ChargedTypes ==
  ASSUME NEW window \in Windows, NEW need \in Nat
  PROVE  /\ Charged(window, need) \in Windows
         /\ Charged(window, need).requests = window.requests + 1
         /\ Charged(window, need).tokens = window.tokens + need
BY DEF Charged, Windows

(* Charge changes the two windows of the call and no other.                *)
LEMMA ChargeWindows ==
  ASSUME TypeOK, NEW c \in Calls, At(c, "admitting"), Charge(c)
  PROVE  /\ perMinute' \in [Keys -> [Minutes -> Windows]]
         /\ perDay' \in [Keys -> [Days -> Windows]]
         /\ \A k \in Keys, m \in Minutes :
              perMinute'[k][m] = IF k = KeyOf[calls[c].profile] /\ m = calls[c].stamp
                                 THEN Charged(perMinute[k][m], NeedOf(c))
                                 ELSE perMinute[k][m]
         /\ \A k \in Keys, d \in Days :
              perDay'[k][d] = IF k = KeyOf[calls[c].profile] /\ d = DayOf(calls[c].stamp)
                              THEN Charged(perDay[k][d], NeedOf(c))
                              ELSE perDay[k][d]
<1> DEFINE k == KeyOf[calls[c].profile]
           m == calls[c].stamp
           d == DayOf(m)
<1>1. k \in Keys /\ m \in Minutes /\ d \in Days /\ NeedOf(c) \in Nat
  BY CallFields, DaysOfMinutes DEF At, Working
<1> HIDE DEF k, m, d
<1>2. /\ perMinute' = [perMinute EXCEPT ![k][m] = Charged(perMinute[k][m], NeedOf(c))]
      /\ perDay' = [perDay EXCEPT ![k][d] = Charged(perDay[k][d], NeedOf(c))]
  BY DEF Charge, k, m, d
<1>3. /\ Charged(perMinute[k][m], NeedOf(c)) \in Windows
      /\ Charged(perDay[k][d], NeedOf(c)) \in Windows
  <2>1. perMinute[k][m] \in Windows /\ perDay[k][d] \in Windows
    BY <1>1 DEF TypeOK
  <2> QED
    BY <1>1, <2>1, ChargedTypes
<1>4. /\ perMinute' \in [Keys -> [Minutes -> Windows]]
      /\ \A i \in Keys, n \in Minutes :
           perMinute'[i][n] = IF i = k /\ n = m
                              THEN Charged(perMinute[i][n], NeedOf(c)) ELSE perMinute[i][n]
  BY <1>1, <1>2, <1>3 DEF TypeOK
<1>5. /\ perDay' \in [Keys -> [Days -> Windows]]
      /\ \A i \in Keys, n \in Days :
           perDay'[i][n] = IF i = k /\ n = d
                           THEN Charged(perDay[i][n], NeedOf(c)) ELSE perDay[i][n]
  BY <1>1, <1>2, <1>3 DEF TypeOK
<1>6. QED
  BY <1>4, <1>5 DEF k, m, d

(* An admission leaves every window within the limits of its key.          *)
LEMMA ChargeWithinLimits ==
  ASSUME TypeOK, WithinLimits, NEW c \in Calls, At(c, "admitting"),
         ~MinuteFull(c), ~DayFull(c), Charge(c)
  PROVE  WithinLimits'
<1> DEFINE p == calls[c].profile
           k == KeyOf[p]
           s == calls[c].stamp
<1>1. /\ p \in Profiles /\ k \in Keys /\ s \in Minutes /\ DayOf(s) \in Days
      /\ NeedOf(c) \in Nat /\ Rpm[p] \in Nat /\ Tpm[p] \in Nat /\ Rpd[p] \in Nat
  BY CallFields, DaysOfMinutes, ProfilesAssumption DEF At, Working
<1>2. perMinute[k][s] \in Windows /\ perDay[k][DayOf(s)] \in Windows
  BY <1>1 DEF TypeOK
<1>3. /\ perMinute[k][s].requests + 1 <= Rpm[p]
      /\ perMinute[k][s].tokens + NeedOf(c) <= Tpm[p]
      /\ perDay[k][DayOf(s)].requests + 1 <= Rpd[p]
  BY <1>1, <1>2 DEF MinuteFull, DayFull, MinuteWindow, DayWindow, Windows
<1>4. /\ Charged(perMinute[k][s], NeedOf(c)).requests = perMinute[k][s].requests + 1
      /\ Charged(perMinute[k][s], NeedOf(c)).tokens = perMinute[k][s].tokens + NeedOf(c)
      /\ Charged(perDay[k][DayOf(s)], NeedOf(c)).requests = perDay[k][DayOf(s)].requests + 1
  BY <1>1, <1>2, ChargedTypes
<1>5. /\ \A i \in Keys, m \in Minutes :
           perMinute'[i][m] = IF i = k /\ m = s THEN Charged(perMinute[i][m], NeedOf(c))
                              ELSE perMinute[i][m]
      /\ \A i \in Keys, d \in Days :
           perDay'[i][d] = IF i = k /\ d = DayOf(s) THEN Charged(perDay[i][d], NeedOf(c))
                           ELSE perDay[i][d]
  BY ChargeWindows
<1> HIDE DEF p, k, s
<1>6. ASSUME NEW i \in Keys, NEW m \in Minutes
      PROVE  /\ Allows(i, Rpm, perMinute'[i][m].requests)
             /\ Allows(i, Tpm, perMinute'[i][m].tokens)
  <2>1. CASE i = k /\ m = s
    <3>1. /\ perMinute'[i][m].requests = perMinute[k][s].requests + 1
          /\ perMinute'[i][m].tokens = perMinute[k][s].tokens + NeedOf(c)
      BY <1>1, <1>4, <1>5, <2>1
    <3>2. QED
      BY <1>1, <1>3, <2>1, <3>1 DEF Allows, p, k
  <2>2. CASE ~(i = k /\ m = s)
    BY <1>5, <2>2 DEF WithinLimits
  <2>3. QED
    BY <2>1, <2>2
<1>7. ASSUME NEW i \in Keys, NEW d \in Days
      PROVE  Allows(i, Rpd, perDay'[i][d].requests)
  <2>1. CASE i = k /\ d = DayOf(s)
    <3>1. perDay'[i][d].requests = perDay[k][DayOf(s)].requests + 1
      BY <1>1, <1>4, <1>5, <2>1
    <3>2. QED
      BY <1>1, <1>3, <2>1, <3>1 DEF Allows, p, k
  <2>2. CASE ~(i = k /\ d = DayOf(s))
    BY <1>5, <2>2 DEF WithinLimits
  <2>3. QED
    BY <2>1, <2>2
<1>8. QED
  BY <1>6, <1>7 DEF WithinLimits, Allows

(* The limits are inductive given the types.                               *)
IInv == TypeOK /\ WithinLimits

(* Every step keeps the types and the limits.                              *)
LEMMA InvariantStep == IInv /\ [Next]_vars => IInv'
<1> SUFFICES ASSUME IInv, [Next]_vars PROVE IInv'
  OBVIOUS
<1>0. TypeOK /\ WithinLimits
  BY DEF IInv
(* A step that moves one call and leaves the windows alone.                *)
<1>1. ASSUME NEW c \in Calls, NEW call \in CallRecords, Placed(call), Go(c, call),
             UNCHANGED <<prompt, minute, perMinute, perDay>>,
             HistoryTyped'
      PROVE  IInv'
  <2>1. /\ calls' \in [Calls -> CallRecords]
        /\ \A d \in Calls : Placed(calls'[d])
    BY <1>0, <1>1, OneCallMoves
  <2>2. TypeOK'
    BY <1>0, <1>1, <2>1 DEF TypeOK, Placed, Working, HistoryTyped
  <2>3. WithinLimits'
    BY <1>0, <1>1 DEF WithinLimits, Allows
  <2>4. QED
    BY <2>2, <2>3 DEF IInv
(* A step that also charges the call to its windows.                       *)
<1>2. ASSUME NEW c \in Calls, NEW call \in CallRecords, Placed(call), Go(c, call),
             At(c, "admitting"), ~MinuteFull(c), ~DayFull(c), Charge(c),
             UNCHANGED <<prompt, minute, history>>
      PROVE  IInv'
  <2>1. /\ calls' \in [Calls -> CallRecords]
        /\ \A d \in Calls : Placed(calls'[d])
    BY <1>0, <1>2, OneCallMoves
  <2>2. /\ perMinute' \in [Keys -> [Minutes -> Windows]]
        /\ perDay' \in [Keys -> [Days -> Windows]]
    BY <1>0, <1>2, ChargeWindows
  <2>3. TypeOK'
    BY <1>0, <1>2, <2>1, <2>2 DEF TypeOK, Placed, Working, history
  <2>4. WithinLimits'
    BY <1>0, <1>2, ChargeWithinLimits
  <2>5. QED
    BY <2>3, <2>4 DEF IInv
<1>3. HistoryTyped
  BY <1>0 DEF TypeOK, HistoryTyped
<1>4. ASSUME NEW c \in Calls, NEW p, NEW rejected \in BOOLEAN
      PROVE  /\ WithoutProfile(c, p, rejected) \in CallRecords
             /\ Placed(WithoutProfile(c, p, rejected))
  BY <1>0, WithoutProfileTypes
<1>5. ASSUME NEW c \in Calls, Begin(c) PROVE IInv'
  <2>1. /\ Proceeding(c, Primary[c], prompt[c]) \in CallRecords
        /\ Placed(Proceeding(c, Primary[c], prompt[c]))
    BY <1>0, ProceedingTypes, CallFields, CallsAssumption
  <2>2. IsSelectable(Primary[c]) \in BOOLEAN
    BY DEF IsSelectable
  <2>3. HistoryTyped'
    BY <1>3, <1>5 DEF Begin, HistoryTyped, history
  <2>4. QED
    BY <1>1, <1>4, <1>5, <2>1, <2>2, <2>3 DEF Begin
<1>6. ASSUME NEW c \in Calls, At(c, "admitting"), NEW pc \in {"sending", "sleeping"}
      PROVE  [calls[c] EXCEPT !.pc = pc] \in CallRecords
             /\ Placed([calls[c] EXCEPT !.pc = pc])
  BY <1>0, <1>6 DEF TypeOK, CallRecords, Placed, Working, At
<1>7. ASSUME NEW c \in Calls, Admit(c) PROVE IInv'
  BY <1>2, <1>6, <1>7 DEF Admit
<1>8. ASSUME NEW c \in Calls, MinuteExhausted(c) PROVE IInv'
  <2>1. [calls[c] EXCEPT !.pc = "sleeping"] \in CallRecords
        /\ Placed([calls[c] EXCEPT !.pc = "sleeping"])
    BY <1>6, <1>8 DEF MinuteExhausted
  <2>2. HistoryTyped'
    BY <1>3, <1>8 DEF MinuteExhausted, HistoryTyped, history
  <2>3. QED
    BY <1>1, <1>4, <1>8, <2>1, <2>2 DEF MinuteExhausted
<1>9. ASSUME NEW c \in Calls, DayExhausted(c) PROVE IInv'
  <2>1. HistoryTyped'
    BY <1>3, <1>9 DEF DayExhausted, HistoryTyped, history
  <2>2. QED
    BY <1>1, <1>4, <1>9, <2>1 DEF DayExhausted
<1>10. ASSUME NEW c \in Calls, StorageFails(c) PROVE IInv'
  <2>1. CASE UNCHANGED <<perMinute, perDay>>
    <3>1. HistoryTyped'
      BY <1>3, <1>10 DEF StorageFails, HistoryTyped, history
    <3>2. QED
      BY <1>1, <1>4, <1>10, <2>1, <3>1 DEF StorageFails
  <2>2. CASE ~MinuteFull(c) /\ ~DayFull(c) /\ Charge(c)
    BY <1>2, <1>4, <1>10, <2>2 DEF StorageFails
  <2>3. QED
    BY <1>10, <2>1, <2>2 DEF StorageFails
<1>11. ASSUME NEW c \in Calls, Wake(c) PROVE IInv'
  <2> DEFINE start == Acquiring(calls[c].profile, calls[c].bytes)
             call == [start EXCEPT !.waited = TRUE]
  <2>1. calls[c].profile \in Profiles /\ calls[c].bytes \in Nat
    BY <1>0, <1>11, CallFields DEF Wake, At, Working
  <2>2. start \in CallRecords /\ Placed(start)
    BY <1>0, <2>1, AcquiringTypes
  <2>3. call \in CallRecords /\ Placed(call)
    BY <2>2 DEF CallRecords, Placed
  <2>4. HistoryTyped'
    BY <1>3, <1>11 DEF Wake, HistoryTyped, history
  <2>5. QED
    BY <1>1, <1>11, <2>3, <2>4 DEF Wake
(* The requests of an attempt are counted in naturals.                     *)
<1>12. ASSUME NEW c \in Calls, At(c, "sending"),
              NEW n \in RequestsOfAttempt(calls[c].profile), Requested(c, n)
       PROVE  HistoryTyped'
  <2> DEFINE k == KeyOf[calls[c].profile]
  <2>1. k \in Keys /\ calls[c].tries \in Nat /\ n \in Nat
    BY <1>0, <1>12, CallFields DEF At, Working, RequestsOfAttempt
  <2>2. /\ sent' = [sent EXCEPT ![k] = sent[k] + n]
        /\ \/ sentFirst' = [sentFirst EXCEPT ![k] = sentFirst[k] + 1]
           \/ sentFirst' = sentFirst
        /\ \/ unguarded' = [unguarded EXCEPT ![k] = unguarded[k] + 1]
           \/ unguarded' = unguarded
    BY <1>12 DEF Requested
  <2> HIDE DEF k
  <2>3. QED
    BY <1>3, <2>1, <2>2 DEF HistoryTyped
<1>13. ASSUME NEW c \in Calls, Send(c) PROVE IInv'
  <2>1. calls[c] \in CallRecords /\ calls[c].tries \in Nat /\ calls[c].profile \in Profiles
    BY <1>0, <1>13, CallFields DEF Send, At, Working, TypeOK
  <2>2. HistoryTyped'
    BY <1>12, <1>13 DEF Send
  <2>3. [calls[c] EXCEPT !.tries = calls[c].tries + 1] \in CallRecords
        /\ Placed([calls[c] EXCEPT !.tries = calls[c].tries + 1])
    BY <2>1 DEF CallRecords, Placed
  <2>4. Ended("answered") \in CallRecords /\ Placed(Ended("answered"))
    BY EndedTypes
  <2>5. ASSUME NEW outcome
        PROVE  After(c, outcome) \in CallRecords /\ Placed(After(c, outcome))
    <3>1. (outcome = "too large") \in BOOLEAN
      OBVIOUS
    <3>2. QED
      BY <1>4, <2>3, <2>4, <3>1 DEF After
  <2>6. PICK outcome : Go(c, After(c, outcome))
    BY <1>13 DEF Send
  <2>7. UNCHANGED <<prompt, minute, perMinute, perDay>>
    BY <1>13 DEF Send
  <2>8. QED
    BY <1>1, <2>2, <2>5, <2>6, <2>7
<1>14. ASSUME NEW c \in Calls, Cancel(c) PROVE IInv'
  <2>1. HistoryTyped'
    BY <1>3, <1>12, <1>14 DEF Cancel, HistoryTyped, history
  <2>2. QED
    BY <1>1, <1>14, <2>1, EndedTypes DEF Cancel
<1>15. ASSUME Tick PROVE IInv'
  <2>1. minute' \in Minutes
    BY <1>0, <1>15, TimeAssumption DEF Tick, TypeOK, Minutes
  <2>2. TypeOK'
    BY <1>0, <1>15, <2>1 DEF Tick, TypeOK, history
  <2>3. WithinLimits'
    BY <1>0, <1>15 DEF Tick, WithinLimits, Allows
  <2>4. QED
    BY <2>2, <2>3 DEF IInv
<1>16. CASE UNCHANGED vars
  <2>1. TypeOK'
    BY <1>0, <1>16 DEF vars, history, TypeOK
  <2>2. WithinLimits'
    BY <1>0, <1>16 DEF vars, WithinLimits, Allows
  <2>3. QED
    BY <2>1, <2>2 DEF IInv
<1>17. QED
  BY <1>5, <1>7, <1>8, <1>9, <1>10, <1>11, <1>13, <1>14, <1>15, <1>16 DEF Next, Acquire

(* Empty windows are within every limit.                                   *)
LEMMA InvariantInit == Init => IInv
<1> SUFFICES ASSUME Init PROVE IInv
  OBVIOUS
<1>0. prompt \in [Calls -> Nat]
  BY CallsAssumption DEF Init
<1>1. EmptyWindow \in Windows /\ EmptyWindow.requests = 0 /\ EmptyWindow.tokens = 0
  BY DEF EmptyWindow, Windows
<1>2. Ended("idle") \in CallRecords /\ Ended("idle").pc = "idle"
  BY EndedTypes DEF Ended
<1>3. TypeOK
  BY <1>0, <1>1, <1>2, TimeAssumption DEF Init, TypeOK, Minutes
<1>4. WithinLimits
  BY <1>1 DEF Init, WithinLimits, Allows
<1>5. QED
  BY <1>3, <1>4 DEF IInv

-----------------------------------------------------------------------------
(***************************************************************************)
(* The accounts: what the windows of a key count, against what was sent    *)
(* under it and what may still be.                                         *)
(***************************************************************************)
RequestsPerAttempt(p) == Cardinality(RequestsOfAttempt(p))

(* The requests a call may still send on account of its reservation, or of *)
(* a first request that was sent without one.                              *)
OwedBy(c, call, k) ==
  IF call.pc = "sending" /\ KeyOf[call.profile] = k /\ (c \in Guarded \/ call.tries # 0)
  THEN (Attempts[call.profile] - call.tries) * RequestsPerAttempt(call.profile)
  ELSE 0
Owed(k) == [c \in Calls |-> OwedBy(c, calls[c], k)]

(* A call has tried less often than it may, and not at all until it sends. *)
TriesGood(call) ==
  /\ call.pc \in {"admitting", "sleeping"} => call.tries = 0
  /\ call.pc = "sending" => call.tries < Attempts[call.profile]

(* The generate()s of a key: those with a reservation, and those without.  *)
Accountable(k) == Counted(k) + unguarded[k]

Accounted ==
  /\ DayIsSumOfMinutes
  /\ \A c \in Calls : TriesGood(calls[c])
  /\ \A k \in Keys :
       /\ IsFiniteSet(Pending(k))
       /\ sentFirst[k] + Cardinality(Pending(k)) <= Counted(k)
       /\ sent[k] + SumFunctionOnSet(Owed(k), Calls)
            <= RequestsPerReservation(k) * Accountable(k)

(* An attempt is one request, or two; a reservation stands for those of    *)
(* all attempts.                                                           *)
LEMMA AttemptRequests ==
  ASSUME NEW p
  PROVE  /\ RequestsPerAttempt(p) \in {1, 2}
         /\ \A n \in RequestsOfAttempt(p) : n \in Nat /\ n <= RequestsPerAttempt(p)
<1>1. Cardinality({1}) = 1 /\ IsFiniteSet({1})
  BY FS_Singleton
<1>2. Cardinality({1} \cup {2}) = 2
  BY <1>1, FS_AddElement
<1>3. {1} \cup {2} = {1, 2}
  OBVIOUS
<1>4. Cardinality({1, 2}) = 2
  BY <1>2, <1>3
<1> QED
  BY <1>1, <1>4 DEF RequestsPerAttempt, RequestsOfAttempt

LEMMA TimesIsNat == \A m, n \in Nat : m * n \in Nat
OBVIOUS

LEMMA ReservationStandsFor ==
  ASSUME NEW k \in Keys
  PROVE  /\ RequestsPerReservation(k) \in Nat
         /\ \A p \in Profiles : KeyOf[p] = k =>
              Attempts[p] * RequestsPerAttempt(p) <= RequestsPerReservation(k)
<1> DEFINE P == {q \in Profiles : KeyOf[q] = k}
           R == {Attempts[p] * RequestsPerAttempt(p) : p \in P}
           S == {0} \cup R
<1>1. \A p \in P : Attempts[p] * RequestsPerAttempt(p) \in Nat
  <2> SUFFICES ASSUME NEW p \in P PROVE Attempts[p] * RequestsPerAttempt(p) \in Nat
    OBVIOUS
  <2>1. Attempts[p] \in Nat /\ RequestsPerAttempt(p) \in Nat
    BY ProfilesAssumption, AttemptRequests
  <2> QED
    BY <2>1, TimesIsNat
<1>2. IsFiniteSet(R)
  <2>1. IsFiniteSet(P)
    BY ProfilesAssumption, FS_Subset
  <2> DEFINE f == [p \in P |-> Attempts[p] * RequestsPerAttempt(p)]
  <2>2. f \in Surjection(P, R)
    BY DEF Surjection
  <2> HIDE DEF f, P, R
  <2> QED
    BY <2>1, <2>2, FS_Surjection
<1>3. IsFiniteSet(S) /\ S \in SUBSET Nat /\ S # {}
  <2>1. IsFiniteSet({0})
    BY FS_Singleton
  <2>2. IsFiniteSet({0} \cup R)
    <3> HIDE DEF R
    <3> QED
      BY <1>2, <2>1, FS_Union
  <2> QED
    BY <1>1, <2>2
<1>4. Max(S) \in S /\ \A y \in S : y <= Max(S)
  <2> HIDE DEF S
  <2> QED
    BY <1>3, NatMax
<1>5. RequestsPerReservation(k) = Max(S)
  BY DEF RequestsPerReservation, RequestsPerAttempt
<1>6. \A p \in P : Attempts[p] * RequestsPerAttempt(p) \in S
  OBVIOUS
<1> QED
  BY <1>3, <1>4, <1>5, <1>6

LEMMA MinutesAreFinite ==
  /\ IsFiniteSet(Minutes)
  /\ \A d : MinutesOf(d) \subseteq Minutes /\ IsFiniteSet(MinutesOf(d))
<1>1. IsFiniteSet(Minutes)
  BY TimeAssumption, FS_Interval DEF Minutes
<1>2. \A d : MinutesOf(d) \subseteq Minutes
  BY DEF MinutesOf
<1> QED
  BY <1>1, <1>2, FS_Subset

LEMMA WindowsAreNat ==
  ASSUME TypeOK, NEW k \in Keys, NEW m \in Minutes
  PROVE  RequestsIn(k)[m] \in Nat /\ TokensIn(k)[m] \in Nat
<1>1. perMinute[k][m] \in Windows
  BY DEF TypeOK
<1> QED
  BY <1>1 DEF RequestsIn, TokensIn, Windows

LEMMA CountedIsNat ==
  ASSUME TypeOK, NEW k \in Keys
  PROVE  Counted(k) \in Nat
BY MinutesAreFinite, WindowsAreNat, SumIsNat DEF Counted

(* A charge counts once in its minute and in the day of that.              *)
LEMMA ChargeCounts ==
  ASSUME TypeOK, NEW c \in Calls, At(c, "admitting"), Charge(c), NEW k \in Keys,
         NEW D, D \subseteq Minutes
  PROVE  LET a(x) == IF k = KeyOf[calls[c].profile] /\ calls[c].stamp \in D THEN x ELSE 0
         IN  /\ SumFunctionOnSet(RequestsIn(k)', D) = SumFunctionOnSet(RequestsIn(k), D) + a(1)
             /\ SumFunctionOnSet(TokensIn(k)', D)
                  = SumFunctionOnSet(TokensIn(k), D) + a(NeedOf(c))
<1> DEFINE s == calls[c].stamp
           here == k = KeyOf[calls[c].profile]
           need == NeedOf(c)
           one == IF here THEN 1 ELSE 0
           some == IF here THEN need ELSE 0
           f == RequestsIn(k)
           h == RequestsIn(k)'
           ft == TokensIn(k)
           ht == TokensIn(k)'
<1>1. IsFiniteSet(D)
  BY MinutesAreFinite, FS_Subset
<1>2. need \in Nat /\ one \in Int /\ some \in Int
  BY CallFields DEF At, Working
<1>3. ASSUME NEW m \in D
      PROVE  /\ f[m] \in Nat /\ h[m] = f[m] + (IF m = s THEN one ELSE 0)
             /\ ft[m] \in Nat /\ ht[m] = ft[m] + (IF m = s THEN some ELSE 0)
  <2>1. m \in Minutes /\ perMinute[k][m] \in Windows
    BY DEF TypeOK
  <2>2. perMinute'[k][m] = IF here /\ m = s THEN Charged(perMinute[k][m], need)
                           ELSE perMinute[k][m]
    BY <2>1, ChargeWindows
  <2>3. /\ Charged(perMinute[k][m], need).requests = perMinute[k][m].requests + 1
        /\ Charged(perMinute[k][m], need).tokens = perMinute[k][m].tokens + need
    BY <1>2, <2>1, ChargedTypes
  <2>4. f[m] \in Nat /\ ft[m] \in Nat
    BY <2>1, WindowsAreNat
  <2>5. /\ f[m] = perMinute[k][m].requests /\ h[m] = perMinute'[k][m].requests
        /\ ft[m] = perMinute[k][m].tokens /\ ht[m] = perMinute'[k][m].tokens
    BY <2>1 DEF RequestsIn, TokensIn
  <2> HIDE DEF here, need, f, h, ft, ht, s
  <2>6. CASE here /\ m = s
    BY <2>2, <2>3, <2>4, <2>5, <2>6
  <2>7. CASE ~(here /\ m = s)
    BY <2>2, <2>4, <2>5, <2>7
  <2> QED
    BY <2>6, <2>7
<1>4. Differ(f, h, D, s, one) /\ Differ(ft, ht, D, s, some)
  <2> HIDE DEF f, h, ft, ht, one, some, s
  <2> QED
    BY <1>3 DEF Differ
<1>5. /\ SumFunctionOnSet(h, D) = SumFunctionOnSet(f, D) + (IF s \in D THEN one ELSE 0)
      /\ SumFunctionOnSet(ht, D) = SumFunctionOnSet(ft, D) + (IF s \in D THEN some ELSE 0)
  <2> HIDE DEF f, h, ft, ht, one, some, s
  <2> QED
    BY <1>1, <1>2, <1>4, SumChanges
<1> QED
  BY <1>5

LEMMA ChargeKeepsDays ==
  ASSUME TypeOK, DayIsSumOfMinutes, NEW c \in Calls, At(c, "admitting"), Charge(c)
  PROVE  DayIsSumOfMinutes'
<1> SUFFICES ASSUME NEW k \in Keys, NEW d \in Days
             PROVE  /\ perDay'[k][d].requests
                         = SumFunctionOnSet(RequestsIn(k)', MinutesOf(d))
                    /\ perDay'[k][d].tokens
                         = SumFunctionOnSet(TokensIn(k)', MinutesOf(d))
  BY DEF DayIsSumOfMinutes, MinutesOf
<1> DEFINE s == calls[c].stamp
           here == k = KeyOf[calls[c].profile] /\ s \in MinutesOf(d)
<1>1. s \in MinutesOf(d) <=> d = DayOf(s)
  BY CallFields DEF MinutesOf
<1>2. perDay'[k][d] = IF here THEN Charged(perDay[k][d], NeedOf(c)) ELSE perDay[k][d]
  BY <1>1, ChargeWindows
<1>3. /\ perDay[k][d].requests = SumFunctionOnSet(RequestsIn(k), MinutesOf(d))
      /\ perDay[k][d].tokens = SumFunctionOnSet(TokensIn(k), MinutesOf(d))
      /\ perDay[k][d] \in Windows /\ NeedOf(c) \in Nat
  BY CallFields DEF DayIsSumOfMinutes, TypeOK, At, Working
<1>4. /\ Charged(perDay[k][d], NeedOf(c)).requests = perDay[k][d].requests + 1
      /\ Charged(perDay[k][d], NeedOf(c)).tokens = perDay[k][d].tokens + NeedOf(c)
      /\ perDay[k][d].requests \in Nat /\ perDay[k][d].tokens \in Nat
  BY <1>3, ChargedTypes DEF Windows
<1>5. /\ SumFunctionOnSet(RequestsIn(k)', MinutesOf(d))
           = SumFunctionOnSet(RequestsIn(k), MinutesOf(d)) + (IF here THEN 1 ELSE 0)
      /\ SumFunctionOnSet(TokensIn(k)', MinutesOf(d))
           = SumFunctionOnSet(TokensIn(k), MinutesOf(d)) + (IF here THEN NeedOf(c) ELSE 0)
  BY MinutesAreFinite, ChargeCounts
<1> HIDE DEF here, s
<1>6. CASE here
  BY <1>2, <1>3, <1>4, <1>5, <1>6
<1>7. CASE ~here
  BY <1>2, <1>3, <1>4, <1>5, <1>7
<1> QED
  BY <1>6, <1>7

(* What is owed is a natural.                                              *)
LEMMA OwedIsNat ==
  ASSUME NEW c, NEW call \in CallRecords, Placed(call), TriesGood(call), NEW k
  PROVE  OwedBy(c, call, k) \in Nat
<1>1. CASE call.pc = "sending"
  <2>1. /\ Attempts[call.profile] \in Nat /\ call.tries \in Nat
        /\ call.tries < Attempts[call.profile] /\ RequestsPerAttempt(call.profile) \in Nat
    BY <1>1, ProfilesAssumption, AttemptRequests DEF Placed, Working, TriesGood, CallRecords
  <2>2. Attempts[call.profile] - call.tries \in Nat
    BY <2>1
  <2> QED
    BY <1>1, <2>1, <2>2, TimesIsNat DEF OwedBy
<1>2. CASE call.pc # "sending"
  BY <1>2 DEF OwedBy
<1> QED
  BY <1>1, <1>2

(* One call's step changes what all owe by what it owes.                   *)
LEMMA OwedChanges ==
  ASSUME TypeOK, \A d \in Calls : TriesGood(calls[d]), NEW c \in Calls,
         NEW call \in CallRecords, Placed(call), TriesGood(call), Go(c, call), NEW k
  PROVE  /\ SumFunctionOnSet(Owed(k), Calls) \in Nat
         /\ SumFunctionOnSet(Owed(k)', Calls)
              = SumFunctionOnSet(Owed(k), Calls) + (OwedBy(c, call, k) - OwedBy(c, calls[c], k))
<1> DEFINE f == Owed(k)
           h == Owed(k)'
           n == OwedBy(c, call, k) - OwedBy(c, calls[c], k)
<1>1. \A d \in Calls : calls[d] \in CallRecords /\ Placed(calls[d])
  BY DEF TypeOK, Placed, Working
<1>2. \A d \in Calls : OwedBy(d, calls[d], k) \in Nat
  BY <1>1, OwedIsNat
<1>3. OwedBy(c, call, k) \in Nat
  BY OwedIsNat
<1>4. n \in Int
  BY <1>2, <1>3
<1>5. ASSUME NEW d \in Calls
      PROVE  f[d] \in Nat /\ h[d] = f[d] + (IF d = c THEN n ELSE 0)
  <2>1. f[d] = OwedBy(d, calls[d], k) /\ h[d] = OwedBy(d, calls'[d], k)
    BY DEF Owed, OwedBy
  <2>2. calls'[d] = IF d = c THEN call ELSE calls[d]
    BY DEF Go, TypeOK
  <2> HIDE DEF f, h
  <2>3. CASE d = c
    BY <1>2, <1>3, <2>1, <2>2, <2>3
  <2>4. CASE d # c
    BY <1>2, <2>1, <2>2, <2>4
  <2> QED
    BY <2>3, <2>4
<1> HIDE DEF f, h, n
<1>6. Differ(f, h, Calls, c, n)
  BY <1>5 DEF Differ
<1>7. IsFiniteSet(Calls)
  BY CallsAssumption
<1>8. SumFunctionOnSet(f, Calls) \in Nat
  BY <1>5, <1>7, SumIsNat
<1>9. SumFunctionOnSet(h, Calls) = SumFunctionOnSet(f, Calls) + n
  BY <1>4, <1>6, <1>7, SumChanges
<1> QED
  BY <1>8, <1>9 DEF f, h, n

PendingOf(c, call, k) ==
  IF c \in Guarded /\ call.pc = "sending" /\ call.tries = 0 /\ KeyOf[call.profile] = k
  THEN 1 ELSE 0

(* And the number of calls about to be sent first.                         *)
LEMMA PendingChanges ==
  ASSUME TypeOK, NEW c \in Calls, NEW call \in CallRecords, Go(c, call), NEW k,
         IsFiniteSet(Pending(k))
  PROVE  /\ IsFiniteSet(Pending(k)') /\ Cardinality(Pending(k)) \in Nat
         /\ Cardinality(Pending(k)')
              = Cardinality(Pending(k)) + PendingOf(c, call, k) - PendingOf(c, calls[c], k)
<1>1. \A d \in Calls : calls'[d] = IF d = c THEN call ELSE calls[d]
  BY DEF Go, TypeOK
<1>2. /\ c \in Pending(k) <=> PendingOf(c, calls[c], k) = 1
      /\ c \in Pending(k)' <=> PendingOf(c, call, k) = 1
      /\ \A d \in Calls : d # c => (d \in Pending(k)' <=> d \in Pending(k))
      /\ Pending(k) \subseteq Calls /\ Pending(k)' \subseteq Calls
  BY <1>1, CallsAssumption DEF Pending, PendingOf, At
<1>3. PendingOf(c, call, k) \in {0, 1} /\ PendingOf(c, calls[c], k) \in {0, 1}
  BY DEF PendingOf
<1>4. Cardinality(Pending(k)) \in Nat
  BY FS_CardinalityType
<1>5. CASE c \in Pending(k) /\ c \in Pending(k)'
  <2>1. Pending(k)' = Pending(k)
    BY <1>2, <1>5
  <2> QED
    BY <1>2, <1>4, <1>5, <2>1
<1>6. CASE c \notin Pending(k) /\ c \notin Pending(k)'
  <2>1. Pending(k)' = Pending(k)
    BY <1>2, <1>6
  <2> QED
    BY <1>2, <1>3, <1>4, <1>6, <2>1
<1>7. CASE c \notin Pending(k) /\ c \in Pending(k)'
  <2>1. Pending(k)' = Pending(k) \cup {c}
    BY <1>2, <1>7
  <2>2. IsFiniteSet(Pending(k)') /\ Cardinality(Pending(k)') = Cardinality(Pending(k)) + 1
    BY <1>7, <2>1, FS_AddElement
  <2> QED
    BY <1>2, <1>3, <1>4, <1>7, <2>2
<1>8. CASE c \in Pending(k) /\ c \notin Pending(k)'
  <2>1. Pending(k)' = Pending(k) \ {c}
    BY <1>2, <1>8
  <2>2. IsFiniteSet(Pending(k)') /\ Cardinality(Pending(k)') = Cardinality(Pending(k)) - 1
    BY <1>8, <2>1, FS_RemoveElement
  <2> QED
    BY <1>2, <1>3, <1>4, <1>8, <2>2
<1> QED
  BY <1>5, <1>6, <1>7, <1>8

LEMMA OneMore == \A r, n \in Nat : r * (n + 1) = r * n + r
OBVIOUS

(* A step that lets c send on as call: a reservation is counted, or a call *)
(* is sent without one, or neither; what may then be sent of k grows by    *)
(* no more than that stands for.                                           *)
Balances(c, call, k) ==
  \E a, b \in {0, 1} :
    /\ a + b <= 1
    /\ Counted(k)' = Counted(k) + a /\ unguarded'[k] = unguarded[k] + b
    /\ sentFirst'[k] + PendingOf(c, call, k)
         <= sentFirst[k] + PendingOf(c, calls[c], k) + a
    /\ sent'[k] + OwedBy(c, call, k)
         <= sent[k] + OwedBy(c, calls[c], k) + (a + b) * RequestsPerReservation(k)

(* A step of one call balances if it does so for each key.                 *)
LEMMA CallStepBalances ==
  ASSUME IInv, Accounted, NEW c \in Calls, NEW call \in CallRecords, Placed(call),
         TriesGood(call), Go(c, call), DayIsSumOfMinutes', HistoryTyped',
         \A k \in Keys : Balances(c, call, k)
  PROVE  Accounted'
<1>0. TypeOK
  BY DEF IInv
<1>1. \A d \in Calls : TriesGood(calls'[d])
  BY <1>0 DEF Accounted, Go, TypeOK
<1>2. ASSUME NEW k \in Keys
      PROVE  /\ IsFiniteSet(Pending(k)')
             /\ sentFirst'[k] + Cardinality(Pending(k)') <= Counted(k)'
             /\ sent'[k] + SumFunctionOnSet(Owed(k)', Calls)
                  <= RequestsPerReservation(k) * Accountable(k)'
  <2>1. /\ IsFiniteSet(Pending(k)') /\ Cardinality(Pending(k)) \in Nat
        /\ Cardinality(Pending(k)')
             = Cardinality(Pending(k)) + PendingOf(c, call, k) - PendingOf(c, calls[c], k)
    BY <1>0, <1>2, PendingChanges DEF Accounted
  <2>2. /\ SumFunctionOnSet(Owed(k), Calls) \in Nat
        /\ SumFunctionOnSet(Owed(k)', Calls)
             = SumFunctionOnSet(Owed(k), Calls) + (OwedBy(c, call, k) - OwedBy(c, calls[c], k))
    BY <1>0, OwedChanges DEF Accounted
  <2>3. OwedBy(c, call, k) \in Nat /\ OwedBy(c, calls[c], k) \in Nat
    <3>1. calls[c] \in CallRecords /\ Placed(calls[c]) /\ TriesGood(calls[c])
      BY <1>0 DEF TypeOK, Placed, Working, Accounted
    <3> QED
      BY <3>1, OwedIsNat
  <2>4. PendingOf(c, call, k) \in Nat /\ PendingOf(c, calls[c], k) \in Nat
    BY DEF PendingOf
  <2>5. /\ Counted(k) \in Nat /\ RequestsPerReservation(k) \in Nat
        /\ sent[k] \in Nat /\ sentFirst[k] \in Nat /\ unguarded[k] \in Nat
        /\ sent'[k] \in Nat /\ sentFirst'[k] \in Nat
    BY <1>0, <1>2, CountedIsNat, ReservationStandsFor DEF TypeOK, HistoryTyped
  <2>6. /\ sentFirst[k] + Cardinality(Pending(k)) <= Counted(k)
        /\ sent[k] + SumFunctionOnSet(Owed(k), Calls)
             <= RequestsPerReservation(k) * Accountable(k)
    BY <1>2 DEF Accounted
  <2>7. PICK a \in {0, 1}, b \in {0, 1} :
          /\ a + b <= 1
          /\ Counted(k)' = Counted(k) + a /\ unguarded'[k] = unguarded[k] + b
          /\ sentFirst'[k] + PendingOf(c, call, k)
               <= sentFirst[k] + PendingOf(c, calls[c], k) + a
          /\ sent'[k] + OwedBy(c, call, k)
               <= sent[k] + OwedBy(c, calls[c], k) + (a + b) * RequestsPerReservation(k)
    BY <1>2 DEF Balances
  <2> DEFINE r == RequestsPerReservation(k)
             n == Accountable(k)
             e == a + b
             s == SumFunctionOnSet(Owed(k), Calls)
  <2>8. e \in {0, 1} /\ n \in Nat /\ Accountable(k)' = n + e
    BY <2>5, <2>7 DEF Accountable
  <2>9. r * (n + e) = r * n + e * r /\ r * n \in Nat /\ e * r \in Nat
    <3>1. r \in Nat
      BY <2>5
    <3> HIDE DEF r, n, e
    <3>2. CASE e = 0
      BY <2>8, <3>1, <3>2, TimesIsNat
    <3>3. CASE e = 1
      BY <2>8, <3>1, <3>3, OneMore, TimesIsNat
    <3> QED
      BY <2>8, <3>2, <3>3
  <2>10. sentFirst'[k] + Cardinality(Pending(k)') <= Counted(k)'
    BY <2>1, <2>4, <2>5, <2>6, <2>7
  <2>11. sent'[k] + SumFunctionOnSet(Owed(k)', Calls) <= r * n + e * r
    <3> DEFINE rn == r * n
               er == e * r
    <3>1. /\ sent[k] + s <= rn /\ rn \in Nat /\ er \in Nat /\ s \in Nat
          /\ sent'[k] + OwedBy(c, call, k) <= sent[k] + OwedBy(c, calls[c], k) + er
      BY <2>2, <2>6, <2>7, <2>9
    <3> HIDE DEF rn, er, s
    <3>2. sent'[k] + (s + (OwedBy(c, call, k) - OwedBy(c, calls[c], k))) <= rn + er
      BY <2>3, <2>5, <3>1
    <3> QED
      BY <2>2, <3>2 DEF rn, er, s
  <2>12. r * Accountable(k)' = r * n + e * r
    BY <2>8, <2>9
  <2> QED
    BY <2>1, <2>10, <2>11, <2>12
<1> QED
  BY <1>1, <1>2 DEF Accounted, RequestsPerReservation

(* A call that has not been sent, and if it is about to be without a       *)
(* reservation, its router has no guard.                                   *)
Fresh(c, call) ==
  TriesGood(call) /\ (call.pc = "sending" => c \notin Guarded /\ call.tries = 0)

(* Nothing is owed or pending for it.                                      *)
LEMMA FreshOwesNothing ==
  ASSUME NEW c, NEW call, Fresh(c, call), NEW k
  PROVE  PendingOf(c, call, k) = 0 /\ OwedBy(c, call, k) = 0
BY DEF Fresh, PendingOf, OwedBy

(* A step that keeps the windows and what was sent, and sends no more.     *)
LEMMA QuietStepBalances ==
  ASSUME IInv, Accounted, NEW c \in Calls, NEW call \in CallRecords, Placed(call),
         Fresh(c, call), Go(c, call), UNCHANGED <<perMinute, perDay, history>>
  PROVE  Accounted'
<1>0. TypeOK /\ TriesGood(call)
  BY DEF IInv, Fresh
<1>1. DayIsSumOfMinutes'
  BY DEF Accounted, DayIsSumOfMinutes, RequestsIn, TokensIn, MinutesOf
<1>2. HistoryTyped'
  BY <1>0 DEF TypeOK, HistoryTyped, history
<1>3. ASSUME NEW k \in Keys
      PROVE  Balances(c, call, k)
  <2>1. Counted(k)' = Counted(k) /\ Counted(k) \in Nat
    BY <1>0, CountedIsNat DEF Counted, RequestsIn
  <2>2. PendingOf(c, call, k) = 0 /\ OwedBy(c, call, k) = 0
    BY FreshOwesNothing
  <2>3. PendingOf(c, calls[c], k) \in Nat /\ OwedBy(c, calls[c], k) \in Nat
    <3>1. calls[c] \in CallRecords /\ Placed(calls[c]) /\ TriesGood(calls[c])
      BY <1>0 DEF TypeOK, Placed, Working, Accounted
    <3> QED
      BY <3>1, OwedIsNat DEF PendingOf
  <2>4. /\ sent[k] \in Nat /\ sentFirst[k] \in Nat /\ unguarded[k] \in Nat
        /\ RequestsPerReservation(k) \in Nat
    BY <1>0, ReservationStandsFor DEF TypeOK
  <2>5. /\ 0 + 0 <= 1
        /\ Counted(k)' = Counted(k) + 0 /\ unguarded'[k] = unguarded[k] + 0
        /\ sentFirst'[k] + PendingOf(c, call, k)
             <= sentFirst[k] + PendingOf(c, calls[c], k) + 0
        /\ sent'[k] + OwedBy(c, call, k)
             <= sent[k] + OwedBy(c, calls[c], k) + (0 + 0) * RequestsPerReservation(k)
    BY <2>1, <2>2, <2>3, <2>4 DEF history
  <2> QED
    BY <2>5 DEF Balances
<1> QED
  BY <1>0, <1>1, <1>2, <1>3, CallStepBalances

(* A step that charges the call, which may then make all its attempts.     *)
LEMMA ChargedStepBalances ==
  ASSUME IInv, Accounted, NEW c \in Calls, NEW call \in CallRecords, Placed(call),
         TriesGood(call), Go(c, call), At(c, "admitting"), Charge(c), UNCHANGED history,
         \/ Fresh(c, call)
         \/ call.profile = calls[c].profile /\ call.tries = 0
  PROVE  Accounted'
<1>0. TypeOK
  BY DEF IInv
<1>1. DayIsSumOfMinutes'
  BY <1>0, ChargeKeepsDays DEF Accounted
<1>2. HistoryTyped'
  BY <1>0 DEF TypeOK, HistoryTyped, history
<1>3. calls[c].stamp \in Minutes
  BY <1>0, CallFields
<1>4. ASSUME NEW k \in Keys
      PROVE  Balances(c, call, k)
  <2> DEFINE a == IF k = KeyOf[calls[c].profile] THEN 1 ELSE 0
  <2>0. Minutes \subseteq Minutes
    OBVIOUS
  <2>1. Counted(k)' = Counted(k) + a
    <3>1. SumFunctionOnSet(RequestsIn(k)', Minutes)
            = SumFunctionOnSet(RequestsIn(k), Minutes)
                + (IF k = KeyOf[calls[c].profile] /\ calls[c].stamp \in Minutes
                   THEN 1 ELSE 0)
      BY <1>0, <2>0, ChargeCounts
    <3> QED
      BY <1>3, <3>1 DEF Counted, Minutes
  <2>2. PendingOf(c, calls[c], k) = 0 /\ OwedBy(c, calls[c], k) = 0
    BY DEF PendingOf, OwedBy, At
  <2>3. PendingOf(c, call, k) <= a /\ PendingOf(c, call, k) \in Nat
    <3>1. CASE Fresh(c, call)
      BY <3>1, FreshOwesNothing
    <3>2. CASE ~Fresh(c, call)
      BY <3>2 DEF PendingOf
    <3> QED
      BY <3>1, <3>2
  <2>4. /\ sent[k] \in Nat /\ sentFirst[k] \in Nat /\ unguarded[k] \in Nat
        /\ RequestsPerReservation(k) \in Nat
    BY <1>0, ReservationStandsFor DEF TypeOK
  <2>5. OwedBy(c, call, k) <= a * RequestsPerReservation(k)
    <3>1. CASE OwedBy(c, call, k) # 0
      <4>1. ~Fresh(c, call)
        BY <3>1, FreshOwesNothing
      <4>2. call.pc = "sending" /\ KeyOf[call.profile] = k
        BY <3>1 DEF OwedBy
      <4>3. call.profile \in Profiles /\ a = 1 /\ call.tries = 0
        BY <4>1, <4>2 DEF Placed, Working
      <4>4. Attempts[call.profile] - call.tries = Attempts[call.profile]
        BY <4>3, ProfilesAssumption
      <4>5. OwedBy(c, call, k) = Attempts[call.profile] * RequestsPerAttempt(call.profile)
        BY <3>1, <4>4 DEF OwedBy
      <4>6. OwedBy(c, call, k) <= RequestsPerReservation(k)
        BY <4>2, <4>3, <4>5, ReservationStandsFor
      <4> QED
        BY <2>4, <4>3, <4>6
    <3>2. CASE OwedBy(c, call, k) = 0
      <4>1. a * RequestsPerReservation(k) \in Nat
        BY <2>4, TimesIsNat
      <4> QED
        BY <3>2, <4>1
    <3> QED
      BY <3>1, <3>2
  <2>6. OwedBy(c, call, k) \in Nat /\ a * RequestsPerReservation(k) \in Nat /\ a \in {0, 1}
    BY <2>4, OwedIsNat, TimesIsNat
  <2> HIDE DEF a
  <2>7. /\ a + 0 = a /\ a + 0 <= 1 /\ unguarded'[k] = unguarded[k] + 0
        /\ sentFirst'[k] + PendingOf(c, call, k)
             <= sentFirst[k] + PendingOf(c, calls[c], k) + a
        /\ sent'[k] + OwedBy(c, call, k)
             <= sent[k] + OwedBy(c, calls[c], k) + a * RequestsPerReservation(k)
    BY <2>2, <2>3, <2>4, <2>5, <2>6 DEF history
  <2>8. sent'[k] + OwedBy(c, call, k)
          <= sent[k] + OwedBy(c, calls[c], k) + (a + 0) * RequestsPerReservation(k)
    BY <2>7
  <2> QED
    BY <2>1, <2>6, <2>7, <2>8 DEF Balances
<1> QED
  BY <1>1, <1>2, <1>4, CallStepBalances

LEMMA OneFewer == \A m, n \in Nat : (m - (n + 1)) + 1 = m - n
OBVIOUS

LEMMA AtLeastOne == \A q \in Nat, d \in Nat \ {0} : q <= d * q /\ (d - 1) * q + q = d * q
<1> SUFFICES ASSUME NEW q \in Nat, NEW d \in Nat \ {0}
             PROVE  q <= d * q /\ (d - 1) * q + q = d * q
  OBVIOUS
<1>1. d - 1 \in Nat /\ (d - 1) * q \in Nat
  BY TimesIsNat
<1>2. q * ((d - 1) + 1) = q * (d - 1) + q
  BY <1>1, OneMore
<1>3. (d - 1) + 1 = d /\ q * d = d * q /\ q * (d - 1) = (d - 1) * q
  BY <1>1
<1> QED
  BY <1>1, <1>2, <1>3

(* A call that goes on with its next attempt.                              *)
Retrying(c, call) ==
  call.profile = calls[c].profile /\ call.tries = calls[c].tries + 1

(* An attempt: what it sends is no longer owed, or is the first of a call  *)
(* without a guard.                                                        *)
LEMMA AttemptBalances ==
  ASSUME IInv, Accounted, NEW c \in Calls, NEW call \in CallRecords, Placed(call),
         TriesGood(call), Go(c, call), At(c, "sending"),
         NEW n \in RequestsOfAttempt(calls[c].profile), Requested(c, n),
         UNCHANGED <<perMinute, perDay>>, HistoryTyped',
         Fresh(c, call) \/ Retrying(c, call)
  PROVE  Accounted'
<1>0. TypeOK
  BY DEF IInv
<1>1. DayIsSumOfMinutes'
  BY DEF Accounted, DayIsSumOfMinutes, RequestsIn, TokensIn, MinutesOf
<1> DEFINE p == calls[c].profile
           i == KeyOf[p]
           q == RequestsPerAttempt(p)
           d == Attempts[p] - calls[c].tries
<1>2. /\ p \in Profiles /\ i \in Keys /\ calls[c].tries \in Nat /\ Attempts[p] \in Nat
      /\ q \in Nat /\ n \in Nat /\ n <= q /\ TriesGood(calls[c])
  BY <1>0, CallFields, ProfilesAssumption, AttemptRequests DEF At, Working, Accounted
<1>3. d \in Nat \ {0} /\ q <= d * q /\ (d - 1) * q + q = d * q /\ d * q \in Nat
  <2>1. calls[c].tries < Attempts[p]
    BY <1>2 DEF TriesGood, At
  <2>2. d \in Nat \ {0}
    BY <1>2, <2>1
  <2> HIDE DEF d, q
  <2> QED
    BY <1>2, <2>2, AtLeastOne, TimesIsNat
<1>4. \A k \in Keys :
        /\ sent'[k] = IF k = i THEN sent[k] + n ELSE sent[k]
        /\ sentFirst'[k] = IF k = i /\ calls[c].tries = 0 /\ c \in Guarded
                           THEN sentFirst[k] + 1 ELSE sentFirst[k]
        /\ unguarded'[k] = IF k = i /\ calls[c].tries = 0 /\ c \notin Guarded
                           THEN unguarded[k] + 1 ELSE unguarded[k]
  BY <1>0, <1>2 DEF Requested, TypeOK
<1>5. ASSUME NEW k \in Keys
      PROVE  Balances(c, call, k)
  <2> DEFINE free == k = i /\ calls[c].tries = 0 /\ c \notin Guarded
             b == IF free THEN 1 ELSE 0
  <2>1. Counted(k)' = Counted(k) /\ Counted(k) \in Nat
    BY <1>0, CountedIsNat DEF Counted, RequestsIn
  <2>2. /\ sent[k] \in Nat /\ sentFirst[k] \in Nat /\ unguarded[k] \in Nat
        /\ RequestsPerReservation(k) \in Nat
    BY <1>0, ReservationStandsFor DEF TypeOK
  <2>3. PendingOf(c, call, k) = 0
    <3>1. Retrying(c, call) => call.tries # 0
      BY <1>2 DEF Retrying
    <3> QED
      BY <3>1, FreshOwesNothing DEF PendingOf
  <2>4. PendingOf(c, calls[c], k)
          = IF k = i /\ calls[c].tries = 0 /\ c \in Guarded THEN 1 ELSE 0
    BY DEF PendingOf, At
  <2>5. OwedBy(c, calls[c], k) = IF k = i /\ ~free THEN d * q ELSE 0
    BY DEF OwedBy, At
  <2>6. OwedBy(c, call, k) <= (IF k = i THEN (d - 1) * q ELSE 0) /\ OwedBy(c, call, k) \in Nat
    <3>1. OwedBy(c, call, k) \in Nat
      BY OwedIsNat
    <3>2. (d - 1) * q \in Nat
      BY <1>2, <1>3, TimesIsNat
    <3>3. CASE OwedBy(c, call, k) # 0
      <4>0. Retrying(c, call)
        BY <3>3, FreshOwesNothing
      <4>1. call.pc = "sending" /\ KeyOf[call.profile] = k
        BY <3>3 DEF OwedBy
      <4>2. Attempts[call.profile] - call.tries = d - 1 /\ k = i /\ call.profile = p
        BY <1>2, <4>0, <4>1 DEF Retrying
      <4>3. OwedBy(c, call, k) = (Attempts[call.profile] - call.tries) * q
        BY <3>3, <4>2 DEF OwedBy
      <4>4. OwedBy(c, call, k) = (d - 1) * q
        BY <4>2, <4>3
      <4> QED
        BY <3>1, <4>2, <4>4
    <3>4. CASE OwedBy(c, call, k) = 0
      BY <3>2, <3>4
    <3> QED
      BY <3>3, <3>4
  <2>7. d * q <= RequestsPerReservation(k) \/ ~free
    <3>1. CASE free
      <4>1. d = Attempts[p] /\ KeyOf[p] = k
        BY <1>2, <3>1
      <4>2. Attempts[p] * q <= RequestsPerReservation(k)
        BY <1>2, <4>1, ReservationStandsFor
      <4> QED
        BY <4>1, <4>2
    <3>2. CASE ~free
      BY <3>2
    <3> QED
      BY <3>1, <3>2
  <2>8. b \in {0, 1} /\ unguarded'[k] = unguarded[k] + b
    BY <1>4, <2>2
  <2>9. sentFirst'[k] + PendingOf(c, call, k) <= sentFirst[k] + PendingOf(c, calls[c], k) + 0
    BY <1>4, <2>2, <2>3, <2>4
  <2>10. sent'[k] + OwedBy(c, call, k)
          <= sent[k] + OwedBy(c, calls[c], k) + b * RequestsPerReservation(k)
    <3> DEFINE dq == d * q
               rest == (d - 1) * q
               r == RequestsPerReservation(k)
    <3>1. /\ rest + q = dq /\ rest \in Nat /\ dq \in Nat /\ r \in Nat
          /\ OwedBy(c, calls[c], k) = (IF k = i /\ ~free THEN dq ELSE 0)
          /\ OwedBy(c, call, k) <= (IF k = i THEN rest ELSE 0)
          /\ dq <= r \/ ~free
      BY <1>2, <1>3, <2>2, <2>5, <2>6, <2>7, TimesIsNat
    <3>2. b * r = IF free THEN r ELSE 0
      BY <2>2
    <3>3. free => k = i
      OBVIOUS
    <3> HIDE DEF dq, rest, r, d, q, i, b, free
    <3>4. CASE k = i /\ ~free
      BY <1>2, <1>4, <2>2, <2>6, <3>1, <3>2, <3>4 DEF r
    <3>5. CASE free
      BY <1>2, <1>4, <2>2, <2>6, <3>1, <3>2, <3>3, <3>5 DEF r
    <3>6. CASE k # i
      BY <1>4, <2>2, <2>6, <3>1, <3>2, <3>3, <3>6 DEF r
    <3> QED
      BY <3>4, <3>5, <3>6 DEF r
  <2> HIDE DEF b
  <2>11. 0 + b = b /\ 0 + b <= 1 /\ Counted(k)' = Counted(k) + 0
    BY <2>1, <2>8
  <2>12. sent'[k] + OwedBy(c, call, k)
          <= sent[k] + OwedBy(c, calls[c], k) + (0 + b) * RequestsPerReservation(k)
    BY <2>10, <2>11
  <2> QED
    BY <2>8, <2>9, <2>11, <2>12 DEF Balances
<1> QED
  BY <1>1, <1>5, CallStepBalances

(* A call that moves to another profile or ends has sent nothing there.    *)
LEMMA NothingTried ==
  /\ \A c : \A pc \in {"idle", "answered", "unavailable"} : Fresh(c, Ended(pc))
  /\ \A p, bytes : TriesGood(Acquiring(p, bytes)) /\ Acquiring(p, bytes).pc = "admitting"
  /\ \A c : \A p \in Profiles : \A bytes : Fresh(c, Proceeding(c, p, bytes))
  /\ \A c \in Calls : \A p, rejected : Fresh(c, WithoutProfile(c, p, rejected))
<1>1. \A c : \A pc \in {"idle", "answered", "unavailable"} : Fresh(c, Ended(pc))
  BY DEF Ended, TriesGood, Fresh
<1>2. \A p, bytes : TriesGood(Acquiring(p, bytes)) /\ Acquiring(p, bytes).pc = "admitting"
  BY DEF Acquiring, Ended, TriesGood
<1>3. ASSUME NEW c, NEW p \in Profiles, NEW bytes
      PROVE  Fresh(c, Proceeding(c, p, bytes))
  <2> DEFINE call == Acquiring(p, bytes)
             next == [call EXCEPT !.pc = "sending"]
  <2>1. /\ call.pc = "admitting" /\ call.tries = 0 /\ call.profile = p
        /\ next.pc = "sending" /\ next.tries = 0 /\ next.profile = p
    BY DEF Acquiring, Ended
  <2>2. 0 < Attempts[p]
    BY ProfilesAssumption
  <2> HIDE DEF call, next
  <2>3. Fresh(c, call)
    BY <2>1 DEF Fresh, TriesGood
  <2>4. c \notin Guarded => Fresh(c, next)
    BY <2>1, <2>2 DEF Fresh, TriesGood
  <2> QED
    BY <2>3, <2>4 DEF Proceeding, call, next
<1>4. ASSUME NEW c \in Calls, NEW p, NEW rejected
      PROVE  Fresh(c, WithoutProfile(c, p, rejected))
  <2>1. HasFallback(c, p) => Fallback[c] \in Profiles
    BY CallsAssumption DEF HasFallback
  <2> QED
    BY <1>1, <1>3, <2>1 DEF WithoutProfile
<1> QED
  BY <1>1, <1>2, <1>3, <1>4

LEMMA StepBalances == IInv /\ Accounted /\ [Next]_vars => Accounted'
<1> SUFFICES ASSUME IInv, Accounted, [Next]_vars PROVE Accounted'
  OBVIOUS
<1>0. TypeOK /\ WithinLimits /\ IInv'
  BY InvariantStep DEF IInv
<1>1. HistoryTyped'
  BY <1>0 DEF IInv, TypeOK, HistoryTyped
<1>2. ASSUME NEW c \in Calls, NEW p, NEW rejected \in BOOLEAN
      PROVE  /\ WithoutProfile(c, p, rejected) \in CallRecords
             /\ Placed(WithoutProfile(c, p, rejected))
             /\ Fresh(c, WithoutProfile(c, p, rejected))
  BY <1>0, WithoutProfileTypes, NothingTried
<1>3. ASSUME NEW c \in Calls, At(c, "admitting")
      PROVE  /\ LET call == [calls[c] EXCEPT !.pc = "sleeping"]
                IN  /\ call \in CallRecords /\ Placed(call)
                    /\ Fresh(c, call)
             /\ LET call == [calls[c] EXCEPT !.pc = "sending"]
                IN  /\ call \in CallRecords /\ Placed(call)
                    /\ TriesGood(call)
                    /\ call.profile = calls[c].profile /\ call.tries = 0
  <2>1. calls[c] \in CallRecords /\ Placed(calls[c]) /\ calls[c].profile \in Profiles
    BY <1>0, <1>3 DEF TypeOK, At, Placed, Working
  <2>2. TriesGood(calls[c]) /\ Attempts[calls[c].profile] \in Nat \ {0}
    BY <2>1, ProfilesAssumption DEF Accounted
  <2>3. calls[c].tries = 0
    BY <1>3, <2>2 DEF TriesGood, At
  <2> QED
    BY <2>1, <2>2, <2>3 DEF CallRecords, Placed, Working, TriesGood, Fresh
<1>4. ASSUME NEW c \in Calls, Begin(c) PROVE Accounted'
  <2>1. /\ Proceeding(c, Primary[c], prompt[c]) \in CallRecords
        /\ Placed(Proceeding(c, Primary[c], prompt[c]))
        /\ Fresh(c, Proceeding(c, Primary[c], prompt[c]))
    BY <1>0, ProceedingTypes, CallFields, CallsAssumption, NothingTried
  <2>2. IsSelectable(Primary[c]) \in BOOLEAN
    BY DEF IsSelectable
  <2>3. PICK call \in CallRecords : Placed(call) /\ Fresh(c, call) /\ Go(c, call)
    BY <1>2, <1>4, <2>1, <2>2 DEF Begin
  <2>4. UNCHANGED <<perMinute, perDay, history>>
    BY <1>4 DEF Begin
  <2> QED
    BY <2>3, <2>4, QuietStepBalances
<1>5. ASSUME NEW c \in Calls, Admit(c) PROVE Accounted'
  BY <1>3, <1>5, ChargedStepBalances DEF Admit
<1>6. ASSUME NEW c \in Calls, MinuteExhausted(c) PROVE Accounted'
  <2>1. PICK call \in CallRecords : Placed(call) /\ Fresh(c, call) /\ Go(c, call)
    BY <1>2, <1>3, <1>6 DEF MinuteExhausted
  <2>2. UNCHANGED <<perMinute, perDay, history>>
    BY <1>6 DEF MinuteExhausted
  <2> QED
    BY <2>1, <2>2, QuietStepBalances
<1>7. ASSUME NEW c \in Calls, DayExhausted(c) PROVE Accounted'
  BY <1>2, <1>7, QuietStepBalances DEF DayExhausted
<1>8. ASSUME NEW c \in Calls, StorageFails(c) PROVE Accounted'
  <2>1. CASE UNCHANGED <<perMinute, perDay>>
    BY <1>2, <1>8, <2>1, QuietStepBalances DEF StorageFails
  <2>2. CASE Charge(c)
    BY <1>2, <1>8, <2>2, ChargedStepBalances DEF StorageFails, Fresh
  <2> QED
    BY <1>8, <2>1, <2>2 DEF StorageFails
<1>9. ASSUME NEW c \in Calls, Wake(c) PROVE Accounted'
  <2> DEFINE start == Acquiring(calls[c].profile, calls[c].bytes)
             call == [start EXCEPT !.waited = TRUE]
  <2>1. calls[c].profile \in Profiles /\ calls[c].bytes \in Nat
    BY <1>0, <1>9, CallFields DEF Wake, At, Working
  <2>2. start \in CallRecords /\ Placed(start) /\ TriesGood(start) /\ start.pc = "admitting"
    BY <1>0, <2>1, AcquiringTypes, NothingTried
  <2>3. call \in CallRecords /\ Placed(call) /\ Fresh(c, call)
    BY <2>2 DEF CallRecords, Placed, TriesGood, Fresh
  <2> QED
    BY <1>9, <2>3, QuietStepBalances DEF Wake
<1>10. ASSUME NEW c \in Calls, Send(c) PROVE Accounted'
  <2>1. calls[c] \in CallRecords /\ calls[c].profile \in Profiles /\ calls[c].tries \in Nat
    BY <1>0, <1>10, CallFields DEF Send, At, Working, TypeOK
  <2>2. PICK outcome : Go(c, After(c, outcome))
    BY <1>10 DEF Send
  <2>3. PICK n \in RequestsOfAttempt(calls[c].profile) : Requested(c, n)
    BY <1>10 DEF Send
  <2> DEFINE call == After(c, outcome)
  <2>4. /\ call \in CallRecords /\ Placed(call) /\ TriesGood(call)
        /\ Fresh(c, call) \/ Retrying(c, call)
    <3>1. CASE outcome = "answer"
      <4>1. call = Ended("answered")
        BY <3>1 DEF After, Retriable
      <4> QED
        BY <4>1, EndedTypes, NothingTried DEF Fresh
    <3>2. CASE outcome # "answer" /\ outcome \in Retriable /\ AttemptsLeft(c)
      <4>1. call = [calls[c] EXCEPT !.tries = calls[c].tries + 1]
        BY <3>2 DEF After
      <4>2. calls[c].tries + 1 < Attempts[calls[c].profile] /\ calls[c].pc = "sending"
        BY <1>10, <3>2 DEF AttemptsLeft, Send, At
      <4> QED
        BY <2>1, <4>1, <4>2 DEF CallRecords, Placed, TriesGood, Retrying
    <3>3. CASE outcome # "answer" /\ ~(outcome \in Retriable /\ AttemptsLeft(c))
      <4>1. call = WithoutProfile(c, calls[c].profile, outcome = "too large")
        BY <3>3 DEF After
      <4>2. \A rejected \in BOOLEAN :
              LET next == WithoutProfile(c, calls[c].profile, rejected)
              IN  next \in CallRecords /\ Placed(next) /\ Fresh(c, next)
        BY <1>2
      <4>3. (outcome = "too large") \in BOOLEAN
        OBVIOUS
      <4> HIDE DEF call
      <4> QED
        BY <4>1, <4>2, <4>3 DEF Fresh
    <3> QED
      BY <3>1, <3>2, <3>3
  <2>5. At(c, "sending") /\ UNCHANGED <<perMinute, perDay>>
    BY <1>10 DEF Send
  <2> HIDE DEF call
  <2>6. Go(c, call)
    BY <2>2 DEF call
  <2> QED
    BY <1>1, <2>3, <2>4, <2>5, <2>6, AttemptBalances
<1>11. ASSUME NEW c \in Calls, Cancel(c) PROVE Accounted'
  <2>1. /\ Ended("unavailable") \in CallRecords /\ Placed(Ended("unavailable"))
        /\ Fresh(c, Ended("unavailable"))
    BY EndedTypes, NothingTried
  <2>2. Go(c, Ended("unavailable")) /\ UNCHANGED <<perMinute, perDay>>
    BY <1>11 DEF Cancel
  <2>3. CASE UNCHANGED history
    BY <2>1, <2>2, <2>3, QuietStepBalances
  <2>4. ASSUME At(c, "sending"), NEW n \in RequestsOfAttempt(calls[c].profile),
               Requested(c, n)
        PROVE  Accounted'
    BY <1>1, <2>1, <2>2, <2>4, AttemptBalances DEF Fresh
  <2> QED
    BY <1>11, <2>3, <2>4 DEF Cancel
<1>12. CASE Tick \/ UNCHANGED vars
  <2>1. UNCHANGED <<perMinute, perDay, calls, history>>
    BY <1>12 DEF Tick, vars
  <2> QED
    BY <2>1 DEF Accounted, Accountable, DayIsSumOfMinutes, RequestsIn, TokensIn, MinutesOf,
                TriesGood, Pending, At, Counted, Owed, OwedBy, RequestsPerReservation, history
<1> QED
  BY <1>4, <1>5, <1>6, <1>7, <1>8, <1>9, <1>10, <1>11, <1>12 DEF Next, Acquire

LEMMA InitBalances == Init => Accounted
<1> SUFFICES ASSUME Init PROVE Accounted
  OBVIOUS
<1>0. TypeOK
  BY InvariantInit DEF IInv
<1>1. \A c \in Calls : calls[c] = Ended("idle")
  BY DEF Init
<1>2. \A c \in Calls : TriesGood(calls[c]) /\ calls[c].pc = "idle"
  BY <1>1 DEF Ended, TriesGood
<1>3. ASSUME NEW k \in Keys, NEW D, D \subseteq Minutes
      PROVE  /\ SumFunctionOnSet(RequestsIn(k), D) = 0
             /\ SumFunctionOnSet(TokensIn(k), D) = 0
  <2>1. \A m \in D : RequestsIn(k)[m] = 0 /\ TokensIn(k)[m] = 0
    BY <1>3 DEF Init, RequestsIn, TokensIn, EmptyWindow
  <2>2. IsFiniteSet(D)
    BY <1>3, MinutesAreFinite, FS_Subset
  <2> QED
    BY <2>1, <2>2, SumIsNat
<1>4. DayIsSumOfMinutes
  <2> SUFFICES ASSUME NEW k \in Keys, NEW d \in Days
               PROVE  /\ perDay[k][d].requests
                           = SumFunctionOnSet(RequestsIn(k), MinutesOf(d))
                      /\ perDay[k][d].tokens = SumFunctionOnSet(TokensIn(k), MinutesOf(d))
    BY DEF DayIsSumOfMinutes
  <2>1. perDay[k][d].requests = 0 /\ perDay[k][d].tokens = 0
    BY DEF Init, EmptyWindow
  <2> QED
    BY <1>3, <2>1, MinutesAreFinite
<1>5. ASSUME NEW k \in Keys
      PROVE  /\ IsFiniteSet(Pending(k))
             /\ sentFirst[k] + Cardinality(Pending(k)) <= Counted(k)
             /\ sent[k] + SumFunctionOnSet(Owed(k), Calls)
                  <= RequestsPerReservation(k) * Accountable(k)
  <2>1. Pending(k) = {}
    BY <1>2, CallsAssumption DEF Pending, At
  <2>2. IsFiniteSet(Pending(k)) /\ Cardinality(Pending(k)) = 0
    BY <2>1, FS_EmptySet
  <2>3. \A c \in Calls : Owed(k)[c] = 0
    BY <1>2 DEF Owed, OwedBy
  <2>4. SumFunctionOnSet(Owed(k), Calls) = 0
    BY <2>3, CallsAssumption, SumIsNat
  <2>5. sent[k] = 0 /\ sentFirst[k] = 0 /\ unguarded[k] = 0
    BY DEF Init
  <2>6. Counted(k) \in Nat /\ Accountable(k) \in Nat /\ RequestsPerReservation(k) \in Nat
    BY <1>0, <2>5, CountedIsNat, ReservationStandsFor DEF Accountable
  <2>7. RequestsPerReservation(k) * Accountable(k) \in Nat
    BY <2>6, TimesIsNat
  <2> QED
    BY <2>2, <2>4, <2>5, <2>6, <2>7
<1> QED
  BY <1>2, <1>4, <1>5 DEF Accounted

(* Calls and windows stay well typed.                                      *)
THEOREM CallsTyped == Spec => []TypeOK
<1>1. IInv => TypeOK
  BY DEF IInv
<1>2. QED
  BY <1>1, InvariantInit, InvariantStep, PTL DEF Spec

(* No usage window outgrows the limits of every profile of its key, however *)
(* many calls race for it and however stale their reading of the clock.    *)
THEOREM LimitsHold == Spec => []WithinLimits
<1>1. IInv => WithinLimits
  BY DEF IInv
<1>2. QED
  BY <1>1, InvariantInit, InvariantStep, PTL DEF Spec

(* The invariant of the accounts, for any number of calls, profiles, keys  *)
(* and minutes.                                                            *)
THEOREM AccountsBalance == Spec => [](IInv /\ Accounted)
BY InvariantInit, InvariantStep, InitBalances, StepBalances, PTL DEF Spec

(* A window of a day holds the requests and the tokens of the windows of   *)
(* its minutes, also for calls whose stamp and transaction lie on two      *)
(* sides of midnight.                                                      *)
THEOREM DaysAddUp == Spec => []DayIsSumOfMinutes
<1>1. Accounted => DayIsSumOfMinutes
  BY DEF Accounted
<1> QED
  BY <1>1, AccountsBalance, PTL

(* No generate() of a router with a quota guard reaches a provider without *)
(* a reservation of its own, and the reservations left suffice for those   *)
(* about to be sent, however many calls without a guard share the key.     *)
THEOREM ReservedBeforeSent == Spec => []NoCallWithoutReservation
<1>1. Accounted => NoCallWithoutReservation
  BY DEF Accounted, NoCallWithoutReservation
<1> QED
  BY <1>1, AccountsBalance, PTL

(* A provider receives no more requests of a key than the attempts,        *)
(* structured ones sent twice, of the generate()s that its windows count   *)
(* and of those that were sent without a guard.                            *)
THEOREM AttemptsStayBounded == Spec => []AttemptsBounded
<1>1. IInv /\ Accounted => AttemptsBounded
  <2> SUFFICES ASSUME IInv, Accounted, NEW k \in Keys
               PROVE  sent[k] <= RequestsPerReservation(k) * Accountable(k)
    BY DEF AttemptsBounded, Accountable
  <2>0. TypeOK
    BY DEF IInv
  <2>1. \A c \in Calls : Owed(k)[c] \in Nat
    <3>1. \A c \in Calls : calls[c] \in CallRecords /\ Placed(calls[c]) /\ TriesGood(calls[c])
      BY <2>0 DEF TypeOK, Placed, Working, Accounted
    <3> QED
      BY <3>1, OwedIsNat DEF Owed
  <2>2. SumFunctionOnSet(Owed(k), Calls) \in Nat
    BY <2>1, CallsAssumption, SumIsNat
  <2>3. sent[k] \in Nat /\ Accountable(k) \in Nat /\ RequestsPerReservation(k) \in Nat
    BY <2>0, CountedIsNat, ReservationStandsFor DEF TypeOK, Accountable
  <2>4. sent[k] + SumFunctionOnSet(Owed(k), Calls)
          <= RequestsPerReservation(k) * Accountable(k)
    BY DEF Accounted
  <2>5. RequestsPerReservation(k) * Accountable(k) \in Nat
    BY <2>3, TimesIsNat
  <2> QED
    BY <2>2, <2>3, <2>4, <2>5
<1> QED
  BY <1>1, AccountsBalance, PTL
==============================================================================
