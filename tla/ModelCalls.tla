----------------------------- MODULE ModelCalls -----------------------------
(***************************************************************************)
(* One model call from the router to the provider: ModelRouter             *)
(* (src/shared/llm/router.py) picks a profile and at most one fallback,    *)
(* NeonModelQuotaGuard (quota.py) reserves the call in the usage windows   *)
(* of the profile's key, and GroqTextGenerator (providers.py) sends it,    *)
(* more than once if it must.  Many calls run at once, in several          *)
(* processes, against one table of windows; those of the questionnaire     *)
(* service go through a router that has no guard and reserve nothing,      *)
(* though their profiles have the same keys.                               *)
(***************************************************************************)
EXTENDS PromptBudgets, FiniteSetsExt

CONSTANTS
  Calls,        (* calls of ModelRouter.generate                           *)
  Guarded,      (* those of a router that has a quota guard                *)
  Profiles,     (* model profiles                                          *)
  Enabled,      (* those that are deliberately enabled                     *)
  Keys,         (* quota keys, "<provider family>:<model>"                 *)
  KeyOf,        (* _profile_key: profiles may share a key                  *)
  Rpm, Tpm, Rpd,(* the limits of each profile,                             *)
  ByteCap, MaxInput, Reserve,   (* and its budgets for one call            *)
  Attempts,     (* max_retries + 1 of each profile's generator             *)
  JsonMode,     (* profiles whose generator asks for structured output     *)
  Primary,      (* the profile of each call's responsibility               *)
  Fallback,     (* its fallback profile, or NoProfile                      *)
  Bytes,        (* sizes each call's prompt may have                       *)
  NoProfile,
  DayLength,    (* minutes in a day                                        *)
  MaxMinute     (* bound: the last minute                                  *)

ASSUME ProfilesAssumption ==
  /\ KeyOf \in [Profiles -> Keys]
  /\ {Rpm, Tpm, Rpd, ByteCap, MaxInput, Reserve} \subseteq [Profiles -> Nat]
  /\ Attempts \in [Profiles -> Nat \ {0}]
  /\ IsFiniteSet(Profiles) /\ NoProfile \notin Profiles
ASSUME CallsAssumption ==
  /\ IsFiniteSet(Calls) /\ Guarded \subseteq Calls
  /\ Primary \in [Calls -> Profiles]
  /\ Fallback \in [Calls -> Profiles \cup {NoProfile}]
  /\ \A c \in Calls : Fallback[c] # Primary[c]
  /\ Bytes \in [Calls -> SUBSET Nat]
ASSUME TimeAssumption == DayLength \in Nat \ {0} /\ MaxMinute \in Nat

VARIABLES
  prompt,       (* per call, the bytes of its prompt                       *)
  minute,       (* the wall clock                                          *)
  perMinute,    (* the "minute" windows                                    *)
  perDay,       (* the "day" windows                                       *)
  calls,        (* where each call is                                      *)
  sent,         (* history: requests the provider received, per key        *)
  sentFirst,    (* history: generate()s of guarded calls it received, and  *)
  unguarded     (* of the others                                           *)

history == <<sent, sentFirst, unguarded>>
vars == <<prompt, minute, perMinute, perDay, calls, history>>

Minutes == 0 .. MaxMinute
DayOf(m) == m \div DayLength
Days == {DayOf(m) : m \in Minutes}

EmptyWindow == [requests |-> 0, tokens |-> 0]

CallRecords ==
  [pc : {"idle", "admitting", "sleeping", "sending", "answered", "unavailable"},
   profile : Profiles \cup {NoProfile}, bytes : Nat, stamp : Minutes,
   waited : BOOLEAN, tries : Nat]

At(c, pc) == calls[c].pc = pc
Ended(pc) == [pc |-> pc, profile |-> NoProfile, bytes |-> 0, stamp |-> 0,
              waited |-> FALSE, tries |-> 0]
Go(c, call) == calls' = [calls EXCEPT ![c] = call]

HasCompleteBudget(p) ==
  0 \notin {ByteCap[p], MaxInput[p], Reserve[p], Rpm[p], Tpm[p], Rpd[p]}
IsSelectable(p) == p \in Enabled /\ HasCompleteBudget(p)
Admissible(p, bytes) ==
  /\ IsSelectable(p)
  /\ bytes <= ByteCap[p] /\ InputTokens(bytes) <= MaxInput[p]

(* Mutant: the profile of the call is lost.                                *)
AcquiringUnknown(p, bytes) ==
  [Ended("admitting") EXCEPT !.bytes = bytes, !.stamp = minute]

(***************************************************************************)
(* acquire reads the clock before it has a connection and the row locks:   *)
(* the windows a call is charged to are those of its stamp.                *)
(***************************************************************************)
Acquiring(p, bytes) ==
  [Ended("admitting") EXCEPT !.profile = p, !.bytes = bytes, !.stamp = minute]

(* A call is checked against the windows only if its router has a guard.   *)
Proceeding(c, p, bytes) ==
  IF c \in Guarded THEN Acquiring(p, bytes)
  ELSE [Acquiring(p, bytes) EXCEPT !.pc = "sending"]

HasFallback(c, p) == p = Primary[c] /\ Fallback[c] # NoProfile

(* The fallback's prompt: compacted if the primary profile or its provider *)
(* rejected the prompt, or if it is too large for the fallback.            *)
FallbackBytes(c, rejected) ==
  LET cap == ByteCap[Fallback[c]]
  IN  IF rejected \/ prompt[c] > cap THEN Compacted(prompt[c], cap) ELSE prompt[c]

(* Mutant: the fallback is called without a reservation of its own.        *)
WithoutProfileUnreserved(c, p, rejected) ==
  IF HasFallback(c, p) /\ Admissible(Fallback[c], FallbackBytes(c, rejected))
  THEN [Acquiring(Fallback[c], FallbackBytes(c, rejected)) EXCEPT !.pc = "sending"]
  ELSE Ended("unavailable")

(* What is left of a call whose profile cannot serve it: the fallback, if  *)
(* the responsibility has one and it was not the fallback that failed.     *)
WithoutProfile(c, p, rejected) ==
  IF HasFallback(c, p) /\ Admissible(Fallback[c], FallbackBytes(c, rejected))
  THEN Proceeding(c, Fallback[c], FallbackBytes(c, rejected))
  ELSE Ended("unavailable")

Begin(c) ==
  /\ At(c, "idle")
  /\ Go(c, IF Admissible(Primary[c], prompt[c]) THEN Proceeding(c, Primary[c], prompt[c])
           ELSE WithoutProfile(c, Primary[c], IsSelectable(Primary[c])))
  /\ UNCHANGED <<prompt, minute, perMinute, perDay, history>>

------------------------------------------------------------------------------
(***************************************************************************)
(* The transaction of acquire, with both windows locked.                   *)
(***************************************************************************)
MinuteWindow(c) == perMinute[KeyOf[calls[c].profile]][calls[c].stamp]
DayWindow(c) == perDay[KeyOf[calls[c].profile]][DayOf(calls[c].stamp)]
NeedOf(c) == InputTokens(calls[c].bytes) + Reserve[calls[c].profile]

MinuteFull(c) ==
  \/ MinuteWindow(c).requests + 1 > Rpm[calls[c].profile]
  \/ MinuteWindow(c).tokens + NeedOf(c) > Tpm[calls[c].profile]

(* Mutant: compares the requests made so far, without this one.            *)
DayFullLate(c) == DayWindow(c).requests > Rpd[calls[c].profile]

DayFull(c) == DayWindow(c).requests + 1 > Rpd[calls[c].profile]

Charged(window, need) ==
  [requests |-> window.requests + 1, tokens |-> window.tokens + need]

(* Mutant: charges the day the clock shows instead of the stamp's.         *)
ChargeTheClock(c) ==
  LET k == KeyOf[calls[c].profile]
  IN  /\ perMinute' = [perMinute EXCEPT ![k][calls[c].stamp] = Charged(@, NeedOf(c))]
      /\ perDay' = [perDay EXCEPT ![k][DayOf(minute)] = Charged(@, NeedOf(c))]

Charge(c) ==
  LET k == KeyOf[calls[c].profile]
  IN  /\ perMinute' = [perMinute EXCEPT ![k][calls[c].stamp] = Charged(@, NeedOf(c))]
      /\ perDay' = [perDay EXCEPT ![k][DayOf(calls[c].stamp)] = Charged(@, NeedOf(c))]

Admit(c) ==
  /\ At(c, "admitting")
  /\ ~MinuteFull(c) /\ ~DayFull(c)
  /\ Charge(c)
  /\ Go(c, [calls[c] EXCEPT !.pc = "sending"])
  /\ UNCHANGED <<prompt, minute, history>>

(* The first time, the call sleeps until the next minute; then it gives up.*)
MinuteExhausted(c) ==
  /\ At(c, "admitting")
  /\ MinuteFull(c)
  /\ Go(c, IF calls[c].waited THEN WithoutProfile(c, calls[c].profile, FALSE)
           ELSE [calls[c] EXCEPT !.pc = "sleeping"])
  /\ UNCHANGED <<prompt, minute, perMinute, perDay, history>>

DayExhausted(c) ==
  /\ At(c, "admitting")
  /\ ~MinuteFull(c) /\ DayFull(c)
  /\ Go(c, WithoutProfile(c, calls[c].profile, FALSE))
  /\ UNCHANGED <<prompt, minute, perMinute, perDay, history>>

(* The database raises: the guard fails closed.  The transaction may have  *)
(* committed all the same.                                                 *)
StorageFails(c) ==
  /\ At(c, "admitting")
  /\ \/ UNCHANGED <<perMinute, perDay>>
     \/ ~MinuteFull(c) /\ ~DayFull(c) /\ Charge(c)
  /\ Go(c, WithoutProfile(c, calls[c].profile, FALSE))
  /\ UNCHANGED <<prompt, minute, history>>

(* The second round takes a stamp of its own.                              *)
Wake(c) ==
  /\ At(c, "sleeping")
  /\ minute > calls[c].stamp
  /\ Go(c, [Acquiring(calls[c].profile, calls[c].bytes) EXCEPT !.waited = TRUE])
  /\ UNCHANGED <<prompt, minute, perMinute, perDay, history>>

------------------------------------------------------------------------------
(***************************************************************************)
(* One attempt of GroqTextGenerator.generate.  A structured request the    *)
(* provider could not constrain is repeated within the attempt.            *)
(***************************************************************************)
RequestsOfAttempt(p) == IF p \in JsonMode THEN {1, 2} ELSE {1}

(* A rate limit is waited for if it ends within 3 seconds; no text, or one *)
(* cut at its length, is as good as an error.                              *)
Retriable == {"error", "incomplete", "limited briefly"}
Refusals == {"too large", "limited", "no account"}

(* Mutant: max_retries + 1 attempts follow the first.                      *)
AttemptsLeftLate(c) == calls[c].tries < Attempts[calls[c].profile]
AttemptsLeft(c) == calls[c].tries + 1 < Attempts[calls[c].profile]

After(c, outcome) ==
  CASE outcome = "answer" -> Ended("answered")
    [] outcome \in Retriable /\ AttemptsLeft(c) -> [calls[c] EXCEPT !.tries = @ + 1]
    [] OTHER -> WithoutProfile(c, calls[c].profile, outcome = "too large")

Requested(c, n) ==
  LET k == KeyOf[calls[c].profile]
      first == calls[c].tries = 0
  IN  /\ sent' = [sent EXCEPT ![k] = @ + n]
      /\ sentFirst' = IF first /\ c \in Guarded THEN [sentFirst EXCEPT ![k] = @ + 1]
                      ELSE sentFirst
      /\ unguarded' = IF first /\ c \notin Guarded THEN [unguarded EXCEPT ![k] = @ + 1]
                      ELSE unguarded

Send(c) ==
  /\ At(c, "sending")
  /\ \E n \in RequestsOfAttempt(calls[c].profile) : Requested(c, n)
  /\ \E outcome \in {"answer"} \cup Retriable \cup Refusals : Go(c, After(c, outcome))
  /\ UNCHANGED <<prompt, minute, perMinute, perDay>>

(* The task is cancelled, or its process dies; the thread that has the     *)
(* attempt's requests is not cancelled with the task.                      *)
Cancel(c) ==
  /\ calls[c].pc \in {"admitting", "sleeping", "sending"}
  /\ Go(c, Ended("unavailable"))
  /\ \/ UNCHANGED history
     \/ At(c, "sending") /\ \E n \in RequestsOfAttempt(calls[c].profile) : Requested(c, n)
  /\ UNCHANGED <<prompt, minute, perMinute, perDay>>

Tick ==
  /\ minute < MaxMinute
  /\ minute' = minute + 1
  /\ UNCHANGED <<prompt, perMinute, perDay, calls, history>>

Init ==
  /\ prompt \in [Calls -> UNION {Bytes[c] : c \in Calls}]
  /\ \A c \in Calls : prompt[c] \in Bytes[c]
  /\ minute = 0
  /\ perMinute = [k \in Keys |-> [m \in Minutes |-> EmptyWindow]]
  /\ perDay = [k \in Keys |-> [d \in Days |-> EmptyWindow]]
  /\ calls = [c \in Calls |-> Ended("idle")]
  /\ sent = [k \in Keys |-> 0]
  /\ sentFirst = [k \in Keys |-> 0]
  /\ unguarded = [k \in Keys |-> 0]

Acquire(c) ==
  Admit(c) \/ MinuteExhausted(c) \/ DayExhausted(c) \/ StorageFails(c) \/ Wake(c)

Next ==
  \/ \E c \in Calls : Begin(c) \/ Acquire(c) \/ Send(c) \/ Cancel(c)
  \/ Tick

Spec == Init /\ [][Next]_vars

------------------------------------------------------------------------------
Windows == [requests : Nat, tokens : Nat]

TypeOK ==
  /\ prompt \in [Calls -> Nat]
  /\ minute \in Minutes
  /\ perMinute \in [Keys -> [Minutes -> Windows]]
  /\ perDay \in [Keys -> [Days -> Windows]]
  /\ calls \in [Calls -> CallRecords]
  /\ \A c \in Calls :
       calls[c].pc \in {"admitting", "sleeping", "sending"} => calls[c].profile \in Profiles
  /\ sent \in [Keys -> Nat]
  /\ sentFirst \in [Keys -> Nat]
  /\ unguarded \in [Keys -> Nat]

(* "Atomically enforce configured RPM, TPM, and RPD limits in Neon"        *)
(* (quota.py:31): whatever calls and processes race for a window, and      *)
(* however old their stamps are, no window outgrows the limits of every    *)
(* profile that shares its key.                                            *)
Allows(k, Limit, n) == n = 0 \/ \E p \in Profiles : KeyOf[p] = k /\ n <= Limit[p]

WithinLimits ==
  /\ \A k \in Keys, m \in Minutes :
       /\ Allows(k, Rpm, perMinute[k][m].requests)
       /\ Allows(k, Tpm, perMinute[k][m].tokens)
  /\ \A k \in Keys, d \in Days : Allows(k, Rpd, perDay[k][d].requests)

(* A window of a day holds what the windows of its minutes hold, also for  *)
(* the calls whose stamp and transaction lie on two sides of midnight.     *)
MinutesOf(d) == {m \in Minutes : DayOf(m) = d}
RequestsIn(k) == [m \in Minutes |-> perMinute[k][m].requests]
TokensIn(k) == [m \in Minutes |-> perMinute[k][m].tokens]

DayIsSumOfMinutes ==
  \A k \in Keys, d \in Days :
    /\ perDay[k][d].requests = SumFunctionOnSet(RequestsIn(k), MinutesOf(d))
    /\ perDay[k][d].tokens = SumFunctionOnSet(TokensIn(k), MinutesOf(d))

Counted(k) == SumFunctionOnSet(RequestsIn(k), Minutes)

(* "Reserve one model call before the provider receives it" (quota.py:18): *)
(* no generate() of a router that has a quota guard reaches a provider, a  *)
(* fallback's included, without a reservation of its own, and the          *)
(* reservations not yet used suffice for those about to be sent.  Calls    *)
(* without a guard use up none of them.                                    *)
Pending(k) ==
  {c \in Guarded : At(c, "sending") /\ calls[c].tries = 0 /\ KeyOf[calls[c].profile] = k}

NoCallWithoutReservation ==
  \A k \in Keys : sentFirst[k] + Cardinality(Pending(k)) <= Counted(k)

(* However calls fail, fall back and are cancelled, a provider receives no *)
(* more requests of a key than the attempts, with one request more each    *)
(* where constrained output is refused, of the generate()s that have a     *)
(* reservation in its windows and of those whose router has no guard.      *)
RequestsPerReservation(k) ==
  Max({0} \cup {Attempts[p] * Cardinality(RequestsOfAttempt(p)) :
                 p \in {q \in Profiles : KeyOf[q] = k}})

AttemptsBounded ==
  \A k \in Keys : sent[k] <= RequestsPerReservation(k) * (Counted(k) + unguarded[k])

(* "a failed provider attempt still consumed a provider request and must   *)
(* count against the account limit" (quota.py:34-35).  Neither a second    *)
(* attempt nor a call without a guard is counted.                          *)
EveryAttemptCounted == \A k \in Keys : sent[k] <= Counted(k)
==============================================================================
