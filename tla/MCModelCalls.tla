---------------------------- MODULE MCModelCalls ----------------------------
(***************************************************************************)
(* Model calls for TLC: generation and review share the key of one model   *)
(* with limits of their own, as in the default settings; generation has a  *)
(* fallback under another key.  Its prompt is too large for the fallback,  *)
(* perhaps for generation, too.  The two reviews are alike.  The           *)
(* questionnaire's drafting has the key of generation, the same fallback   *)
(* and a router without a quota guard.                                     *)
(***************************************************************************)
EXTENDS ModelCalls, TLC

CONSTANTS c1, c2, c3, questionnaire, generation, review, drafting, fallback,
          qwen38, qwen36

SharedKey ==
  generation :> qwen38 @@ review :> qwen38 @@ drafting :> qwen38 @@ fallback :> qwen36
RpmOf == generation :> 2 @@ review :> 1 @@ drafting :> 2 @@ fallback :> 1
TpmOf == generation :> 2450 @@ review :> 1600 @@ drafting :> 2450 @@ fallback :> 1600
RpdOf == generation :> 2 @@ review :> 2 @@ drafting :> 2 @@ fallback :> 2
ByteCaps == generation :> 2000 @@ review :> 2000 @@ drafting :> 2000 @@ fallback :> 1500
InputCaps == generation :> 1000 @@ review :> 1000 @@ drafting :> 1000 @@ fallback :> 800
Reserves == generation :> 500 @@ review :> 100 @@ drafting :> 500 @@ fallback :> 100
TriedTwice == generation :> 2 @@ review :> 1 @@ drafting :> 1 @@ fallback :> 1

Reviews == {c2, c3}
Responsibility ==
  [c \in Calls |-> IF c \in Reviews THEN review ELSE IF c = c1 THEN generation ELSE drafting]
NotForReview == [c \in Calls |-> IF c \in Reviews THEN NoProfile ELSE fallback]
PromptBytes ==
  [c \in Calls |-> IF c \in Reviews THEN {1000} ELSE IF c = c1 THEN {1900, 2400} ELSE {1900}]
GenerationIsJson == {generation}
ReviewsAlike == Permutations(Reviews)
==============================================================================
