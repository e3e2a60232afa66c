------------------------------- MODULE PromptGate -------------------------------
(***************************************************************************)
(* The gate between what a customer, Odoo or the web wrote and a model     *)
(* (src/core/prompt_security.py).  Rules find a text unsafe or suspicious, *)
(* a model is asked about the suspicious ones, and without its consent     *)
(* they are withheld.                                                      *)
(*                                                                         *)
(* Left out: the rules' patterns and the readings of a text they are tried *)
(* on (Matched names the rules that some reading matches), the first 1000  *)
(* bytes of which the model is shown, and the events that are recorded.    *)
(***************************************************************************)
CONSTANTS
  HighConfidence, Suspicious,   (* rules                                   *)
  Matched                       (* per text, the rules it matches          *)

ASSUME RulesAreDistinct == HighConfidence \cap Suspicious = {}

Matching(t, rules) == Matched[t] \cap rules

(* A scan that fails is repeated; none that answers, or an answer that is  *)
(* neither a verdict nor a probability, is no verdict.                     *)
Verdicts == {"safe", "injection", "unavailable"}

(* What may be decided of a text: whether it is let through (_inspect).    *)
Decisions(t) ==
  IF Matching(t, HighConfidence) # {} THEN {FALSE}
  ELSE IF Matching(t, Suspicious) = {} THEN {TRUE}
  ELSE {v = "safe" : v \in Verdicts}

Unsafe(t) == Decisions(t) = {FALSE}
MustPass(t) == Decisions(t) = {TRUE}

(* The sets of units that a scan of all of them may let through.           *)
LetThrough(units) ==
  {K \in SUBSET DOMAIN units :
     \A i \in DOMAIN units : (i \in K) \in Decisions(units[i])}

(* secure_chatter keeps a unit it withholds, as a deleted one;             *)
(* filter_model_sources drops it, and rejects what leaves nothing.         *)
Secured(units, gone) ==
  {[i \in DOMAIN units |-> IF i \in K THEN units[i] ELSE gone] : K \in LetThrough(units)}
Retained(units) == LetThrough(units) \ {{}}
=============================================================================
