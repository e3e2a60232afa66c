--------------------------- MODULE MCContextBudgets ---------------------------
(***************************************************************************)
(* Two versions of a document, another file, the record and a message,     *)
(* of one word or of three, the last of which is larger than a chunk, with *)
(* sizes at which budgets are overrun.                                     *)
(***************************************************************************)
EXTENDS ContextBudgets, TLC

CONSTANTS v1, v2, file, record, note

TwoTexts == {<<1930>>, <<1200, 1298, 2600>>}
TwoProviders == <<256, 4000>>
TwoCaps == {[primary |-> 4500, fallback |-> 3000], [primary |-> 2000, fallback |-> 256]}
=============================================================================
