--------------------------- MODULE MCQuestionnaires ---------------------------
(***************************************************************************)
(* Two keys that are asked with two bodies, and a restart.  One body has   *)
(* an unsafe source beside a plain one and asks for the web; of the only   *)
(* source of the other the scanner is asked, and the languages of that one *)
(* are what the gate would not let through.                                *)
(***************************************************************************)
EXTENDS Questionnaires, TLC

CONSTANTS r1, r2, r3, r4, k1, k2, w1, w2, brief, minutes, plain, odd, bad,
          override, roleplay

Rules == Blank :> {} @@ plain :> {} @@ odd :> {roleplay} @@ bad :> {override}
Mixed == [material |-> brief :> plain @@ minutes :> bad, customer |-> plain,
          languages |-> plain, web |-> TRUE]
Doubtful == [material |-> brief :> odd, customer |-> plain, languages |-> bad,
             web |-> FALSE]
TwoBodies == {Mixed, Doubtful}
===============================================================================
