--------------------------- MODULE MCChatterSessions ---------------------------
(***************************************************************************)
(* A session for TLC: the record and one message, new or with a record     *)
(* stored in the past, a baseline of the record or of nothing, and deltas  *)
(* that change or repeat it, one with a suspicious text, one with an       *)
(* unsafe message.                                                         *)
(***************************************************************************)
EXTENDS ChatterSessions, TLC

CONSTANTS record, note, a, b, c, override, roleplay

Rules == a :> {} @@ b :> {roleplay} @@ c :> {override, roleplay} @@ Gone :> {}
Baselines ==
  {[mode |-> "baseline", units |-> u] : u \in {<<record, 0>> :> a, None}}
Deltas ==
  {[mode |-> "delta", units |-> u] :
     u \in {<<record, 0>> :> b, <<record, 0>> :> a @@ <<note, 0>> :> c}}
Noted ==
  {[mode |-> "baseline", units |-> <<record, 0>> :> a @@ <<note, 0>> :> a],
   [mode |-> "delta", units |-> <<note, 0>> :> Gone]}
Stored == {None, <<record, 0>> :> b}
OdooRequests == Baselines \cup Deltas
==============================================================================
