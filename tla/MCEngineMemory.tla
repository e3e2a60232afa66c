---------------------------- MODULE MCEngineMemory ----------------------------
(***************************************************************************)
(* A document session for TLC: one record, two questions, two answers.     *)
(***************************************************************************)
EXTENDS EngineMemory, TLC

CONSTANTS record, k1, k2, a, b, yes, no

(* A baseline; a delta with another text; and that text again under the    *)
(* hash of the first.                                                      *)
OdooRequests ==
  {[mode |-> "baseline", units |-> record :> a, contents |-> record :> a],
   [mode |-> "delta", units |-> record :> b, contents |-> record :> b],
   [mode |-> "delta", units |-> record :> a, contents |-> record :> b]}
Alike == Permutations({k1, k2}) \cup Permutations({yes, no})

(* Bound: one preparation that opens the session and two that race; the    *)
(* other calls ask and answer, or were rolled back.                        *)
ThreePrepare == Cardinality({c \in Calls : tx[c].kind = "prepare"}) <= 3
=============================================================================
