---------------------------- MODULE MCChatterRuns ----------------------------
(***************************************************************************)
(* Chatter runs for TLC: two requests for one key, and two run ids, so     *)
(* that a second run for the key can exist if the code lets it.  Nothing   *)
(* tells the two bodies apart, so the first request may as well have b1.   *)
(***************************************************************************)
EXTENDS ChatterRuns, TLC

CONSTANTS s1, s2, t1, t2, q1, q2, b1, b2

AllAtHome == t1 :> s1 @@ t2 :> s1
OneEach == t1 :> s1 @@ t2 :> s2
SameOrNot == q1 :> {b1} @@ q2 :> {b1, b2}
==============================================================================
