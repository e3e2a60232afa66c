----------------------------- MODULE SourceHistory -----------------------------
(***************************************************************************)
(* The history of a session's sources.  Both session stores keep rows      *)
(* [id, rev, text, by] under the unique key (session, source, revision),   *)
(* compare what Odoo sends with the latest revision of each source, and    *)
(* store what differs as its successor.                                    *)
(*                                                                         *)
(* A "text" is what is compared: the title with the hash of the text, in   *)
(* the chat the deletion mark too.  The chat hashes the text itself; the   *)
(* engine takes a hash that came with the text, so that there a text does  *)
(* not tell what was stored (EngineMemory's rows say that besides).        *)
(***************************************************************************)
EXTENDS Integers, FiniteSets, FiniteSetsExt

(* The latest revision of every source in S (_latest_sources).             *)
Current(S) == {x \in S : \A y \in S : y.id = x.id => y.rev <= x.rev}

(* Mutant: the first revision is 0.                                        *)
RevisionFromMinusOne(S, i) ==
  Max({-1} \cup {x.rev : x \in {y \in S : y.id = i}})
Revision(S, i) == Max({0} \cup {x.rev : x \in {y \in S : y.id = i}})

(* Mutant: a unit that equals any earlier revision counts as unchanged.    *)
ChangedSinceEver(units, S) ==
  {i \in DOMAIN units : ~\E x \in S : x.id = i /\ x.text = units[i]}
(* Mutant: only sources the session knows are compared and stored.         *)
ChangedAndKnown(units, S) ==
  {i \in DOMAIN units :
     \E x \in Current(S) : x.id = i /\ x.text # units[i]}
Changed(units, S) ==
  {i \in DOMAIN units : ~\E x \in Current(S) : x.id = i /\ x.text = units[i]}

(* The rows that c adds for the units that changed.                        *)
Successors(units, S, c) ==
  {[id |-> i, rev |-> Revision(S, i) + 1, text |-> units[i], by |-> c] :
     i \in Changed(units, S)}

SameKey(x, y) == x.id = y.id /\ x.rev = y.rev

(* The texts of source i in S by revision; each a set, so that two rows    *)
(* under one revision would show.                                          *)
TextsOf(S, i) ==
  [n \in {x.rev : x \in {y \in S : y.id = i}} |->
     {x.text : x \in {y \in S : y.id = i /\ y.rev = n}}]
=============================================================================
