----------------------------- MODULE SessionMemory -----------------------------
(***************************************************************************)
(* What the memory of a session promises whoever uses it: once a baseline  *)
(* opened it, every source has the texts it was given, oldest first.  A    *)
(* step adds at most one text to a source, never one equal to the text     *)
(* before it, and takes nothing back.  A text is told from another by what *)
(* the stores compare, its title and its hash (see SourceHistory).         *)
(***************************************************************************)
EXTENDS Sequences, SequencesExt

CONSTANTS Ids, Contents

VARIABLES open, history

(* A session may be an old one that is taken up again.                     *)
Init ==
  /\ open \in BOOLEAN
  /\ history \in [Ids -> Seq(Contents)]
  /\ \A i \in Ids : history[i] # <<>> => open

Kept(i) == history'[i] = history[i]

Extended(i) ==
  \E t \in Contents :
    /\ open'
    /\ history'[i] = Append(history[i], t)
    /\ history[i] # <<>> => t # Last(history[i])

Next ==
  /\ open => open'
  /\ \A i \in Ids : Kept(i) \/ Extended(i)

Spec == Init /\ [][Next]_<<open, history>>
=============================================================================
