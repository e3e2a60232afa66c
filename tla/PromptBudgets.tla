------------------------------ MODULE PromptBudgets ------------------------------
(***************************************************************************)
(* What a model profile takes of a prompt, counted in bytes                *)
(* (src/shared/llm/router.py, quota.py): the estimate of its tokens, and   *)
(* the compaction that makes it fit a fallback profile.  How many bytes of *)
(* a character cut in two are dropped (0 to 3) is left out: it is none     *)
(* here, which is the largest result.                                      *)
(***************************************************************************)
EXTENDS Integers

Least(a, b) == IF a < b THEN a ELSE b
Most(a, b) == IF a < b THEN b ELSE a

InputTokens(bytes) == (bytes + 1) \div 2

Marker == 57     (* "\n\n[Context compacted after ... rejection.]\n\n"      *)

(* Mutant: the marker's own bytes are not taken off.                       *)
TargetUnmarked(bytes, cap) == Least((3 * bytes) \div 4, cap)
Target(bytes, cap) ==
  Least((3 * bytes) \div 4, Least((9 * cap) \div 10, Most(cap - Marker, 0)))

(* encoded[-0:] is the whole text.                                         *)
Compacted(bytes, cap) ==
  LET target == Target(bytes, cap)
      head == (6 * target) \div 10
      tail == IF target - head = 0 THEN bytes ELSE target - head
  IN  IF target >= bytes THEN bytes ELSE head + Marker + tail
==============================================================================
