----------------------------- MODULE MCShortConv -----------------------------
(***************************************************************************)
(* Bounds for checking ShortConv.  Requests are long enough for several    *)
(* speculative steps one after the other; what would make the states too   *)
(* many is how often slots change hands, as each owner leaves its inputs   *)
(* behind.  So all requests together compute at most MaxTokens tokens in a *)
(* behaviour, those of a request that was released and starts anew         *)
(* included.                                                               *)
(***************************************************************************)
EXTENDS ShortConvInv, FiniteSetsExt, TLC

CONSTANT MaxTokens  \* bound on the tokens accepted in a behaviour

VARIABLE computed   \* history: tokens accepted so far

Accepted(r) == IF n'[r] > n[r] THEN n'[r] - n[r] ELSE 0

BoundedInit == Init /\ computed = 0

BoundedNext ==
  /\ Next
  /\ computed' = computed + MapThenSumSet(Accepted, Reqs)
  /\ computed' <= MaxTokens

BoundedSpec == BoundedInit /\ [][BoundedNext]_<<vars, computed>>

(* Requests are alike. *)
Alike == Permutations(Reqs)

=============================================================================
