---------------------------- MODULE ShortConvInv ----------------------------
(***************************************************************************)
(* The inductive invariant of ShortConv: running requests own their slots, *)
(* and their windows are their histories.                                  *)
(***************************************************************************)
EXTENDS ShortConv

(***************************************************************************)
(* The decode path reads the first columns of a slot, which are the window *)
(* only if the request's latest step accepted one token.                   *)
(***************************************************************************)
ASSUME RollbackAssumption == ~PlainAfterSpec

(* A request with a history has a slot of its own, and no draft is accepted in a prompt. *)
SlotsOwned ==
  \A r \in Reqs :
    /\ n[r] > 0 => slot[r] # Null
    /\ n[r] < PromptLen => accepted[r] = 1
    /\ \A q \in Reqs : slot[q] = slot[r] /\ slot[r] # Null => q = r

(* What every step of _short_conv_dilated_dispatch preserves. *)
IInv == TypeOK /\ SlotsOwned /\ WindowIsHistory

=============================================================================
