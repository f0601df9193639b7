------------------------------ MODULE DrafterInv ------------------------------
(***************************************************************************)
(* The inductive invariant of Drafter: why a later pass finds the          *)
(* selection of its request's last accepted token in the row it reads.     *)
(*                                                                         *)
(* The first pass leaves the selection of every row of the batch where     *)
(* row_indices says it is (FirstInv), and compaction moves those of the    *)
(* last accepted tokens to the front (FrontInv), where they stay until     *)
(* the round ends, because the passes in between select nothing.           *)
(***************************************************************************)
EXTENDS Drafter

(* One draft layer, the default of the model: all passes share one buffer. *)
ASSUME LayersAssumption == NumMtp = 1

(* What the target may have verified for a request. *)
Verifications == [r : Reqs, from : Nat, len : Nat \ {0}, acc : Nat \ {0}]

(* Types; each request is in a batch once, and the batch fits the buffer. *)
DrafterTypeOK ==
  /\ n \in [Reqs -> Nat] /\ pass \in Nat /\ skip \in BOOLEAN
  /\ batch \in Seq(Verifications)
  /\ \A i, j \in DOMAIN batch : batch[i].r = batch[j].r => i = j
  /\ \A i \in DOMAIN batch : batch[i].acc <= batch[i].len
  /\ RowsBefore(batch, Len(batch) + 1) <= MaxRows
  /\ DOMAIN buffer = {0}
  /\ scale \in Int /\ listed \subseteq Int

(* A round selects in its first pass only, and has requests in the others. *)
RoundInv ==
  /\ skip <=> pass > 0
  /\ pass > 0 => batch # <<>>
  /\ \A i \in DOMAIN batch : n[batch[i].r] = batch[i].from + batch[i].acc

(* The selection of the last accepted token of the i-th request. *)
LastSelection(i) ==
  [r |-> batch[i].r, q |-> batch[i].from + batch[i].acc - 1, s |-> batch[i].from + batch[i].len]

FirstInv == pass = 0 => \A i \in DOMAIN batch : buffer[0][RowIndex(i)] = LastSelection(i)

FrontInv == pass > 0 => \A i \in DOMAIN batch : buffer[0][i - 1] = LastSelection(i)

(* What was read is the selection of a request's last accepted token. *)
UsedInv ==
  \A i \in DOMAIN used :
    /\ used[i].r \in Reqs /\ n[used[i].r] > 0
    /\ \E s \in Nat : s >= n[used[i].r]
                     /\ used[i].row = [r |-> used[i].r, q |-> n[used[i].r] - 1, s |-> s]

(* A head that was cut down holds the listed tokens that exist. *)
HeadInv ==
  head # <<>> => scale > 0 /\ {head[i] : i \in DOMAIN head} = listed \cap Vocab

DrafterIInv == DrafterTypeOK /\ RoundInv /\ FirstInv /\ FrontInv /\ UsedInv /\ HeadInv

=============================================================================
