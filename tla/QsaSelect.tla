------------------------------ MODULE QsaSelect ------------------------------
(***************************************************************************)
(* What a query of the QSA sparse attention attends to                     *)
(* (qsa_ops_patched.py): which pooled groups it may score, how the groups  *)
(* the top-k selects become columns of tokens, and how the attention       *)
(* kernel reads the columns in tiles, divided over splits.                 *)
(***************************************************************************)
EXTENDS Integers, FiniteSets, FiniteSetsExt

CONSTANTS
  Ratio,       \* compress_ratio
  BlockTopk,   \* groups the top-k selects: token_topk // compress_ratio
  BlockN, TargetSplits  \* tile width and split profile of the attention

ASSUME SelectAssumption ==
  /\ Ratio \in Nat \ {0} /\ BlockTopk \in Nat \ {0}
  /\ BlockN \in Nat \ {0} /\ TargetSplits \in Nat \ {0}

-----------------------------------------------------------------------------
(* Selection, for the query at position q of a sequence of s tokens.       *)

Least(a, b) == IF a < b THEN a ELSE b

(* Mutant: the group of the query is visible before it is complete. *)
VisibleEarly(q, s) == Least((q + Ratio) \div Ratio, s \div Ratio)

(* visible_blocks *)
Visible(q, s) == Least((q + 1) \div Ratio, s \div Ratio)

(* What the top-k may return: a ranking of some visible groups. *)
Rankings(q, s) ==
  LET k == Least(Visible(q, s), BlockTopk)
  IN  {f \in [0 .. (k - 1) -> 0 .. (Visible(q, s) - 1)] :
         \A i, j \in 0 .. (k - 1) : f[i] = f[j] => i = j}

OutputWidth == BlockTopk * Ratio + Ratio - 1

(* _expand_qsa_indices_kernel: the token in a column, -1 if none.          *)
Expanded(blocks, q, s, column) ==
  LET count == Least(Visible(q, s), BlockTopk) * Ratio
      tail  == ((q + 1) \div Ratio) * Ratio
      token == IF column < count THEN blocks[column \div Ratio] * Ratio + (column % Ratio)
               ELSE tail + column - count
      isTail == /\ column - count < (q + 1) - tail
                /\ column - count < Ratio - 1
  IN  IF (column < count \/ isTail) /\ token < s THEN token ELSE -1

-----------------------------------------------------------------------------
(* The tiles of columns that the attention kernel reads.                   *)

NumTiles == (OutputWidth + BlockN - 1) \div BlockN

(* 1 << i, for the numbers that matter. *)
ShiftedOne ==
  LET shl[i \in 0 .. NumTiles] == IF i = 0 THEN 1 ELSE 2 * shl[i - 1]
  IN  shl

(* max_useful_splits: the highest bit of the number of tiles. *)
MaxUsefulSplits == Max({b \in 1 .. NumTiles : \E i \in 0 .. NumTiles : b = ShiftedOne[i]})

NumSplits == Least(MaxUsefulSplits, TargetSplits)

(* Mutant: splits of equal size. *)
SplitTilesEqual(split) ==
  (split * (NumTiles \div NumSplits)) .. ((split + 1) * (NumTiles \div NumSplits) - 1)

SplitTiles(split) ==
  ((split * NumTiles) \div NumSplits) .. (((split + 1) * NumTiles) \div NumSplits - 1)

(* <<split, column>>: the columns every split reads. *)
Reads ==
  {rd \in (0 .. (NumSplits - 1)) \X (0 .. (OutputWidth - 1)) :
     rd[2] \div BlockN \in SplitTiles(rd[1])}

-----------------------------------------------------------------------------

(***************************************************************************)
(* The columns that are read for the query at position q of a sequence of  *)
(* s tokens with this ranking, and the tokens in them.                     *)
(***************************************************************************)
ColumnsRead(blocks, q, s) == {rd \in Reads : Expanded(blocks, q, s, rd[2]) >= 0}

Attended(blocks, q, s) == {Expanded(blocks, q, s, rd[2]) : rd \in ColumnsRead(blocks, q, s)}

=============================================================================
