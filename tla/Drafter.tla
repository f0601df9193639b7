------------------------------- MODULE Drafter -------------------------------
(***************************************************************************)
(* The multi-token-prediction drafter (mtp_patched.py).                    *)
(*                                                                         *)
(* A round drafts NumSpec tokens for every request of a batch.  Its first  *)
(* pass feeds the rows the target has just verified, rejected drafts       *)
(* included, and its sparse attention leaves the selection of every row in *)
(* the layer's topk_indices_buffer.  The later passes have one row per     *)
(* request and select nothing: they read the selections of the first,      *)
(* which is why these are first moved to the front of the buffer.          *)
(*                                                                         *)
(* A selection is named by the query it was made for; what such a query    *)
(* attends to is in QsaSelect.  The drafts are the top tokens of a head    *)
(* that may be cut down to a list of token ids when the model is loaded.   *)
(*                                                                         *)
(* The batches, row_indices and the calls of set_skip_topk and             *)
(* compact_topk_indices are the proposer's, which is not in the            *)
(* repository.                                                             *)
(***************************************************************************)
EXTENDS QsaRequests, SequencesExt

CONSTANTS
  NumMtp,     \* num_mtp_layers
  MaxRows,    \* max_num_batched_tokens
  VocabSize,  \* org_vocab_size
  Files,      \* token ids the draft vocabulary files may list, a set of sets
  Scales,     \* logits_processor.scale
  Old         \* a row of the buffer that this round has not written

ASSUME DrafterAssumption ==
  /\ IsFiniteSet(Reqs) /\ NumSpec > 1
  /\ NumMtp \in Nat \ {0} /\ MaxRows \in Nat
  /\ VocabSize \in Nat \ {0}
  /\ \A f \in Files : f \subseteq Int
  /\ Scales \subseteq Int
  /\ Old \notin [r : Reqs, q : Nat, s : Nat]

VARIABLES
  batch,  \* the rows of the round: sequence of [r, from, len, acc]
  pass,   \* spec_step_idx of the next pass
  skip,   \* indexer.skip_topk
  buffer, \* topk_indices_buffer: per layer and row, the query [r, q, s], or Old
  used,   \* used[i]: [r, row], what the latest later pass read for r
  scale,  \* the model's logit scale
  listed, \* the token ids of VLLM_MTP_DRAFT_VOCAB's file
  head    \* _draft_id_to_target_id; <<>> if the head is not cut down

passVars == <<batch, pass, skip, buffer, used>>
headVars == <<scale, listed, head>>
drafterVars == <<n, passVars, headVars>>

BufferRows == 0 .. (MaxRows - 1)

(* What earlier rounds or torch.empty left behind; it is not told apart.    *)
OldRows == [l \in 0 .. (NumMtp - 1) |-> [i \in BufferRows |-> Old]]

Vocab == 0 .. (VocabSize - 1)

-----------------------------------------------------------------------------
(* The head.                                                               *)

(* sorted(ids) *)
Sorted(ids) == [i \in 1 .. Cardinality(ids) |->
                  CHOOSE x \in ids : Cardinality({y \in ids : y < x}) = i - 1]

(* Mutant: the sign of the scale does not matter. *)
AttachAnyScale(ids, s, plain) ==
  LET usable == ids \cap Vocab IN
  IF plain /\ usable # {} /\ usable # Vocab THEN Sorted(usable) ELSE <<>>

(***************************************************************************)
(* _attach_draft_vocab: the ids of the file that are in the vocabulary, in *)
(* increasing order, unless the head is not a plain, unsharded matrix, the *)
(* scale would turn the order round, or nothing is left out or left over.  *)
(***************************************************************************)
Attach(ids, s, plain) ==
  LET usable == ids \cap Vocab IN
  IF plain /\ s > 0 /\ usable # {} /\ usable # Vocab THEN Sorted(usable) ELSE <<>>

Best(S, score) == {i \in S : \A j \in S : score[j] <= score[i]}

(* Mutant: the row of the cut-down head is returned as the token. *)
TopRows(raw) ==
  IF head = <<>> THEN Best(Vocab, [i \in Vocab |-> scale * raw[i]])
  ELSE Best(DOMAIN head, [i \in DOMAIN head |-> raw[head[i]]])

(***************************************************************************)
(* get_top_tokens for hidden states whose products with the rows of the    *)
(* head are raw: the tokens it may return.  Only the full head's logits    *)
(* are scaled.                                                             *)
(***************************************************************************)
TopTokens(raw) ==
  IF head = <<>> THEN Best(Vocab, [i \in Vocab |-> scale * raw[i]])
  ELSE {head[i] : i \in Best(DOMAIN head, [i \in DOMAIN head |-> raw[head[i]]])}

-----------------------------------------------------------------------------

DrafterInit ==
  /\ n = [r \in Reqs |-> 0]
  /\ batch = <<>> /\ pass = 0 /\ skip = FALSE
  /\ buffer = OldRows
  /\ used = <<>>
  /\ scale \in Scales /\ listed \in Files
  /\ \E plain \in BOOLEAN : head = Attach(listed, scale, plain)

(***************************************************************************)
(* The target's step: a chunk of the prompt, or the last token and up to   *)
(* NumSpec drafts, some of which may be rejected.                          *)
(***************************************************************************)
Verified(r) ==
  {v \in [r : {r}, from : {n[r]}, len : 1 .. MaxLen, acc : 1 .. MaxLen] :
     /\ n[r] + v.len <= MaxLen
     /\ IF n[r] < PromptLen
          THEN v.acc = v.len /\ v.len <= MaxChunk /\ n[r] + v.len <= PromptLen
          ELSE v.acc <= v.len /\ v.len <= NumSpec + 1}

(* The rows before the i-th request of a batch. *)
RowsBefore(b, i) ==
  LET rows[j \in 0 .. Len(b)] == IF j = 0 THEN 0 ELSE rows[j - 1] + b[j].len
  IN  rows[i - 1]

(* forward: current_step_idx. *)
LayerOf(k) == k % NumMtp

(* What the indexer leaves in the buffer for the rows of a batch. *)
SelectedRows(b, rows) ==
  [i \in BufferRows |->
     IF \E j \in DOMAIN b : i - RowsBefore(b, j) \in 0 .. (b[j].len - 1)
     THEN LET j == CHOOSE j \in DOMAIN b : i - RowsBefore(b, j) \in 0 .. (b[j].len - 1)
          IN  [r |-> b[j].r, q |-> b[j].from + i - RowsBefore(b, j), s |-> b[j].from + b[j].len]
     ELSE rows[i]]

(* The first pass of a round: _run_qsa writes the buffer of its layer.     *)
FirstPass ==
  \E S \in SUBSET Reqs \ {{}} : \E order \in SetToSeqs(S) :
    \E b \in {f \in [DOMAIN order -> UNION {Verified(r) : r \in S}] :
                \A i \in DOMAIN order : f[i] \in Verified(order[i])} :
      /\ pass = 0 /\ batch = <<>>
      /\ RowsBefore(b, Len(order) + 1) <= MaxRows
      /\ batch' = b
      /\ n' = [r \in Reqs |-> IF \E i \in DOMAIN b : b[i].r = r
                              THEN n[r] + b[CHOOSE i \in DOMAIN b : b[i].r = r].acc ELSE n[r]]
      /\ buffer' = IF skip THEN buffer
                   ELSE [buffer EXCEPT ![LayerOf(0)] = SelectedRows(b, @)]
      /\ used' = <<>>
      /\ UNCHANGED <<pass, skip, headVars>>

(* Mutant: the last row of each request, drafts that were rejected too. *)
LastRow(i) == RowsBefore(batch, i) + batch[i].len - 1

(* row_indices: the row of the last accepted token of the i-th request.    *)
RowIndex(i) == RowsBefore(batch, i) + batch[i].acc - 1

(* Mutant: the rows are scattered, not gathered. *)
Scattered(rows) ==
  [i \in BufferRows |->
     IF i < Len(batch) \/ \A j \in DOMAIN batch : RowIndex(j) # i THEN rows[i]
     ELSE rows[(CHOOSE j \in DOMAIN batch : RowIndex(j) = i) - 1]]

(* selected = buffer.index_select(row_indices); buffer[:num_rows] = selected *)
Compacted(rows) ==
  [i \in BufferRows |-> IF i < Len(batch) THEN rows[RowIndex(i + 1)] ELSE rows[i]]

(* compact_topk_indices and set_skip_topk(True), between the passes.       *)
Compact ==
  /\ pass = 0
  /\ batch # <<>>
  /\ buffer' = [l \in DOMAIN buffer |-> Compacted(buffer[l])]
  /\ skip' = TRUE
  /\ pass' = 1
  /\ UNCHANGED <<n, batch, used, headVars>>

(* Mutant: the flag is left set. *)
LaterPassKeepsSkip ==
  LET last == pass = NumSpec - 1 IN
  /\ pass > 0
  /\ used' = [i \in DOMAIN batch |->
                [r |-> batch[i].r, row |-> buffer[LayerOf(pass)][i - 1]]]
  /\ pass'  = IF last THEN 0 ELSE pass + 1
  /\ batch' = IF last THEN <<>> ELSE batch
  /\ buffer' = IF last THEN OldRows ELSE buffer
  /\ UNCHANGED <<n, skip, headVars>>

(***************************************************************************)
(* A later pass: its i-th row, of the i-th request, attends to row i - 1   *)
(* of the layer's buffer.  The next round selects again.                   *)
(***************************************************************************)
LaterPass ==
  LET last == pass = NumSpec - 1 IN
  /\ pass > 0
  /\ used' = [i \in DOMAIN batch |->
                [r |-> batch[i].r, row |-> buffer[LayerOf(pass)][i - 1]]]
  /\ pass'  = IF last THEN 0 ELSE pass + 1
  /\ batch' = IF last THEN <<>> ELSE batch
  /\ skip'  = ~last
  /\ buffer' = IF last THEN OldRows ELSE buffer
  /\ UNCHANGED <<n, headVars>>

(* A request ends or is preempted between rounds, and may come back. *)
Leave(r) ==
  /\ pass = 0 /\ batch = <<>>
  /\ n[r] > 0
  /\ n' = [n EXCEPT ![r] = 0]
  /\ used' = <<>>
  /\ UNCHANGED <<batch, pass, skip, buffer, headVars>>

DrafterNext == FirstPass \/ Compact \/ LaterPass \/ \E r \in Reqs : Leave(r)

DrafterSpec == DrafterInit /\ [][DrafterNext]_drafterVars

-----------------------------------------------------------------------------
(* Properties.                                                             *)

(***************************************************************************)
(* A later pass attends, for each request, to accepted tokens of that      *)
(* request only, and to all of them as long as they fit: not to those of   *)
(* another request of the batch, of a rejected draft or of an earlier      *)
(* round, though the buffer it reads holds selections of them all.         *)
(***************************************************************************)
DraftsAttendToAcceptedPast ==
  \A i \in DOMAIN used :
    LET row == used[i].row
        past == 0 .. (n[used[i].r] - 1)
    IN
    /\ row # Old
    /\ row.r = used[i].r
    /\ \A blocks \in Rankings(row.q, row.s) :
         /\ Attended(blocks, row.q, row.s) \subseteq past
         /\ n[row.r] \div Ratio <= BlockTopk => Attended(blocks, row.q, row.s) = past

(***************************************************************************)
(* Cutting the head down changes which tokens may be drafted, not which of *)
(* them is: the drafted token has the highest of the model's own, scaled   *)
(* logits among the tokens of the list that exist, or among all tokens if  *)
(* the head was left whole.                                                *)
(***************************************************************************)
DraftsAreTheBestListed ==
  \A raw \in [Vocab -> 0 .. 2] :
    TopTokens(raw) = Best(IF head = <<>> THEN Vocab ELSE listed \cap Vocab,
                          [i \in Vocab |-> scale * raw[i]])

=============================================================================
