-------------------------------- MODULE NGram --------------------------------
(***************************************************************************)
(* The n-grams that Qwen3_8FlashNextNGramEmbedding.forward_impl hashes.    *)
(*                                                                         *)
(* A forward gets the flattened tokens of a batch of requests, cut by      *)
(* query_start_loc and followed by the stale tokens of graph padding, and  *)
(* the last tokens of every request before the batch (ngram_context).  It  *)
(* scatters the tokens into one row per request of a workspace that is     *)
(* kept between forwards, puts the context before the rows, and gathers    *)
(* for every token the tokens before it, up to an end-of-sequence token.   *)
(*                                                                         *)
(* A token is named <<request, position>>, so that every token but EOS is  *)
(* different from all others.  How the batches are formed is the runner's  *)
(* choice, which is outside of the repository.  Hashing the n-grams is     *)
(* not modelled: n-grams stand for their ids.                              *)
(***************************************************************************)
EXTENDS Integers, FiniteSets, FiniteSetsExt

CONSTANTS
  NumReqs,     \* rows of a batch; a row without tokens is graph padding
  NgramSize,
  MaxLen,      \* bound on the tokens of a request
  MaxTokens,   \* max_num_batched_tokens
  MaxPadding   \* bound on the stale tokens after a batch

ASSUME NGramAssumption ==
  /\ NumReqs \in Nat \ {0} /\ NgramSize \in Nat \ {0, 1}
  /\ MaxLen \in Nat /\ MaxTokens \in Nat \ {0} /\ MaxPadding \in Nat

Reqs  == 1 .. NumReqs
Eos   == <<>>
Stale == <<0, 0>>  \* whatever an earlier batch left behind

VARIABLES
  offload, \* is_offload_process()
  eosAt,   \* eosAt[r]: the positions of r's end-of-sequence tokens
  n,       \* n[r]: tokens of r that were in earlier batches
  len,     \* len[r]: tokens of r in the latest batch, after the first n[r]
  buffer,  \* padded_buffer
  grams    \* n-grams of the latest batch's tokens, in the order of the batch

vars == <<offload, eosAt, n, len, buffer, grams>>

Token(r, p) == IF p \in eosAt[r] THEN Eos ELSE <<r, p>>

Init ==
  /\ offload \in BOOLEAN
  /\ eosAt \in [Reqs -> SUBSET (1 .. MaxLen)]
  /\ n = [r \in Reqs |-> 0] /\ len = [r \in Reqs |-> 0]
  /\ buffer = [r \in Reqs |-> [c \in 1 .. MaxTokens |-> Eos]]
  /\ grams = <<>>

-----------------------------------------------------------------------------
(* One batch: ls[r] tokens of every request, then pad stale tokens.  The   *)
(* positions of a batch and the columns of a row count from 0.             *)

StartLoc(ls) ==
  LET qsl[r \in 0 .. NumReqs] == IF r = 0 THEN 0 ELSE qsl[r - 1] + ls[r] IN qsl

(* The runner's context: the last tokens before the batch, filled with EOS. *)
Context(r) ==
  [i \in 1 .. (NgramSize - 1) |->
     LET p == n[r] + len[r] - (NgramSize - 1) + i IN IF p < 1 THEN Eos ELSE Token(r, p)]

(* Mutant: counts the starts before the position only. *)
RequestBefore(qsl, p) ==
  LET found == Cardinality({r \in 0 .. NumReqs : qsl[r] < p})
  IN  IF found > NumReqs THEN NumReqs ELSE IF found = 0 THEN 1 ELSE found

(* searchsorted(query_start_loc, positions, right=True) - 1, clamped       *)
RequestOf(qsl, p) ==
  LET found == Cardinality({r \in 0 .. NumReqs : qsl[r] <= p})
  IN  IF found > NumReqs THEN NumReqs ELSE found

Columns(ls) == IF offload THEN Max({1} \cup {ls[r] : r \in Reqs}) ELSE MaxTokens

Column(ls, p) ==
  LET qsl == StartLoc(ls)
      c   == p - qsl[RequestOf(qsl, p) - 1]
  IN  IF c > Columns(ls) - 1 THEN Columns(ls) - 1 ELSE c

(* In the offload process a padded token could land on a real one's column. *)
NumValid(ls, pad) ==
  IF offload THEN StartLoc(ls)[NumReqs] ELSE StartLoc(ls)[NumReqs] + pad

(* input_ids: the tokens after the context, then the padding. *)
Input(ls, p) ==
  LET qsl == StartLoc(ls)
      r   == RequestOf(qsl, p)
  IN  IF p < qsl[NumReqs] THEN Token(r, n[r] + len[r] + p - qsl[r - 1] + 1) ELSE Stale

Scattered(ls, pad, r, c) ==
  {p \in 0 .. (NumValid(ls, pad) - 1) : RequestOf(StartLoc(ls), p) = r /\ Column(ls, p) = c}

(* packed.fill_(eos) on the columns in use, then the scatter. *)
Pack(ls, pad) ==
  [r \in Reqs |-> [i \in 1 .. MaxTokens |->
     LET from == Scattered(ls, pad, r, i - 1)
     IN  IF i > Columns(ls) THEN buffer[r][i]
         ELSE IF from = {} THEN Eos
         ELSE Input(ls, Max(from))]]

(* torch.cat([ngram_context, packed]) *)
Row(packed, r) ==
  [i \in 1 .. (NgramSize - 1 + MaxTokens) |->
     IF i < NgramSize THEN Context(r)[i] ELSE packed[r][i - NgramSize + 1]]

(* Mutant: an EOS does not end its own segment but the one before it. *)
SegmentPositionInclusive(row, i) == i - Max({0} \cup {j \in 1 .. i : row[j] = Eos}) - 1

(* _shift_precompute: how many tokens of its segment precede a token. *)
SegmentPosition(row, i) == i - Max({0} \cup {j \in 1 .. (i - 1) : row[j] = Eos}) - 1

(* _shift_apply *)
Shifted(row, i, shift) ==
  IF shift = 0 THEN row[i]
  ELSE IF i - shift >= 1 /\ SegmentPosition(row, i) >= shift THEN row[i - shift]
  ELSE Eos

Gram(ls, packed, p) ==
  LET row == Row(packed, RequestOf(StartLoc(ls), p))
      i   == Column(ls, p) + NgramSize
  IN  [shift \in 0 .. (NgramSize - 1) |-> Shifted(row, i, shift)]

(* forward_impl, for any cut of the requests' tokens and any padding.      *)
Forward ==
  \E ls \in [Reqs -> 0 .. MaxTokens], pad \in 0 .. MaxPadding :
    LET total  == StartLoc(ls)[NumReqs]
        packed == Pack(ls, pad)
    IN
    /\ total > 0 /\ total + pad <= MaxTokens
    /\ \A r \in Reqs : n[r] + len[r] + ls[r] <= MaxLen
    /\ n' = [r \in Reqs |-> n[r] + len[r]]
    /\ len' = ls
    /\ buffer' = packed
    /\ grams' = [i \in 1 .. (total + pad) |-> Gram(ls, packed, i - 1)]
    /\ UNCHANGED <<offload, eosAt>>

(* All tokens have been in a batch: the run ends here. *)
Exhausted == (\A r \in Reqs : n[r] + len[r] = MaxLen) /\ UNCHANGED vars

Next == Forward \/ Exhausted

Spec == Init /\ [][Next]_vars

-----------------------------------------------------------------------------
(* Properties.                                                             *)

(* The n-gram of the token at a position: its segment so far, EOS-filled.  *)
NGramOf(r, p) ==
  [shift \in 0 .. (NgramSize - 1) |->
     IF p - shift >= 1 /\ \A q \in (p - shift) .. (p - 1) : q \notin eosAt[r]
     THEN Token(r, p - shift)
     ELSE Eos]

(***************************************************************************)
(* The n-gram of a token is that of its position in its own request: it    *)
(* does not depend on the batch, the cut into chunks, the graph padding,   *)
(* or what the workspace held, and it ends at an EOS.                      *)
(***************************************************************************)
OwnNGrams ==
  \A r \in Reqs : \A j \in 1 .. len[r] :
    grams[StartLoc(len)[r - 1] + j] = NGramOf(r, n[r] + j)

=============================================================================
