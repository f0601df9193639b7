--------------------------------- MODULE Qsa ---------------------------------
(***************************************************************************)
(* The index of the QSA sparse attention (qsa_ops_patched.py).             *)
(*                                                                         *)
(* The keys of every Ratio consecutive tokens of a request are pooled into *)
(* one entry of a paged cache.  A group may span steps: the raw keys of    *)
(* earlier steps are kept in a ring per request.  A query scores the       *)
(* complete groups before it, the best of them are expanded to tokens, and *)
(* the attention kernel reads these tokens in tiles, divided over splits.  *)
(* Candidates of speculative decoding are fed like other tokens and, when  *)
(* they are rejected, fed again with other contents.                       *)
(*                                                                         *)
(* A key is named <<request, position, accepted>>, a pooled entry by its   *)
(* keys; scores are left out: the top-k may select any visible groups.     *)
(* The order of the calls (compress, store, score, expand, attend) and the *)
(* slots are the indexer's, which is not in the repository.  The requests  *)
(* of a batch use disjoint rings and pages, so a batch is a series of      *)
(* steps.                                                                  *)
(***************************************************************************)
EXTENDS QsaRequests

CONSTANTS
  RingSize,    \* COMPRESSOR_STATE_SIZE: tokens of a ring
  Rings,       \* compressor-state blocks
  Pages,       \* pages of the compressed cache
  PageSize,    \* entries of a page
  None         \* no ring, no pages, nothing stored

ASSUME QsaAssumption == RingSize \in Nat \ {0} /\ PageSize \in Nat \ {0}

TableWidth == (MaxLen + Ratio * PageSize - 1) \div (Ratio * PageSize)

VARIABLES
  ringOf, \* compressor_state_table: the ring of r, None if it does not run
  table,  \* page_table: the pages of r
  ring,   \* compressor_state_cache
  cache,  \* the compressed-key cache
  step    \* what the latest step of a request did: [r, from, len, acc, seen]

vars == <<n, ringOf, table, ring, cache, step>>

NoStep == [r |-> None, from |-> 0, len |-> 0, acc |-> 0, seen |-> <<>>]

Init ==
  /\ n = [r \in Reqs |-> 0]
  /\ ringOf = [r \in Reqs |-> None] /\ table = [r \in Reqs |-> None]
  /\ ring = [b \in Rings |-> [i \in 0 .. (RingSize - 1) |-> None]]
  /\ cache = [e \in Pages \X (0 .. (PageSize - 1)) |-> None]
  /\ step = NoStep

(* The key at position p if the tokens before position m are accepted.     *)
Key(r, m, p) == <<r, p, p < m>>

Group(r, m, b) == [k \in 0 .. (Ratio - 1) |-> Key(r, m, b * Ratio + k)]

-----------------------------------------------------------------------------
(* Compression: the tokens at positions n[r] .. n[r] + len - 1 are fed.    *)

(* The entry of a group: page_table[request, b // PAGE_SIZE], b % PAGE_SIZE. *)
Entry(r, b) == <<table[r][b \div PageSize], b % PageSize>>

(* Mutant: a position's ring column is counted from the start of the chunk. *)
ColumnOfChunk(r, p) == (n[r] - p) % RingSize

RingColumn(r, p) == p % RingSize

(* The group that ends at position p, pooled from the ring and the raw rows. *)
Pooled(r, acc, p) ==
  [k \in 0 .. (Ratio - 1) |->
     LET q == p - (Ratio - 1 - k)
     IN  IF q >= n[r] THEN Key(r, n[r] + acc, q) ELSE ring[ringOf[r]][RingColumn(r, q)]]

(* Mutant: only the first group a chunk completes is pooled. *)
FirstEnd(r, len) ==
  LET ends == {p \in n[r] .. (n[r] + len - 1) : (p + 1) % Ratio = 0}
  IN  IF ends = {} THEN {} ELSE {Min(ends)}

(* The rows with a compressed slot: those that complete a group.           *)
Ends(r, len) == {p \in n[r] .. (n[r] + len - 1) : (p + 1) % Ratio = 0}

Compressed(r, len, acc) ==
  [e \in DOMAIN cache |->
     IF \E p \in Ends(r, len) : e = Entry(r, p \div Ratio)
     THEN LET p == CHOOSE p \in Ends(r, len) : e = Entry(r, p \div Ratio) IN Pooled(r, acc, p)
     ELSE cache[e]]

(* The raw keys of the last rows are stored in the ring.                   *)
RingStored(r, len, acc) ==
  [ring EXCEPT ![ringOf[r]] = [i \in 0 .. (RingSize - 1) |->
     LET rows == {p \in n[r] .. (n[r] + len - 1) :
                    p >= n[r] + len - RingSize /\ RingColumn(r, p) = i}
     IN  IF rows = {} THEN @[i] ELSE Key(r, n[r] + acc, Max(rows))]]

-----------------------------------------------------------------------------

(* _run_qsa for one request: acc of len tokens are accepted afterwards.    *)
Step(r, len, acc) ==
  /\ ringOf[r] # None /\ n[r] + len <= MaxLen
  /\ cache' = Compressed(r, len, acc)
  /\ ring'  = RingStored(r, len, acc)
  /\ n' = [n EXCEPT ![r] = @ + acc]
  /\ step' = [r |-> r, from |-> n[r], len |-> len, acc |-> acc,
              seen |-> [q \in n[r] .. (n[r] + len - 1) |->
                          [b \in 0 .. (Visible(q, n[r] + len) - 1) |-> cache'[Entry(r, b)]]]]
  /\ UNCHANGED <<ringOf, table>>

Prefill(r) ==
  \E len \in 1 .. MaxChunk : n[r] + len <= PromptLen /\ Step(r, len, len)

Decode(r) ==
  \E len \in 1 .. (NumSpec + 1) : \E acc \in 1 .. len :
    n[r] >= PromptLen /\ Step(r, len, acc)

(* The scheduler gives a request a ring and pages, as they were left.      *)
Admit(r) ==
  /\ ringOf[r] = None
  /\ \E b \in Rings :
       /\ \A q \in Reqs : ringOf[q] # b
       /\ ringOf' = [ringOf EXCEPT ![r] = b]
  /\ \E t \in [0 .. (TableWidth - 1) -> Pages] :
       /\ \A i, j \in DOMAIN t : t[i] = t[j] => i = j
       /\ \A q \in Reqs, i \in DOMAIN t : ringOf[q] # None =>
            \A j \in DOMAIN table[q] : table[q][j] # t[i]
       /\ table' = [table EXCEPT ![r] = t]
  /\ UNCHANGED <<n, ring, cache, step>>

(* A request ends or is preempted. *)
Release(r) ==
  /\ ringOf[r] # None
  /\ ringOf' = [ringOf EXCEPT ![r] = None] /\ table' = [table EXCEPT ![r] = None]
  /\ n' = [n EXCEPT ![r] = 0]
  /\ step' = NoStep
  /\ UNCHANGED <<ring, cache>>

Next == \E r \in Reqs : Prefill(r) \/ Decode(r) \/ Admit(r) \/ Release(r)

Spec == Init /\ [][Next]_vars

-----------------------------------------------------------------------------
(* Properties.                                                             *)

(***************************************************************************)
(* The ring holds the keys of the group that is still being collected: no  *)
(* rejected draft or later token of the same column replaced one.          *)
(***************************************************************************)
RingIsHistory ==
  \A r \in Reqs : \A p \in (n[r] - (n[r] % Ratio)) .. (n[r] - 1) :
    ring[ringOf[r]][p % RingSize] = Key(r, n[r], p)

(***************************************************************************)
(* Every complete group of the accepted tokens is pooled from exactly its  *)
(* own keys, whatever the chunks, the rejected drafts and the former       *)
(* owners of the ring and the pages were.                                  *)
(***************************************************************************)
GroupsAreHistory ==
  \A r \in Reqs : \A b \in 0 .. (n[r] \div Ratio - 1) :
    cache[Entry(r, b)] = Group(r, n[r], b)

(***************************************************************************)
(* A query scores the groups of its own past, among them those that its    *)
(* own step completed, drafts included, and all of them.                   *)
(***************************************************************************)
QueriesSeeTheirPast ==
  \A q \in DOMAIN step.seen :
    /\ DOMAIN step.seen[q] = 0 .. ((q + 1) \div Ratio - 1)
    /\ \A b \in DOMAIN step.seen[q] :
         step.seen[q][b] = Group(step.r, step.from + step.acc, b)

(***************************************************************************)
(* Whatever the top-k selects, a query attends to each token of the        *)
(* selected groups and of its open group exactly once, to no later token,  *)
(* and to its whole past as long as that fits.                             *)
(***************************************************************************)
QueriesAttendOnce ==
  \A q \in DOMAIN step.seen :
    LET s == step.from + step.len
        past == 0 .. q
        open == {p \in past : p >= ((q + 1) \div Ratio) * Ratio}
    IN
    \A blocks \in Rankings(q, s) :
      LET tokens == Attended(blocks, q, s)
          chosen == {p \in past : \E i \in DOMAIN blocks : p \div Ratio = blocks[i]}
      IN
      /\ tokens = chosen \cup open
      /\ Cardinality(ColumnsRead(blocks, q, s)) = Cardinality(tokens)
      /\ (q + 1) \div Ratio <= BlockTopk => tokens = past

=============================================================================
