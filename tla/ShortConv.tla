------------------------------ MODULE ShortConv ------------------------------
(***************************************************************************)
(* The cached state of the PLE short convolution (ple_layer_patched.py).   *)
(*                                                                         *)
(* A request owns a slot of the paged conv_state, in which the last inputs *)
(* of its history are kept between steps.  A step feeds the tokens of a    *)
(* batch of requests: one token on the decode path, a chunk on the prefill *)
(* path, or the last token and its drafts on the speculative path, which   *)
(* leaves all candidates in the state and rolls back to the accepted ones  *)
(* in the next step.  Slots are reused without being cleared.              *)
(*                                                                         *)
(* Which requests run, on which path, and how many drafts are accepted is  *)
(* the scheduler's and the metadata builder's choice; both are outside of  *)
(* the repository.  This module implements ConvHistory.                    *)
(***************************************************************************)
EXTENDS ConvHistory

CONSTANTS
  NumSlots,   \* slots besides the null slot
  NumSpec,    \* num_spec_tokens
  PromptLen,  \* tokens of a prompt
  PlainAfterSpec  \* a request may run without drafts after it ran with drafts

ASSUME ShortConvAssumption ==
  /\ NumSlots \in Nat /\ NumSpec \in Nat /\ PromptLen \in Nat \ {0}
  /\ NumSpec < MaxQuery
  /\ PlainAfterSpec \in BOOLEAN

Null  == 0  \* NULL_BLOCK_ID
Slots == 0 .. NumSlots
Capacity == StateLen + NumSpec
Width    == StateLen + MaxQuery

VARIABLES
  slot,      \* state_indices: the slot of a request, Null if it does not run
  accepted,  \* num_accepted_tokens: of the request's latest step
  state      \* conv_state

vars == <<n, outs, slot, accepted, state>>

Init ==
  /\ HistoryInit
  /\ slot = [r \in Reqs |-> Null]
  /\ accepted = [r \in Reqs |-> 1]
  /\ state = [s \in Slots |-> [i \in 1 .. Capacity |-> Zero]]

-----------------------------------------------------------------------------
(* What a request may do in a step. *)

Idle == [path |-> "none", len |-> 0, acc |-> 0]

(* Tokens that are accepted as soon as they are computed. *)
Plain(r) ==
  {p \in [path : {"decode", "prefill"}, len : 1 .. MaxQuery, acc : 1 .. MaxQuery] :
     /\ p.acc = p.len
     /\ p.path = "decode" => p.len = 1
     /\ IF n[r] < PromptLen THEN n[r] + p.len <= PromptLen
        ELSE p.path = "decode" /\ (accepted[r] = 1 \/ PlainAfterSpec)}

(* The latest token and at least one draft. *)
Drafted(r) ==
  {p \in [path : {"spec"}, len : 2 .. (NumSpec + 1), acc : 1 .. (NumSpec + 1)] :
     p.acc <= p.len /\ n[r] >= PromptLen}

Parts(r) ==
  {Idle} \cup {p \in Plain(r) \cup Drafted(r) : slot[r] # Null /\ n[r] + p.len <= MaxLen}

-----------------------------------------------------------------------------
(* The three paths: the window they start from and the state they leave.   *)

(* Mutant: the flag is ignored. *)
CachedWindowAlways(r) == [i \in 1 .. StateLen |-> state[slot[r]][i]]

(* Decode and prefill: the cached columns, or zeros for a new request.     *)
CachedWindow(r) ==
  [i \in 1 .. StateLen |-> IF n[r] > 0 THEN state[slot[r]][i] ELSE Zero]

(* Mutant: clamped one column too early. *)
RollbackClamped(r) ==
  IF accepted[r] < 1 THEN 0 ELSE IF accepted[r] > NumSpec THEN NumSpec - 1 ELSE accepted[r] - 1

(* (num_accepted_tokens - 1).clamp_(0, max_len - 1)                        *)
Rollback(r) ==
  IF accepted[r] < 1 THEN 0 ELSE IF accepted[r] - 1 > NumSpec THEN NumSpec ELSE accepted[r] - 1

SpecWindow(r) == [i \in 1 .. StateLen |-> state[slot[r]][Rollback(r) + i]]

(* The window and the tokens of the step, padded to the packing width.     *)
Extended(r, p) ==
  LET window == IF p.path = "spec" THEN SpecWindow(r) ELSE CachedWindow(r)
  IN  [i \in 1 .. Width |->
         IF i <= StateLen THEN window[i]
         ELSE IF i <= StateLen + p.len THEN Fed(r, n[r], p.acc, n[r] + i - StateLen)
         ELSE Zero]

(* F.conv1d over it: one output for every token of the step.               *)
Outputs(r, p) ==
  LET h == Extended(r, p)
  IN  [j \in 1 .. p.len |-> [k \in 1 .. Kernel |-> h[j + (k - 1) * Dilation]]]

(* Mutant: the columns that follow a full chunk, whatever its length. *)
PlainStateFull(r, p) ==
  LET h == Extended(r, p)
  IN  [i \in 1 .. Capacity |-> IF i <= StateLen THEN h[MaxQuery + i] ELSE state[slot[r]][i]]

(* Decode and prefill keep the last columns, at the front of the slot.     *)
PlainState(r, p) ==
  LET h == Extended(r, p)
  IN  [i \in 1 .. Capacity |-> IF i <= StateLen THEN h[p.len + i] ELSE state[slot[r]][i]]

(* Mutant: one column less is updated. *)
SpecStateShort(r, p) ==
  LET h == Extended(r, p)
  IN  [i \in 1 .. Capacity |-> IF i < StateLen + p.len - 1 THEN h[i + 1] ELSE state[slot[r]][i]]

(* The speculative path keeps every candidate.                             *)
SpecState(r, p) ==
  LET h == Extended(r, p)
  IN  [i \in 1 .. Capacity |-> IF i < StateLen + p.len THEN h[i + 1] ELSE state[slot[r]][i]]

NextState(r, p) == IF p.path = "spec" THEN SpecState(r, p) ELSE PlainState(r, p)

-----------------------------------------------------------------------------

(* _short_conv_dilated_dispatch for one batch. *)
Step ==
  \E batch \in [Reqs -> UNION {Parts(r) : r \in Reqs}] :
    /\ \A r \in Reqs : batch[r] \in Parts(r)
    /\ n'    = [r \in Reqs |-> n[r] + batch[r].acc]
    /\ outs' = [r \in Reqs |-> Outputs(r, batch[r])]
    /\ accepted' = [r \in Reqs |->
                      IF batch[r].path = "none" THEN accepted[r]
                      ELSE IF batch[r].path = "spec" THEN batch[r].acc ELSE 1]
    /\ state' = [s \in Slots |->
                   IF \E r \in Reqs : slot[r] = s /\ batch[r] # Idle
                   THEN LET r == CHOOSE r \in Reqs : slot[r] = s /\ batch[r] # Idle
                        IN  NextState(r, batch[r])
                   ELSE state[s]]
    /\ slot' = slot

(* The scheduler gives a waiting request a free slot, as it was left.      *)
Admit(r) ==
  /\ slot[r] = Null
  /\ \E s \in Slots \ {Null} :
       /\ \A q \in Reqs : slot[q] # s
       /\ slot' = [slot EXCEPT ![r] = s]
  /\ UNCHANGED <<n, outs, accepted, state>>

(* A request ends or is preempted: computed tokens count from zero again.  *)
Release(r) ==
  /\ slot[r] # Null
  /\ slot' = [slot EXCEPT ![r] = Null]
  /\ n' = [n EXCEPT ![r] = 0]
  /\ accepted' = [accepted EXCEPT ![r] = 1]
  /\ UNCHANGED <<outs, state>>

Next == Step \/ \E r \in Reqs : Admit(r) \/ Release(r)

Spec == Init /\ [][Next]_vars

-----------------------------------------------------------------------------
(* Properties.                                                             *)

(* Types: in particular no step reads or writes past the end of a slot.     *)
TypeOK ==
  /\ n \in [Reqs -> 0 .. MaxLen]
  /\ slot \in [Reqs -> Slots]
  /\ accepted \in [Reqs -> 1 .. (NumSpec + 1)]
  /\ state \in [Slots -> [1 .. Capacity -> Inputs]]

(***************************************************************************)
(* After the rollback that the next speculative step makes, the slot of a  *)
(* request holds the last inputs of its accepted history: none of a        *)
(* rejected draft, of an earlier owner of the slot, or of a column the     *)
(* shorter of two speculative steps did not write.                         *)
(***************************************************************************)
WindowIsHistory ==
  \A r \in Reqs : n[r] > 0 =>
    \A i \in 1 .. StateLen :
      state[slot[r]][accepted[r] - 1 + i] = Fed(r, n[r], 0, n[r] - StateLen + i)

(* Cached steps compute the convolution over the request's whole history.  *)
ImplementsHistory == HistorySpec

=============================================================================
