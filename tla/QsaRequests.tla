----------------------------- MODULE QsaRequests -----------------------------
(***************************************************************************)
(* The requests whose tokens the sparse attention serves, as the target    *)
(* model (Qsa) and the drafter (Drafter) meet them: a prompt in chunks,    *)
(* then the last token and up to NumSpec drafts a step.                    *)
(***************************************************************************)
EXTENDS QsaSelect

CONSTANTS
  Reqs,
  MaxLen,     \* bound on the tokens of a request
  PromptLen,
  MaxChunk,   \* bound on the tokens of a prefill chunk
  NumSpec     \* drafts of a step

ASSUME RequestsAssumption ==
  MaxLen \in Nat /\ PromptLen \in Nat \ {0} /\ MaxChunk \in Nat /\ NumSpec \in Nat

VARIABLE n    \* n[r]: tokens of r that are computed and accepted

=============================================================================
