----------------------------- MODULE ConvHistory -----------------------------
(***************************************************************************)
(* What the PLE short convolution promises: the output of a token is the   *)
(* dilated causal convolution over all earlier inputs of its own request,  *)
(* as _short_conv_fallback computes it for a whole sequence at once,       *)
(* however the tokens were cut into steps.                                 *)
(*                                                                         *)
(* An input is named <<request, position, accepted>>: the input of a       *)
(* rejected draft differs from that of the token accepted later at the     *)
(* same position.  A convolution is the sequence of the inputs under its   *)
(* taps.                                                                   *)
(***************************************************************************)
EXTENDS Integers

CONSTANTS
  Reqs,      \* requests
  Kernel,    \* conv_kernel_size
  Dilation,  \* short_conv_dilation
  MaxLen,    \* bound on the tokens of a request
  MaxQuery   \* bound on the tokens a request feeds in one step

ASSUME ConvAssumption ==
  /\ Kernel \in Nat \ {0} /\ Dilation \in Nat \ {0}
  /\ MaxLen \in Nat /\ MaxQuery \in Nat

StateLen == (Kernel - 1) * Dilation

Zero   == <<>>
Inputs == {Zero} \cup (Reqs \X (1 .. MaxLen) \X BOOLEAN)

VARIABLES
  n,    \* n[r]: how many tokens of r are computed and accepted
  outs  \* outs[r]: outputs of the tokens r fed in the latest step

historyVars == <<n, outs>>

(* The input at position p when acc of the tokens after position m are accepted. *)
Fed(r, m, acc, p) == IF p < 1 THEN Zero ELSE <<r, p, p <= m + acc>>

(* The output of the j-th of len tokens fed after the first m. *)
Conv(r, m, acc, j) ==
  [k \in 1 .. Kernel |-> Fed(r, m, acc, m + j - (Kernel - k) * Dilation)]

HistoryInit ==
  /\ n = [r \in Reqs |-> 0]
  /\ outs = [r \in Reqs |-> <<>>]

(* Some requests feed some tokens, of which a prefix is accepted. *)
Feed ==
  /\ n' \in [Reqs -> 0 .. MaxLen]
  /\ \A r \in Reqs : \E len \in 0 .. MaxQuery : \E acc \in 0 .. len :
       /\ n'[r] = n[r] + acc
       /\ outs'[r] = [j \in 1 .. len |-> Conv(r, n[r], acc, j)]

(* A request ends, or is preempted and will be computed anew. *)
Forget ==
  /\ \E r \in Reqs : n' = [n EXCEPT ![r] = 0]
  /\ outs' = outs

HistorySpec == HistoryInit /\ [][Feed \/ Forget]_historyVars

=============================================================================
