--------------------------- MODULE MCPleLifecycle ---------------------------
(* Values of the constants for checking PleLifecycle. *)
EXTENDS PleLifecycleInv

TwoWorkers == {"w1", "w2"}
TwoBufs    == {"input_ids", "ngram_context"}
AnyMethod  == {"spawn", "fork"}
Any        == FaultKinds

=============================================================================
