---------------------------- MODULE MCPleOffload ----------------------------
(* Values of the constants for checking PleOffload. *)
EXTENDS PleOffloadInv

OneRank  == {0}
TwoRanks == {0, 1}
Stops    == {"stop"}
AllFaults == {"stop", "timeout"}

=============================================================================
