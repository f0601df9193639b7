---------------------------- MODULE MCPleStream ----------------------------
(* PleStream on one data-parallel rank of two GPUs with two PLE layers.     *)
EXTENDS PleStreamInv

MCInputKinds == BOOLEAN

=============================================================================
