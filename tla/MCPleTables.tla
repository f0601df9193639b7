------------------------------ MODULE MCPleTables ------------------------------
(* Two layers in two parts, and one layer whose last part is empty. *)
EXTENDS PleTablesInv

SmallModels == {[layers |-> {0, 1}, parts |-> 2], [layers |-> {0}, parts |-> 4]}
OneLayer == {[layers |-> {0}, parts |-> 2]}

=============================================================================
