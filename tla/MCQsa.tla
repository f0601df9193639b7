-------------------------------- MODULE MCQsa --------------------------------
(* Requests and pages are interchangeable: nothing in Qsa names one. *)
EXTENDS QsaInv, TLC

Symmetry == Permutations(Reqs) \cup Permutations(Pages)

=============================================================================
