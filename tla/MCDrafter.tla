------------------------------ MODULE MCDrafter ------------------------------
(* Values of the constants for checking Drafter. *)
EXTENDS DrafterInv

(* Requests are interchangeable: nothing names one. *)
Symmetry == Permutations(Reqs)

(* No file, foreign ids, a proper part of the vocabulary, all of it. *)
MCFiles  == {{}, {-1, 7}, {0, 2, 9}, {1}, 0 .. 2}
MCScales == {-1, 1, 2}

=============================================================================
