----------------------------- MODULE MCShirtStore -----------------------------
(* TLC instances of ShirtStore; the .cfg files give the constants.         *)
EXTENDS ShirtStore, TLC

(* A POST may name an id that was used before, or a negative one. *)
IdsOrNegative == {-1, 1, 2}
PostedIdsOrNegative == {-1, 0, 1}

Symmetry == Permutations(Workers)
=============================================================================
