------------------------------ MODULE MCAccounts ------------------------------
(* TLC instances of Accounts; the .cfg files give the constants.           *)
EXTENDS Accounts, TLC

Symmetry == Permutations(Workers)
=============================================================================
