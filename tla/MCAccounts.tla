------------------------------ MODULE MCAccounts ------------------------------
(* The model checking of Accounts: the requests do not differ.               *)
EXTENDS Accounts, TLC

Symmetry == Permutations(Requests)
=============================================================================
