------------------------------ MODULE MCAccounts ------------------------------
(* Requests are interchangeable: no property names one.                     *)
EXTENDS Accounts, TLC

RequestSymmetry == Permutations(Requests)
=============================================================================
