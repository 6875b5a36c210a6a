----------------------------- MODULE MCAccounts -----------------------------
(* Instances of Accounts for TLC: two accounts, which are interchangeable. *)
EXTENDS Accounts, TLC

Swap == Permutations(Account)
=============================================================================
