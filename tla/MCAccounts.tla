----------------------------- MODULE MCAccounts -----------------------------
(* Constants of Accounts for TLC. *)
EXTENDS Accounts, TLC

Symmetry == Permutations(Requests) \cup Permutations(Passwords)
=============================================================================
