----------------------------- MODULE MCAccounts -----------------------------
(* Three users, two passwords and a ladder of privileges below the root's. *)
EXTENDS Accounts, TLC

Symmetry == Permutations(Users) \cup Permutations(Passwords)
=============================================================================
