------------------------------ MODULE MCAccounts ------------------------------
(* Instances of Accounts for TLC. *)
EXTENDS Accounts, TLC

Symmetry == Permutations(User) \cup Permutations(Adder) \cup Permutations(Remover)
=============================================================================
