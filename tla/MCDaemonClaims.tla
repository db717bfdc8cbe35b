--------------------------- MODULE MCDaemonClaims ---------------------------
(* Instances of DaemonClaims for TLC. *)
EXTENDS DaemonClaims, TLC

(* Accounts, clients and migrators are interchangeable. *)
Symmetry == Permutations(Account) \cup Permutations(Client) \cup Permutations(Migrator)
=============================================================================
