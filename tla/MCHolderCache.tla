---------------------------- MODULE MCHolderCache ----------------------------
(* Instances of HolderCache for TLC. *)
EXTENDS HolderCache, TLC

(* Directories and processes are interchangeable. *)
Symmetry == Permutations(Dir) \cup Permutations(Proc)
=============================================================================
