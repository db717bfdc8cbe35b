--------------------------- MODULE MCMountHolder ---------------------------
(* Instances of MountHolder for TLC. *)
EXTENDS MountHolder, TLC

(* Directories, processes and connections are interchangeable. *)
Symmetry == Permutations(Dir) \cup Permutations(Proc) \cup Permutations(Req)
=============================================================================
