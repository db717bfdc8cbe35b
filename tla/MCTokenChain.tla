----------------------------- MODULE MCTokenChain -----------------------------
(* Instances of TokenChain for TLC. *)
EXTENDS TokenChain, TLC

(* Actors of a kind are interchangeable. *)
Symmetry == Permutations(Preflight) \cup Permutations(Cli) \cup Permutations(Claude)
=============================================================================
