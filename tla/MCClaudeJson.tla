---------------------------- MODULE MCClaudeJson ----------------------------
(* Instances of ClaudeJson for TLC. *)
EXTENDS ClaudeJson, TLC

CONSTANTS a1

(* All sessions are of one account. *)
Homes == [s \in Session |-> a1]

(* Sessions are interchangeable, and so are preferences. *)
Symmetry == Permutations(Session) \cup Permutations(SharedKey)
=============================================================================
