---------------------------- MODULE MCStickyPins ----------------------------
(* Instances of StickyPins for TLC. *)
EXTENDS StickyPins, TLC

Symmetry == Permutations(Proc)
=============================================================================
