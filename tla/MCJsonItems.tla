---------------------------- MODULE MCJsonItems -----------------------------
(* JsonTrees and JsonCopies with two names that differ in the case of their letter. *)
EXTENDS JsonCopies, TLC

MCLower == [name \in Names \cup ConstNames |-> "letter"]

MCIndices == 0..2

Symmetry == Permutations(Items)
=============================================================================
