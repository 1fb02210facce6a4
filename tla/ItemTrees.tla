------------------------------ MODULE ItemTrees -----------------------------
(***************************************************************************)
(* Ordered trees of items: the list of the children of each item, and what is *)
(* made of such lists.                                                      *)
(***************************************************************************)
EXTENDS Integers, Sequences, FiniteSets

CONSTANT Items

(* The elements of a list; a list without one, and with one more. *)
Elements(s) == {s[n] : n \in 1..Len(s)}

Without(s, k) ==
    [n \in 1..(Len(s) - 1) |-> IF n < k THEN s[n] ELSE s[n + 1]]

Inserted(s, k, i) ==
    [n \in 1..(Len(s) + 1) |->
        IF n < k THEN s[n] ELSE IF n = k THEN i ELSE s[n - 1]]

(* The items of the tree under i: every set that has i and, with an item,    *)
(* its children has them all.                                               *)
Closed(k, S) == \A j \in S : Elements(k[j]) \subseteq S

Tree(k, i) ==
    {j \in Items : \A S \in SUBSET Items : i \in S /\ Closed(k, S) => j \in S}

(* The items of a tree are given back: the children they had are forgotten.  *)
Pruned(k, gone) == [j \in Items |-> IF j \in gone THEN <<>> ELSE k[j]]

(* A tree of new items N under i, each in one place; the rest stays. *)
IsNewTree(N, k, i) ==
    /\ i \in N
    /\ \A j \in N : Elements(k[j]) \subseteq N \ {i}
    /\ \A a, b \in N : \A m \in 1..Len(k[a]), n \in 1..Len(k[b]) :
          k[a][m] = k[b][n] => a = b /\ m = n
    /\ N \subseteq Tree(k, i)
=============================================================================
