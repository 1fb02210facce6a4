----------------------------- MODULE ItemForest -----------------------------
(***************************************************************************)
(* What the functions of cJSON on items promise: the items in use are a      *)
(* forest of ordered trees, and the program holds the roots.                *)
(***************************************************************************)
EXTENDS ItemTrees

VARIABLES
    live,    (* the items in use                                           *)
    kids,    (* the children of each item, in order                        *)
    held     (* the items the program holds: those that are no one's child *)

vars == <<live, kids, held>>

Init ==
    /\ live = {} /\ held = {}
    /\ kids = [i \in Items |-> <<>>]

-----------------------------------------------------------------------------
Create(N, i) ==
    /\ N \cap live = {}
    /\ live' = live \cup N
    /\ held' = held \cup {i}
    /\ kids' \in [Items -> Seq(Items)]
    /\ \A j \in Items \ N : kids'[j] = kids[j]
    /\ IsNewTree(N, kids', i)

Insert(p, k, i) ==
    /\ i \in held /\ p \in live
    /\ UNCHANGED live
    /\ held' = held \ {i}
    /\ kids' = [kids EXCEPT ![p] = Inserted(@, k, i)]
    /\ p \notin Tree(kids, i)

(* A new item without children is put at the end of a list. *)
InsertNew(p, i) ==
    /\ i \in Items \ live /\ p \in live
    /\ live' = live \cup {i}
    /\ kids' = [kids EXCEPT ![p] = Inserted(@, Len(@) + 1, i)]
    /\ UNCHANGED held

Detach(p, k) ==
    /\ held' = held \cup {kids[p][k]}
    /\ UNCHANGED live
    /\ kids' = [kids EXCEPT ![p] = Without(@, k)]

Delete(i) ==
    /\ i \in held
    /\ held' = held \ {i}
    /\ live' = live \ Tree(kids, i)
    /\ kids' = Pruned(kids, Tree(kids, i))

DeleteFrom(p, k) ==
    LET rest == [kids EXCEPT ![p] = Without(@, k)]
        gone == Tree(rest, kids[p][k])
    IN  /\ UNCHANGED held
        /\ live' = live \ gone
        /\ kids' = Pruned(rest, gone)

Replace(p, k, i) ==
    LET rest == [kids EXCEPT ![p] = Inserted(Without(@, k), k, i)]
        gone == Tree(rest, kids[p][k])
    IN  /\ i \in held
        /\ held' = held \ {i}
        /\ live' = live \ gone
        /\ kids' = Pruned(rest, gone)
        /\ p \notin Tree(kids, i)

Next ==
    \/ \E N \in SUBSET Items : \E i \in N : Create(N, i)
    \/ \E p \in live, i \in held : \E k \in 1..(Len(kids[p]) + 1) : Insert(p, k, i)
    \/ \E p \in live, i \in Items : InsertNew(p, i)
    \/ \E p \in live : \E k \in 1..Len(kids[p]) :
          Detach(p, k) \/ DeleteFrom(p, k) \/ \E i \in held : Replace(p, k, i)
    \/ \E i \in held : Delete(i)

Spec == Init /\ [][Next]_vars

-----------------------------------------------------------------------------
TypeOK ==
    /\ live \subseteq Items
    /\ held \subseteq live
    /\ kids \in [Items -> Seq(Items)]

(* No item is in two places: in two lists, twice in one, or in a list while   *)
(* the program holds it.  Whoever frees or moves an item does it for all.     *)
OnePlace ==
    /\ \A a, b \in Items : \A m \in 1..Len(kids[a]), n \in 1..Len(kids[b]) :
          kids[a][m] = kids[b][n] => a = b /\ m = n
    /\ \A a \in Items : Elements(kids[a]) \cap held = {}

(* Only items in use have children and are children. *)
OnlyLive ==
    \A a \in Items : /\ a \notin live => kids[a] = <<>>
                     /\ Elements(kids[a]) \subseteq live

(* Nothing is lost: every item in use is under one the program holds, which   *)
(* cJSON_Delete would free.                                                 *)
NothingLost == \A j \in live : \E i \in held : j \in Tree(kids, i)
=============================================================================
