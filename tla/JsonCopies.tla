------------------------------ MODULE JsonCopies ----------------------------
(***************************************************************************)
(* The copies that cJSON_Duplicate makes of the items of JsonTrees, and the   *)
(* comparison of cJSON_Compare by which they are equal to the originals.      *)
(***************************************************************************)
EXTENDS JsonTrees

CONSTANT Spares   (* bound: items that only a copy that is looked at may take *)

(* Of arrays the elements that both have are compared, of objects the members *)
(* of the first.                                                            *)
RECURSIVE cJSON_Compare(_, _, _, _)
cJSON_Compare(cells, a, b, caseSensitive) ==
    LET listA == Children(cells, a)
        listB == Children(cells, b)
        Both  == IF Len(listA) < Len(listB) THEN Len(listA) ELSE Len(listB)
        Other(c) == get_object_item(cells, b, cells[c].name, caseSensitive)
    IN  /\ a # NULL /\ b # NULL
        /\ cells[a].type = cells[b].type
        /\ \/ a = b
           \/ cells[a].type = "True"
           \/ cells[a].type = "String" /\ cells[a].text /\ cells[b].text
           \/ /\ cells[a].type = "Array"
              /\ \A n \in 1..Both :
                    cJSON_Compare(cells, listA[n], listB[n], caseSensitive)
           \/ /\ cells[a].type = "Object"
              /\ \A n \in 1..Len(listA) :
                    cJSON_Compare(cells, listA[n], Other(listA[n]), caseSensitive)

-----------------------------------------------------------------------------
(* A copy that runs out of memory anywhere gives all of it back and changes   *)
(* nothing.  One that succeeds is equal to what it was made of, unless names   *)
(* that are missing or equal make a member the wrong one to compare with.     *)
RECURSIVE WellNamed(_)
WellNamed(i) ==
    LET list == Children(at, i)
    IN  /\ \A n \in 1..Len(list) : WellNamed(list[n])
        /\ at[i].type = "Object" =>
              \A m, n \in 1..Len(list) :
                  /\ at[list[m]].name # NULL
                  /\ at[list[m]].name = at[list[n]].name => m = n

Roomy(allocs) ==
    [Heap(allocs) EXCEPT !.at = [i \in Items \cup Spares |->
                                    IF i \in Items THEN at[i] ELSE Freed]]

CopiesAreWhole ==
    \A i \in held, allocs \in Allocs :
        LET copy == cJSON_Duplicate(Roomy(allocs), i, TRUE)
        IN  IF copy.item = NULL
            THEN copy.h.at = Roomy(0).at /\ copy.h.live = blocks
            ELSE WellNamed(i) => cJSON_Compare(copy.h.at, i, copy.item, TRUE)
=============================================================================
