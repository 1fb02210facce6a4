----------------------------- MODULE ItemLinks ------------------------------
(***************************************************************************)
(* The items of cJSON.c as they lie in memory, with the pointers that link    *)
(* them, and the functions that follow and change the pointers of a list.  A  *)
(* heap is the items, the blocks of memory in use and how many allocations    *)
(* will still be granted.                                                   *)
(***************************************************************************)
EXTENDS Integers, Sequences, FiniteSets

CONSTANTS
    NULL,
    Lower       (* what tolower makes of each name                         *)

(* The fields of struct cJSON.  text tells that there is a valuestring.      *)
Struct(type) ==
    [type |-> type, isRef |-> FALSE, text |-> FALSE, name |-> NULL,
     constName |-> FALSE, next |-> NULL, prev |-> NULL, child |-> NULL]

Freed == Struct("Freed")

(* What a function returns: the heap and an item or NULL. *)
Result(h, item) == [h |-> h, item |-> item]

(* The blocks an item owns besides itself. *)
OwnsText(it) == it.text /\ ~it.isRef
OwnsName(it) == it.name # NULL /\ ~it.constName
BlocksOf(it) ==
    1 + (IF OwnsText(it) THEN 1 ELSE 0) + (IF OwnsName(it) THEN 1 ELSE 0)

(* The blocks of memory that the items in use are made of. *)
Blocks(at) ==
    {block \in (DOMAIN at) \X {"item", "text", "name"} :
        LET it == at[block[1]]
        IN  /\ it.type # "Freed"
            /\ block[2] = "text" => OwnsText(it)
            /\ block[2] = "name" => OwnsName(it)}

Granted(h) == h.allocs > 0
Taken(h) == [h EXCEPT !.live = @ + 1, !.allocs = @ - 1]

(* Any item that is free will do: nothing points to it. *)
FreeItems(h) == {i \in DOMAIN h.at : h.at[i].type = "Freed"}

cJSON_New_Item(h, type) ==
    LET i == CHOOSE i \in FreeItems(h) : TRUE
    IN  IF ~Granted(h) \/ FreeItems(h) = {} THEN Result(h, NULL)
        ELSE Result([Taken(h) EXCEPT !.at[i] = Struct(type)], i)

-----------------------------------------------------------------------------
(* The items from one on, by their next pointers. *)
ListFrom(at, i) ==
    LET walk[n \in Nat] ==
            IF n = 0 THEN i
            ELSE LET j == walk[n - 1]
                 IN  IF j = NULL THEN NULL ELSE at[j].next
        length == CHOOSE n \in 0..Cardinality(DOMAIN at) :
                     walk[n] = NULL /\ \A m \in 0..(n - 1) : walk[m] # NULL
    IN  [n \in 1..length |-> walk[n - 1]]

Children(at, p) == ListFrom(at, at[p].child)

get_array_item(at, p, index) ==
    LET list == Children(at, p)
    IN  IF index < Len(list) THEN list[index + 1] ELSE NULL

(* A member without a name has none that is equal but for the case. *)
SameName(a, b, caseSensitive) ==
    IF caseSensitive THEN a = b ELSE b # NULL /\ Lower[a] = Lower[b]

get_object_item(at, p, name, caseSensitive) ==
    LET list == Children(at, p)
        Fits(n) == SameName(name, at[list[n]].name, caseSensitive)
    IN  IF name = NULL \/ ~\E n \in 1..Len(list) : Fits(n) THEN NULL
        ELSE list[CHOOSE n \in 1..Len(list) :
                      Fits(n) /\ \A m \in 1..(n - 1) : ~Fits(m)]

(* The exact comparison reads through the name a member does not have. *)
ReadsNoName(at, p, name, caseSensitive) ==
    LET list == Children(at, p)
    IN  /\ caseSensitive
        /\ \E n \in 1..Len(list) :
              /\ at[list[n]].name = NULL
              /\ \A m \in 1..(n - 1) : at[list[m]].name # name

-----------------------------------------------------------------------------
SetNext(h, i, to)  == [h EXCEPT !.at[i].next = to]
SetPrev(h, i, to)  == [h EXCEPT !.at[i].prev = to]
SetChild(h, i, to) == [h EXCEPT !.at[i].child = to]

suffix_object(h, prev, i) == SetPrev(SetNext(h, prev, i), i, prev)

LastOf(list) == list[Len(list)]

cJSON_AddItemToArray(h, p, i) ==
    IF i = NULL THEN h
    ELSE IF h.at[p].child = NULL THEN SetChild(h, p, i)
    ELSE suffix_object(h, LastOf(Children(h.at, p)), i)

(* Seeded fault: the name the item had is forgotten. *)
RenamedOver(h, i, name, isConst) ==
    [h EXCEPT !.at[i].name = name, !.at[i].constName = isConst]

(* The name the item had is freed if it owns it. *)
Renamed(h, i, name, isConst) ==
    [h EXCEPT !.at[i].name = name, !.at[i].constName = isConst,
              !.live = @ - (IF OwnsName(h.at[i]) THEN 1 ELSE 0)]

cJSON_AddItemToObjectCS(h, p, name, i) ==
    cJSON_AddItemToArray(Renamed(h, i, name, TRUE), p, i)

(* The copy of the name, NULL if there is no memory for it, replaces it. *)
WithCopiedName(h, i, name) ==
    IF Granted(h) THEN Renamed(Taken(h), i, name, FALSE)
                  ELSE Renamed(h, i, NULL, FALSE)

cJSON_AddItemToObject(h, p, name, i) ==
    cJSON_AddItemToArray(WithCopiedName(h, i, name), p, i)

(* A reference shares the children and the valuestring. *)
create_reference(h, i) ==
    LET new == cJSON_New_Item(h, h.at[i].type)
    IN  IF new.item = NULL THEN new
        ELSE Result([new.h EXCEPT !.at[new.item] =
                        [h.at[i] EXCEPT !.isRef = TRUE, !.name = NULL,
                                        !.next = NULL, !.prev = NULL]], new.item)

-----------------------------------------------------------------------------
(* What points to an item from beside or above it points elsewhere. *)
Repointed(h, p, i, forward, back) ==
    LET it     == h.at[i]
        before == IF it.prev = NULL THEN h ELSE SetNext(h, it.prev, forward)
        both   == IF it.next = NULL THEN before ELSE SetPrev(before, it.next, back)
    IN  IF h.at[p].child = i THEN SetChild(both, p, forward) ELSE both

Alone(h, i) == SetNext(SetPrev(h, i, NULL), i, NULL)

(* Seeded fault: the item still points to those that were beside it. *)
DetachLinked(h, p, i) ==
    IF i = NULL THEN h ELSE Repointed(h, p, i, h.at[i].next, h.at[i].prev)

(* Nothing is detached when there is no such item. *)
cJSON_DetachItemViaPointer(h, p, i) ==
    IF i = NULL THEN h
    ELSE Alone(Repointed(h, p, i, h.at[i].next, h.at[i].prev), i)

(* A new item between two others, of which the first may be missing. *)
LinkedBetween(h, p, before, i, after) ==
    LET beside == SetPrev(SetPrev(SetNext(h, i, after), i, before), after, i)
    IN  IF h.at[p].child = after THEN SetChild(beside, p, i)
                                 ELSE SetNext(beside, before, i)

cJSON_InsertItemInArray(h, p, which, new) ==
    LET after == get_array_item(h.at, p, which)
    IN  IF after = NULL THEN cJSON_AddItemToArray(h, p, new)
        ELSE LinkedBetween(h, p, h.at[after].prev, new, after)

(* The new item is linked in the place of another, which is then alone. *)
Replaced(h, p, i, new) ==
    LET linked == SetPrev(SetNext(h, new, h.at[i].next), new, h.at[i].prev)
    IN  Alone(Repointed(linked, p, i, new, new), i)
=============================================================================
