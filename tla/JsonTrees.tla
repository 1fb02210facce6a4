------------------------------ MODULE JsonTrees -----------------------------
(***************************************************************************)
(* A program that calls the functions of cJSON on items, in any order, with   *)
(* allocations that may fail.  It passes what the functions require: items    *)
(* in use, a root to be put somewhere else than under itself, and nothing     *)
(* that a reference still shares to be changed or freed.  Where a function    *)
(* would follow a pointer that is NULL the program ends: there is no step.    *)
(***************************************************************************)
EXTENDS JsonItems, ItemTrees

CONSTANTS
    Allocs,     (* bound: how many allocations a call may be granted       *)
    Indices     (* bound: the indices that are asked for; a negative one   *)
                (* makes every function return at once                     *)

ASSUME TreesAssumption ==
    /\ IsFiniteSet(Items) /\ NULL \notin Items
    /\ NULL \notin Names \cup ConstNames
    /\ Types \subseteq {"True", "String", "Array", "Object"}
    /\ Allocs \subseteq Nat /\ Indices \subseteq Nat

VARIABLES
    at,         (* the items, by their addresses                           *)
    lists,      (* history: the children each item owns, as at links them   *)
    blocks,     (* the blocks of memory in use                             *)
    held,       (* the items the program has to put somewhere or to free   *)
    lent        (* history: of a reference, the item that it shares        *)

vars == <<at, lists, blocks, held, lent>>

Init ==
    /\ at = [i \in Items |-> Freed] /\ blocks = 0
    /\ lists = [i \in Items |-> <<>>]
    /\ held = {} /\ lent = [i \in Items |-> NULL]

Heap(allocs) == [at |-> at, live |-> blocks, allocs |-> allocs]

Alive(i) == at[i].type # "Freed"

(* An item and those under it that it owns. *)
Under(i) ==
    LET reached[n \in Nat] ==
            IF n = 0 THEN {i}
            ELSE reached[n - 1] \cup UNION {Elements(lists[j]) : j \in reached[n - 1]}
    IN  reached[Cardinality(Items)]

References == {r \in Items : Alive(r) /\ at[r].isRef}

MayFree(i) ==
    \A r \in References \ Under(i) : Under(i) \cap Under(lent[r]) = {}

(* The arrays and objects whose members may change. *)
Owners(type) ==
    {p \in Items : /\ at[p].type = type /\ ~at[p].isRef
                   /\ \A r \in References : p \notin Under(lent[r])}

MayPut(p, i) == i \in held /\ p \notin Under(i)

-----------------------------------------------------------------------------
Memory(h) ==
    /\ at' = h.at /\ blocks' = h.live
    /\ lists' = [i \in Items |-> IF h.at[i].isRef THEN <<>> ELSE Children(h.at, i)]

Becomes(h) ==
    /\ Memory(h)
    /\ lent' = [i \in Items |-> IF h.at[i].isRef THEN lent[i] ELSE NULL]

Returns(result) ==
    /\ Becomes(result.h)
    /\ held' = held \cup ({result.item} \ {NULL})

(* A call that finds no room for its first item changes nothing. *)
HasRoom == \E i \in Items : ~Alive(i)

CreateItem(allocs) ==
    \/ \E type \in Types : Returns(Create(Heap(allocs), type))
    \/ \E type \in {"True", "String"} \cap Types, count \in 1..2 :
          Returns(CreateArrayOf(Heap(allocs), type, count))

Put(h, i) == Becomes(h) /\ held' = held \ {i}

AddItemToArray ==
    \E p \in Owners("Array"), i \in held :
        MayPut(p, i) /\ Put(cJSON_AddItemToArray(Heap(0), p, i), i)

AddItemToObject ==
    \E p \in Owners("Object"), i \in held :
        /\ MayPut(p, i)
        /\ \/ \E name \in Names, allocs \in 0..1 :
                 Put(cJSON_AddItemToObject(Heap(allocs), p, name, i), i)
           \/ \E name \in ConstNames :
                 Put(cJSON_AddItemToObjectCS(Heap(0), p, name, i), i)

Shares(h, i, ref) ==
    /\ Memory(h)
    /\ lent' = [lent EXCEPT ![ref] = IF at[i].isRef THEN lent[i] ELSE i]
    /\ UNCHANGED held

(* Without memory for the reference nothing is added to an array, and the     *)
(* flags of no item are cleared after adding it to an object.                *)
AddItemReference ==
    \E i \in {i \in Items : Alive(i)}, allocs \in 1..2 :
        LET ref == create_reference(Heap(allocs), i)
        IN  /\ ref.item # NULL
            /\ \/ \E p \in Owners("Array") \ Under(i) :
                     Shares(cJSON_AddItemToArray(ref.h, p, ref.item), i, ref.item)
               \/ \E p \in Owners("Object") \ Under(i), name \in Names :
                     Shares(cJSON_AddItemToObject(ref.h, p, name, ref.item),
                            i, ref.item)

-----------------------------------------------------------------------------
AllOwners == Owners("Array") \cup Owners("Object")

(* Each way to find a member leads to this; without one nothing happens. *)
DetachOrDelete(p, i) ==
    LET rest == cJSON_DetachItemViaPointer(Heap(0), p, i)
    IN  /\ i # NULL
        /\ \/ Becomes(rest) /\ held' = held \cup {i}
           \/ MayFree(i) /\ Becomes(cJSON_Delete(rest, i)) /\ UNCHANGED held

DetachItemFromArray ==
    \E p \in AllOwners, which \in Indices :
        DetachOrDelete(p, get_array_item(at, p, which))

DetachItemFromObject ==
    \E p \in Owners("Object"), name \in Names \cup ConstNames, exact \in BOOLEAN :
        /\ ~ReadsNoName(at, p, name, exact)
        /\ DetachOrDelete(p, get_object_item(at, p, name, exact))

InsertItemInArray ==
    \E p \in Owners("Array"), which \in Indices, i \in held :
        /\ MayPut(p, i)
        /\ Put(cJSON_InsertItemInArray(Heap(0), p, which, i), i)

(* That there is an item to replace is not tested. *)
Replace(h, p, old, i) ==
    /\ old # NULL /\ MayFree(old)
    /\ Put(cJSON_ReplaceItemViaPointer(h, p, old, i), i)

ReplaceItemInArray ==
    \E p \in Owners("Array"), which \in Indices, i \in held :
        /\ MayPut(p, i)
        /\ Replace(Heap(0), p, get_array_item(at, p, which), i)

ReplaceItemInObject ==
    \E p \in Owners("Object"), i \in held, name \in Names, exact \in BOOLEAN :
        /\ MayPut(p, i)
        /\ ~ReadsNoName(at, p, name, exact)
        /\ \E allocs \in 0..1 :
              Replace(WithCopiedName(Heap(allocs), i, name), p,
                      get_object_item(at, p, name, exact), i)

Duplicate(allocs) ==
    \E i \in {i \in Items : Alive(i)}, recurse \in BOOLEAN :
        Returns(cJSON_Duplicate(Heap(allocs), i, recurse))

Delete ==
    \E i \in held :
        MayFree(i) /\ Becomes(cJSON_Delete(Heap(0), i)) /\ held' = held \ {i}

Next ==
    \/ /\ HasRoom
       /\ \E allocs \in Allocs : CreateItem(allocs) \/ Duplicate(allocs)
    \/ AddItemToArray \/ AddItemToObject \/ AddItemReference
    \/ InsertItemInArray \/ ReplaceItemInArray \/ ReplaceItemInObject
    \/ DetachItemFromArray \/ DetachItemFromObject
    \/ Delete

Spec == Init /\ [][Next]_vars

-----------------------------------------------------------------------------
(* The pointers of a list mirror one another, the first of a list and what    *)
(* the program holds have nothing before them, and no pointer leads to an     *)
(* item that was freed.                                                      *)
Linked ==
    \A i \in Items :
        LET it == at[i]
        IN  Alive(i) =>
                /\ {it.next, it.prev, it.child} \subseteq
                       {NULL} \cup {j \in Items : Alive(j)}
                /\ it.next # NULL => at[it.next].prev = i
                /\ it.prev # NULL => at[it.prev].next = i
                /\ it.child # NULL => at[it.child].prev = NULL
                /\ i \in held => it.next = NULL /\ it.prev = NULL

(* The blocks of memory in use are those of the items in use: whatever failed *)
(* for want of memory, nothing is lost and nothing is freed twice.            *)
MemoryCounted == blocks = Cardinality(Blocks(at))

(* The calls do to the lists of children what their names say, and the items  *)
(* in use stay a forest whose roots the program holds.                       *)
Forest == INSTANCE ItemForest WITH
    live <- {i \in Items : Alive(i)},
    kids <- lists

RefinesForest == Forest!Spec
=============================================================================
