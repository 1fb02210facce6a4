------------------------------ MODULE JsonItems -----------------------------
(***************************************************************************)
(* The functions of cJSON.c that create, copy, compare and free trees of      *)
(* items.                                                                   *)
(***************************************************************************)
EXTENDS ItemLinks, SequencesExt

CONSTANTS
    Types,      (* bound: some of "True", "String", "Array" and "Object"   *)
    Names,      (* the names that are copied for a member                  *)
    ConstNames  (* the constant ones, which it only points to              *)

(* Seeded fault: what is under an item is not freed with it. *)
DeleteAlone(h, i) ==
    IF i = NULL THEN h
    ELSE [h EXCEPT !.at[i] = Freed, !.live = @ - BlocksOf(h.at[i])]

(* cJSON_Delete calls itself for the children of an item before it frees it;  *)
(* callers are the calls under way, each with its item and the one after it.  *)
DeleteStep(d) ==
    LET it   == d.h.at[d.item]
        last == LastOf(d.callers)
    IN  IF d.item # NULL
        THEN [d EXCEPT !.item    = IF it.isRef THEN NULL ELSE it.child,
                       !.callers = Append(@, [item |-> d.item, next |-> it.next])]
        ELSE [h       |-> [d.h EXCEPT !.at[last.item] = Freed,
                                      !.live = @ - BlocksOf(d.h.at[last.item])],
              item    |-> last.next,
              callers |-> Front(d.callers)]

(* A list is freed from its first item on.  Every item is met twice. *)
cJSON_Delete(h, i) ==
    LET run[n \in Nat] ==
            IF n = 0 THEN [h |-> h, item |-> i, callers |-> <<>>]
            ELSE LET d == run[n - 1]
                 IN  IF d.item = NULL /\ d.callers = <<>> THEN d ELSE DeleteStep(d)
    IN  run[2 * Cardinality(DOMAIN h.at)].h

(* The item is freed once the new one is linked in its place. *)
cJSON_ReplaceItemViaPointer(h, p, i, new) ==
    cJSON_Delete(Replaced(h, p, i, new), i)

-----------------------------------------------------------------------------
(* cJSON_CreateTrue, CreateString, CreateArray, CreateObject and the others   *)
(* that differ in the type: a string is given up without its copy.            *)
Create(h, type) ==
    LET new == cJSON_New_Item(h, type)
    IN  IF new.item = NULL \/ type # "String" THEN new
        ELSE IF Granted(new.h)
        THEN Result([Taken(new.h) EXCEPT !.at[new.item].text = TRUE], new.item)
        ELSE Result(cJSON_Delete(new.h, new.item), NULL)

(* What comes first in a list becomes the child, and the rest follows last.   *)
Behind(h, p, last, i) ==
    IF last = NULL THEN SetChild(h, p, i) ELSE suffix_object(h, last, i)

(* cJSON_CreateIntArray, FloatArray, DoubleArray and StringArray: the array   *)
(* is given up with what is in it when an element cannot be made.             *)
FillStep(f, type) ==
    LET new == Create(f.h, type)
    IN  IF new.item = NULL
        THEN [h |-> cJSON_Delete(new.h, f.item), item |-> NULL, last |-> NULL]
        ELSE [h |-> Behind(new.h, f.item, f.last, new.item), item |-> f.item,
              last |-> new.item]

CreateArrayOf(h, type, count) ==
    LET array == Create(h, "Array")
        fill[n \in Nat] ==
            IF n = 0 THEN [h |-> array.h, item |-> array.item, last |-> NULL]
            ELSE LET f == fill[n - 1]
                 IN  IF f.item = NULL THEN f ELSE FillStep(f, type)
    IN  Result(fill[count].h, fill[count].item)

(* Seeded fault: what was copied before the memory ran out is kept. *)
FailedKept(h, new) == Result(h, NULL)

(* The label fail: the copy is deleted as far as it goes. *)
Failed(h, new) == Result(cJSON_Delete(h, new), NULL)

(* The values of an item; the name is shared if it is constant. *)
CopiedValues(h, i, new) ==
    LET it    == h.at[i]
        plain == [h EXCEPT !.at[new].constName = it.constName]
        text  == IF ~it.text THEN plain
                 ELSE [Taken(plain) EXCEPT !.at[new].text = TRUE]
        named == IF it.name = NULL THEN text
                 ELSE [(IF it.constName THEN text ELSE Taken(text))
                          EXCEPT !.at[new].name = it.name]
    IN  IF it.text /\ ~Granted(plain) THEN Failed(plain, new)
        ELSE IF OwnsName(it) /\ ~Granted(text) THEN Failed(text, new)
        ELSE Result(named, new)

(* An item without what is under it. *)
Copied(h, i) ==
    LET new == cJSON_New_Item(h, h.at[i].type)
    IN  IF new.item = NULL THEN new ELSE CopiedValues(new.h, i, new.item)

(* cJSON_Duplicate calls itself for each child of an item.  callers are the   *)
(* calls under way: what each has made, the child it is about and the copy of *)
(* the one before.  Once a call has failed, all of them do.                  *)
Calls(made, child) == [item |-> made, child |-> child, last |-> NULL]

CopyChild(c, call) ==
    LET copy == Copied(c.h, call.child)
    IN  IF copy.item = NULL THEN [c EXCEPT !.h = copy.h, !.failed = TRUE]
        ELSE [c EXCEPT !.h = copy.h,
                       !.callers = Append(@, Calls(copy.item, c.h.at[call.child].child))]

(* A call ends: its caller links what it made and turns to the next child. *)
ReturnCopy(c, call) ==
    LET rest   == Front(c.callers)
        caller == LastOf(rest)
    IN  IF rest = <<>> THEN [c EXCEPT !.item = call.item, !.callers = rest]
        ELSE [c EXCEPT !.h = Behind(@, caller.item, caller.last, call.item),
                       !.callers = Append(Front(rest),
                           [item  |-> caller.item, last |-> call.item,
                            child |-> c.h.at[caller.child].next])]

CopyStep(c) ==
    LET call == LastOf(c.callers)
    IN  IF c.failed THEN [c EXCEPT !.h = cJSON_Delete(@, call.item),
                                   !.callers = Front(@)]
        ELSE IF call.child # NULL THEN CopyChild(c, call) ELSE ReturnCopy(c, call)

(* Every item there is room for is made once and linked once, and one fails. *)
cJSON_Duplicate(h, i, recurse) ==
    LET copy == Copied(h, i)
        run[n \in Nat] ==
            IF n = 0
            THEN [h |-> copy.h, item |-> NULL, failed |-> FALSE,
                  callers |-> <<Calls(copy.item, h.at[i].child)>>]
            ELSE LET c == run[n - 1]
                 IN  IF c.callers = <<>> THEN c ELSE CopyStep(c)
        done == run[2 * Cardinality(DOMAIN h.at) + 2]
    IN  IF copy.item = NULL \/ ~recurse THEN copy ELSE Result(done.h, done.item)
=============================================================================
