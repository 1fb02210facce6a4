------------------------------ MODULE DictList ------------------------------
(***************************************************************************)
(* The dictionary of dictionary.c as operators on the list of its entries:  *)
(* a Dictionary pointer is the sequence of the entries from that node on,   *)
(* its tail pointer the Tail of the sequence.  The empty sequence is the    *)
(* node of dict_new, whose head is NULL.                                    *)
(***************************************************************************)
EXTENDS Naturals, Sequences

CONSTANT NULL    (* what dict_get returns for a key it does not find *)

Entry(key, value) == [key |-> key, value |-> value]

KeysOf(dictionary) == {dictionary[i].key : i \in DOMAIN dictionary}

dict_has(dictionary, key) == key \in KeysOf(dictionary)

(* The position at which the loops of dict_get and dict_remove stop. *)
Position(dictionary, key) ==
    CHOOSE i \in DOMAIN dictionary :
        /\ dictionary[i].key = key
        /\ \A j \in 1..(i - 1) : dictionary[j].key # key

dict_get(dictionary, key) ==
    IF dict_has(dictionary, key)
    THEN dictionary[Position(dictionary, key)].value ELSE NULL

(* The first node cannot be freed: its caller holds it.  It takes over the  *)
(* key of the second one, which is freed instead, but keeps its own value.  *)
TakeOverSecond(dictionary) ==
    IF Len(dictionary) = 1 THEN <<>>
    ELSE <<Entry(dictionary[2].key, dictionary[1].value)>>
             \o SubSeq(dictionary, 3, Len(dictionary))

(* Seeded fault: the entries after the removed one are lost with it. *)
UnlinkWithTail(dictionary, i) == SubSeq(dictionary, 1, i - 1)

Unlink(dictionary, i) ==
    SubSeq(dictionary, 1, i - 1) \o SubSeq(dictionary, i + 1, Len(dictionary))

(* Seeded fault: the key that is not found takes the first entry with it. *)
dict_removeAnyway(dictionary, key) ==
    IF dictionary = <<>> THEN dictionary
    ELSE IF ~dict_has(dictionary, key) THEN TakeOverSecond(dictionary)
    ELSE IF Position(dictionary, key) = 1 THEN TakeOverSecond(dictionary)
    ELSE Unlink(dictionary, Position(dictionary, key))

dict_remove(dictionary, key) ==
    IF ~dict_has(dictionary, key) THEN dictionary
    ELSE IF Position(dictionary, key) = 1 THEN TakeOverSecond(dictionary)
    ELSE Unlink(dictionary, Position(dictionary, key))

(* Seeded fault: the former entry of the key is left in the list. *)
dict_addTwice(dictionary, key, value) == Append(dictionary, Entry(key, value))

dict_add(dictionary, key, value) ==
    Append(dict_remove(dictionary, key), Entry(key, value))

(* Removing the only entry frees the node that the caller goes on using. *)
RemovesAll(dictionary, key) ==
    Len(dictionary) = 1 /\ dict_has(dictionary, key)
=============================================================================
