----------------------------- MODULE Dictionary -----------------------------
(***************************************************************************)
(* A dictionary under every sequence of calls of dictionary.h.  A call that *)
(* frees the node its caller holds leaves a pointer nothing can be said of: *)
(* the dictionary is dead until dict_new.                                   *)
(***************************************************************************)
EXTENDS DictList

CONSTANTS Keys, Values

VARIABLES list, alive

vars == <<list, alive>>

ASSUME DictionaryAssumption == NULL \notin Keys \cup Values

Init == list = <<>> /\ alive = TRUE

Die == list' = <<>> /\ alive' = FALSE

Add(k, v) ==
    /\ alive
    /\ IF RemovesAll(list, k) THEN Die
       ELSE list' = dict_add(list, k, v) /\ UNCHANGED alive

Remove(k) ==
    /\ alive
    /\ IF RemovesAll(list, k) THEN Die
       ELSE list' = dict_remove(list, k) /\ UNCHANGED alive

(* dict_free reads the head of the first node, which has to be there. *)
Free == alive /\ list # <<>> /\ Die

New == ~alive /\ alive' = TRUE /\ UNCHANGED list

Next ==
    \/ \E k \in Keys, v \in Values : Add(k, v)
    \/ \E k \in Keys : Remove(k)
    \/ Free
    \/ New

Spec == Init /\ [][Next]_vars

-----------------------------------------------------------------------------
(* No sequence of calls puts a key twice in the list: dict_get and           *)
(* dict_remove, which stop at the first one, would disagree on what is left. *)
KeysUnique == \A i, j \in DOMAIN list : list[i].key = list[j].key => i = j

(* Whatever the position of the key and the state of the list, dict_add      *)
(* makes dict_get return the value given, dict_remove makes it NULL, and     *)
(* neither makes another key appear or disappear.                            *)
CallsDoWhatTheySay ==
    [][alive' =>
        /\ \A k \in Keys, v \in Values :
              Add(k, v) => /\ dict_get(list', k) = v
                           /\ KeysOf(list') = KeysOf(list) \cup {k}
        /\ \A k \in Keys :
              Remove(k) => /\ dict_get(list', k) = NULL
                           /\ KeysOf(list') = KeysOf(list) \ {k}]_vars

(* Until a call moves the first entry, which the calls of the program never  *)
(* do, the list is a map: a call changes what dict_get returns for its own    *)
(* key only, and dict_free clears all of them.                               *)
Map == INSTANCE KeyMap WITH map <- [k \in Keys |-> dict_get(list, k)]

FirstStays == list # <<>> /\ list' # <<>> => list'[1] = list[1]

MapWhileFirstStays ==
    Map!Init /\ [][FirstStays => [Map!Next]_[k \in Keys |-> dict_get(list, k)]]_vars
=============================================================================
