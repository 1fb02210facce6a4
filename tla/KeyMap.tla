------------------------------- MODULE KeyMap -------------------------------
(* What a dictionary promises: a map that gives each key at most one value. *)
CONSTANTS Keys, Values, NULL

VARIABLE map

Init == map = [k \in Keys |-> NULL]

Put(k, v) == map' = [map EXCEPT ![k] = v]

Clear == map' = [k \in Keys |-> NULL]

Next == Clear \/ \E k \in Keys, v \in Values \cup {NULL} : Put(k, v)

Spec == Init /\ [][Next]_map
=============================================================================
