---------------------------- MODULE PrintBuffer -----------------------------
(***************************************************************************)
(* The printbuffer of cJSON.c, by its sizes: length bytes are allocated,     *)
(* offset of them are in use.  print() starts with a buffer of 256 bytes     *)
(* whose length stays 0, PrintBuffered and PrintPreallocated with the length *)
(* their caller gives.  held tells that there is a buffer, allocs counts the *)
(* allocations still granted, live the blocks of memory in use.  text is what *)
(* was written, up to its last symbol, and ended tells that a terminator     *)
(* follows it.                                                              *)
(***************************************************************************)
EXTENDS Integers, Sequences

CONSTANT INT_MAX

ASSUME IntAssumption == INT_MAX \in Nat \ {0}

Printbuffers ==
    [length : Nat, offset : Nat, allocs : Nat, live : Int, held : BOOLEAN,
     noalloc : BOOLEAN, realloc : BOOLEAN, ok : BOOLEAN, fault : BOOLEAN,
     format : BOOLEAN, depth : Nat, text : Seq(Nat), ended : BOOLEAN]

(* Twice what is needed, as far as an int goes. *)
NewSize(total) == IF total > INT_MAX \div 2 THEN INT_MAX ELSE 2 * total

Total(p, needed) == needed + p.offset + 1

(* Seeded fault: the buffer of a caller is replaced by a larger one. *)
MayGrowPlaced(p, needed) == Total(p, needed) <= INT_MAX

MayGrow(p, needed) == ~p.noalloc /\ Total(p, needed) <= INT_MAX

Refused(p) == [p EXCEPT !.ok = FALSE]

(* Seeded fault: the buffer that was freed is still pointed to. *)
GrowFailsPointing(p) == [p EXCEPT !.ok = FALSE, !.length = 0, !.live = @ - 1]

(* Without realloc the old buffer is freed when there is no new one.  With   *)
(* it the old one is lost, and what ensure returns is NULL plus the offset:  *)
(* not a NULL pointer unless the offset is 0.                               *)
GrowFails(p) ==
    IF p.realloc
    THEN [p EXCEPT !.held = FALSE, !.ok = (p.offset # 0),
                   !.fault = @ \/ p.offset # 0]
    ELSE [p EXCEPT !.held = FALSE, !.ok = FALSE, !.length = 0, !.live = @ - 1]

Grown(p, size) == [p EXCEPT !.length = size, !.allocs = @ - 1]

(* Room for needed bytes and a terminator at the offset. *)
ensure(p, needed) ==
    IF \/ ~p.ok \/ ~p.held
       \/ p.length > 0 /\ p.offset >= p.length
       \/ needed > INT_MAX
    THEN Refused(p)
    ELSE IF Total(p, needed) <= p.length THEN p
    ELSE IF ~MayGrow(p, needed) THEN Refused(p)
    ELSE IF p.allocs = 0 THEN GrowFails(p)
    ELSE Grown(p, NewSize(Total(p, needed)))

(* Writing size bytes, a terminator counted, of which advance are kept. *)
Stored(p, needed, size, advance) ==
    LET e == ensure(p, needed)
    IN  IF ~e.ok THEN e
        ELSE [e EXCEPT !.offset = @ + advance,
                       !.fault = @ \/ e.offset + size > e.length]
=============================================================================
