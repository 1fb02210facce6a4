------------------------------ MODULE JsonText ------------------------------
(***************************************************************************)
(* The texts cJSON reads and writes and the items they stand for.  A text   *)
(* is a sequence of symbols: a byte or one of the words null, true and       *)
(* false.  The terminator of the C string is not part of it.                *)
(***************************************************************************)
EXTENDS Integers, Sequences, SequencesExt

CONSTANTS
    NULL,
    Levels    (* bound: the levels of the trees of items that are looked at *)

Tab         == 9
Newline     == 10
Return      == 13
Space       == 32
Quote       == 34
Star        == 42
Comma       == 44
Minus       == 45
Slash       == 47
Colon       == 58
OpenArray   == 91
Backslash   == 92
CloseArray  == 93
LetterU     == 117
OpenObject  == 123
CloseObject == 125

Digits == 48..57

Words == [NULL |-> 1000, True |-> 1001, False |-> 1002]

(* The bytes a symbol takes. *)
Width(symbol) ==
    IF symbol = Words.False THEN 5
    ELSE IF symbol \in {Words.NULL, Words.True} THEN 4 ELSE 1

SumOf(numbers) ==
    LET sum[n \in 0..Len(numbers)] ==
            IF n = 0 THEN 0 ELSE sum[n - 1] + numbers[n]
    IN  sum[Len(numbers)]

strlen(text) == SumOf([i \in DOMAIN text |-> Width(text[i])])

Encloses(s, open, close) == Len(s) > 1 /\ s[1] = open /\ s[Len(s)] = close

(* What is left of a string once it is read as a C string. *)
AsCString(bytes) ==
    IF \E i \in DOMAIN bytes : bytes[i] = 0
    THEN SubSeq(bytes, 1, (CHOOSE i \in DOMAIN bytes :
                   bytes[i] = 0 /\ \A j \in 1..(i - 1) : bytes[j] # 0) - 1)
    ELSE bytes

(* An item with the list of its children, which their next pointers make. *)
Item(type, val, kids) ==
    [type |-> type, val |-> val, name |-> NULL, kids |-> kids]

Types == DOMAIN Words \cup {"Invalid", "Number", "String", "Raw", "Array", "Object"}

(* The items of these types whose trees have at most n levels.  A number has *)
(* its valuedouble.                                                         *)
Trees(types) ==
    LET trees[n \in 0..Levels] ==
            IF n = 0 THEN {}
            ELSE {item \in [type : types, val : {NULL} \cup Seq(Nat),
                            name : {NULL} \cup Seq(Nat), kids : Seq(trees[n - 1])] :
                     item.type = "Number" => item.val # NULL}
    IN  trees

(* NULL is no text, and no item. *)
ASSUME TextAssumption ==
    /\ Levels \in Nat
    /\ NULL \notin Seq(Nat) /\ NULL \notin Trees(Types)[Levels]

(* The blocks of memory that cJSON_Delete frees with an item: its own, its   *)
(* valuestring, its name and its children.                                  *)
OwnBlocks(item) ==
    1 + (IF item.type \in {"String", "Raw"} /\ item.val # NULL THEN 1 ELSE 0)
      + (IF item.name # NULL THEN 1 ELSE 0)

BlocksIn[n \in 0..Levels] ==
    [item \in Trees(Types)[n] |->
        OwnBlocks(item)
            + SumOf([i \in DOMAIN item.kids |-> BlocksIn[n - 1][item.kids[i]]])]

Blocks(item) == BlocksIn[Levels][item]

BlocksOf(list) == SumOf([i \in DOMAIN list |-> Blocks(list[i])])

(* The member of an object: the first child of that name, if there is one.   *)
(* A child without a name is compared through a NULL pointer.               *)
MeetsNameless(item, name) ==
    /\ item # NULL
    /\ \E i \in DOMAIN item.kids :
          /\ item.kids[i].name = NULL
          /\ \A j \in 1..(i - 1) : item.kids[j].name # name

cJSON_GetObjectItemCaseSensitive(item, name) ==
    IF item = NULL THEN NULL
    ELSE LET named == SelectSeq(item.kids, LAMBDA kid : kid.name = name)
         IN  IF named = <<>> THEN NULL ELSE named[1]
=============================================================================
