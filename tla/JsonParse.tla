----------------------------- MODULE JsonParse ------------------------------
(***************************************************************************)
(* The parser of cJSON.c: recursive descent over a text, with the limit on   *)
(* nesting, allocations that may fail, and cJSON_Delete of what was built    *)
(* when it does.  b is the parse_buffer: the text with its terminator, the   *)
(* offset and the depth; live counts the blocks of memory in use and allocs  *)
(* how many more will be granted.  A step returns its b, whether it          *)
(* succeeded, and the item as it has filled it.                             *)
(***************************************************************************)
EXTENDS JsonText, Utf16

CONSTANTS
    NestingLimit,    (* CJSON_NESTING_LIMIT                               *)
    NumberSize       (* the bytes of number_c_string                      *)

(* An array of what is parsed has a level more, and is looked at, too. *)
ASSUME ParseAssumption ==
    /\ NestingLimit \in Nat /\ NumberSize \in Nat \ {0}
    /\ NestingLimit + 2 <= Levels

Result(b, ok, item) == [b |-> b, ok |-> ok, item |-> item]

(* An item as cJSON_New_Item leaves it: zeroed, so of no valid type. *)
Blank == Item("Invalid", NULL, <<>>)

Buffer(text, allocs) ==
    [content |-> Append(text, 0), offset |-> 0, depth |-> 0,
     allocs |-> allocs, live |-> 0]

(* The symbol at the offset; none, -1, past the terminator. *)
At(b) == IF b.offset < Len(b.content) THEN b.content[b.offset + 1] ELSE -1

Moved(b, n) == [b EXCEPT !.offset = @ + n]

(* One more block of memory is in use, if it is granted. *)
Granted(b) == b.allocs > 0
Taken(b) == [b EXCEPT !.allocs = @ - 1, !.live = @ + 1]

(* Seeded fault: what hangs on the items stays allocated. *)
DeletedAlone(b, list) == [b EXCEPT !.live = @ - Len(list)]

(* cJSON_Delete of the items of a list. *)
Deleted(b, list) == [b EXCEPT !.live = @ - BlocksOf(list)]

(* Every byte up to the blank is skipped, the terminator too; at the end the *)
(* offset goes back by one, onto the terminator.                            *)
buffer_skip_whitespace(b) ==
    LET ends == {n \in b.offset..Len(b.content) :
                    /\ \A i \in (b.offset + 1)..n : b.content[i] <= Space
                    /\ n < Len(b.content) => b.content[n + 1] > Space}
        n    == CHOOSE n \in ends : TRUE
    IN  [b EXCEPT !.offset = IF n = Len(b.content) THEN n - 1 ELSE n]

-----------------------------------------------------------------------------
(* strtod: the length of the longest number the bytes start with.            *)
strtod(bytes) ==
    LET IsNumber(n) == /\ bytes[n] \in Digits
                       /\ \A i \in 1..n : \/ bytes[i] \in Digits
                                          \/ i = 1 /\ bytes[i] = Minus
        lengths     == {n \in 1..Len(bytes) : IsNumber(n)}
    IN  IF lengths = {} THEN 0
        ELSE CHOOSE n \in lengths : \A k \in lengths : k <= n

(* At most NumberSize - 1 bytes are copied; the rest is left in the text. *)
parse_number(item, b) ==
    LET last   == IF b.offset + NumberSize - 1 < Len(b.content)
                  THEN b.offset + NumberSize - 1 ELSE Len(b.content)
        inside == SubSeq(b.content, b.offset + 1, last)
        length == strtod(inside)
    IN  IF length = 0 THEN Result(b, FALSE, item)
        ELSE Result(Moved(b, length), TRUE,
                    [item EXCEPT !.type = "Number",
                                 !.val = SubSeq(inside, 1, length)])

(* The places of the first loop over a string whose first symbol is at from: *)
(* it jumps over what follows a backslash and stops at a quote.              *)
Scan(content, from) ==
    LET Beyond(i) == IF i > Len(content) \/ content[i] = Quote THEN i
                     ELSE IF content[i] = Backslash THEN i + 2 ELSE i + 1
        place[n \in 0..Len(content)] == IF n = 0 THEN from ELSE Beyond(place[n - 1])
    IN  place

(* Where the string ends; 0 if the text ends before. *)
ClosingQuote(content, from) ==
    LET end == Scan(content, from)[Len(content)]
    IN  IF end > Len(content) THEN 0 ELSE end

(* The backslashes that loop jumps from. *)
Jumps(content, from, end) ==
    LET place == Scan(content, from)
    IN  {i \in {place[n] : n \in 0..Len(content)} : i < end /\ content[i] = Backslash}

(* The bytes allocated for the output: those of the string and its first      *)
(* quote, less one for each of these, and one for the terminator.            *)
OutputRoom(content, from, end) ==
    (end - from + 1) - Cardinality(Jumps(content, from, end)) + 1

Unescaped == [symbol \in {98, 102, 110, 114, 116, Quote, Backslash, Slash} |->
                 CASE symbol = 98  -> 8  [] symbol = 102 -> 12
                   [] symbol = 110 -> 10 [] symbol = 114 -> 13
                   [] symbol = 116 -> 9  [] OTHER        -> symbol]

(* There are six symbols before the end, and the first two are \u. *)
IsLiteral(content, at, end) ==
    at + 6 <= end /\ content[at] = Backslash /\ content[at + 1] = LetterU

CodeAt(content, at) == parse_hex4(SubSeq(content, at + 2, at + 5))

(* The codes of the literals that follow one another from a place. *)
CodesFrom(content, at, end) ==
    IF ~IsLiteral(content, at, end) THEN <<>>
    ELSE IF ~IsLiteral(content, at + 6, end) THEN <<CodeAt(content, at)>>
    ELSE <<CodeAt(content, at), CodeAt(content, at + 6)>>

(* The bytes of the string between two places, and the place of the escape   *)
(* that could not be converted, or 0.                                       *)
UnescapeStep(content, end, u) ==
    LET symbol == content[u.at]
        next   == content[u.at + 1]
        codes  == CodesFrom(content, u.at, end)
    IN  IF symbol # Backslash
        THEN [u EXCEPT !.at = @ + 1, !.bytes = Append(@, symbol)]
        ELSE IF next \in DOMAIN Unescaped
        THEN [u EXCEPT !.at = @ + 2, !.bytes = Append(@, Unescaped[next])]
        ELSE IF CodesUsed(codes) > 0
        THEN [u EXCEPT !.at = @ + 6 * CodesUsed(codes),
                       !.bytes = @ \o utf16_literal_to_utf8(codes)]
        ELSE [u EXCEPT !.bad = u.at]

Unescape(content, from, end) ==
    LET made[n \in 0..(end - from)] ==
            IF n = 0 THEN [at |-> from, bytes |-> <<>>, bad |-> 0]
            ELSE LET u == made[n - 1]
                 IN  IF u.at >= end \/ u.bad # 0 THEN u
                     ELSE UnescapeStep(content, end, u)
    IN  made[end - from]

(* What the second loop writes, and the terminator, have their room. *)
OutputFits(content, from) ==
    LET end == ClosingQuote(content, from)
    IN  end # 0 => Len(Unescape(content, from, end).bytes) + 1
                       <= OutputRoom(content, from, end)

(* The output is allocated once the end is known and freed when an escape is *)
(* wrong; the offset is then left where the string could not be followed.    *)
StringOf(item, b, end, made) ==
    IF made.bad # 0
    THEN Result([b EXCEPT !.offset = made.bad - 1, !.allocs = @ - 1], FALSE, item)
    ELSE Result([Taken(b) EXCEPT !.offset = end], TRUE,
                [item EXCEPT !.type = "String", !.val = AsCString(made.bytes)])

StringUpTo(item, b, end) ==
    IF At(b) # Quote \/ end = 0 \/ ~Granted(b)
    THEN Result(Moved(b, 1), FALSE, item)
    ELSE StringOf(item, b, end, Unescape(b.content, b.offset + 2, end))

parse_string(item, b) ==
    StringUpTo(item, b, ClosingQuote(b.content, b.offset + 2))

-----------------------------------------------------------------------------
(* The word a type is written with, for those that have one. *)
IsWord(symbol) == \E type \in DOMAIN Words : Words[type] = symbol
TypeOf(word) == CHOOSE type \in DOMAIN Words : Words[type] = word

(* The name of the child an object's element starts with, moved from its     *)
(* valuestring to its string, and the colon after it.                       *)
NameAndColon(ahead, child) ==
    IF At(ahead) # Colon THEN Result(ahead, FALSE, child)
    ELSE Result(buffer_skip_whitespace(Moved(ahead, 1)), TRUE, child)

NameOf(named) ==
    IF ~named.ok THEN named
    ELSE NameAndColon(buffer_skip_whitespace(named.b),
                      [named.item EXCEPT !.val = NULL, !.name = named.item.val])

ParseName(b) == NameOf(parse_string(Blank, b))

(* The elements read so far, and whether there are more. *)
Elements(b, ok, list, more) == [b |-> b, ok |-> ok, item |-> list, more |-> more]

(* A failure deletes the whole list. *)
Failed(b, list) == Elements(Deleted(b, list), FALSE, <<>>, FALSE)

(* What follows the last element of a list: more elements or its end. *)
ParseNext(after, list, close) ==
    IF At(after) = Comma THEN Elements(after, TRUE, list, TRUE)
    ELSE IF At(after) = close THEN Elements(after, TRUE, list, FALSE)
    ELSE Failed(after, list)

ParsedElement(value, list, close) ==
    IF ~value.ok THEN Failed(value.b, Append(list, value.item))
    ELSE ParseNext(buffer_skip_whitespace(value.b), Append(list, value.item), close)

(* inner is parse_value for what is inside a list: each item is blank but    *)
(* for its name.                                                            *)
NamedElement(named, list, close, inner) ==
    IF ~named.ok THEN Failed(named.b, Append(list, named.item))
    ELSE ParsedElement(inner[[item |-> named.item, b |-> named.b]], list, close)

(* The element after the symbol at the offset. *)
ParseElement(e, close, inner) ==
    LET first == buffer_skip_whitespace(Moved(Taken(e.b), 1))
    IN  IF ~Granted(e.b) THEN Failed(e.b, e.item)
        ELSE NamedElement(IF close = CloseObject THEN ParseName(first)
                                                 ELSE Result(first, TRUE, Blank),
                          e.item, close, inner)

(* A list has fewer elements than the text has symbols. *)
ParseElements(b, close, inner) ==
    LET run[n \in 0..Len(b.content)] ==
            IF n = 0 THEN Elements(b, TRUE, <<>>, TRUE)
            ELSE LET e == run[n - 1]
                 IN  IF e.more THEN ParseElement(e, close, inner) ELSE e
    IN  run[Len(b.content)]

ContainerOf(item, elements, type) ==
    IF ~elements.ok THEN Result(elements.b, FALSE, item)
    ELSE Result([Moved(elements.b, 1) EXCEPT !.depth = @ - 1], TRUE,
                [item EXCEPT !.type = type, !.kids = elements.item])

(* parse_array and parse_object differ in their brackets and the names. *)
ParseContainer(item, b, type, close, inner) ==
    LET first == buffer_skip_whitespace(Moved([b EXCEPT !.depth = @ + 1], 1))
    IN  IF b.depth >= NestingLimit THEN Result(b, FALSE, item)
        ELSE ContainerOf(item, IF At(first) = close
                               THEN Elements(first, TRUE, <<>>, FALSE)
                               ELSE ParseElements(Moved(first, -1), close, inner),
                         type)

parse_array(item, b, inner) ==
    ParseContainer(item, b, "Array", CloseArray, inner)

parse_object(item, b, inner) ==
    ParseContainer(item, b, "Object", CloseObject, inner)

parse_value(item, b, inner) ==
    IF IsWord(At(b))
    THEN Result(Moved(b, 1), TRUE, [item EXCEPT !.type = TypeOf(At(b))])
    ELSE IF At(b) = Quote THEN parse_string(item, b)
    ELSE IF At(b) \in Digits \cup {Minus} THEN parse_number(item, b)
    ELSE IF At(b) = OpenArray THEN parse_array(item, b, inner)
    ELSE IF At(b) = OpenObject THEN parse_object(item, b, inner)
    ELSE Result(b, FALSE, item)

(* What parse_value is called with. *)
Starts ==
    [item : [type : {"Invalid", "String"}, val : {NULL},
             name : {NULL} \cup Seq(Nat), kids : {<<>>}],
     b    : [content : Seq(Nat), offset : Nat, depth : Nat, allocs : Nat, live : Int]]

(* parse_value with n levels of nesting left, its own included. *)
ValueIn[n \in 0..(NestingLimit + 1)] ==
    [s \in Starts |-> IF n = 0 THEN Result(s.b, FALSE, s.item)
                      ELSE parse_value(s.item, s.b, ValueIn[n - 1])]

ParsedValue(item, b) == ValueIn[NestingLimit + 1][[item |-> item, b |-> b]]

-----------------------------------------------------------------------------
(* The offset, or the last one of the text. *)
Place(b) == IF b.offset < Len(b.content) THEN b.offset ELSE Len(b.content) - 1

Outcome(value, last, whole) ==
    IF value.ok /\ (whole => At(last) = 0)
    THEN [item |-> value.item, place |-> last.offset, live |-> last.live]
    ELSE [item |-> NULL, place |-> Place(last),
          live |-> Deleted(last, <<value.item>>).live]

EndOf(value, whole) ==
    Outcome(value, IF value.ok /\ whole THEN buffer_skip_whitespace(value.b)
                                        ELSE value.b, whole)

(* The item the text stands for, or NULL with the place where parsing ended. *)
(* whole requires that nothing follows the value.                           *)
cJSON_ParseWithOpts(text, whole, allocs) ==
    IF allocs = 0 THEN [item |-> NULL, place |-> 0, live |-> 0]
    ELSE EndOf(ParsedValue(Blank, buffer_skip_whitespace(Taken(Buffer(text, allocs)))), whole)

(* Seeded fault: a value that something follows is refused. *)
cJSON_ParseAll(text, allocs) == cJSON_ParseWithOpts(text, TRUE, allocs)

cJSON_Parse(text, allocs) == cJSON_ParseWithOpts(text, FALSE, allocs)
=============================================================================
