----------------------------- MODULE JsonPrint ------------------------------
(***************************************************************************)
(* The printer of cJSON.c.  Each function asks ensure for room, writes at    *)
(* the offset and may leave the offset where it was: its caller then finds   *)
(* the end with strlen.  p is the printbuffer with what is in it: text up to *)
(* the last symbol written, and whether a terminator follows.               *)
(***************************************************************************)
EXTENDS JsonText, PrintBuffer

PrintBufferOf(length, live, allocs, noalloc, realloc, format) ==
    [length |-> length, offset |-> 0, allocs |-> allocs, live |-> live,
     held |-> TRUE, noalloc |-> noalloc, realloc |-> realloc,
     ok |-> TRUE, fault |-> FALSE, format |-> format, depth |-> 0, text |-> <<>>, ended |-> FALSE]

(* The symbols before the offset. *)
Kept(p) ==
    IF strlen(p.text) = p.offset THEN p.text
    ELSE SubSeq(p.text, 1, CHOOSE n \in 0..Len(p.text) :
                               strlen(SubSeq(p.text, 1, n)) = p.offset)

WrittenTo(e, symbols, ended, p) ==
    IF ~e.ok THEN e ELSE [e EXCEPT !.text = Kept(p) \o symbols, !.ended = ended]

WriteSized(p, needed, size, symbols, ended, moves) ==
    WrittenTo(Stored(p, needed, size + (IF ended THEN 1 ELSE 0),
                     IF moves THEN size ELSE 0), symbols, ended, p)

(* Room is made for needed bytes, the symbols are written at the offset, and *)
(* the offset advances over them or stays.                                  *)
Write(p, needed, symbols, ended, moves) ==
    WriteSized(p, needed, strlen(symbols), symbols, ended, moves)

(* strlen from the offset on, which reads on until there is a terminator. *)
update_offset(p) ==
    IF ~p.ok THEN p
    ELSE [p EXCEPT !.offset = strlen(p.text), !.fault = @ \/ ~p.ended]

(* A raw item without text: the buffer is freed, and still pointed to. *)
RawFails(p) == [p EXCEPT !.ok = FALSE, !.live = IF p.noalloc THEN @ ELSE @ - 1]

Deeper(p, n) == IF p.ok THEN [p EXCEPT !.depth = @ + n] ELSE p

-----------------------------------------------------------------------------
(* The digits of a number: never more than number_buffer holds. *)
print_number(item, p) == Write(p, strlen(item.val), item.val, TRUE, TRUE)

Letter == [symbol \in {8, 9, 10, 12, 13, Quote, Backslash} |->
              CASE symbol = 8  -> 98  [] symbol = 9  -> 116
                [] symbol = 10 -> 110 [] symbol = 12 -> 102
                [] symbol = 13 -> 114 [] OTHER       -> symbol]

(* sprintf of "u%04x" after the backslash. *)
Literal(code) ==
    LET Digit(n) == LET d == (code \div n) % 16 IN IF d < 10 THEN 48 + d ELSE 87 + d
    IN  <<Backslash, LetterU, Digit(4096), Digit(256), Digit(16), Digit(1)>>

(* Seeded fault: only control characters are escaped. *)
EscapedControls(symbol) ==
    IF symbol < 32 THEN Literal(symbol) ELSE <<symbol>>

Escaped(symbol) ==
    IF symbol \in DOMAIN Letter THEN <<Backslash, Letter[symbol]>>
    ELSE IF symbol < 32 THEN Literal(symbol) ELSE <<symbol>>

EscapedString(bytes) ==
    LET escaped[n \in 0..Len(bytes)] ==
            IF n = 0 THEN <<>> ELSE escaped[n - 1] \o Escaped(bytes[n])
    IN  <<Quote>> \o escaped[Len(bytes)] \o <<Quote>>

(* The three bytes of sizeof("\"\"") beyond the escaped string. *)
print_string_ptr(bytes, p) ==
    LET quoted == EscapedString(IF bytes = NULL THEN <<>> ELSE bytes)
    IN  Write(p, strlen(quoted) + 1, quoted, TRUE, FALSE)

print_string(item, p) == print_string_ptr(item.val, p)

-----------------------------------------------------------------------------
Tabs(n) == [i \in 1..n |-> Tab]

If(condition, symbols) == IF condition THEN symbols ELSE <<>>

Separated(p, i) ==
    LET separator == <<Comma>> \o If(p.format, <<Space>>)
    IN  IF i = 1 THEN p ELSE Write(p, Len(separator) + 1, separator, TRUE, TRUE)

(* inner is print_value for what is inside a list. *)
PrintElement(p, kid, i, inner) ==
    update_offset(inner[[item |-> kid, p |-> Separated(p, i)]])

print_array(item, p, inner) ==
    LET opened == Deeper(Write(p, 1, <<OpenArray>>, FALSE, TRUE), 1)
        elements[n \in 0..Len(item.kids)] ==
            IF n = 0 THEN opened
            ELSE PrintElement(elements[n - 1], item.kids[n], n, inner)
    IN  Deeper(Write(elements[Len(item.kids)], 2, <<CloseArray>>, TRUE, FALSE), -1)

Indented(p) ==
    IF p.format THEN Write(p, p.depth, Tabs(p.depth), FALSE, TRUE) ELSE p

PrintMember(p, kid, last, inner) ==
    LET colon == <<Colon>> \o If(p.format, <<Tab>>)
        after == If(~last, <<Comma>>) \o If(p.format, <<Newline>>)
        named == update_offset(print_string_ptr(kid.name, Indented(p)))
        value == update_offset(inner[[item |-> kid,
                     p |-> Write(named, Len(colon), colon, FALSE, TRUE)]])
    IN  Write(value, Len(after) + 1, after, TRUE, TRUE)

print_object(item, p, inner) ==
    LET opening == <<OpenObject>> \o If(p.format, <<Newline>>)
        opened  == Deeper(Write(p, Len(opening) + 1, opening, FALSE, TRUE), 1)
        members[n \in 0..Len(item.kids)] ==
            IF n = 0 THEN opened
            ELSE PrintMember(members[n - 1], item.kids[n], n = Len(item.kids), inner)
    IN  Deeper(Write(members[Len(item.kids)], IF p.format THEN p.depth + 2 ELSE 2,
                     If(p.format, Tabs(p.depth)) \o <<CloseObject>>,
                     TRUE, FALSE), -1)

print_value(item, p, inner) ==
    IF item.type \in DOMAIN Words
    THEN LET word == <<Words[item.type]>>
         IN  Write(p, strlen(word) + 1, word, TRUE, FALSE)
    ELSE IF item.type = "Number" THEN print_number(item, p)
    ELSE IF item.type = "Raw"
    THEN IF item.val = NULL THEN RawFails(p)
         ELSE Write(p, strlen(item.val) + 1, item.val, TRUE, FALSE)
    ELSE IF item.type = "String" THEN print_string(item, p)
    ELSE IF item.type = "Array" THEN print_array(item, p, inner)
    ELSE IF item.type = "Object" THEN print_object(item, p, inner)
    ELSE Refused(p)

(* print_value for the items whose trees have at most n levels. *)
ValuePrinted[n \in 0..Levels] ==
    [s \in [item : Trees(Types)[n], p : Printbuffers] |->
        print_value(s.item, s.p, ValuePrinted[n - 1])]

PrintedValue(item, p) == ValuePrinted[Levels][[item |-> item, p |-> p]]

-----------------------------------------------------------------------------
(* A print as its caller sees it: the text, or NULL, and the memory in use.  *)
Printed(p) == [text |-> IF p.ok THEN p.text ELSE NULL,
               live |-> p.live, fault |-> p.fault \/ (p.ok /\ ~p.ended)]

(* The buffer is cut to its length, or copied to one of the right size.  On  *)
(* a failure it is freed if it is still known: realloc has lost it.         *)
Shrunk(p) ==
    IF p.ok /\ p.allocs > 0 THEN Printed(p)
    ELSE Printed([p EXCEPT !.ok = FALSE,
                           !.live = IF p.held /\ ~(p.ok /\ p.realloc)
                                    THEN @ - 1 ELSE @])

print(item, format, realloc, allocs) ==
    IF allocs = 0 THEN [text |-> NULL, live |-> 0, fault |-> FALSE]
    ELSE Shrunk(update_offset(PrintedValue(item,
             PrintBufferOf(0, 1, allocs - 1, FALSE, realloc, format))))

cJSON_Print(item, realloc, allocs) == print(item, TRUE, realloc, allocs)

cJSON_PrintUnformatted(item, realloc, allocs) ==
    print(item, FALSE, realloc, allocs)

(* The buffer is not freed when the printing fails. *)
cJSON_PrintBuffered(item, prebuffer, format, realloc, allocs) ==
    IF prebuffer < 0 \/ allocs = 0
    THEN [text |-> NULL, live |-> 0, fault |-> FALSE]
    ELSE Printed(PrintedValue(item, PrintBufferOf(prebuffer, 1, allocs - 1,
                                                 FALSE, realloc, format)))

cJSON_PrintPreallocated(item, length, format) ==
    IF length < 0 THEN [text |-> NULL, live |-> 0, fault |-> FALSE]
    ELSE Printed(PrintedValue(item,
             PrintBufferOf(length, 0, 0, TRUE, TRUE, format)))
=============================================================================
