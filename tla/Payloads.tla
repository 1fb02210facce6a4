------------------------------ MODULE Payloads ------------------------------
(***************************************************************************)
(* The texts the program exchanges with the gateway.  A peer of the broker   *)
(* writes a text, piece by piece; at any point the text may be published as  *)
(* it stands and msgarrvd is called with it, or it is the array that Read    *)
(* and Write have made and send_json_obj publishes it.  A name of several    *)
(* letters is one symbol.                                                    *)
(***************************************************************************)
EXTENDS JsonPrint, TextFilters

CONSTANTS
    Pieces,          (* what a peer may add to a text                        *)
    StringPieces,    (* what it may add to a text that is one string         *)
    MaxPieces,       (* bound: the pieces of all the texts together          *)
    MaxString,       (* bound: the pieces of a text that is one string       *)
    MaxCalls,        (* bound: the messages and the commands                 *)
    Plenty,          (* allocations: as many as a call may be granted        *)
    Not_Value        (* the Value of a parameter nothing was received for    *)

ASSUME PiecesAssumption == Pieces \cup StringPieces \subseteq Seq(Nat)

ASSUME PlentyAssumption == Plenty \in Nat \ {0}

(* Each is a letter that stands for the name or the topic. *)
Data  == <<100>>
Cmd   == <<99>>
Field == <<118>>
Topic == <<Slash, 105>>

VARIABLES
    text,        (* the text in the making                                  *)
    pieces,      (* how many pieces were written, for the bound             *)
    Value,       (* the Value of the parameter of the messages              *)
    meter,       (* the reading in meters[] of the other topic              *)
    published,   (* the last text send_json_obj has published               *)
    received, sent,   (* how many calls there were                          *)
    live,        (* the blocks of memory the calls have not given back      *)
    status       (* "up", "crashed" or, once memory is corrupted, "corrupted" *)

vars == <<text, pieces, Value, meter, published, received, sent, live, status>>

Init ==
    /\ text = <<>> /\ pieces = 0 /\ published = <<>>
    /\ Value = Not_Value /\ meter = Not_Value
    /\ received = 0 /\ sent = 0 /\ live = 0
    /\ status = "up"

-----------------------------------------------------------------------------
Whole(s) == cJSON_ParseWithOpts(s, TRUE, Plenty)

(* A text that may still become JSON: nothing is wrong before its end. *)
Viable ==
    LET parsed == Whole(text)
    IN  parsed.item # NULL \/ parsed.place >= Len(text)

(* A text that starts with a quote is a string, of any symbols. *)
MayFollow ==
    IF text = <<>> \/ text[1] # Quote THEN IF Viable THEN Pieces ELSE {}
    ELSE IF ClosingQuote(text, 2) # 0 THEN {}
    ELSE IF pieces < MaxString THEN StringPieces ELSE {}

Extend ==
    /\ status = "up" /\ received + sent < MaxCalls
    /\ pieces < MaxPieces
    /\ \E piece \in MayFollow : text' = text \o piece
    /\ pieces' = pieces + 1
    /\ UNCHANGED <<Value, meter, published, received, sent, live, status>>

(* The valuedouble of an item: zero unless it is a number. *)
valuedouble(item) == IF item.type = "Number" THEN item.val ELSE <<48>>

cJSON_IsNumber(item) == item # NULL /\ item.type = "Number"

Parsed == cJSON_Parse(FilterBrackets(text), Plenty)

(* Seeded fault: the tree is not deleted. *)
KeptOfMessage == 2 + Parsed.live

(* Two objects are created for each message and their pointers overwritten;  *)
(* what was parsed is deleted.                                              *)
LeftOfMessage ==
    2 + Parsed.live - (IF Parsed.item = NULL THEN 0 ELSE Blocks(Parsed.item))

(* What becomes of the program once the handler has read the message. *)
Outcomes(crashes) ==
    IF crashes THEN {"crashed"}
    ELSE IF FilterOverruns(text) THEN {"up", "corrupted"} ELSE {"up"}

Receive(crashes) ==
    /\ status = "up" /\ received + sent < MaxCalls
    /\ received' = received + 1
    /\ live' = live + LeftOfMessage
    /\ status' \in Outcomes(crashes \/ MeetsNameless(Parsed.item, Data))
    /\ text' = <<>>
    /\ UNCHANGED <<pieces, published, sent>>

DataOf(item) == cJSON_GetObjectItemCaseSensitive(item, Data)

(* msgarrvd on the topic of a meter: what is not a number is ignored. *)
MeterMessage ==
    LET data == DataOf(Parsed.item)
    IN  /\ Receive(FALSE)
        /\ meter' = IF cJSON_IsNumber(data) THEN valuedouble(data) ELSE meter
        /\ UNCHANGED Value

(* msgarrvd on the topic of a parameter: what is not a number is zero, and   *)
(* a message without data is read through a NULL pointer.                   *)
ParameterMessage ==
    LET data == DataOf(Parsed.item)
    IN  /\ Receive(data = NULL)
        /\ Value' = IF data = NULL THEN Value ELSE valuedouble(data)
        /\ UNCHANGED meter

(* msgarrvd on a topic that is in no list. *)
UnknownMessage ==
    /\ Receive(FALSE)
    /\ UNCHANGED <<Value, meter>>

-----------------------------------------------------------------------------
Named(item, name) == [item EXCEPT !.name = name]

(* The object of the command, as cJSON_AddStringToObject builds it. *)
Command(id, data) ==
    Item("Object", NULL, <<Named(Item("String", id, <<>>), Cmd),
                           Named(Item("String", data, <<>>), Field)>>)

(* What is published: the printed object without its layout, and without the *)
(* quotes that make a string of the array.                                  *)
Payload(id, data) ==
    UnquoteArray(strip(cJSON_Print(Command(id, data), TRUE, Plenty).text, SPACE))

(* What the format strings of Read and Write make: numbers and true or false *)
(* between brackets.                                                        *)
IsWritten(s) ==
    /\ Encloses(s, OpenArray, CloseArray)
    /\ \A i \in 2..(Len(s) - 1) :
          s[i] \in Digits \cup {Minus, Comma, Words.True, Words.False}
    /\ Whole(s).item # NULL

(* The buffer that is allocated before cJSON_Print returns another is lost. *)
send_json_obj ==
    /\ status = "up" /\ received + sent < MaxCalls
    /\ IsWritten(text)
    /\ published' = Payload(Topic, text)
    /\ sent' = sent + 1
    /\ live' = live + 1
    /\ text' = <<>>
    /\ UNCHANGED <<pieces, Value, meter, received, status>>

Next ==
    \/ Extend
    \/ MeterMessage \/ ParameterMessage \/ UnknownMessage
    \/ send_json_obj

Spec == Init /\ [][Next]_vars

-----------------------------------------------------------------------------
(* Later texts are among the first ones: what is said of a text by itself is *)
(* looked at there.                                                         *)
IsFirst == received + sent = 0

(* Whatever the text and however many allocations are granted, cJSON_Parse   *)
(* gives back all the memory it took when it fails, and has taken no more    *)
(* than cJSON_Delete will free when it succeeds.  What parse_string writes,  *)
(* from whichever quote on, is within what it has allocated.                 *)
ParseBalances ==
    IsFirst =>
        /\ \A allocs \in 0..Len(text) :
              LET parsed == cJSON_Parse(text, allocs)
              IN  parsed.live = IF parsed.item = NULL THEN 0 ELSE Blocks(parsed.item)
        /\ \A i \in DOMAIN text : text[i] = Quote => OutputFits(text, i + 1)

(* The items whose printing is looked at: the array of the text as it is,    *)
(* raw, and of the item it stands for.                                      *)
Printables ==
    IF ~IsFirst \/ Whole(text).item = NULL THEN {}
    ELSE {Item("Array", NULL, <<Item("Raw", text, <<>>), Whole(text).item>>)}

(* What is printed is read back as the same tree, formatted or not, escapes  *)
(* and nesting included.                                                    *)
RoundTrip ==
    IsFirst /\ Whole(text).item # NULL =>
        \A format \in BOOLEAN :
            Whole(print(Whole(text).item, format, TRUE, Plenty).text).item
                = Whole(text).item

IsText(result, written) == result.text = written /\ ~result.fault

(* A buffer of that length takes the text if there is room for the           *)
(* terminator and 5 bytes more, and may not if there are fewer.              *)
IsPlaced(result, written, length) ==
    /\ ~result.fault
    /\ result.text \in {NULL, written}
    /\ length <= strlen(written) => result.text = NULL
    /\ length > strlen(written) + 5 => result.text # NULL

PrintedAlike(item, format, written, size) ==
    /\ \A guess \in {0, size \div 2} :
          IsText(cJSON_PrintBuffered(item, guess, format, TRUE, Plenty), written)
    /\ \A length \in {size \div 2, size - 1, size, size + 4, size + 5} :
          IsPlaced(cJSON_PrintPreallocated(item, length, format), written, length)

PrintIsAlike(item, format, printed) ==
    /\ ~printed.fault
    /\ PrintedAlike(item, format, printed.text, strlen(printed.text) + 1)

(* cJSON_Print, cJSON_PrintBuffered from any guess on and                   *)
(* cJSON_PrintPreallocated write the same text, never beyond their buffer;   *)
(* "allocate 5 bytes more than you actually need" (cJSON.h:148) is enough,   *)
(* and what does not fit is refused.                                        *)
PrintsAlike ==
    \A item \in Printables, format \in BOOLEAN :
        PrintIsAlike(item, format, print(item, format, TRUE, Plenty))

(* With allocators of the user, without realloc, a print that is refused     *)
(* memory at any point writes nowhere it should not and keeps nothing; one   *)
(* that succeeds keeps only the text.                                       *)
PrintBalances ==
    \A item \in Printables, format \in BOOLEAN, allocs \in 0..4 :
        LET printed == print(item, format, FALSE, allocs)
        IN  /\ ~printed.fault
            /\ printed.live = IF printed.text = NULL THEN 0 ELSE 1

(* cJSON_Minify changes nothing of what a JSON text stands for, and stays    *)
(* within it.                                                               *)
MinifyKeeps ==
    IsFirst /\ Whole(text).item # NULL =>
        /\ ~cJSON_Minify(text).past
        /\ Whole(cJSON_Minify(text).text).item = Whole(text).item

(* Looking a member up never compares with the name a child does not have:   *)
(* taking the brackets out of a message leaves no array in it.              *)
NamesFound == ~MeetsNameless(Parsed.item, Data)

(* Every call leaves the same behind, whatever the message was and wherever  *)
(* its parsing stopped: two objects for a message, a buffer for a command.   *)
LeavesTheSame == live = 2 * received + sent

(* A message that is one object, in brackets, without other brackets in it,  *)
(* gives its parameter the number that JSON says its data is, and leaves the *)
(* program up, though what is parsed is no JSON any more.                   *)
IsMessage(s) ==
    /\ Encloses(s, OpenArray, CloseArray)
    /\ OpenArray \notin ToSet(Tail(s))
    /\ Whole(s).item # NULL
    /\ Len(Whole(s).item.kids) = 1

StoresTheData ==
    [][ParameterMessage /\ IsMessage(text) =>
          LET data == DataOf(Whole(text).item.kids[1])
          IN  cJSON_IsNumber(data) => Value' = data.val /\ status' = "up"]_vars

(* What is published reads as the command and the array that were meant,     *)
(* though it was put together as a string and cut up as a text.             *)
SaysWhatWasMeant ==
    [][send_json_obj =>
          Whole(published').item =
              Item("Object", NULL,
                   <<Named(Item("String", Topic, <<>>), Cmd),
                     Named(Whole(text).item, Field)>>)]_vars
=============================================================================
