---------------------------- MODULE TextFilters -----------------------------
(***************************************************************************)
(* What the program and cJSON_Minify do to a text in place.                 *)
(***************************************************************************)
EXTENDS JsonParse

(* strip: the symbols of to_remove are taken out, the rest closes up. *)
strip(text, to_remove) ==
    LET kept[n \in 0..Len(text)] ==
            IF n = 0 THEN <<>>
            ELSE IF text[n] \in to_remove THEN kept[n - 1]
            ELSE Append(kept[n - 1], text[n])
    IN  kept[Len(text)]

SPACE == {Tab, Return, Newline}

(* Seeded fault: the loop stops after the first bracket. *)
FilterFirst(payload) ==
    IF payload # <<>> /\ payload[1] = OpenArray THEN Tail(payload) ELSE payload

(* The first loop of msgarrvd.  The second one, meant for the closing        *)
(* brackets, starts beyond the terminator of what the first one left: it     *)
(* changes nothing of the text, and without an opening bracket in it starts  *)
(* beyond the array.                                                        *)
FilterBrackets(payload) == strip(payload, {OpenArray})

FilterOverruns(payload) == OpenArray \notin ToSet(payload)

(* strstr of a quote and an opening bracket: where they are, or 0. *)
QuotedArrayAt(text) ==
    LET found == {i \in 1..(Len(text) - 1) :
                     text[i] = Quote /\ text[i + 1] = OpenArray}
    IN  IF found = {} THEN 0
        ELSE CHOOSE i \in found : \A j \in found : i <= j

(* Seeded fault: the quotes of the whole text are taken out. *)
UnquoteAll(text) == strip(text, {Quote})

(* The quotes from there on are taken out. *)
UnquoteArray(text) ==
    SubSeq(text, 1, QuotedArrayAt(text) - 1)
        \o strip(SubSeq(text, QuotedArrayAt(text), Len(text)), {Quote})

-----------------------------------------------------------------------------
(* The first place from which on the condition holds, or the one after all.  *)
FirstPlace(text, from, Condition(_)) ==
    LET places == {i \in from..Len(text) : Condition(i)}
    IN  IF places = {} THEN Len(text) + 1
        ELSE CHOOSE i \in places : \A j \in places : i <= j

Follows(text, at, symbol) == at < Len(text) /\ text[at + 1] = symbol

(* What cJSON_Minify makes of what is next: it has come to a place and has   *)
(* put something into the text before it.                                   *)
MinifyStep(text, m) ==
    LET symbol  == text[m.at]
        closing == ClosingQuote(text, m.at + 1)
        endLine == FirstPlace(text, m.at, LAMBDA i : text[i] = Newline)
        endNote == FirstPlace(text, m.at, LAMBDA i :
                       text[i] = Star /\ Follows(text, i, Slash))
    IN  IF symbol \in {Space, Tab, Return, Newline} THEN [m EXCEPT !.at = @ + 1]
        ELSE IF symbol = Slash /\ Follows(text, m.at, Slash)
        THEN [m EXCEPT !.at = endLine]
        ELSE IF symbol = Slash /\ Follows(text, m.at, Star)
        THEN [m EXCEPT !.at = endNote + 2]
        ELSE IF symbol # Quote
        THEN [at |-> m.at + 1, into |-> Append(m.into, symbol)]
        ELSE IF closing = 0 THEN [m EXCEPT !.at = Len(text) + 2]
        ELSE [at |-> closing + 1, into |-> m.into \o SubSeq(text, m.at, closing)]

(* Seeded fault: blanks are taken out of strings, too. *)
MinifyStrings(text) ==
    [text |-> strip(text, {Space, Tab, Return, Newline}), past |-> FALSE]

(* past tells that it reads on beyond the terminator, after a string or a    *)
(* comment that nothing closes.                                             *)
cJSON_Minify(text) ==
    LET run[n \in 0..Len(text)] ==
            IF n = 0 THEN [at |-> 1, into |-> <<>>]
            ELSE LET m == run[n - 1]
                 IN  IF m.at > Len(text) THEN m ELSE MinifyStep(text, m)
        done == run[Len(text)]
    IN  [text |-> done.into, past |-> done.at > Len(text) + 1]
=============================================================================
