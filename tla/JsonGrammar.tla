---------------------------- MODULE JsonGrammar -----------------------------
(***************************************************************************)
(* Which texts are JSON: the grammar of RFC 8259 by itself, as a reference   *)
(* for the parser, with the parser's two limits and the control characters   *)
(* it lets through in strings.  Halves of a surrogate pair are told by their *)
(* digits.                                                                  *)
(***************************************************************************)
EXTENDS Payloads

RECURSIVE Trimmed(_)
Trimmed(s) == IF s = <<>> THEN s
              ELSE IF s[1] <= Space THEN Trimmed(Tail(s))
              ELSE IF s[Len(s)] <= Space THEN Trimmed(Front(s)) ELSE s

Between(s) == SubSeq(s, 2, Len(s) - 1)

IsNumberText(s) ==
    /\ Len(s) < NumberSize
    /\ \E digits \in {s, IF s # <<>> /\ s[1] = Minus THEN Tail(s) ELSE s} :
          digits # <<>> /\ \A i \in DOMAIN digits : digits[i] \in Digits

HexDigits == Digits \cup 65..70 \cup 97..102

(* \u at a place with four symbols after it; that they are digits; and that   *)
(* these are D8 to DB or DC to DF with two more.                            *)
HasU(s, at) == at + 5 <= Len(s) /\ s[at] = Backslash /\ s[at + 1] = LetterU
IsCode(s, at) == HasU(s, at) /\ \A i \in 2..5 : s[at + i] \in HexDigits
IsHigh(s, at) == IsCode(s, at) /\ s[at + 2] \in {68, 100} /\ s[at + 3] \in {56, 57, 65, 66, 97, 98}
IsLow(s, at)  == IsCode(s, at) /\ s[at + 2] \in {68, 100} /\ s[at + 3] \in 67..70 \cup 99..102

RECURSIVE IsCharacters(_)
IsCharacters(s) ==
    \/ s = <<>>
    \/ s[1] \notin {Quote, Backslash} /\ IsCharacters(Tail(s))
    \/ /\ Len(s) > 1 /\ s[1] = Backslash /\ s[2] \in DOMAIN Unescaped
       /\ IsCharacters(SubSeq(s, 3, Len(s)))
    \/ /\ IsCode(s, 1) /\ ~IsHigh(s, 1) /\ ~IsLow(s, 1)
       /\ IsCharacters(SubSeq(s, 7, Len(s)))
    \/ /\ IsHigh(s, 1) /\ IsLow(s, 7)
       /\ IsCharacters(SubSeq(s, 13, Len(s)))

IsStringText(s) == Encloses(s, Quote, Quote) /\ IsCharacters(Between(s))

RECURSIVE IsValue(_, _)
RECURSIVE IsList(_, _, _)

IsMember(s, depth) ==
    \E i \in DOMAIN s :
        /\ s[i] = Colon
        /\ IsStringText(Trimmed(SubSeq(s, 1, i - 1)))
        /\ IsValue(SubSeq(s, i + 1, Len(s)), depth)

IsElement(s, depth, named) ==
    IF named THEN IsMember(s, depth) ELSE IsValue(s, depth)

IsList(s, depth, named) ==
    \/ IsElement(s, depth, named)
    \/ \E i \in DOMAIN s :
          /\ s[i] = Comma
          /\ IsElement(SubSeq(s, 1, i - 1), depth, named)
          /\ IsList(SubSeq(s, i + 1, Len(s)), depth, named)

IsContainer(s, depth, open, close) ==
    /\ depth > 0
    /\ Encloses(s, open, close)
    /\ \/ Trimmed(Between(s)) = <<>>
       \/ IsList(Between(s), depth - 1, open = OpenObject)

(* A value with blanks around it, nested at most depth deep. *)
IsValue(s, depth) ==
    LET t == Trimmed(s)
    IN  \/ Len(t) = 1 /\ IsWord(t[1])
        \/ IsNumberText(t)
        \/ IsStringText(t)
        \/ IsContainer(t, depth, OpenArray, CloseArray)
        \/ IsContainer(t, depth, OpenObject, CloseObject)

-----------------------------------------------------------------------------
(* Somewhere \u is followed by four symbols that are not all digits. *)
HasFalseCode == \E i \in DOMAIN text : HasU(text, i) /\ ~IsCode(text, i)

(* The parser accepts JSON, whole texts, the limits of nesting and of the    *)
(* copy of a number apart; and nothing else, unless a \u lacks its four      *)
(* hexadecimal digits: parse_hex4 answers 0 to these, which is taken for the *)
(* code.                                                                    *)
AcceptsJson ==
    IsFirst =>
        /\ IsValue(text, NestingLimit) => Whole(text).item # NULL
        /\ Whole(text).item # NULL => IsValue(text, NestingLimit) \/ HasFalseCode
=============================================================================
