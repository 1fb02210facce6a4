----------------------------- MODULE MCPayloads -----------------------------
(* Payloads with the pieces that JSON texts and the damaged ones are made of. *)
EXTENDS JsonGrammar

Text(name) == <<Quote>> \o name \o <<Quote>>

MCPieces ==
    {<<s>> : s \in {OpenObject, CloseObject, OpenArray, CloseArray, Comma, Colon,
                    Space, Minus, 49, Quote, Words.True}}
        \cup {<<OpenArray, OpenObject>>, Text(Data), Text(<<Backslash, Quote>>), Text(<<Backslash, 120>>)}

(* A letter, escapes, a control byte, halves of a surrogate pair, an accented *)
(* letter, and letters that after a backslash start a literal which lacks a  *)
(* digit.                                                                   *)
MCStringPieces ==
    {<<s>> : s \in {Quote, Backslash, 110, Newline}}
        \cup {Literal(code) : code \in {55357, 56832, 233}}
        \cup {<<LetterU, 48, 48, 48>>}
=============================================================================
