------------------------------- MODULE Utf16 --------------------------------
(***************************************************************************)
(* The \uXXXX literals of a JSON string and the UTF-8 bytes cJSON makes of   *)
(* them.  A code is the 16-bit value of four hexadecimal digits.            *)
(***************************************************************************)
EXTENDS Integers, Sequences

Code == 0..65535

High == 55296..56319     (* 0xD800..0xDBFF, the first half of a pair  *)
Low  == 56320..57343     (* 0xDC00..0xDFFF, the second half of a pair *)

(* What a hexadecimal digit counts, in either case; -1 for any other byte.   *)
Nibble(byte) ==
    IF byte \in 48..57 THEN byte - 48
    ELSE IF byte \in 65..70 THEN byte - 55
    ELSE IF byte \in 97..102 THEN byte - 87 ELSE -1

(* Each digit is added and shifted left, but for the last.  A byte that is   *)
(* no hexadecimal digit makes the whole code 0, which is no error.           *)
parse_hex4(input) ==
    IF \E i \in 1..4 : Nibble(input[i]) = -1 THEN 0
    ELSE ((Nibble(input[1]) * 16 + Nibble(input[2])) * 16 + Nibble(input[3])) * 16
             + Nibble(input[4])

Pair(first, second) == 65536 + (first % 1024) * 1024 + (second % 1024)

(* The low six bits, marked as a continuation byte. *)
Continued(bits) == 128 + (bits % 64)

(* The code point without the bits that went into the byte before. *)
Shifted(codepoint) == codepoint \div 64

(* One to four bytes: the mark of the first one tells how many follow. *)
Utf8(codepoint) ==
    LET second == Shifted(codepoint)
        third  == Shifted(second)
    IN  IF codepoint < 128 THEN <<codepoint>>
        ELSE IF codepoint < 2048 THEN <<192 + second, Continued(codepoint)>>
        ELSE IF codepoint < 65536
        THEN <<224 + third, Continued(second), Continued(codepoint)>>
        ELSE <<240 + Shifted(third), Continued(third), Continued(second),
               Continued(codepoint)>>

(* Seeded fault: whatever follows the first half is taken for the second. *)
CodesUsedUnpaired(codes) ==
    IF codes = <<>> THEN 0
    ELSE IF codes[1] \in High /\ Len(codes) > 1 THEN 2 ELSE 1

(* How many of the codes that follow one another make one literal: none if   *)
(* the first is half of a pair that the second does not complete.            *)
CodesUsed(codes) ==
    IF codes = <<>> THEN 0
    ELSE IF codes[1] \in Low THEN 0
    ELSE IF codes[1] \notin High THEN 1
    ELSE IF Len(codes) > 1 /\ codes[2] \in Low THEN 2 ELSE 0

(* The bytes of the literal the codes start with. *)
utf16_literal_to_utf8(codes) ==
    IF CodesUsed(codes) = 2 THEN Utf8(Pair(codes[1], codes[2]))
                            ELSE Utf8(codes[1])
=============================================================================
