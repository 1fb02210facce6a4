----------------------------- MODULE TextProofs -----------------------------
(***************************************************************************)
(* The texts, for every text and every bound.  The UTF-8 bytes of any two    *)
(* literals are read back as the code point written, and a string that is    *)
(* decoded fits what was allocated.  The parser returns a tree of items within *)
(* its nesting limit, or nothing, with the memory it took accounted for; what *)
(* it reads inside an array it reads without the array's bracket, too.  The  *)
(* printer writes one text of each tree, whichever way it is called, inside  *)
(* the buffer it has made room in.  From these, what Payloads promises.      *)
(***************************************************************************)
EXTENDS Payloads, FiniteSetTheorems, SequenceTheorems, WellFoundedInduction, TLAPS


-----------------------------------------------------------------------------
(* The literals of a string that is read.                                   *)

(* The code point that UTF-8 bytes stand for: what any reader of the string  *)
(* makes of them.                                                           *)
FromUtf8(bytes) ==
    IF Len(bytes) = 1 THEN bytes[1]
    ELSE IF Len(bytes) = 2 THEN (bytes[1] - 192) * 64 + (bytes[2] - 128)
    ELSE IF Len(bytes) = 3
    THEN ((bytes[1] - 224) * 64 + (bytes[2] - 128)) * 64 + (bytes[3] - 128)
    ELSE (((bytes[1] - 240) * 64 + (bytes[2] - 128)) * 64 + (bytes[3] - 128)) * 64
             + (bytes[4] - 128)

-----------------------------------------------------------------------------
LEMMA Halves ==
    /\ \A first \in High : first % 1024 = first - 55296 /\ first % 1024 \in 0..1023
    /\ \A second \in Low : second % 1024 = second - 56320 /\ second % 1024 \in 0..1023
<1>1. ASSUME NEW first \in High
      PROVE  first % 1024 = first - 55296 /\ first % 1024 \in 0..1023
  BY SMT DEF High
<1>2. ASSUME NEW second \in Low
      PROVE  second % 1024 = second - 56320 /\ second % 1024 \in 0..1023
  BY SMT DEF Low
<1> QED
  BY SMT, <1>1, <1>2

LEMMA CodeBound == Code \subseteq Nat /\ \A code \in Nat : code < 65536 <=> code \in Code
<1> DEFINE last == 65535
<1>1. last \in Nat /\ \A code \in Nat : code < 65536 <=> code <= last
  BY SMT
<1>2. Code = 0..last
  BY DEF Code
<1> HIDE DEF last
<1> QED
  BY <1>1, <1>2

(* The two halves of a pair, ten bits each, make every code point of the      *)
(* sixteen planes beyond the first: the offset and the masks of              *)
(* utf16_literal_to_utf8.                                                    *)
THEOREM PairsReachThePlanes ==
    ASSUME NEW plane \in 1..16, NEW rest \in Code
    PROVE  \E first \in High, second \in Low :
               Pair(first, second) = plane * 65536 + rest
<1> DEFINE upper  == (plane - 1) * 64 + (rest \div 1024)
           lower  == rest % 1024
           first  == 55296 + upper
           second == 56320 + lower
<1>1. /\ rest \div 1024 \in 0..63 /\ lower \in 0..1023
      /\ rest = (rest \div 1024) * 1024 + lower
  <2>1. rest \in Nat /\ rest < 65536
    BY SMT, CodeBound
  <2>2. rest \div 1024 < 64 /\ rest \div 1024 \in Nat
    BY SMT, <2>1
  <2>3. rest % 1024 \in 0..1023 /\ rest = (rest \div 1024) * 1024 + (rest % 1024)
    BY SMT, <2>1
  <2> QED
    BY SMT, <2>2, <2>3
<1>2. upper \in 0..1023
  BY SMT, <1>1
<1>3. upper * 1024 = (plane - 1) * 65536 + (rest \div 1024) * 1024
  BY SMT, <1>1
<1> HIDE DEF upper, lower
<1>4. first \in High /\ second \in Low
  BY SMT, <1>1, <1>2 DEF High, Low
<1>5. first % 1024 = upper /\ second % 1024 = lower
  BY SMT, <1>1, <1>2, <1>4, Halves
<1>6. Pair(first, second) = plane * 65536 + rest
  <2>1. rest \in Nat
    BY SMT, CodeBound
  <2>2. Pair(first, second) = 65536 + upper * 1024 + lower
    BY SMT, <1>5 DEF Pair
  <2> QED
    BY SMT, <1>1, <1>2, <1>3, <2>1, <2>2
<1> QED
  BY SMT, <1>4, <1>6

(* Two pairs that make the same code point are the same pair. *)
THEOREM PairsAreApart ==
    ASSUME NEW f1 \in High, NEW f2 \in High, NEW s1 \in Low, NEW s2 \in Low,
           Pair(f1, s1) = Pair(f2, s2)
    PROVE  f1 = f2 /\ s1 = s2
<1>1. /\ f1 % 1024 = f1 - 55296 /\ f1 % 1024 \in 0..1023
      /\ f2 % 1024 = f2 - 55296 /\ f2 % 1024 \in 0..1023
      /\ s1 % 1024 = s1 - 56320 /\ s1 % 1024 \in 0..1023
      /\ s2 % 1024 = s2 - 56320 /\ s2 % 1024 \in 0..1023
  BY SMT, Halves
<1>2. /\ f1 \in Int /\ f2 \in Int /\ s1 \in Int /\ s2 \in Int
  BY SMT DEF High, Low
<1>3. (f1 % 1024) * 1024 + (s1 % 1024) = (f2 % 1024) * 1024 + (s2 % 1024)
  BY SMT, <1>1, <1>2 DEF Pair
<1> QED
  BY SMT, <1>1, <1>2, <1>3

-----------------------------------------------------------------------------
(* A shift takes away six bits, which a continuation byte keeps. *)
LEMMA SixBits ==
    ASSUME NEW c \in Nat
    PROVE  /\ Shifted(c) \in Nat
           /\ Continued(c) \in 128..191
           /\ c = Shifted(c) * 64 + (Continued(c) - 128)
BY SMT DEF Shifted, Continued

LEMMA ShiftedBelow ==
    ASSUME NEW c \in Nat, NEW n \in Nat, c < 64 * n
    PROVE  Shifted(c) < n
BY SMT DEF Shifted

(* What Utf8 makes of a code point, by its size. *)
LEMMA Utf8Cases ==
    ASSUME NEW c \in Nat
    PROVE  /\ c < 128 => Utf8(c) = <<c>>
           /\ ~(c < 128) /\ c < 2048 =>
                 Utf8(c) = <<192 + Shifted(c), Continued(c)>>
           /\ ~(c < 2048) /\ c < 65536 =>
                 Utf8(c) = <<224 + Shifted(Shifted(c)), Continued(Shifted(c)),
                             Continued(c)>>
           /\ ~(c < 65536) =>
                 Utf8(c) = <<240 + Shifted(Shifted(Shifted(c))),
                             Continued(Shifted(Shifted(c))),
                             Continued(Shifted(c)), Continued(c)>>
BY SMT DEF Utf8

(* Any reader of the bytes finds the code point that was written. *)
THEOREM Utf8IsReadBack ==
    \A cp \in Nat : FromUtf8(Utf8(cp)) = cp
<1> SUFFICES ASSUME NEW cp \in Nat
             PROVE  FromUtf8(Utf8(cp)) = cp
  OBVIOUS
<1> DEFINE q == Shifted(cp)
           r == Shifted(q)
           t == Shifted(r)
<1>1. q \in Nat /\ cp = q * 64 + (Continued(cp) - 128) /\ Continued(cp) \in 128..191
  BY SixBits
<1>2. r \in Nat /\ q = r * 64 + (Continued(q) - 128) /\ Continued(q) \in 128..191
  BY <1>1, SixBits
<1>3. t \in Nat /\ r = t * 64 + (Continued(r) - 128) /\ Continued(r) \in 128..191
  BY <1>2, SixBits
<1>4. CASE cp < 128
  <2>1. Utf8(cp) = <<cp>>
    BY <1>4, Utf8Cases
  <2> QED
    BY SMT, <2>1 DEF FromUtf8
<1>5. CASE ~(cp < 128) /\ cp < 2048
  <2>1. Utf8(cp) = <<192 + q, Continued(cp)>>
    BY <1>5, Utf8Cases
  <2> HIDE DEF q
  <2>2. FromUtf8(Utf8(cp)) = q * 64 + (Continued(cp) - 128)
    BY SMT, <1>1, <2>1 DEF FromUtf8
  <2> QED
    BY Zenon, <1>1, <2>2
<1>6. CASE ~(cp < 2048) /\ cp < 65536
  <2>1. Utf8(cp) = <<224 + r, Continued(q), Continued(cp)>>
    BY SMT, <1>6, Utf8Cases
  <2> HIDE DEF q, r
  <2>2. FromUtf8(Utf8(cp)) =
            (r * 64 + (Continued(q) - 128)) * 64 + (Continued(cp) - 128)
    BY SMT, <1>1, <1>2, <2>1 DEF FromUtf8
  <2> QED
    BY Zenon, <1>1, <1>2, <2>2
<1>7. CASE ~(cp < 65536)
  <2>1. Utf8(cp) = <<240 + t, Continued(r), Continued(q), Continued(cp)>>
    BY SMT, <1>7, Utf8Cases
  <2> HIDE DEF q, r, t
  <2>2. FromUtf8(Utf8(cp)) =
            ((t * 64 + (Continued(r) - 128)) * 64 + (Continued(q) - 128)) * 64
                + (Continued(cp) - 128)
    BY SMT, <1>1, <1>2, <1>3, <2>1 DEF FromUtf8
  <2> QED
    BY Zenon, <1>1, <1>2, <1>3, <2>2
<1> QED
  BY SMT, <1>4, <1>5, <1>6, <1>7

-----------------------------------------------------------------------------
LEMMA OneByte ==
    ASSUME NEW a \in 0..255,
           NEW s, s = <<a>>
    PROVE  s \in Seq(0..255) /\ Len(s) <= 4
BY SMT

LEMMA TwoBytes ==
    ASSUME NEW a \in 0..255, NEW b \in 0..255,
           NEW s, s = <<a, b>>
    PROVE  s \in Seq(0..255) /\ Len(s) <= 4
BY SMT

LEMMA ThreeBytes ==
    ASSUME NEW a \in 0..255, NEW b \in 0..255, NEW c \in 0..255,
           NEW s, s = <<a, b, c>>
    PROVE  s \in Seq(0..255) /\ Len(s) <= 4
BY SMT

LEMMA FourBytes ==
    ASSUME NEW a \in 0..255, NEW b \in 0..255, NEW c \in 0..255, NEW d \in 0..255,
           NEW s, s = <<a, b, c, d>>
    PROVE  s \in Seq(0..255) /\ Len(s) <= 4
BY SMT

(* Below sixteen quarters of a million, four bytes are enough. *)
LEMMA Utf8Bytes ==
    ASSUME NEW cp \in Nat, Shifted(Shifted(Shifted(cp))) < 16
    PROVE  Utf8(cp) \in Seq(0..255) /\ Len(Utf8(cp)) <= 4
<1> DEFINE q == Shifted(cp)
           r == Shifted(q)
           t == Shifted(r)
<1>1. /\ q \in Nat /\ r \in Nat /\ t \in Nat
      /\ Continued(cp) \in 128..191 /\ Continued(q) \in 128..191
      /\ Continued(r) \in 128..191
  BY SixBits
<1> HIDE DEF q, r, t
<1>2. Continued(cp) \in 0..255 /\ Continued(q) \in 0..255 /\ Continued(r) \in 0..255
  BY SMT, <1>1
<1>3. CASE cp < 128
  <2>1. cp \in 0..255
    BY SMT, <1>3
  <2>2. Utf8(cp) = <<cp>>
    BY <1>3, Utf8Cases
  <2> QED
    BY <2>1, <2>2, OneByte
<1>4. CASE ~(cp < 128) /\ cp < 2048
  <2>1. 192 + q \in 0..255
    <3>1. cp < 64 * 32
      BY SMT, <1>4
    <3>2. q < 32
      BY <3>1, ShiftedBelow DEF q
    <3> QED
      BY SMT, <1>1, <3>2
  <2>2. Utf8(cp) = <<192 + q, Continued(cp)>>
    BY <1>4, Utf8Cases DEF q
  <2> QED
    BY <1>2, <2>1, <2>2, TwoBytes
<1>5. CASE ~(cp < 2048) /\ cp < 65536
  <2>1. 224 + r \in 0..255
    <3>1. cp < 64 * 1024
      BY SMT, <1>5
    <3>2. q < 64 * 16
      <4>1. q < 1024
        BY SMT, <3>1, ShiftedBelow DEF q
      <4> QED
        BY SMT, <1>1, <4>1
    <3>3. r < 16
      BY SMT, <1>1, <3>2, ShiftedBelow DEF r
    <3> QED
      BY SMT, <1>1, <3>3
  <2>2. Utf8(cp) = <<224 + r, Continued(q), Continued(cp)>>
    BY SMT, <1>5, Utf8Cases DEF q, r
  <2> QED
    BY <1>2, <2>1, <2>2, ThreeBytes
<1>6. CASE ~(cp < 65536)
  <2>1. 240 + t \in 0..255
    BY SMT, <1>1 DEF q, r, t
  <2>2. Utf8(cp) = <<240 + t, Continued(r), Continued(q), Continued(cp)>>
    BY SMT, <1>6, Utf8Cases DEF q, r, t
  <2> QED
    BY <1>2, <2>1, <2>2, FourBytes
<1> QED
  BY SMT, <1>3, <1>4, <1>5, <1>6

LEMMA PairIsBelow ==
    ASSUME NEW first \in High, NEW second \in Low
    PROVE  /\ Pair(first, second) \in Nat
           /\ Shifted(Shifted(Shifted(Pair(first, second)))) < 16
<1> DEFINE d == first % 1024
           e == second % 1024
           c == Pair(first, second)
<1>1. d \in 0..1023 /\ e \in 0..1023
  BY SMT, Halves
<1>2. c = 65536 + d * 1024 + e
  BY SMT DEF Pair
<1> HIDE DEF c, d, e
<1>3. c \in Nat /\ Shifted(c) = 1024 + d * 16 + Shifted(e)
  BY SMT, <1>1, <1>2 DEF Shifted
<1>4. Shifted(e) \in Nat /\ Shifted(e) < 16
  BY SMT, <1>1 DEF Shifted
<1>5. Shifted(c) \in Nat /\ Shifted(c) < 20000
  BY SMT, <1>1, <1>3, <1>4
<1>6. Shifted(Shifted(c)) \in Nat /\ Shifted(Shifted(c)) < 400
  BY SMT, <1>5 DEF Shifted
<1>7. Shifted(Shifted(Shifted(c))) < 16
  BY SMT, <1>6 DEF Shifted
<1> QED
  BY SMT, <1>3, <1>7 DEF c

LEMMA CodeIsBelow ==
    ASSUME NEW code \in Code
    PROVE  code \in Nat /\ Shifted(Shifted(Shifted(code))) < 16
<1>1. code \in Nat /\ code < 65536
  BY SMT, CodeBound
<1>2. Shifted(code) \in Nat /\ Shifted(code) < 1024
  BY SMT, <1>1 DEF Shifted
<1>3. Shifted(Shifted(code)) \in Nat /\ Shifted(Shifted(code)) < 16
  BY SMT, <1>2 DEF Shifted
<1>4. Shifted(Shifted(Shifted(code))) < 16
  BY SMT, <1>3 DEF Shifted
<1> QED
  BY SMT, <1>1, <1>4

LEMMA CodeBytes == ASSUME NEW code \in Code PROVE Len(Utf8(code)) <= 3
<1>1. code \in Nat /\ code < 65536
  BY SMT, CodeBound
<1>2. Utf8(code) =
         IF code < 128 THEN <<code>>
         ELSE IF code < 2048 THEN <<192 + Shifted(code), Continued(code)>>
         ELSE <<224 + Shifted(Shifted(code)), Continued(Shifted(code)), Continued(code)>>
  BY SMT, <1>1 DEF Utf8
<1>3. CASE code < 128
  BY <1>2, <1>3
<1>4. CASE ~(code < 128) /\ code < 2048
  BY <1>2, <1>4
<1>5. CASE ~(code < 128) /\ ~(code < 2048)
  BY <1>2, <1>5
<1> QED
  BY <1>3, <1>4, <1>5

(* A literal takes six characters for each code, and parse_string allocates   *)
(* five bytes for these, or as few as three where it counts more escapes      *)
(* among them (StringsFit): no more than three are made of each code.        *)
THEOREM LiteralFits ==
    ASSUME NEW codes \in Seq(Code), CodesUsed(codes) > 0
    PROVE  /\ Len(utf16_literal_to_utf8(codes)) <= 3 * CodesUsed(codes)
           /\ utf16_literal_to_utf8(codes) \in Seq(0..255)
<1>1. codes # <<>>
  BY SMT DEF CodesUsed
<1>2. Len(codes) \in Nat /\ Len(codes) >= 1 /\ codes[1] \in Code
  <2> HIDE DEF Code
  <2> QED
    BY SMT, <1>1
<1>3. CodesUsed(codes) \in {1, 2}
  <2> HIDE DEF Code
  <2> QED
    BY DEF CodesUsed
<1>4. CASE CodesUsed(codes) = 2
  <2>1. codes[1] \in High /\ codes[2] \in Low
    BY SMT, <1>1, <1>4 DEF CodesUsed
  <2>2. utf16_literal_to_utf8(codes) = Utf8(Pair(codes[1], codes[2]))
    BY Zenon, <1>4 DEF utf16_literal_to_utf8
  <2>3. /\ Utf8(Pair(codes[1], codes[2])) \in Seq(0..255)
        /\ Len(Utf8(Pair(codes[1], codes[2]))) <= 4
    BY Zenon, <2>1, PairIsBelow, Utf8Bytes
  <2> QED
    BY SMT, <1>4, <2>2, <2>3
<1>5. CASE CodesUsed(codes) = 1
  <2>1. utf16_literal_to_utf8(codes) = Utf8(codes[1])
    BY SMT, <1>5 DEF utf16_literal_to_utf8
  <2>2. Utf8(codes[1]) \in Seq(0..255)
    BY Zenon, <1>2, CodeIsBelow, Utf8Bytes
  <2>3. Len(Utf8(codes[1])) <= 3
    BY Zenon, <1>2, CodeBytes
  <2> QED
    BY SMT, <1>5, <2>1, <2>2, <2>3
<1> QED
  BY Zenon, <1>3, <1>4, <1>5

-----------------------------------------------------------------------------
(* Recursion along the numbers up to a bound.                               *)

LEMMA UpTo ==
    ASSUME NEW N \in Nat, NEW T \in SUBSET (0..N), 0 \in T,
           \A n \in 0..(N - 1) : n \in T => n + 1 \in T
    PROVE  T = 0..N
<1> DEFINE rest == (0..N) \ T
           R == OpToRel(<, Nat)
<1>1. IsWellFoundedOn(R, Nat)
  BY NatLessThanWellFounded
<1>2. \A x, y \in Nat : <<y, x>> \in R <=> y < x
  BY DEF OpToRel
<1> HIDE DEF R
<1>3. ASSUME rest # {} PROVE FALSE
  <2>1. PICK x \in rest : \A y \in rest : ~ (<<y, x>> \in R)
    <3>1. rest \subseteq Nat
      OBVIOUS
    <3> HIDE DEF rest
    <3> QED
      BY <1>1, <1>3, <3>1, WFMin
  <2>2. x # 0 /\ x \in 0..N /\ x \notin T
    OBVIOUS
  <2>3. x - 1 \in 0..(N - 1) /\ x - 1 < x /\ x - 1 \in 0..N /\ (x - 1) + 1 = x
    BY <2>2
  <2>4. x - 1 \in T
    <3>1. <<x - 1, x>> \in R
      BY <1>2, <2>2, <2>3
    <3>2. x - 1 \notin rest
      BY <2>1, <3>1
    <3> QED
      BY <2>3, <3>2
  <2> QED
    BY <2>2, <2>3, <2>4
<1> QED
  BY <1>3

(* Each step leads from the set of a number to the set of the next one.      *)
Steps(N, F, step) == \A n \in 0..(N - 1) : step[n] \in [F[n] -> F[n + 1]]

(* g takes the steps as long as it is in the sets; it does, and is.          *)
Takes(N, F, step, g) ==
    \A n \in 0..(N - 1) : g[n] \in F[n] => g[n + 1] = step[n][g[n]]

Reaches(N, F, step, g) ==
    /\ \A n \in 0..N : g[n] \in F[n]
    /\ \A n \in 0..(N - 1) : g[n + 1] = step[n][g[n]]

(* What each number makes of what the one before has made exists, and is in   *)
(* the set that is kept for that number.                                    *)
LEMMA Recursion ==
    ASSUME NEW N \in Nat, NEW F, NEW a \in F[0], NEW step, Steps(N, F, step)
    PROVE  \E g : g = [n \in 0..N |-> g[n]] /\ g[0] = a /\ Reaches(N, F, step, g)
<1> USE DEF Steps, Reaches
<1> DEFINE Is(g, m) == /\ g = [n \in 0..m |-> g[n]]
                       /\ g[0] = a
                       /\ \A n \in 0..m : g[n] \in F[n]
                       /\ \A n \in 0..(m - 1) : g[n + 1] = step[n][g[n]]
           T == {m \in 0..N : \E g : Is(g, m)}
<1>1. 0 \in T
  <2> DEFINE g == [n \in 0..0 |-> a]
  <2>1. Is(g, 0)
    <3>1. g[0] = a /\ g = [n \in 0..0 |-> g[n]]
      OBVIOUS
    <3>2. \A n \in 0..0 : n = 0
      OBVIOUS
    <3>3. \A n \in 0..(0 - 1) : FALSE
      OBVIOUS
    <3> HIDE DEF g
    <3> QED
      BY <3>1, <3>2, <3>3
  <2> HIDE DEF Is
  <2> QED
    BY <2>1
<1>2. ASSUME NEW m \in 0..(N - 1), m \in T PROVE m + 1 \in T
  <2>1. PICK g : Is(g, m)
    BY <1>2
  <2> DEFINE h == [n \in 0..(m + 1) |-> IF n <= m THEN g[n] ELSE step[m][g[m]]]
  <2>2. m \in Nat /\ g[m] \in F[m] /\ step[m][g[m]] \in F[m + 1]
    BY <2>1
  <2>3. h[m + 1] = step[m][g[m]] /\ \A n \in 0..m : h[n] = g[n]
    BY <2>2
  <2>4. h[0] = a /\ h = [n \in 0..(m + 1) |-> h[n]]
    BY <2>1, <2>2
  <2>5. \A n \in 0..(m + 1) : h[n] \in F[n]
    <3> HIDE DEF h
    <3> QED
      BY <2>1, <2>2, <2>3
  <2>6. \A n \in 0..((m + 1) - 1) : h[n + 1] = step[n][h[n]]
    <3>1. ASSUME NEW n \in 0..((m + 1) - 1) PROVE h[n + 1] = step[n][h[n]]
      <4>1. CASE n = m
        <5> HIDE DEF h
        <5> QED
          BY <2>2, <2>3, <4>1
      <4>2. CASE n # m
        <5>1. n \in 0..(m - 1) /\ n + 1 \in 0..m /\ n \in 0..m
          BY <2>2, <4>2
        <5>2. g[n + 1] = step[n][g[n]]
          BY <2>1, <5>1
        <5> HIDE DEF h
        <5> QED
          BY <2>3, <5>1, <5>2
      <4> QED
        BY <4>1, <4>2
    <3> HIDE DEF h
    <3> QED
      BY <3>1
  <2> HIDE DEF h
  <2>7. Is(h, m + 1)
    BY <2>4, <2>5, <2>6
  <2>8. m + 1 \in 0..N
    OBVIOUS
  <2> HIDE DEF Is
  <2> QED
    BY <2>7, <2>8
<1> HIDE DEF Is
<1>3. T \in SUBSET (0..N)
  OBVIOUS
<1> HIDE DEF T
<1>4. T = 0..N
  BY <1>1, <1>2, <1>3, UpTo
<1>5. N \in T
  BY <1>4
<1> QED
  BY <1>5 DEF T, Is

(* What is made in this way stays in the sets.                               *)
LEMMA Recursed ==
    ASSUME NEW N \in Nat, NEW F, NEW step, NEW f, f[0] \in F[0],
           Steps(N, F, step), Takes(N, F, step, f)
    PROVE  Reaches(N, F, step, f)
<1> USE DEF Steps, Takes, Reaches
<1> DEFINE T == {n \in 0..N : f[n] \in F[n]}
<1>1. 0 \in T
  OBVIOUS
<1>2. ASSUME NEW n \in 0..(N - 1), n \in T PROVE n + 1 \in T
  <2>1. f[n] \in F[n] /\ n + 1 \in 0..N /\ f[n + 1] = step[n][f[n]]
    BY <1>2
  <2>2. step[n][f[n]] \in F[n + 1]
    BY <2>1
  <2> QED
    BY <2>1, <2>2
<1>3. T \in SUBSET (0..N)
  OBVIOUS
<1> HIDE DEF T
<1>4. T = 0..N
  BY <1>1, <1>2, <1>3, UpTo
<1>5. \A n \in 0..N : f[n] \in F[n]
  BY <1>4 DEF T
<1>6. \A n \in 0..(N - 1) : n \in 0..N
  OBVIOUS
<1> QED
  BY <1>5, <1>6

-----------------------------------------------------------------------------
(* Sums along a sequence.                                                   *)

Sums(s, f) == f = [n \in 0..Len(s) |-> IF n = 0 THEN 0 ELSE f[n - 1] + s[n]]

LEMMA SomeSums ==
    ASSUME NEW s \in Seq(Int)
    PROVE  /\ \E f : Sums(s, f)
           /\ \A f : Sums(s, f) => \A n \in 0..Len(s) : f[n] \in Int
<1> DEFINE N == Len(s)
           F == [n \in Nat |-> Int]
           step == [n \in 0..(N - 1) |-> [x \in Int |-> x + s[n + 1]]]
<1>1. N \in Nat /\ \A n \in 0..(N - 1) : s[n + 1] \in Int
  BY LenProperties
<1>2. 0 \in F[0] /\ Steps(N, F, step)
  BY <1>1 DEF Steps
<1>3. \E f : Sums(s, f)
  <2> HIDE DEF F, step
  <2>4. PICK g : g = [n \in 0..N |-> g[n]] /\ g[0] = 0 /\ Reaches(N, F, step, g)
    <3> HIDE DEF N
    <3> QED
      BY <1>1, <1>2, Recursion
  <2>1. /\ g = [n \in 0..N |-> g[n]]
        /\ g[0] = 0
        /\ \A n \in 0..N : g[n] \in F[n]
        /\ \A n \in 0..(N - 1) : g[n + 1] = step[n][g[n]]
    BY <2>4 DEF Reaches
  <2>2. ASSUME NEW n \in 0..N PROVE g[n] = IF n = 0 THEN 0 ELSE g[n - 1] + s[n]
    <3>1. CASE n # 0
      <4>1. n - 1 \in 0..(N - 1) /\ (n - 1) + 1 = n /\ n - 1 \in 0..N /\ n - 1 \in Nat
        BY <1>1, <3>1
      <4>2. g[n - 1] \in Int
        BY <2>1, <4>1 DEF F
      <4>3. g[n] = step[n - 1][g[n - 1]]
        BY <2>1, <4>1
      <4> QED
        BY <3>1, <4>1, <4>2, <4>3 DEF step
    <3> QED
      BY <2>1, <3>1
  <2>3. g = [n \in 0..N |-> IF n = 0 THEN 0 ELSE g[n - 1] + s[n]]
    BY <2>1, <2>2
  <2> QED
    BY <2>3 DEF Sums
<1>4. ASSUME NEW f, Sums(s, f) PROVE \A n \in 0..N : f[n] \in Int
  <2>1. f[0] \in F[0]
    BY <1>1, <1>4 DEF Sums
  <2>2. ASSUME NEW n \in 0..(N - 1), f[n] \in F[n] PROVE f[n + 1] = step[n][f[n]]
    <3>1. n + 1 \in 0..N /\ n + 1 # 0 /\ (n + 1) - 1 = n /\ f[n] \in Int
      BY <1>1, <2>2
    <3>2. f[n + 1] = f[(n + 1) - 1] + s[n + 1]
      BY <1>4, <3>1 DEF Sums
    <3> QED
      BY <3>1, <3>2
  <2> HIDE DEF F, step, N
  <2>3. Takes(N, F, step, f)
    BY <2>2 DEF Takes
  <2>4. Reaches(N, F, step, f)
    BY <1>1, <1>2, <2>1, <2>3, Recursed
  <2> QED
    BY <1>1, <2>4 DEF F, Reaches
<1> QED
  BY <1>3, <1>4

LEMMA SumIsSums ==
    ASSUME NEW s \in Seq(Int)
    PROVE  \E f : Sums(s, f) /\ SumOf(s) = f[Len(s)] /\ \A n \in 0..Len(s) : f[n] \in Int
<1> DEFINE f == CHOOSE g : g = [n \in 0..Len(s) |-> IF n = 0 THEN 0 ELSE g[n - 1] + s[n]]
<1>1. Sums(s, f)
  BY SomeSums DEF Sums
<1>2. SumOf(s) = f[Len(s)]
  BY DEF SumOf
<1> HIDE DEF f
<1>3. \A n \in 0..Len(s) : f[n] \in Int
  BY <1>1, SomeSums
<1> QED
  BY <1>1, <1>2, <1>3

LEMMA SumEmpty == SumOf(<<>>) = 0 /\ \A s \in Seq(Int) : SumOf(s) \in Int
<1>1. <<>> \in Seq(Int) /\ Len(<<>>) = 0
  OBVIOUS
<1>2. SumOf(<<>>) = 0
  <2>1. PICK f : Sums(<<>>, f) /\ SumOf(<<>>) = f[Len(<<>>)]
    BY <1>1, SumIsSums
  <2> QED
    BY <1>1, <2>1 DEF Sums
<1>3. ASSUME NEW s \in Seq(Int) PROVE SumOf(s) \in Int
  <2>1. PICK f : SumOf(s) = f[Len(s)] /\ \A n \in 0..Len(s) : f[n] \in Int
    BY SumIsSums
  <2>2. Len(s) \in 0..Len(s)
    BY LenProperties
  <2> QED
    BY <2>1, <2>2
<1> QED
  BY <1>2, <1>3

(* The beginnings of two sequences that agree have the same sums.            *)
Agree(s, t, N) ==
    N \in 0..Len(s) /\ N <= Len(t) /\ \A n \in 1..N : s[n] = t[n]

LEMMA SameSums ==
    ASSUME NEW s \in Seq(Int), NEW t \in Seq(Int), NEW N, Agree(s, t, N),
           NEW f, Sums(s, f), NEW g, Sums(t, g)
    PROVE  f[N] = g[N]
<1> USE DEF Agree
<1> DEFINE T == {n \in 0..N : f[n] = g[n]}
<1>1. Len(s) \in Nat /\ Len(t) \in Nat /\ N \in Nat
  BY LenProperties
<1>2. 0 \in T
  BY <1>1 DEF Sums
<1>3. ASSUME NEW n \in 0..(N - 1), n \in T PROVE n + 1 \in T
  <2>1. n + 1 \in 0..Len(s) /\ n + 1 \in 0..Len(t) /\ n + 1 \in 1..N /\ (n + 1) - 1 = n /\ n + 1 # 0
    BY <1>1
  <2>2. f[n] = g[n] /\ s[n + 1] = t[n + 1]
    BY <1>3, <2>1
  <2>3. f[n + 1] = f[n] + s[n + 1] /\ g[n + 1] = g[n] + t[n + 1]
    BY <2>1 DEF Sums
  <2> QED
    BY <2>1, <2>2, <2>3
<1>4. T \in SUBSET (0..N)
  OBVIOUS
<1> HIDE DEF T
<1>5. T = 0..N
  BY <1>1, <1>2, <1>3, <1>4, UpTo
<1> QED
  BY <1>1, <1>5 DEF T

LEMMA SumAppend ==
    ASSUME NEW s \in Seq(Int), NEW x \in Int
    PROVE  SumOf(Append(s, x)) = SumOf(s) + x
<1> DEFINE t == Append(s, x)
<1>1. t \in Seq(Int) /\ Len(t) = Len(s) + 1 /\ t[Len(s) + 1] = x
      /\ (\A n \in 1..Len(s) : t[n] = s[n]) /\ Len(s) \in Nat
  BY AppendProperties, LenProperties
<1>2. PICK f : Sums(s, f) /\ SumOf(s) = f[Len(s)]
  BY SumIsSums
<1>3. PICK g : Sums(t, g) /\ SumOf(t) = g[Len(t)]
  BY <1>1, SumIsSums
<1> HIDE DEF t
<1>4. f[Len(s)] = g[Len(s)]
  <2>1. Agree(s, t, Len(s))
    BY <1>1 DEF Agree
  <2> QED
    BY <1>1, <1>2, <1>3, <2>1, SameSums
<1>5. g[Len(s) + 1] = g[Len(s)] + x
  <2>1. Len(s) + 1 \in 0..Len(t) /\ Len(s) + 1 # 0 /\ (Len(s) + 1) - 1 = Len(s)
    BY <1>1
  <2> QED
    BY <1>1, <1>3, <2>1 DEF Sums
<1>6. SumOf(t) = SumOf(s) + x
  BY <1>1, <1>2, <1>3, <1>4, <1>5
<1> QED
  BY <1>6 DEF t

LEMMA SumOne == ASSUME NEW x \in Int PROVE SumOf(<<x>>) = x
<1>1. <<x>> = Append(<<>>, x) /\ <<>> \in Seq(Int)
  OBVIOUS
<1>2. SumOf(Append(<<>>, x)) = SumOf(<<>>) + x
  BY <1>1, SumAppend
<1> QED
  BY <1>1, <1>2, SumEmpty

LEMMA SumConcat ==
    ASSUME NEW s \in Seq(Int), NEW t \in Seq(Int)
    PROVE  SumOf(s \o t) = SumOf(s) + SumOf(t)
<1> DEFINE First(n) == SubSeq(t, 1, n)
           T == {n \in 0..Len(t) : SumOf(s \o First(n)) = SumOf(s) + SumOf(First(n))}
<1>1. Len(t) \in Nat /\ SumOf(s) \in Int
  BY LenProperties, SumEmpty
<1>2. 0 \in T
  <2>1. First(0) = <<>>
    BY SubSeqEmpty
  <2>2. s \o <<>> = s
    BY ConcatEmptySeq
  <2>4. SumOf(s) = SumOf(s) + SumOf(<<>>)
    BY <1>1, SumEmpty
  <2>3. SumOf(s \o First(0)) = SumOf(s) + SumOf(First(0))
    <3> HIDE DEF First
    <3> QED
      BY ONLY <2>1, <2>2, <2>4
  <2> HIDE DEF First
  <2> QED
    BY <1>1, <2>3
<1>3. ASSUME NEW n \in 0..(Len(t) - 1), n \in T PROVE n + 1 \in T
  <2>1. n + 1 \in 1..Len(t) /\ n \in 0..Len(t) /\ t[n + 1] \in Int
    BY <1>1, ElementOfSeq
  <2>2. First(n + 1) = Append(First(n), t[n + 1])
    BY <1>1, <2>1, SubSeqRecursiveSecond
  <2>3. First(n) \in Seq(Int)
    BY <1>1, <2>1, SubSeqProperties
  <2> HIDE DEF First
  <2>4. s \o First(n + 1) = Append(s \o First(n), t[n + 1]) /\ s \o First(n) \in Seq(Int)
    <3>5. <<t[n + 1]>> \in Seq(Int)
      BY <2>1
    <3>6. s \o First(n) \in Seq(Int)
      BY <2>3, ConcatProperties
    <3>1. <<t[n + 1]>> \in Seq(Int) /\ s \o First(n) \in Seq(Int)
      BY <3>5, <3>6
    <3>2. Append(First(n), t[n + 1]) = First(n) \o <<t[n + 1]>>
      BY <2>1, <2>3, AppendIsConcat
    <3>3. (s \o First(n)) \o <<t[n + 1]>> = s \o (First(n) \o <<t[n + 1]>>)
      <4> DEFINE a == First(n)
                 x == <<t[n + 1]>>
      <4> HIDE DEF a, x
      <4>1. a \in Seq(Int) /\ x \in Seq(Int)
        BY <2>3, <3>5 DEF a, x
      <4>2. (s \o a) \o x = s \o (a \o x)
        BY <4>1
      <4> QED
        BY <4>2 DEF a, x
    <3>4. Append(s \o First(n), t[n + 1]) = (s \o First(n)) \o <<t[n + 1]>>
      BY <2>1, <3>1, AppendIsConcat
    <3> QED
      BY <2>2, <3>1, <3>2, <3>3, <3>4
  <2>5. SumOf(s \o First(n)) = SumOf(s) + SumOf(First(n))
    BY <1>3
  <2>6. SumOf(s \o First(n + 1)) = SumOf(s \o First(n)) + t[n + 1]
        /\ SumOf(First(n + 1)) = SumOf(First(n)) + t[n + 1]
    BY <2>1, <2>2, <2>3, <2>4, SumAppend
  <2>7. SumOf(First(n)) \in Int
    BY <2>3, SumEmpty
  <2> QED
    BY <1>1, <2>1, <2>5, <2>6, <2>7
<1>4. T \in SUBSET (0..Len(t))
  OBVIOUS
<1>5. First(Len(t)) = t
  BY SubSeqFull
<1> HIDE DEF T
<1>6. T = 0..Len(t)
  BY <1>1, <1>2, <1>3, <1>4, UpTo
<1>7. Len(t) \in T
  BY <1>1, <1>6
<1> HIDE DEF First
<1> QED
  BY <1>5, <1>7 DEF T

LEMMA SumNat ==
    ASSUME NEW s \in Seq(Nat)
    PROVE  SumOf(s) \in Nat
<1>1. s \in Seq(Int) /\ Len(s) \in Nat /\ \A n \in 1..Len(s) : s[n] \in Nat
  BY LenProperties, ElementOfSeq
<1>2. PICK f : Sums(s, f) /\ SumOf(s) = f[Len(s)]
  BY <1>1, SumIsSums
<1> DEFINE T == {n \in 0..Len(s) : f[n] \in Nat}
<1>3. 0 \in T
  BY <1>1, <1>2 DEF Sums
<1>4. ASSUME NEW n \in 0..(Len(s) - 1), n \in T PROVE n + 1 \in T
  <2>1. n + 1 \in 0..Len(s) /\ n + 1 \in 1..Len(s) /\ (n + 1) - 1 = n /\ n + 1 # 0
    BY <1>1
  <2>2. f[n + 1] = f[n] + s[n + 1]
    BY <1>2, <2>1 DEF Sums
  <2> QED
    BY <1>1, <1>4, <2>1, <2>2
<1>5. T \in SUBSET (0..Len(s))
  OBVIOUS
<1> HIDE DEF T
<1>6. T = 0..Len(s)
  BY <1>1, <1>3, <1>4, <1>5, UpTo
<1> QED
  BY <1>1, <1>2, <1>6 DEF T

(* strlen of what is put together. *)
LEMMA Widths ==
    ASSUME NEW s \in Seq(Nat)
    PROVE  /\ [i \in DOMAIN s |-> Width(s[i])] \in Seq(Nat)
           /\ [i \in DOMAIN s |-> Width(s[i])] \in Seq(Int)
           /\ strlen(s) \in Nat
<1>1. Len(s) \in Nat /\ DOMAIN s = 1..Len(s) /\ \A n \in 1..Len(s) : s[n] \in Nat
  BY LenProperties, ElementOfSeq
<1>2. \A x \in Nat : Width(x) \in 1..5
  BY DEF Width
<1>3. [i \in DOMAIN s |-> Width(s[i])] \in [1..Len(s) -> Nat]
  BY <1>1, <1>2
<1>4. [i \in DOMAIN s |-> Width(s[i])] \in Seq(Nat)
  BY <1>1, <1>3, SeqDef
<1>5. [i \in DOMAIN s |-> Width(s[i])] \in Seq(Int)
  BY <1>4, SeqMonotonic
<1> QED
  BY <1>4, <1>5, SumNat DEF strlen

LEMMA StrlenConcat ==
    ASSUME NEW s \in Seq(Nat), NEW t \in Seq(Nat)
    PROVE  strlen(s \o t) = strlen(s) + strlen(t)
<1> DEFINE W(r) == [i \in DOMAIN r |-> Width(r[i])]
<1>1. s \o t \in Seq(Nat) /\ Len(s \o t) = Len(s) + Len(t)
      /\ Len(s) \in Nat /\ Len(t) \in Nat
  BY ConcatProperties, LenProperties
<1>2. W(s \o t) = W(s) \o W(t)
  <2>1. W(s) \in Seq(Int) /\ W(t) \in Seq(Int) /\ W(s \o t) \in Seq(Int)
    BY <1>1, Widths
  <2>2. /\ DOMAIN s = 1..Len(s) /\ DOMAIN t = 1..Len(t)
        /\ DOMAIN (s \o t) = 1..(Len(s) + Len(t))
    BY <1>1, LenProperties
  <2>3. DOMAIN W(s) = 1..Len(s) /\ DOMAIN W(t) = 1..Len(t)
        /\ DOMAIN W(s \o t) = 1..(Len(s) + Len(t))
    BY <2>2
  <2>4. Len(W(s)) = Len(s) /\ Len(W(t)) = Len(t) /\ Len(W(s \o t)) = Len(s) + Len(t)
    <3> HIDE DEF W
    <3> QED
      BY <1>1, <2>1, <2>3, LenProperties
  <2>5. ASSUME NEW i \in 1..(Len(s) + Len(t))
        PROVE  W(s \o t)[i] = IF i <= Len(s) THEN W(s)[i] ELSE W(t)[i - Len(s)]
    <3>1. (s \o t)[i] = IF i <= Len(s) THEN s[i] ELSE t[i - Len(s)]
      BY <1>1, ConcatProperties
    <3>2. W(s \o t)[i] = Width((s \o t)[i])
      BY <2>2
    <3>3. CASE i <= Len(s)
      BY <1>1, <2>2, <3>1, <3>2, <3>3
    <3>4. CASE ~(i <= Len(s))
      <4>1. i - Len(s) \in 1..Len(t)
        BY <1>1, <3>4
      <4> QED
        BY <2>2, <3>1, <3>2, <3>4, <4>1
    <3> QED
      BY <3>3, <3>4
  <2> HIDE DEF W
  <2>7. /\ W(s) \o W(t) \in Seq(Int) /\ Len(W(s) \o W(t)) = Len(W(s)) + Len(W(t))
        /\ \A i \in 1..(Len(W(s)) + Len(W(t))) :
              (W(s) \o W(t))[i] = IF i <= Len(W(s)) THEN W(s)[i] ELSE W(t)[i - Len(W(s))]
    <3> DEFINE a == W(s)
               b == W(t)
    <3> HIDE DEF a, b
    <3>1. a \in Seq(Int) /\ b \in Seq(Int)
      BY <2>1 DEF a, b
    <3>2. /\ a \o b \in Seq(Int) /\ Len(a \o b) = Len(a) + Len(b)
          /\ \A i \in 1..(Len(a) + Len(b)) :
                (a \o b)[i] = IF i <= Len(a) THEN a[i] ELSE b[i - Len(a)]
      BY <3>1, ConcatProperties
    <3> QED
      BY <3>2 DEF a, b
  <2>6. /\ W(s) \o W(t) \in Seq(Int) /\ Len(W(s) \o W(t)) = Len(s) + Len(t)
        /\ \A i \in 1..(Len(s) + Len(t)) :
              (W(s) \o W(t))[i] = IF i <= Len(s) THEN W(s)[i] ELSE W(t)[i - Len(s)]
    BY <2>4, <2>7
  <2> QED
    BY <2>1, <2>4, <2>5, <2>6, SeqEqual
<1>3. SumOf(W(s) \o W(t)) = SumOf(W(s)) + SumOf(W(t))
  <2>1. W(s) \in Seq(Int) /\ W(t) \in Seq(Int)
    BY Widths
  <2> HIDE DEF W
  <2> QED
    BY <2>1, SumConcat
<1> QED
  BY <1>2, <1>3 DEF strlen

LEMMA StrlenEmpty == strlen(<<>>) = 0
<1>1. [i \in DOMAIN <<>> |-> Width(<<>>[i])] = <<>>
  OBVIOUS
<1> QED
  BY <1>1, SumEmpty DEF strlen

LEMMA StrlenOne == ASSUME NEW x \in Nat PROVE strlen(<<x>>) = Width(x)
<1>1. [i \in DOMAIN <<x>> |-> Width(<<x>>[i])] = <<Width(x)>>
  OBVIOUS
<1>2. Width(x) \in Int
  BY DEF Width
<1> QED
  BY <1>1, <1>2, SumOne DEF strlen

-----------------------------------------------------------------------------
(* Trees of items and the blocks they are made of.                          *)

Level(types, below) ==
    {item \in [type : types, val : {NULL} \cup Seq(Nat), name : {NULL} \cup Seq(Nat),
               kids : Seq(below)] :
        item.type = "Number" => item.val # NULL}

LEMMA TreesAre ==
    ASSUME NEW types
    PROVE  /\ Trees(types)[0] = {}
           /\ \A n \in 0..(Levels - 1) : Trees(types)[n + 1] = Level(types, Trees(types)[n])
<1> DEFINE D(g, n) == IF n = 0 THEN {} ELSE Level(types, g[n - 1])
           Is(g, N) == g = [n \in 0..N |-> D(g, n)]
           T == {N \in 0..Levels : \E g : Is(g, N)}
           trees == CHOOSE g : Is(g, Levels)
<1>1. Levels \in Nat
  BY TextAssumption
<1>2. 0 \in T
  <2> DEFINE g == [n \in 0..0 |-> {}]
  <2>1. \A n \in 0..0 : D(g, n) = {}
    OBVIOUS
  <2> HIDE DEF D
  <2>2. Is(g, 0)
    BY <2>1
  <2> HIDE DEF Is
  <2> QED
    BY <1>1, <2>2
<1>3. ASSUME NEW N \in 0..(Levels - 1), N \in T PROVE N + 1 \in T
  <2>1. PICK g : Is(g, N)
    BY <1>3
  <2> DEFINE h == [n \in 0..(N + 1) |-> IF n <= N THEN g[n] ELSE Level(types, g[N])]
  <2>2. N \in Nat /\ \A n \in 0..N : h[n] = g[n] /\ g[n] = D(g, n)
    <3> HIDE DEF D
    <3> QED
      BY <1>1, <2>1
  <2>3. h[N + 1] = Level(types, g[N])
    BY <2>2
  <2>4. ASSUME NEW n \in 0..(N + 1) PROVE h[n] = D(h, n)
    <3> HIDE DEF h
    <3>1. CASE n = 0
      BY <2>2, <3>1
    <3>2. CASE n = N + 1
      <4>1. n # 0 /\ n - 1 = N /\ h[N] = g[N]
        BY <2>2, <3>2
      <4> QED
        BY <2>3, <3>2, <4>1
    <3>3. CASE n # 0 /\ n # N + 1
      <4>1. n \in 0..N /\ n - 1 \in 0..N
        BY <2>2, <3>3
      <4>2. h[n] = D(g, n) /\ h[n - 1] = g[n - 1]
        BY <2>2, <4>1
      <4> QED
        BY <3>3, <4>2
    <3> QED
      BY <3>1, <3>2, <3>3
  <2>5. h = [n \in 0..(N + 1) |-> h[n]]
    OBVIOUS
  <2> HIDE DEF h, D
  <2>6. Is(h, N + 1)
    BY <2>4, <2>5
  <2> HIDE DEF Is
  <2>7. N + 1 \in 0..Levels
    BY <1>1
  <2> QED
    BY <2>6, <2>7
<1> HIDE DEF Is, D
<1>4. T \in SUBSET (0..Levels)
  OBVIOUS
<1> HIDE DEF T
<1>5. T = 0..Levels
  BY <1>1, <1>2, <1>3, <1>4, UpTo
<1>6. \E g : Is(g, Levels)
  BY <1>1, <1>5 DEF T
<1>7. Is(trees, Levels)
  BY <1>6
<1>8. trees = Trees(types)
  BY DEF Is, D, Trees, Level
<1> HIDE DEF trees
<1>9. \A n \in 0..Levels : trees[n] = D(trees, n)
  BY <1>7 DEF Is
<1>10. trees[0] = {}
  BY <1>1, <1>9 DEF D
<1>11. ASSUME NEW n \in 0..(Levels - 1) PROVE trees[n + 1] = Level(types, trees[n])
  <2>1. n + 1 \in 0..Levels /\ n + 1 # 0 /\ (n + 1) - 1 = n
    BY <1>1
  <2> QED
    BY <1>9, <2>1 DEF D
<1> QED
  BY <1>8, <1>10, <1>11

LEMMA LevelGrows ==
    ASSUME NEW types, NEW more, types \subseteq more, NEW below, NEW above,
           below \subseteq above
    PROVE  Level(types, below) \subseteq Level(more, above)
<1>1. Seq(below) \subseteq Seq(above)
  BY SeqMonotonic
<1> QED
  BY <1>1 DEF Level

LEMMA TreesGrow ==
    ASSUME NEW types
    PROVE  \A n \in 0..(Levels - 1) : Trees(types)[n] \subseteq Trees(types)[n + 1]
<1> DEFINE T == {n \in 0..Levels : n < Levels => Trees(types)[n] \subseteq Trees(types)[n + 1]}
<1>1. Levels \in Nat
  BY TextAssumption
<1>2. 0 \in T
  BY <1>1, TreesAre
<1>3. ASSUME NEW n \in 0..(Levels - 1), n \in T PROVE n + 1 \in T
  <2>1. CASE n + 1 < Levels
    <3>1. n < Levels /\ n + 1 \in 0..(Levels - 1) /\ n + 1 \in 0..Levels
      BY <1>1, <2>1
    <3>2. Trees(types)[n] \subseteq Trees(types)[n + 1]
      BY <1>3, <3>1
    <3>3. Trees(types)[n + 1] = Level(types, Trees(types)[n])
          /\ Trees(types)[(n + 1) + 1] = Level(types, Trees(types)[n + 1])
      BY <3>1, TreesAre
    <3> QED
      BY <3>1, <3>2, <3>3, LevelGrows
  <2> QED
    BY <1>1, <2>1
<1>4. T \in SUBSET (0..Levels)
  OBVIOUS
<1> HIDE DEF T
<1>5. T = 0..Levels
  BY <1>1, <1>2, <1>3, <1>4, UpTo
<1>6. \A n \in 0..(Levels - 1) : n \in 0..Levels /\ n < Levels
  BY <1>1
<1> QED
  BY <1>5, <1>6 DEF T

LEMMA TreesNest ==
    ASSUME NEW types, NEW m \in 0..Levels
    PROVE  \A n \in 0..m : Trees(types)[n] \subseteq Trees(types)[m]
<1> DEFINE T == {k \in 0..m : Trees(types)[m - k] \subseteq Trees(types)[m]}
<1>1. Levels \in Nat /\ m \in Nat
  BY TextAssumption
<1>2. 0 \in T
  BY <1>1
<1>3. ASSUME NEW k \in 0..(m - 1), k \in T PROVE k + 1 \in T
  <2>1. m - (k + 1) \in 0..(Levels - 1) /\ (m - (k + 1)) + 1 = m - k /\ k + 1 \in 0..m
    BY <1>1
  <2>2. Trees(types)[m - (k + 1)] \subseteq Trees(types)[m - k]
    BY <2>1, TreesGrow
  <2> QED
    BY <1>3, <2>1, <2>2
<1>4. T \in SUBSET (0..m)
  OBVIOUS
<1> HIDE DEF T
<1>5. T = 0..m
  BY <1>1, <1>2, <1>3, <1>4, UpTo
<1>6. ASSUME NEW n \in 0..m PROVE Trees(types)[n] \subseteq Trees(types)[m]
  <2>1. m - n \in 0..m /\ m - (m - n) = n
    BY <1>1
  <2> QED
    BY <1>5, <2>1 DEF T
<1> QED
  BY <1>6

LEMMA TreesOfMore ==
    ASSUME NEW types, NEW more, types \subseteq more
    PROVE  \A n \in 0..Levels : Trees(types)[n] \subseteq Trees(more)[n]
<1> DEFINE T == {n \in 0..Levels : Trees(types)[n] \subseteq Trees(more)[n]}
<1>1. Levels \in Nat
  BY TextAssumption
<1>2. 0 \in T
  BY <1>1, TreesAre
<1>3. ASSUME NEW n \in 0..(Levels - 1), n \in T PROVE n + 1 \in T
  <2>1. n + 1 \in 0..Levels
    BY <1>1
  <2>2. Trees(types)[n + 1] = Level(types, Trees(types)[n])
        /\ Trees(more)[n + 1] = Level(more, Trees(more)[n])
    BY TreesAre
  <2> QED
    BY <1>3, <2>1, <2>2, LevelGrows
<1>4. T \in SUBSET (0..Levels)
  OBVIOUS
<1> HIDE DEF T
<1>5. T = 0..Levels
  BY <1>1, <1>2, <1>3, <1>4, UpTo
<1> QED
  BY <1>5 DEF T

-----------------------------------------------------------------------------
KidBlocks(v, item) == [i \in DOMAIN item.kids |-> v[item.kids[i]]]

LEMMA KidsAreCounted ==
    ASSUME NEW S, NEW v \in [S -> Nat], NEW types, NEW item \in Level(types, S)
    PROVE  /\ KidBlocks(v, item) \in Seq(Nat)
           /\ OwnBlocks(item) + SumOf(KidBlocks(v, item)) \in Nat
           /\ OwnBlocks(item) \in 1..3
<1>1. item.kids \in Seq(S)
  BY DEF Level
<1>2. Len(item.kids) \in Nat /\ DOMAIN item.kids = 1..Len(item.kids)
      /\ \A i \in 1..Len(item.kids) : item.kids[i] \in S
  BY <1>1, LenProperties, ElementOfSeq
<1>3. KidBlocks(v, item) \in [1..Len(item.kids) -> Nat]
  BY <1>2 DEF KidBlocks
<1>4. KidBlocks(v, item) \in Seq(Nat)
  BY <1>2, <1>3, SeqDef
<1>5. OwnBlocks(item) \in 1..3
  BY DEF OwnBlocks
<1>6. SumOf(KidBlocks(v, item)) \in Nat
  BY <1>4, SumNat
<1> QED
  BY <1>4, <1>5, <1>6

LEMMA BlocksInIs ==
    \A n \in 0..Levels :
        /\ BlocksIn[n] \in [Trees(Types)[n] -> Nat]
        /\ \A item \in Trees(Types)[n] :
              BlocksIn[n][item] = OwnBlocks(item) + SumOf(KidBlocks(BlocksIn[n - 1], item))
<1> DEFINE N == Levels
           D(g, n) == [item \in Trees(Types)[n] |->
                          OwnBlocks(item) + SumOf(KidBlocks(g[n - 1], item))]
           Is(g) == g = [n \in 0..N |-> D(g, n)]
           F == [n \in 0..N |-> [Trees(Types)[n] -> Nat]]
           step == [n \in 0..(N - 1) |-> [v \in F[n] |->
                       [item \in Trees(Types)[n + 1] |->
                           OwnBlocks(item) + SumOf(KidBlocks(v, item))]]]
           a == [item \in {} |-> 0]
<1>1. N \in Nat
  BY TextAssumption
<1>2. a \in F[0]
  BY <1>1, TreesAre
<1>3. Steps(N, F, step)
  <2>1. ASSUME NEW n \in 0..(N - 1) PROVE step[n] \in [F[n] -> F[n + 1]]
    <3>1. n \in 0..N /\ n + 1 \in 0..N
      BY <1>1
    <3>2. ASSUME NEW v \in F[n], NEW item \in Trees(Types)[n + 1]
          PROVE  OwnBlocks(item) + SumOf(KidBlocks(v, item)) \in Nat
      <4>1. item \in Level(Types, Trees(Types)[n])
        BY TreesAre
      <4>2. v \in [Trees(Types)[n] -> Nat]
        BY <3>1
      <4> QED
        BY <4>1, <4>2, KidsAreCounted
    <3>3. \A v \in F[n] : step[n][v] \in F[n + 1]
      BY <3>1, <3>2
    <3>4. step[n] = [v \in F[n] |-> step[n][v]]
      OBVIOUS
    <3> HIDE DEF step, F
    <3> QED
      BY <3>3, <3>4
  <2> HIDE DEF step, F
  <2> QED
    BY <2>1 DEF Steps
<1>4. \E g : Is(g)
  <2>1. PICK g : g = [n \in 0..N |-> g[n]] /\ g[0] = a /\ Reaches(N, F, step, g)
    <3> HIDE DEF N, F, step, a
    <3> QED
      BY <1>1, <1>2, <1>3, Recursion
  <2>2. ASSUME NEW n \in 0..N PROVE g[n] = D(g, n)
    <3>1. CASE n = 0
      <4>1. Trees(Types)[n] = {}
        BY <3>1, TreesAre
      <4>2. D(g, n) = a
        BY <4>1
      <4> QED
        BY <2>1, <3>1, <4>2
    <3>2. CASE n # 0
      <4>1. n - 1 \in 0..(N - 1) /\ (n - 1) + 1 = n /\ n - 1 \in 0..N
        BY <1>1, <3>2
      <4>2. g[n - 1] \in F[n - 1] /\ g[n] = step[n - 1][g[n - 1]]
        BY <2>1, <4>1 DEF Reaches
      <4> HIDE DEF F
      <4> QED
        BY <4>1, <4>2
    <3> QED
      BY <3>1, <3>2
  <2> HIDE DEF D
  <2>3. Is(g)
    BY <2>1, <2>2
  <2> HIDE DEF Is
  <2> QED
    BY <2>3
<1>5. Is(BlocksIn)
  <2>1. BlocksIn = CHOOSE g : Is(g)
    BY DEF BlocksIn, KidBlocks
  <2> HIDE DEF Is
  <2> QED
    BY <1>4, <2>1
<1>6. \A n \in 0..N : BlocksIn[n] = D(BlocksIn, n)
  <2> HIDE DEF D
  <2> QED
    BY <1>5
<1>7. Reaches(N, F, step, BlocksIn)
  <2>1. BlocksIn[0] \in F[0]
    <3>1. BlocksIn[0] = D(BlocksIn, 0) /\ Trees(Types)[0] = {}
      BY <1>1, <1>6, TreesAre
    <3>2. D(BlocksIn, 0) = a
      BY <3>1
    <3> QED
      BY <1>2, <3>1, <3>2
  <2>2. Takes(N, F, step, BlocksIn)
    <3>1. ASSUME NEW n \in 0..(N - 1), BlocksIn[n] \in F[n]
          PROVE  BlocksIn[n + 1] = step[n][BlocksIn[n]]
      <4>1. n + 1 \in 0..N /\ (n + 1) - 1 = n
        BY <1>1
      <4>2. BlocksIn[n + 1] = D(BlocksIn, n + 1)
        BY <1>6, <4>1
      <4> HIDE DEF F
      <4> QED
        BY <3>1, <4>1, <4>2
    <3> HIDE DEF step, F
    <3> QED
      BY <3>1 DEF Takes
  <2> HIDE DEF N, F, step
  <2> QED
    BY <1>1, <1>3, <2>1, <2>2, Recursed
<1>8. ASSUME NEW n \in 0..N PROVE BlocksIn[n] \in [Trees(Types)[n] -> Nat]
  BY <1>7 DEF Reaches
<1>9. ASSUME NEW n \in 0..N, NEW item \in Trees(Types)[n]
      PROVE  BlocksIn[n][item] = OwnBlocks(item) + SumOf(KidBlocks(BlocksIn[n - 1], item))
  BY <1>6
<1> QED
  BY <1>8, <1>9

(* However many levels are looked at, a tree has the same number of blocks.   *)
LEMMA BlocksSettle ==
    \A n \in 0..(Levels - 1) : \A item \in Trees(Types)[n] :
        BlocksIn[n + 1][item] = BlocksIn[n][item]
<1> DEFINE T == {n \in 0..Levels : n < Levels => \A item \in Trees(Types)[n] :
                     BlocksIn[n + 1][item] = BlocksIn[n][item]}
<1>1. Levels \in Nat
  BY TextAssumption
<1>2. 0 \in T
  BY <1>1, TreesAre
<1>3. ASSUME NEW n \in 0..(Levels - 1), n \in T PROVE n + 1 \in T
  <2>1. ASSUME n + 1 < Levels, NEW item \in Trees(Types)[n + 1]
        PROVE  BlocksIn[(n + 1) + 1][item] = BlocksIn[n + 1][item]
    <3>1. n < Levels /\ n + 1 \in 0..Levels /\ (n + 1) + 1 \in 0..Levels /\ n \in 0..Levels
          /\ ((n + 1) + 1) - 1 = n + 1 /\ (n + 1) - 1 = n /\ n + 1 \in 0..(Levels - 1)
      BY <1>1, <2>1
    <3>2. item \in Trees(Types)[(n + 1) + 1]
      BY <3>1, TreesGrow
    <3>3. item \in Level(Types, Trees(Types)[n])
      BY TreesAre
    <3>4. item.kids \in Seq(Trees(Types)[n])
      BY <3>3 DEF Level
    <3>5. \A i \in DOMAIN item.kids : BlocksIn[n + 1][item.kids[i]] = BlocksIn[n][item.kids[i]]
      BY <1>3, <3>1, <3>4, LenProperties, ElementOfSeq
    <3>6. KidBlocks(BlocksIn[n + 1], item) = KidBlocks(BlocksIn[n], item)
      BY <3>5 DEF KidBlocks
    <3>7. BlocksIn[(n + 1) + 1][item] = OwnBlocks(item) + SumOf(KidBlocks(BlocksIn[n + 1], item))
      BY <3>1, <3>2, BlocksInIs
    <3>8. BlocksIn[n + 1][item] = OwnBlocks(item) + SumOf(KidBlocks(BlocksIn[n], item))
      BY <3>1, BlocksInIs
    <3> QED
      BY <3>6, <3>7, <3>8
  <2>2. n + 1 \in 0..Levels
    BY <1>1
  <2> QED
    BY <2>1, <2>2
<1>4. T \in SUBSET (0..Levels)
  OBVIOUS
<1> HIDE DEF T
<1>5. T = 0..Levels
  BY <1>1, <1>2, <1>3, <1>4, UpTo
<1>6. \A n \in 0..(Levels - 1) : n \in 0..Levels /\ n < Levels
  BY <1>1
<1> QED
  BY <1>5, <1>6 DEF T

(* The blocks of a tree are those of its item and those of what is under it.  *)
LEMMA BlocksAre ==
    /\ \A list \in Seq(Trees(Types)[Levels]) : BlocksOf(list) \in Nat
    /\ \A item \in Trees(Types)[Levels] :
          /\ Blocks(item) \in Nat
          /\ Blocks(item) = OwnBlocks(item) + BlocksOf(item.kids)
          /\ item.kids \in Seq(Trees(Types)[Levels])
<1>1. Levels \in Nat /\ Levels \in 0..Levels
  BY TextAssumption
<1>2. ASSUME NEW item \in Trees(Types)[Levels]
      PROVE  /\ Blocks(item) \in Nat
             /\ Blocks(item) = OwnBlocks(item) + BlocksOf(item.kids)
             /\ item.kids \in Seq(Trees(Types)[Levels])
  <2>1. Levels # 0
    BY TreesAre
  <2>2. Levels - 1 \in 0..(Levels - 1) /\ (Levels - 1) + 1 = Levels
    BY <1>1, <2>1
  <2>3. item \in Level(Types, Trees(Types)[Levels - 1])
    BY <2>2, TreesAre
  <2>4. item.kids \in Seq(Trees(Types)[Levels - 1])
    BY <2>3 DEF Level
  <2>5. item.kids \in Seq(Trees(Types)[Levels])
    <3>1. Trees(Types)[Levels - 1] \subseteq Trees(Types)[Levels]
      BY <2>2, TreesGrow
    <3> QED
      BY <2>4, <3>1, SeqMonotonic
  <2>6. \A i \in DOMAIN item.kids : BlocksIn[Levels - 1][item.kids[i]] = BlocksIn[Levels][item.kids[i]]
    BY <2>2, <2>4, LenProperties, ElementOfSeq, BlocksSettle
  <2>7. KidBlocks(BlocksIn[Levels - 1], item) = [i \in DOMAIN item.kids |-> Blocks(item.kids[i])]
    BY <2>6 DEF KidBlocks, Blocks
  <2>8. BlocksIn[Levels] \in [Trees(Types)[Levels] -> Nat]
        /\ BlocksIn[Levels][item] = OwnBlocks(item) + SumOf(KidBlocks(BlocksIn[Levels - 1], item))
    BY <1>1, BlocksInIs
  <2> QED
    BY <2>5, <2>7, <2>8 DEF Blocks, BlocksOf
<1>3. ASSUME NEW list \in Seq(Trees(Types)[Levels]) PROVE BlocksOf(list) \in Nat
  <2>1. Len(list) \in Nat /\ DOMAIN list = 1..Len(list)
        /\ \A i \in 1..Len(list) : list[i] \in Trees(Types)[Levels]
    BY LenProperties, ElementOfSeq
  <2>2. [i \in DOMAIN list |-> Blocks(list[i])] \in [1..Len(list) -> Nat]
    BY <1>2, <2>1
  <2>3. [i \in DOMAIN list |-> Blocks(list[i])] \in Seq(Nat)
    BY <2>1, <2>2, SeqDef
  <2> QED
    BY <2>3, SumNat DEF BlocksOf
<1> QED
  BY <1>2, <1>3

LEMMA BlocksOfMore ==
    ASSUME NEW list \in Seq(Trees(Types)[Levels]), NEW item \in Trees(Types)[Levels]
    PROVE  BlocksOf(Append(list, item)) = BlocksOf(list) + Blocks(item)
<1> DEFINE B(s) == [i \in DOMAIN s |-> Blocks(s[i])]
           more == Append(list, item)
<1>1. /\ more \in Seq(Trees(Types)[Levels]) /\ Len(more) = Len(list) + 1
      /\ more[Len(list) + 1] = item /\ \A i \in 1..Len(list) : more[i] = list[i]
  BY AppendProperties
<1>2. /\ Len(list) \in Nat /\ DOMAIN list = 1..Len(list) /\ DOMAIN more = 1..(Len(list) + 1)
      /\ \A i \in 1..Len(list) : list[i] \in Trees(Types)[Levels]
  BY <1>1, LenProperties, ElementOfSeq
<1>3. B(list) \in Seq(Int) /\ Len(B(list)) = Len(list) /\ Blocks(item) \in Int
  <2>1. B(list) \in [1..Len(list) -> Int] /\ Blocks(item) \in Int
    BY <1>2, BlocksAre
  <2>2. B(list) \in Seq(Int) /\ DOMAIN B(list) = 1..Len(list)
    BY <1>2, <2>1, SeqDef
  <2> HIDE DEF B
  <2> QED
    BY <1>2, <2>1, <2>2, LenProperties
<1>4. B(more) \in [1..(Len(list) + 1) -> Int]
  <2>1. \A i \in 1..(Len(list) + 1) : more[i] \in Trees(Types)[Levels]
    BY <1>1, ElementOfSeq
  <2> HIDE DEF more
  <2> QED
    BY <1>2, <2>1, BlocksAre
<1>5. B(more) = Append(B(list), Blocks(item))
  <2>1. B(more) \in Seq(Int) /\ Len(B(more)) = Len(list) + 1
    <3>1. B(more) \in Seq(Int) /\ DOMAIN B(more) = 1..(Len(list) + 1)
      BY <1>2, <1>4, SeqDef
    <3> HIDE DEF B
    <3> QED
      BY <1>2, <3>1, LenProperties
  <2>2. /\ Append(B(list), Blocks(item)) \in Seq(Int)
        /\ Len(Append(B(list), Blocks(item))) = Len(list) + 1
        /\ Append(B(list), Blocks(item))[Len(list) + 1] = Blocks(item)
        /\ \A i \in 1..Len(list) : Append(B(list), Blocks(item))[i] = B(list)[i]
    <3> HIDE DEF B
    <3> QED
      BY <1>3, AppendProperties
  <2>3. \A i \in 1..(Len(list) + 1) : B(more)[i] = Blocks(more[i])
    BY <1>2
  <2>4. \A i \in 1..Len(list) : B(list)[i] = Blocks(list[i])
    BY <1>2
  <2> HIDE DEF B, more
  <2>5. \A i \in 1..(Len(list) + 1) : B(more)[i] = Append(B(list), Blocks(item))[i]
    <3>1. ASSUME NEW i \in 1..(Len(list) + 1) PROVE B(more)[i] = Append(B(list), Blocks(item))[i]
      <4>1. CASE i = Len(list) + 1
        BY <1>1, <2>2, <2>3, <4>1
      <4>2. CASE i # Len(list) + 1
        <5>1. i \in 1..Len(list)
          BY <1>2, <4>2
        <5> QED
          BY <1>1, <2>2, <2>3, <2>4, <5>1
      <4> QED
        BY <4>1, <4>2
    <3> QED
      BY <3>1
  <2> QED
    BY <2>1, <2>2, <2>5, SeqEqual
<1>6. SumOf(Append(B(list), Blocks(item))) = SumOf(B(list)) + Blocks(item)
  <2> HIDE DEF B
  <2> QED
    BY <1>3, SumAppend
<1> QED
  BY <1>5, <1>6 DEF BlocksOf

LEMMA BlocksOfNone == BlocksOf(<<>>) = 0
<1>1. [i \in DOMAIN <<>> |-> Blocks(<<>>[i])] = <<>>
  OBVIOUS
<1> QED
  BY <1>1, SumEmpty DEF BlocksOf

-----------------------------------------------------------------------------
(* What the parser reads: its buffer, and where it may stand in it.          *)

Buffers ==
    [content : Seq(Nat), offset : Nat, depth : Nat, allocs : Nat, live : Int]

(* The offset is on a symbol, the terminator included.                       *)
Ready(b) ==
    /\ b \in Buffers /\ Len(b.content) > 0 /\ b.content[Len(b.content)] = 0
    /\ b.offset < Len(b.content)

(* c is b after some reading: the offset is at most the one after the last.   *)
Later(b, c) ==
    c \in Buffers /\ c.content = b.content /\ c.offset <= Len(b.content)

LEMMA BufferFields ==
    ASSUME NEW b \in Buffers
    PROVE  /\ b.content \in Seq(Nat) /\ b.offset \in Nat /\ b.depth \in Nat
           /\ b.allocs \in Nat /\ b.live \in Int /\ Len(b.content) \in Nat
           /\ \A i \in 1..Len(b.content) : b.content[i] \in Nat
<1>1. b.content \in Seq(Nat) /\ b.offset \in Nat /\ b.depth \in Nat
      /\ b.allocs \in Nat /\ b.live \in Int
  BY DEF Buffers
<1> QED
  BY <1>1, LenProperties, ElementOfSeq

LEMMA MovedTo ==
    ASSUME NEW b \in Buffers, NEW n \in Nat
    PROVE  /\ [b EXCEPT !.offset = n] \in Buffers
           /\ [b EXCEPT !.offset = n].offset = n
           /\ [b EXCEPT !.offset = n].content = b.content
           /\ [b EXCEPT !.offset = n].depth = b.depth
           /\ [b EXCEPT !.offset = n].allocs = b.allocs
           /\ [b EXCEPT !.offset = n].live = b.live
BY DEF Buffers

LEMMA TakenOne ==
    ASSUME NEW b \in Buffers, Granted(b)
    PROVE  /\ Taken(b) \in Buffers /\ Taken(b).live = b.live + 1
           /\ Taken(b).offset = b.offset /\ Taken(b).content = b.content
           /\ Taken(b).depth = b.depth
<1>1. b.allocs - 1 \in Nat /\ b.live + 1 \in Int
  BY DEF Buffers, Granted
<1> QED
  BY <1>1 DEF Buffers, Taken

LEMMA AtSymbol ==
    ASSUME NEW b \in Buffers
    PROVE  At(b) # -1 => /\ b.offset < Len(b.content) /\ b.offset + 1 \in 1..Len(b.content)
                         /\ At(b) = b.content[b.offset + 1]
BY BufferFields DEF At

LEMMA OneFurther ==
    ASSUME NEW a \in Nat, NEW m \in Nat, NEW i \in (a + 1)..(a + (m + 1))
    PROVE  i \in (a + 1)..(a + m) \/ i = (a + m) + 1
OBVIOUS

(* The blanks end at one place: on a symbol that is none, or at the end.      *)
EndOfBlanks(b, n) ==
    /\ n \in b.offset..Len(b.content)
    /\ \A i \in (b.offset + 1)..n : b.content[i] <= Space
    /\ n < Len(b.content) => b.content[n + 1] > Space

LEMMA BlanksEnd ==
    ASSUME NEW b \in Buffers, b.offset <= Len(b.content)
    PROVE  \E n : /\ EndOfBlanks(b, n)
                  /\ buffer_skip_whitespace(b)
                       = [b EXCEPT !.offset = IF n = Len(b.content) THEN n - 1 ELSE n]
<1> DEFINE len == Len(b.content)
           IsEnd(n) == /\ \A i \in (b.offset + 1)..n : b.content[i] <= Space
                       /\ n < len => b.content[n + 1] > Space
           ends == {n \in b.offset..len : IsEnd(n)}
           n    == CHOOSE n \in ends : TRUE
           T    == {m \in 0..(len - b.offset) :
                       \A i \in (b.offset + 1)..(b.offset + m) : b.content[i] <= Space}
<1>1. len \in Nat /\ b.offset \in Nat /\ \A i \in 1..len : b.content[i] \in Nat
  BY BufferFields
<1>2. ends # {}
  <2>1. SUFFICES ASSUME ends = {} PROVE FALSE
    OBVIOUS
  <2>2. 0 \in T
    BY <1>1
  <2>3. ASSUME NEW m \in 0..(len - b.offset - 1), m \in T PROVE m + 1 \in T
    <3>1. b.offset + m \in b.offset..len /\ b.offset + m < len
      BY <1>1
    <3>2. ~IsEnd(b.offset + m)
      BY <2>1, <3>1
    <3>3. \A i \in (b.offset + 1)..(b.offset + m) : b.content[i] <= Space
      BY <2>3
    <3>4. ~(b.content[(b.offset + m) + 1] > Space)
      BY <3>1, <3>2, <3>3
    <3>5. (b.offset + m) + 1 \in 1..len
      BY <1>1, <3>1
    <3>6. b.content[(b.offset + m) + 1] <= Space
      BY <1>1, <3>4, <3>5 DEF Space
    <3>7. \A i \in (b.offset + 1)..(b.offset + (m + 1)) :
             i \in (b.offset + 1)..(b.offset + m) \/ i = (b.offset + m) + 1
      <4>1. m \in Nat
        BY <1>1
      <4> QED
        BY <1>1, <4>1, OneFurther
    <3>8. m + 1 \in 0..(len - b.offset)
      BY <1>1
    <3> QED
      BY <3>3, <3>6, <3>7, <3>8
  <2>4. T \in SUBSET (0..(len - b.offset)) /\ len - b.offset \in Nat
    BY <1>1
  <2> HIDE DEF T, IsEnd
  <2>5. T = 0..(len - b.offset)
    BY <2>2, <2>3, <2>4, UpTo
  <2>6. len - b.offset \in T /\ b.offset + (len - b.offset) = len
    BY <1>1, <2>4, <2>5
  <2>7. IsEnd(len)
    BY <1>1, <2>6 DEF T, IsEnd
  <2>8. len \in b.offset..len
    BY <1>1
  <2> QED
    BY <2>1, <2>7, <2>8
<1> HIDE DEF T
<1>3. n \in ends
  BY <1>2
<1>4. EndOfBlanks(b, n)
  BY <1>3 DEF EndOfBlanks
<1>5. buffer_skip_whitespace(b) = [b EXCEPT !.offset = IF n = len THEN n - 1 ELSE n]
  BY DEF buffer_skip_whitespace
<1> HIDE DEF n, ends
<1> QED
  BY <1>4, <1>5

(* Skipping blanks ends, on a symbol, and not before it started but on the     *)
(* terminator.                                                              *)
LEMMA Skipped ==
    ASSUME NEW b \in Buffers, Len(b.content) > 0, b.offset <= Len(b.content)
    PROVE  \E n \in Nat :
              /\ buffer_skip_whitespace(b) = [b EXCEPT !.offset = n]
              /\ n < Len(b.content)
              /\ n >= b.offset \/ n = Len(b.content) - 1
<1> DEFINE len == Len(b.content)
<1>1. len \in Nat /\ b.offset \in Nat
  BY BufferFields
<1>2. PICK n : /\ EndOfBlanks(b, n)
               /\ buffer_skip_whitespace(b) = [b EXCEPT !.offset = IF n = len THEN n - 1 ELSE n]
  BY BlanksEnd
<1>4. n \in Nat /\ n >= b.offset /\ n <= len
  BY <1>1, <1>2 DEF EndOfBlanks
<1> DEFINE k == IF n = len THEN n - 1 ELSE n
<1>6. k \in Nat /\ k < len /\ (k >= b.offset \/ k = len - 1)
  BY <1>1, <1>4
<1>7. buffer_skip_whitespace(b) = [b EXCEPT !.offset = k]
  BY <1>2
<1> HIDE DEF k
<1> QED
  BY <1>6, <1>7

LEMMA SkipKeeps ==
    ASSUME NEW b \in Buffers, Len(b.content) > 0, b.content[Len(b.content)] = 0,
           b.offset <= Len(b.content)
    PROVE  LET c == buffer_skip_whitespace(b)
           IN  /\ Ready(c) /\ c.content = b.content /\ c.live = b.live /\ c.depth = b.depth
               /\ c.allocs = b.allocs
               /\ c.offset >= b.offset \/ At(c) = 0
<1>1. PICK n \in Nat : /\ buffer_skip_whitespace(b) = [b EXCEPT !.offset = n]
                       /\ n < Len(b.content)
                       /\ n >= b.offset \/ n = Len(b.content) - 1
  BY Skipped
<1> DEFINE c == [b EXCEPT !.offset = n]
<1>2. /\ c \in Buffers /\ c.offset = n /\ c.content = b.content /\ c.depth = b.depth
      /\ c.live = b.live /\ c.allocs = b.allocs
  BY MovedTo
<1>3. Len(b.content) \in Nat /\ b.offset \in Nat
  BY BufferFields
<1> HIDE DEF c
<1>4. Ready(c)
  BY <1>1, <1>2 DEF Ready
<1>5. c.offset >= b.offset \/ At(c) = 0
  BY <1>1, <1>2, <1>3 DEF At
<1>6. buffer_skip_whitespace(b) = c
  BY <1>1 DEF c
<1> QED
  BY <1>2, <1>4, <1>5, <1>6

-----------------------------------------------------------------------------
(* Strings.                                                                 *)

(* The walk over a string: it jumps over what follows a backslash and stays   *)
(* on the quote that ends the string, or beyond the text.                    *)
Beyond(content, i) ==
    IF i > Len(content) \/ content[i] = Quote THEN i
    ELSE IF content[i] = Backslash THEN i + 2 ELSE i + 1

Stops(content, i) == i > Len(content) \/ content[i] = Quote

Walk(content, from, place) ==
    /\ place[0] = from
    /\ \A n \in 0..Len(content) :
          /\ place[n] \in Nat /\ place[n] >= from
          /\ place[n] >= from + n \/ Stops(content, place[n])
    /\ \A n \in 0..(Len(content) - 1) : place[n + 1] = Beyond(content, place[n])

LEMMA QuoteIsWalkedTo ==
    ASSUME NEW content \in Seq(Nat), NEW from \in Nat, from >= 1
    PROVE  \E place :
              /\ Walk(content, from, place)
              /\ place = Scan(content, from)
              /\ ClosingQuote(content, from)
                    = IF place[Len(content)] > Len(content) THEN 0 ELSE place[Len(content)]
<1> DEFINE N == Len(content)
           Then(i) == IF i > Len(content) \/ content[i] = Quote THEN i
                      ELSE IF content[i] = Backslash THEN i + 2 ELSE i + 1
           D(g, n) == IF n = 0 THEN from ELSE Then(g[n - 1])
           Is(g) == g = [n \in 0..N |-> D(g, n)]
           place == CHOOSE g : Is(g)
           Ends(i) == i > Len(content) \/ content[i] = Quote
           F == [n \in 0..N |-> {i \in Nat : i >= from /\ (i >= from + n \/ Ends(i))}]
           step == [n \in 0..(N - 1) |-> [i \in F[n] |-> Then(i)]]
<1>1. N \in Nat
  BY LenProperties
<1>2. from \in F[0] /\ \A n \in 0..N :
         F[n] = {i \in Nat : i >= from /\ (i >= from + n \/ Ends(i))}
  BY <1>1
<1>3. ASSUME NEW n \in 0..(N - 1), NEW i \in F[n] PROVE Then(i) \in F[n + 1]
  <2>1. n \in 0..N /\ n + 1 \in 0..N /\ n \in Nat
    BY <1>1
  <2>2. i \in Nat /\ i >= from /\ (i >= from + n \/ Ends(i))
    BY <1>2, <2>1
  <2>3. CASE Ends(i)
    <3>1. Then(i) = i
      BY <2>3
    <3> HIDE DEF Then, F, Ends
    <3> QED
      BY <1>2, <2>1, <2>2, <2>3, <3>1
  <2>4. CASE ~Ends(i)
    <3>1. Then(i) \in {i + 1, i + 2}
      BY <2>4
    <3> HIDE DEF Then, F, Ends
    <3>2. Then(i) \in Nat /\ Then(i) >= from /\ Then(i) >= from + (n + 1)
      BY <2>1, <2>2, <2>4, <3>1
    <3> QED
      BY <1>2, <2>1, <3>2
  <2> QED
    BY <2>3, <2>4
<1>15. place = Scan(content, from)
  BY DEF Scan, Then
<1>7. ClosingQuote(content, from) = IF place[N] > N THEN 0 ELSE place[N]
  <2> HIDE DEF place
  <2> QED
    BY <1>15 DEF ClosingQuote
<1> HIDE DEF Then
<1>4. Steps(N, F, step)
  <2>1. ASSUME NEW n \in 0..(N - 1) PROVE step[n] \in [F[n] -> F[n + 1]]
    <3>1. step[n] = [i \in F[n] |-> Then(i)]
      OBVIOUS
    <3> HIDE DEF F, step
    <3> QED
      BY <1>3, <3>1
  <2> HIDE DEF step, F
  <2> QED
    BY <2>1 DEF Steps
<1>5. \E g : Is(g)
  <2>1. PICK g : g = [n \in 0..N |-> g[n]] /\ g[0] = from /\ Reaches(N, F, step, g)
    <3> HIDE DEF N, F, step
    <3> QED
      BY <1>1, <1>2, <1>4, Recursion
  <2>2. ASSUME NEW n \in 0..N PROVE g[n] = D(g, n)
    <3>1. CASE n # 0
      <4>1. n - 1 \in 0..(N - 1) /\ (n - 1) + 1 = n /\ n - 1 \in 0..N
        BY <1>1, <3>1
      <4>2. g[n - 1] \in F[n - 1] /\ g[n] = step[n - 1][g[n - 1]]
        BY <2>1, <4>1 DEF Reaches
      <4> HIDE DEF F
      <4> QED
        BY <3>1, <4>1, <4>2
    <3> QED
      BY <2>1, <3>1
  <2> HIDE DEF D
  <2>3. Is(g)
    BY <2>1, <2>2
  <2> HIDE DEF Is
  <2> QED
    BY <2>3
<1>6. Is(place)
  <2> HIDE DEF Is
  <2> QED
    BY <1>5
<1> HIDE DEF place
<1>8. \A n \in 0..N : place[n] = D(place, n)
  <2> HIDE DEF D
  <2> QED
    BY <1>6
<1>9. Reaches(N, F, step, place)
  <2>1. place[0] \in F[0]
    <3>1. place[0] = from
      BY <1>1, <1>8
    <3> HIDE DEF F
    <3> QED
      BY <1>2, <3>1
  <2>2. Takes(N, F, step, place)
    <3>1. ASSUME NEW n \in 0..(N - 1), place[n] \in F[n]
          PROVE  place[n + 1] = step[n][place[n]]
      <4>1. n + 1 \in 0..N /\ (n + 1) - 1 = n /\ n \in 0..N /\ n + 1 # 0
        BY <1>1
      <4>2. place[n + 1] = Then(place[n])
        BY <1>8, <4>1
      <4> HIDE DEF F
      <4> QED
        BY <3>1, <4>1, <4>2
    <3> HIDE DEF step, F
    <3> QED
      BY <3>1 DEF Takes
  <2> HIDE DEF N, F, step
  <2> QED
    BY <1>1, <1>4, <2>1, <2>2, Recursed
<1>10. \A n \in 0..N : place[n] \in Nat /\ place[n] >= from
                         /\ (place[n] >= from + n \/ Ends(place[n]))
  <2>1. \A n \in 0..N : place[n] \in F[n]
    <3> HIDE DEF F, step
    <3> QED
      BY <1>9 DEF Reaches
  <2> HIDE DEF F, step, Ends, N
  <2> QED
    BY <1>2, <2>1
<1>11. place[0] = from
  BY <1>1, <1>8
<1>12. ASSUME NEW n \in 0..(N - 1) PROVE place[n + 1] = Then(place[n])
  <2>1. n + 1 \in 0..N /\ (n + 1) - 1 = n /\ n + 1 # 0
    BY <1>1
  <2> QED
    BY <1>8, <2>1
<1>13. \A i : Then(i) = Beyond(content, i) /\ (Ends(i) <=> Stops(content, i))
  BY DEF Then, Beyond, Stops
<1> HIDE DEF Ends
<1>14. Walk(content, from, place)
  BY <1>10, <1>11, <1>12, <1>13 DEF Walk
<1> QED
  BY <1>7, <1>14, <1>15

LEMMA QuoteIsInside ==
    ASSUME NEW content \in Seq(Nat), NEW from \in Nat, from >= 1
    PROVE  \/ ClosingQuote(content, from) = 0
           \/ /\ ClosingQuote(content, from) \in from..Len(content)
              /\ content[ClosingQuote(content, from)] = Quote
<1> DEFINE N == Len(content)
<1>1. N \in Nat /\ N \in 0..N
  BY LenProperties
<1>2. PICK place : /\ Walk(content, from, place)
                   /\ ClosingQuote(content, from) = IF place[N] > N THEN 0 ELSE place[N]
  BY QuoteIsWalkedTo
<1>3. place[N] \in Nat /\ place[N] >= from /\ (place[N] >= from + N \/ Stops(content, place[N]))
  BY <1>1, <1>2 DEF Walk
<1> QED
  BY <1>1, <1>2, <1>3 DEF Stops

LEMMA UnescapedNat == \A symbol \in DOMAIN Unescaped : Unescaped[symbol] \in Nat
<1>1. DOMAIN Unescaped = {98, 102, 110, 114, 116, Quote, Backslash, Slash}
  BY DEF Unescaped
<1>2. \A symbol \in DOMAIN Unescaped : symbol \in Nat
  BY <1>1 DEF Quote, Backslash, Slash
<1>3. ASSUME NEW symbol \in DOMAIN Unescaped PROVE Unescaped[symbol] \in Nat
  BY <1>2 DEF Unescaped
<1> QED
  BY <1>3

LEMMA Utf8Nat == ASSUME NEW codepoint \in Nat PROVE Utf8(codepoint) \in Seq(Nat)
<1>1. \A c \in Nat : Shifted(c) \in Nat /\ Continued(c) \in Nat
  BY DEF Shifted, Continued
<1>2. Shifted(codepoint) \in Nat /\ Shifted(Shifted(codepoint)) \in Nat
      /\ Shifted(Shifted(Shifted(codepoint))) \in Nat
  BY <1>1
<1>3. /\ Continued(codepoint) \in Nat /\ Continued(Shifted(codepoint)) \in Nat
      /\ Continued(Shifted(Shifted(codepoint))) \in Nat
  BY <1>1, <1>2
<1> QED
  BY <1>2, <1>3 DEF Utf8

LEMMA NibbleIs == ASSUME NEW byte PROVE Nibble(byte) = -1 \/ Nibble(byte) \in 0..15
BY DEF Nibble

FourDigits(a, b, c, d) == ((a * 16 + b) * 16 + c) * 16 + d

LEMMA FourNibbles ==
    ASSUME NEW a \in 0..15, NEW b \in 0..15, NEW c \in 0..15, NEW d \in 0..15
    PROVE  FourDigits(a, b, c, d) \in Code
<1> DEFINE x == a * 16 + b
           y == x * 16 + c
           z == y * 16 + d
<1>1. x \in Nat /\ x < 256
  BY SMT
<1> HIDE DEF x
<1>2. y \in Nat /\ y < 4096
  BY SMT, <1>1
<1> HIDE DEF y
<1>3. z \in Nat /\ z < 65536
  BY SMT, <1>2
<1> HIDE DEF z
<1>4. z \in Code
  BY SMT, <1>3, CodeBound
<1> QED
  BY Zenon, <1>4 DEF x, y, z, FourDigits

(* Any four symbols make a code. *)
LEMMA HexIsCode == ASSUME NEW input PROVE parse_hex4(input) \in Code
<1>1. CASE \E i \in 1..4 : Nibble(input[i]) = -1
  <2>1. parse_hex4(input) = 0
    BY <1>1 DEF parse_hex4
  <2>2. 0 \in Code
    BY DEF Code
  <2> QED
    BY <2>1, <2>2
<1>2. CASE ~\E i \in 1..4 : Nibble(input[i]) = -1
  <2> DEFINE a == Nibble(input[1])
             b == Nibble(input[2])
             c == Nibble(input[3])
             d == Nibble(input[4])
  <2>1. a \in 0..15 /\ b \in 0..15 /\ c \in 0..15 /\ d \in 0..15
    BY <1>2, NibbleIs
  <2>2. parse_hex4(input) = FourDigits(a, b, c, d)
    BY <1>2 DEF parse_hex4, FourDigits
  <2> HIDE DEF a, b, c, d
  <2> QED
    BY Zenon, <2>1, <2>2, FourNibbles
<1> QED
  BY <1>1, <1>2

LEMMA CodesAre ==
    ASSUME NEW content, NEW at, NEW end
    PROVE  /\ CodesFrom(content, at, end) \in Seq(Code)
           /\ CodesFrom(content, at, end) \in Seq(Nat)
           /\ CodesUsed(CodesFrom(content, at, end)) \in 0..2
           /\ CodesUsed(CodesFrom(content, at, end)) > 0 =>
                 utf16_literal_to_utf8(CodesFrom(content, at, end)) \in Seq(Nat)
<1> DEFINE codes == CodesFrom(content, at, end)
<1>1. \A x : CodeAt(content, x) \in Code
  BY HexIsCode DEF CodeAt
<1>2. codes \in {<<>>, <<CodeAt(content, at)>>, <<CodeAt(content, at), CodeAt(content, at + 6)>>}
  BY DEF CodesFrom
<1> HIDE DEF codes
<1>3. ASSUME NEW x \in Code, NEW y \in Code
      PROVE  <<>> \in Seq(Code) /\ <<x>> \in Seq(Code) /\ <<x, y>> \in Seq(Code)
  OBVIOUS
<1>4. codes \in Seq(Code)
  <2> HIDE DEF Code
  <2> QED
    BY <1>1, <1>2, <1>3
<1>9. codes \in Seq(Nat)
  <2>1. Code \subseteq Nat
    BY DEF Code
  <2> QED
    BY Zenon, <1>4, <2>1, SeqMonotonic
<1>5. /\ codes \in Seq(Nat)
      /\ CodesUsed(codes) = 2 => Len(codes) > 1
  BY <1>9 DEF CodesUsed
<1>6. codes \in Seq(Nat)
  BY <1>5
<1>7. CodesUsed(codes) \in 0..2
  BY DEF CodesUsed
<1>8. ASSUME CodesUsed(codes) > 0 PROVE utf16_literal_to_utf8(codes) \in Seq(Nat)
  <2>1. codes # <<>>
    BY <1>8 DEF CodesUsed
  <2>2. codes[1] \in Nat
    BY <1>6, <2>1, LenProperties, ElementOfSeq, EmptySeq
  <2>4. CodesUsed(codes) = 2 => codes[2] \in Nat
    BY <1>5, LenProperties, ElementOfSeq
  <2>3. \A x \in Nat, y \in Nat : Pair(x, y) \in Nat
    BY SMT DEF Pair
  <2>5. CodesUsed(codes) = 2 => Pair(codes[1], codes[2]) \in Nat
    BY Zenon, <2>2, <2>3, <2>4
  <2> QED
    BY <2>2, <2>5, Utf8Nat DEF utf16_literal_to_utf8
<1> QED
  BY <1>4, <1>6, <1>7, <1>8 DEF codes

Unescapings(from, end) ==
    {u \in [at : Nat, bytes : Seq(Nat), bad : Nat] :
        u.at >= from /\ (u.bad = 0 \/ u.bad \in from..(end - 1))}

LEMMA UnescapingMoved ==
    ASSUME NEW u \in [at : Nat, bytes : Seq(Nat), bad : Nat], NEW m \in Nat, NEW s \in Seq(Nat)
    PROVE  /\ [u EXCEPT !.at = m, !.bytes = s] \in [at : Nat, bytes : Seq(Nat), bad : Nat]
           /\ [u EXCEPT !.at = m, !.bytes = s].at = m
           /\ [u EXCEPT !.at = m, !.bytes = s].bad = u.bad
OBVIOUS

LEMMA UnescapedOne ==
    ASSUME NEW content \in Seq(Nat), NEW from \in Nat, from >= 1, NEW end \in from..Len(content),
           NEW u \in Unescapings(from, end), u.at < end
    PROVE  UnescapeStep(content, end, u) \in Unescapings(from, end)
<1> DEFINE symbol == content[u.at]
           next   == content[u.at + 1]
           codes  == CodesFrom(content, u.at, end)
<1>1. /\ Len(content) \in Nat /\ end \in Nat /\ u.at \in Nat /\ u.bytes \in Seq(Nat)
      /\ u.bad \in Nat /\ u.at >= from /\ (u.bad = 0 \/ u.bad \in from..(end - 1))
      /\ u \in [at : Nat, bytes : Seq(Nat), bad : Nat]
  BY LenProperties DEF Unescapings
<1>2. symbol \in Nat /\ next \in Nat
  BY <1>1, ElementOfSeq
<1>3. Append(u.bytes, symbol) \in Seq(Nat)
  BY <1>1, <1>2, AppendProperties
<1>4. next \in DOMAIN Unescaped => Append(u.bytes, Unescaped[next]) \in Seq(Nat)
  BY <1>1, UnescapedNat, AppendProperties
<1>5. CodesUsed(codes) \in 0..2
  BY <1>1, CodesAre
<1>6. CodesUsed(codes) > 0 => u.bytes \o utf16_literal_to_utf8(codes) \in Seq(Nat)
  <2>1. CodesUsed(codes) > 0 => utf16_literal_to_utf8(codes) \in Seq(Nat)
    BY <1>1, CodesAre
  <2> QED
    BY <1>1, <2>1, ConcatProperties
<1> HIDE DEF symbol, next, codes
<1>7. UnescapeStep(content, end, u) =
         IF symbol # Backslash
         THEN [u EXCEPT !.at = @ + 1, !.bytes = Append(@, symbol)]
         ELSE IF next \in DOMAIN Unescaped
         THEN [u EXCEPT !.at = @ + 2, !.bytes = Append(@, Unescaped[next])]
         ELSE IF CodesUsed(codes) > 0
         THEN [u EXCEPT !.at = @ + 6 * CodesUsed(codes),
                        !.bytes = @ \o utf16_literal_to_utf8(codes)]
         ELSE [u EXCEPT !.bad = u.at]
  BY DEF UnescapeStep, symbol, next, codes
<1>8. ASSUME NEW n \in Nat, NEW bytes \in Seq(Nat), NEW v, v = [u EXCEPT !.at = u.at + n, !.bytes = bytes]
      PROVE  v \in Unescapings(from, end)
  <2> DEFINE m == u.at + n
  <2>3. m \in Nat /\ v = [u EXCEPT !.at = m, !.bytes = bytes]
    BY <1>1, <1>8
  <2> HIDE DEF m
  <2>4. v \in [at : Nat, bytes : Seq(Nat), bad : Nat] /\ v.at = m /\ v.bad = u.bad
    BY <1>1, <2>3, UnescapingMoved
  <2>1. v \in [at : Nat, bytes : Seq(Nat), bad : Nat] /\ v.at = u.at + n /\ v.bad = u.bad
    BY <2>4 DEF m
  <2>2. v.at >= from
    BY <1>1, <2>1
  <2> QED
    BY <1>1, <2>1, <2>2 DEF Unescapings
<1>9. CASE symbol # Backslash
  <2>1. UnescapeStep(content, end, u) = [u EXCEPT !.at = u.at + 1, !.bytes = Append(u.bytes, symbol)]
    BY <1>7, <1>9
  <2> QED
    BY <1>3, <1>8, <2>1
<1>10. CASE symbol = Backslash /\ next \in DOMAIN Unescaped
  <2>1. UnescapeStep(content, end, u) = [u EXCEPT !.at = u.at + 2, !.bytes = Append(u.bytes, Unescaped[next])]
    BY <1>7, <1>10
  <2> QED
    BY <1>4, <1>8, <1>10, <2>1
<1>11. CASE symbol = Backslash /\ next \notin DOMAIN Unescaped /\ CodesUsed(codes) > 0
  <2>1. 6 * CodesUsed(codes) \in Nat
    BY <1>5
  <2>2. UnescapeStep(content, end, u) =
           [u EXCEPT !.at = u.at + 6 * CodesUsed(codes), !.bytes = u.bytes \o utf16_literal_to_utf8(codes)]
    BY <1>7, <1>11
  <2> QED
    BY <1>6, <1>8, <1>11, <2>1, <2>2
<1>12. CASE symbol = Backslash /\ next \notin DOMAIN Unescaped /\ ~(CodesUsed(codes) > 0)
  <2>1. UnescapeStep(content, end, u) = [u EXCEPT !.bad = u.at]
    BY <1>7, <1>12
  <2>2. u.at \in from..(end - 1)
    BY <1>1
  <2> QED
    BY <1>1, <2>1, <2>2 DEF Unescapings
<1> QED
  BY <1>9, <1>10, <1>11, <1>12

UnescapeOn(content, end, u) ==
    IF u.at >= end \/ u.bad # 0 THEN u ELSE UnescapeStep(content, end, u)

UnescapeRun(content, from, end, made) ==
    /\ made[0] = [at |-> from, bytes |-> <<>>, bad |-> 0]
    /\ \A n \in 0..(end - from) : made[n] \in Unescapings(from, end)
    /\ \A n \in 0..(end - from - 1) : made[n + 1] = UnescapeOn(content, end, made[n])

LEMMA UnescapeRuns ==
    ASSUME NEW content \in Seq(Nat), NEW from \in Nat, from >= 1, NEW end \in from..Len(content)
    PROVE  \E made : /\ UnescapeRun(content, from, end, made)
                     /\ Unescape(content, from, end) = made[end - from]
<1> DEFINE N == end - from
           S == Unescapings(from, end)
           Then(u) == IF u.at >= end \/ u.bad # 0 THEN u ELSE UnescapeStep(content, end, u)
           a == [at |-> from, bytes |-> <<>>, bad |-> 0]
           D(g, n) == IF n = 0 THEN a ELSE Then(g[n - 1])
           Is(g) == g = [n \in 0..N |-> D(g, n)]
           made == CHOOSE g : Is(g)
           F == [n \in 0..N |-> S]
           step == [n \in 0..(N - 1) |-> [u \in S |-> Then(u)]]
<1>1. N \in Nat
  BY LenProperties
<1>2. a \in F[0] /\ \A n \in 0..N : F[n] = S
  BY <1>1, EmptySeq DEF Unescapings
<1>3. \A u \in S : Then(u) \in S
  <2>1. \A u \in S : u.at \in Nat
    BY DEF Unescapings
  <2> QED
    BY <2>1, UnescapedOne
<1>7. Unescape(content, from, end) = made[N]
  BY DEF Unescape
<1> HIDE DEF Then, S, a
<1>4. Steps(N, F, step)
  <2>1. ASSUME NEW n \in 0..(N - 1) PROVE step[n] \in [F[n] -> F[n + 1]]
    <3>1. n \in 0..N /\ n + 1 \in 0..N
      BY <1>1
    <3> QED
      BY <1>2, <1>3, <3>1
  <2> HIDE DEF step, F
  <2> QED
    BY <2>1 DEF Steps
<1>5. \E g : Is(g)
  <2>1. PICK g : g = [n \in 0..N |-> g[n]] /\ g[0] = a /\ Reaches(N, F, step, g)
    <3> HIDE DEF N, F, step
    <3> QED
      BY <1>1, <1>2, <1>4, Recursion
  <2>2. ASSUME NEW n \in 0..N PROVE g[n] = D(g, n)
    <3>1. CASE n # 0
      <4>1. n - 1 \in 0..(N - 1) /\ (n - 1) + 1 = n /\ n - 1 \in 0..N
        BY <1>1, <3>1
      <4>2. g[n - 1] \in S /\ g[n] = step[n - 1][g[n - 1]]
        BY <1>2, <2>1, <4>1 DEF Reaches
      <4> QED
        BY <3>1, <4>1, <4>2
    <3> QED
      BY <2>1, <3>1
  <2> HIDE DEF D
  <2>3. Is(g)
    BY <2>1, <2>2
  <2> HIDE DEF Is
  <2> QED
    BY <2>3
<1>6. Is(made)
  <2> HIDE DEF Is
  <2> QED
    BY <1>5
<1> HIDE DEF made
<1>8. \A n \in 0..N : made[n] = D(made, n)
  <2> HIDE DEF D
  <2> QED
    BY <1>6
<1>9. Reaches(N, F, step, made)
  <2>1. made[0] \in F[0]
    BY <1>1, <1>2, <1>8
  <2>2. Takes(N, F, step, made)
    <3>1. ASSUME NEW n \in 0..(N - 1), made[n] \in F[n]
          PROVE  made[n + 1] = step[n][made[n]]
      <4>1. n + 1 \in 0..N /\ (n + 1) - 1 = n /\ n \in 0..N /\ n + 1 # 0
        BY <1>1
      <4>2. made[n + 1] = Then(made[n])
        BY <1>8, <4>1
      <4> QED
        BY <1>2, <3>1, <4>1, <4>2
    <3> HIDE DEF step, F
    <3> QED
      BY <3>1 DEF Takes
  <2> HIDE DEF N, F, step
  <2> QED
    BY <1>1, <1>4, <2>1, <2>2, Recursed
<1>10. \A n \in 0..N : made[n] \in S
  <2> HIDE DEF F, step
  <2> QED
    BY <1>2, <1>9 DEF Reaches
<1>11. made[0] = a
  BY <1>1, <1>8
<1>12. ASSUME NEW n \in 0..(N - 1) PROVE made[n + 1] = Then(made[n])
  <2>1. n + 1 \in 0..N /\ (n + 1) - 1 = n /\ n + 1 # 0
    BY <1>1
  <2> QED
    BY <1>8, <2>1
<1>13. \A u : Then(u) = UnescapeOn(content, end, u)
  BY DEF Then, UnescapeOn
<1>14. UnescapeRun(content, from, end, made)
  BY <1>10, <1>11, <1>12, <1>13 DEF UnescapeRun, a, S
<1> QED
  BY <1>7, <1>14

LEMMA UnescapeIs ==
    ASSUME NEW content \in Seq(Nat), NEW from \in Nat, from >= 1, NEW end \in from..Len(content)
    PROVE  Unescape(content, from, end) \in Unescapings(from, end)
<1> DEFINE N == end - from
<1>1. N \in 0..N
  BY LenProperties
<1> QED
  BY <1>1, UnescapeRuns DEF UnescapeRun

-----------------------------------------------------------------------------
(* The room of the output.                                                  *)

(* The jumps before a place. *)
Jumped(E, b) == Cardinality({i \in E : i < b})

LEMMA JumpedOne ==
    ASSUME NEW E, IsFiniteSet(E), E \subseteq Nat, NEW b \in Nat
    PROVE  /\ Jumped(E, b) \in Nat
           /\ Jumped(E, b + 1) = IF b \in E THEN Jumped(E, b) + 1 ELSE Jumped(E, b)
<1> DEFINE S == {i \in E : i < b}
<1>1. IsFiniteSet(S) /\ b \notin S
  BY FS_Subset
<1>2. Jumped(E, b) \in Nat
  BY <1>1, FS_CardinalityType DEF Jumped
<1>3. CASE b \in E
  <2>1. {i \in E : i < b + 1} = S \cup {b}
    <3>1. \A i \in E : i < b + 1 <=> i < b \/ i = b
      OBVIOUS
    <3> QED
      BY Zenon, <1>3, <3>1
  <2>2. Jumped(E, b) = Cardinality(S) /\ Jumped(E, b + 1) = Cardinality(S \cup {b})
    BY <2>1 DEF Jumped
  <2> HIDE DEF S
  <2>3. Cardinality(S \cup {b}) = Cardinality(S) + 1
    BY <1>1, FS_AddElement
  <2> QED
    BY <1>2, <1>3, <2>2, <2>3
<1>4. CASE b \notin E
  <2>1. {i \in E : i < b + 1} = S
    <3>1. \A i \in E : i # b => (i < b + 1 <=> i < b)
      OBVIOUS
    <3> QED
      BY Zenon, <1>4, <3>1
  <2>2. Jumped(E, b) = Cardinality(S) /\ Jumped(E, b + 1) = Cardinality(S)
    BY <2>1 DEF Jumped
  <2> QED
    BY <1>2, <1>4, <2>2
<1> QED
  BY <1>3, <1>4, <1>2

(* No jump starts where another one ends over: of two places one at most.    *)
Apart(E) == IsFiniteSet(E) /\ E \subseteq Nat /\ \A i \in E : i + 1 \notin E

LEMMA JumpedTwo ==
    ASSUME NEW E, Apart(E), NEW b \in Nat
    PROVE  Jumped(E, b) \in Nat /\ Jumped(E, b + 2) \in Nat /\ Jumped(E, b + 2) <= Jumped(E, b) + 1
<1>1. IsFiniteSet(E) /\ E \subseteq Nat /\ ~(b \in E /\ b + 1 \in E)
  BY DEF Apart
<1>2. b + 1 \in Nat /\ b + 2 \in Nat /\ (b + 1) + 1 = b + 2
  OBVIOUS
<1>3. /\ Jumped(E, b) \in Nat
      /\ Jumped(E, b + 1) = IF b \in E THEN Jumped(E, b) + 1 ELSE Jumped(E, b)
  BY <1>1, JumpedOne
<1>4. Jumped(E, (b + 1) + 1) = IF b + 1 \in E THEN Jumped(E, b + 1) + 1 ELSE Jumped(E, b + 1)
  BY <1>1, <1>2, JumpedOne
<1>5. Jumped(E, b + 2) \in Nat
  BY <1>1, <1>2, JumpedOne
<1> QED
  BY <1>1, <1>2, <1>3, <1>4, <1>5

LEMMA JumpedSix ==
    ASSUME NEW E, Apart(E), NEW b \in Nat
    PROVE  /\ Jumped(E, b) \in Nat /\ Jumped(E, b + 6) \in Nat /\ Jumped(E, b + 12) \in Nat
           /\ Jumped(E, b + 6) <= Jumped(E, b) + 3
           /\ Jumped(E, b + 12) <= Jumped(E, b) + 6
<1>1. ASSUME NEW c \in Nat
      PROVE  Jumped(E, c) \in Nat /\ Jumped(E, c + 6) \in Nat /\ Jumped(E, c + 6) <= Jumped(E, c) + 3
  <2>1. c + 2 \in Nat /\ c + 4 \in Nat /\ (c + 2) + 2 = c + 4 /\ (c + 4) + 2 = c + 6
    OBVIOUS
  <2>2. Jumped(E, c) \in Nat /\ Jumped(E, c + 2) \in Nat /\ Jumped(E, c + 2) <= Jumped(E, c) + 1
    BY JumpedTwo
  <2>3. Jumped(E, (c + 2) + 2) \in Nat /\ Jumped(E, (c + 2) + 2) <= Jumped(E, c + 2) + 1
    BY <2>1, JumpedTwo
  <2>4. Jumped(E, (c + 4) + 2) \in Nat /\ Jumped(E, (c + 4) + 2) <= Jumped(E, c + 4) + 1
    BY <2>1, JumpedTwo
  <2> QED
    BY <2>1, <2>2, <2>3, <2>4
<1>2. b + 6 \in Nat /\ (b + 6) + 6 = b + 12
  OBVIOUS
<1>3. Jumped(E, (b + 6) + 6) \in Nat /\ Jumped(E, (b + 6) + 6) <= Jumped(E, b + 6) + 3
  BY <1>1, <1>2
<1>4. Jumped(E, b) \in Nat /\ Jumped(E, b + 6) \in Nat /\ Jumped(E, b + 6) <= Jumped(E, b) + 3
  BY <1>1
<1> QED
  BY <1>2, <1>3, <1>4

(* A place is passed over at least once for each jump from it. *)
LEMMA JumpedFurther ==
    ASSUME NEW E, Apart(E), NEW b \in Nat, NEW d \in Nat
    PROVE  Jumped(E, b + d) \in Nat /\ Jumped(E, b + d) <= Jumped(E, b) + d
<1> DEFINE T == {n \in 0..d : Jumped(E, b + n) \in Nat /\ Jumped(E, b + n) <= Jumped(E, b) + n}
<1>1. IsFiniteSet(E) /\ E \subseteq Nat
  BY DEF Apart
<1>2. 0 \in T
  <2>1. b + 0 = b /\ 0 \in 0..d
    OBVIOUS
  <2>2. Jumped(E, b) \in Nat
    BY <1>1, JumpedOne
  <2>3. Jumped(E, b + 0) \in Nat /\ Jumped(E, b + 0) <= Jumped(E, b) + 0
    BY <2>1, <2>2
  <2> QED
    BY <2>1, <2>3
<1>3. ASSUME NEW n \in 0..(d - 1), n \in T PROVE n + 1 \in T
  <2>1. n + 1 \in 0..d /\ b + n \in Nat /\ b + (n + 1) = (b + n) + 1 /\ b + (n + 1) \in Nat /\ n \in Nat
    OBVIOUS
  <2>2. Jumped(E, b + n) \in Nat /\ Jumped(E, b + n) <= Jumped(E, b) + n
    BY <1>3
  <2>3. /\ Jumped(E, (b + n) + 1) =
              IF b + n \in E THEN Jumped(E, b + n) + 1 ELSE Jumped(E, b + n)
        /\ Jumped(E, b) \in Nat
    BY <1>1, <2>1, JumpedOne
  <2>4. Jumped(E, b + (n + 1)) \in Nat /\ Jumped(E, b + (n + 1)) <= Jumped(E, b) + (n + 1)
    BY <2>1, <2>2, <2>3
  <2> QED
    BY <2>1, <2>4
<1> HIDE DEF T
<1>4. T \in SUBSET (0..d)
  BY DEF T
<1>5. T = 0..d
  BY <1>2, <1>3, <1>4, UpTo
<1>6. d \in T
  BY <1>5
<1> QED
  BY <1>6 DEF T

(* The first loop never jumps to the place after a jump.                     *)
LEMMA JumpsAre ==
    ASSUME NEW content \in Seq(Nat), NEW from \in Nat, from >= 1, NEW end \in from..Len(content)
    PROVE  /\ Apart(Jumps(content, from, end))
           /\ \A i \in Jumps(content, from, end) : i >= from /\ i < end /\ content[i] = Backslash
<1> DEFINE N == Len(content)
           E == Jumps(content, from, end)
<1>1. N \in Nat /\ end \in Nat
  BY LenProperties
<1>2. PICK place : Walk(content, from, place) /\ place = Scan(content, from)
  BY QuoteIsWalkedTo
<1>3. E = {i \in {place[n] : n \in 0..N} : i < end /\ content[i] = Backslash}
  BY <1>2 DEF Jumps
<1>4. \A n \in 0..N : place[n] \in Nat /\ place[n] >= from
                         /\ (place[n] >= from + n \/ Stops(content, place[n]))
  BY <1>2 DEF Walk
<1>5. \A n \in 0..(N - 1) : place[n + 1] = Beyond(content, place[n])
  BY <1>2 DEF Walk
<1> HIDE DEF E
<1>6. \A i \in E : i \in Nat /\ i >= from /\ i < end /\ content[i] = Backslash
  BY <1>3, <1>4
<1>7. IsFiniteSet(E)
  <2>1. E \in SUBSET (from..end)
    BY <1>1, <1>6
  <2>2. from \in Int /\ end \in Int
    BY <1>1
  <2>3. IsFiniteSet(from..end)
    BY Zenon, <2>2, FS_Interval
  <2> QED
    BY Zenon, <2>1, <2>3, FS_Subset
<1> DEFINE T == {n \in 0..N : \A m \in 0..n : place[m] <= place[n]}
<1>8. 0 \in T
  BY <1>1, <1>4
<1>9. ASSUME NEW n \in 0..(N - 1), n \in T PROVE n + 1 \in T
  <2>1. n \in 0..N /\ n + 1 \in 0..N
    BY <1>1
  <2>2. place[n] \in Nat /\ place[n + 1] \in {place[n], place[n] + 1, place[n] + 2}
    BY <1>4, <1>5, <2>1 DEF Beyond
  <2>3. ASSUME NEW m \in 0..(n + 1) PROVE place[m] <= place[n + 1]
    <3>1. CASE m \in 0..n
      <4>1. place[m] <= place[n] /\ place[m] \in Nat
        BY <1>1, <1>4, <1>9, <3>1
      <4> QED
        BY <2>2, <4>1
    <3>2. CASE m = n + 1
      BY <2>2, <3>2
    <3> QED
      BY <3>1, <3>2
  <2> QED
    BY <2>1, <2>3
<1> HIDE DEF T
<1>10. T = 0..N
  <2>1. T \in SUBSET (0..N)
    BY DEF T
  <2> QED
    BY <1>1, <1>8, <1>9, <2>1, UpTo
<1>11. \A k \in 0..N : \A m \in 0..k : place[m] <= place[k]
  BY <1>10 DEF T
<1>12. ASSUME NEW i \in E, i + 1 \in E PROVE FALSE
  <2>1. PICK n \in 0..N : place[n] = i
    BY <1>3
  <2>2. PICK m \in 0..N : place[m] = i + 1
    BY <1>3, <1>12
  <2>3. i \in Nat /\ i >= from /\ i < end /\ content[i] = Backslash /\ i <= N
    BY <1>1, <1>6
  <2>4. ~Stops(content, i)
    BY <1>1, <2>3 DEF Stops, Quote, Backslash
  <2>5. n # N
    BY <1>1, <1>4, <2>1, <2>3, <2>4
  <2>6. n \in 0..(N - 1) /\ n + 1 \in 0..N
    BY <1>1, <2>5
  <2>7. place[n + 1] = i + 2
    BY <1>5, <2>1, <2>3, <2>4, <2>6 DEF Beyond, Stops
  <2>8. CASE m <= n
    <3>1. place[m] <= place[n]
      BY <1>1, <1>11, <2>8
    <3> QED
      BY <2>1, <2>2, <2>3, <3>1
  <2>9. CASE ~(m <= n)
    <3>1. n + 1 \in 0..m
      BY <1>1, <2>9
    <3>2. place[n + 1] <= place[m]
      BY <1>11, <3>1
    <3> QED
      BY <2>2, <2>3, <2>7, <3>2
  <2> QED
    BY <2>8, <2>9
<1>13. E \subseteq Nat /\ \A i \in E : i + 1 \notin E
  BY <1>6, <1>12
<1> QED
  BY <1>6, <1>7, <1>13 DEF Apart, E

(* Literals are before the end.                                             *)
LEMMA CodesUsedAre ==
    ASSUME NEW content, NEW at \in Nat, NEW end \in Nat
    PROVE  LET codes == CodesFrom(content, at, end)
           IN  CodesUsed(codes) > 0 =>
                   /\ at + 6 * CodesUsed(codes) <= end
                   /\ Len(utf16_literal_to_utf8(codes)) \in Nat
                   /\ Len(utf16_literal_to_utf8(codes)) <= 3 * CodesUsed(codes)
<1> DEFINE codes == CodesFrom(content, at, end)
<1>1. codes \in Seq(Code) /\ CodesUsed(codes) \in 0..2
  BY CodesAre
<1>2. ASSUME CodesUsed(codes) > 0
      PROVE  /\ Len(utf16_literal_to_utf8(codes)) \in Nat
             /\ Len(utf16_literal_to_utf8(codes)) <= 3 * CodesUsed(codes)
  <2> HIDE DEF codes
  <2>1. /\ utf16_literal_to_utf8(codes) \in Seq(0..255)
        /\ Len(utf16_literal_to_utf8(codes)) <= 3 * CodesUsed(codes)
    BY <1>1, <1>2, LiteralFits
  <2> QED
    BY <2>1, LenProperties
<1>3. CASE CodesUsed(codes) = 1
  <2>1. codes # <<>>
    BY <1>3 DEF CodesUsed
  <2>2. IsLiteral(content, at, end)
    BY <2>1 DEF CodesFrom
  <2>3. at + 6 <= end
    BY <2>2 DEF IsLiteral
  <2>4. at + 6 * CodesUsed(codes) <= end
    BY <1>3, <2>3
  <2> QED
    BY <1>2, <2>4
<1>4. CASE CodesUsed(codes) = 2
  <2>1. Len(codes) > 1
    <3> HIDE DEF codes
    <3> QED
      BY <1>4 DEF CodesUsed
  <2>2. IsLiteral(content, at + 6, end)
    <3>1. CASE codes = <<>>
      BY <2>1, <3>1
    <3>2. CASE codes = <<CodeAt(content, at)>>
      BY <2>1, <3>2
    <3>3. CASE codes # <<>> /\ codes # <<CodeAt(content, at)>>
      BY <3>3 DEF CodesFrom
    <3> QED
      BY <3>1, <3>2, <3>3
  <2>3. (at + 6) + 6 <= end
    BY <2>2 DEF IsLiteral
  <2>4. at + 6 * CodesUsed(codes) <= end
    BY <1>4, <2>3
  <2> QED
    BY <1>2, <2>4
<1>5. CodesUsed(codes) > 0 => CodesUsed(codes) = 1 \/ CodesUsed(codes) = 2
  BY <1>1
<1> QED
  BY <1>3, <1>4, <1>5

(* What is written and the jumps so far are no more than the symbols read,   *)
(* of which the closing quote may be the last.                              *)
Inside(E, from, end, u) ==
    u.at <= end + 1 /\ Len(u.bytes) + Jumped(E, u.at) <= u.at - from

LEMMA InsideSums ==
    ASSUME NEW l \in Nat, NEW m \in Nat, NEW i \in Nat, NEW j \in Nat, NEW k \in Nat,
           NEW d \in Nat, NEW a \in Nat, NEW f \in Nat,
           l + i <= a - f, j <= i + k, m + k <= d
    PROVE  (l + m) + j <= (a + d) - f
BY SMT

LEMMA InsideOne ==
    ASSUME NEW content \in Seq(Nat), NEW from \in Nat, from >= 1, NEW end \in from..Len(content),
           NEW E, Apart(E), \A i \in E : content[i] = Backslash,
           NEW u \in Unescapings(from, end), u.at < end, Inside(E, from, end, u)
    PROVE  Inside(E, from, end, UnescapeStep(content, end, u))
<1> DEFINE symbol == content[u.at]
           next   == content[u.at + 1]
           codes  == CodesFrom(content, u.at, end)
           more   == utf16_literal_to_utf8(codes)
<1>1. /\ Len(content) \in Nat /\ end \in Nat /\ u.at \in Nat /\ u.bytes \in Seq(Nat) /\ u.at >= from
      /\ u \in [at : Nat, bytes : Seq(Nat), bad : Nat] /\ Len(u.bytes) \in Nat
  BY LenProperties DEF Unescapings
<1>2. symbol \in Nat /\ next \in Nat
  BY <1>1, ElementOfSeq
<1>3. /\ Append(u.bytes, symbol) \in Seq(Nat) /\ Len(Append(u.bytes, symbol)) = Len(u.bytes) + 1
  BY <1>1, <1>2, AppendProperties
<1>4. next \in DOMAIN Unescaped =>
         /\ Append(u.bytes, Unescaped[next]) \in Seq(Nat)
         /\ Len(Append(u.bytes, Unescaped[next])) = Len(u.bytes) + 1
  BY <1>1, UnescapedNat, AppendProperties
<1>5. CodesUsed(codes) \in 0..2
  BY CodesAre
<1>6. CodesUsed(codes) > 0 =>
         /\ more \in Seq(Nat)
         /\ u.at + 6 * CodesUsed(codes) <= end
         /\ Len(more) \in Nat /\ Len(more) <= 3 * CodesUsed(codes)
  BY <1>1, CodesAre, CodesUsedAre
<1>7. UnescapeStep(content, end, u) =
         IF symbol # Backslash
         THEN [u EXCEPT !.at = @ + 1, !.bytes = Append(@, symbol)]
         ELSE IF next \in DOMAIN Unescaped
         THEN [u EXCEPT !.at = @ + 2, !.bytes = Append(@, Unescaped[next])]
         ELSE IF CodesUsed(codes) > 0
         THEN [u EXCEPT !.at = @ + 6 * CodesUsed(codes), !.bytes = @ \o more]
         ELSE [u EXCEPT !.bad = u.at]
  BY DEF UnescapeStep
<1>8. symbol # Backslash => u.at \notin E
  OBVIOUS
<1>13. Len(u.bytes) + Jumped(E, u.at) <= u.at - from /\ Jumped(E, u.at) \in Nat
  BY <1>1, JumpedOne DEF Inside, Apart
<1> DEFINE v == UnescapeStep(content, end, u)
<1> HIDE DEF symbol, next, codes, more
<1>9. CASE symbol # Backslash
  <2>1. v.at = u.at + 1 /\ v.bytes = Append(u.bytes, symbol)
    BY <1>1, <1>7, <1>9
  <2>2. Jumped(E, u.at) \in Nat /\ Jumped(E, u.at + 1) = Jumped(E, u.at)
    BY <1>1, <1>8, <1>9, JumpedOne DEF Apart
  <2>3. /\ u.at + 1 <= end + 1
        /\ Len(Append(u.bytes, symbol)) + Jumped(E, u.at + 1) <= (u.at + 1) - from
    BY <1>1, <1>3, <1>13, <2>2
  <2> QED
    BY Zenon, <2>1, <2>3 DEF Inside
<1>10. CASE symbol = Backslash /\ next \in DOMAIN Unescaped
  <2> DEFINE bytes == Append(u.bytes, Unescaped[next])
  <2>1. v.at = u.at + 2 /\ v.bytes = bytes
    BY <1>1, <1>7, <1>10
  <2>2. bytes \in Seq(Nat) /\ Len(bytes) = Len(u.bytes) + 1
    BY <1>4, <1>10
  <2> HIDE DEF bytes
  <2>3. Jumped(E, u.at + 2) \in Nat /\ Jumped(E, u.at + 2) <= Jumped(E, u.at) + 1
    BY <1>1, JumpedTwo
  <2>4. u.at + 2 <= end + 1 /\ Len(bytes) + Jumped(E, u.at + 2) <= (u.at + 2) - from
    <3>1. u.at + 2 <= end + 1
      BY <1>1
    <3>2. Len(bytes) + Jumped(E, u.at + 2) <= (u.at - from) + 2
      BY <1>1, <1>13, <2>2, <2>3
    <3> QED
      BY <1>1, <2>2, <2>3, <3>1, <3>2
  <2> QED
    BY Zenon, <2>1, <2>4 DEF Inside
<1>11. CASE symbol = Backslash /\ next \notin DOMAIN Unescaped /\ CodesUsed(codes) > 0
  <2> DEFINE bytes == u.bytes \o more
             k     == 3 * CodesUsed(codes)
             d     == 6 * CodesUsed(codes)
  <2>1. v.at = u.at + d /\ v.bytes = bytes
    BY <1>1, <1>7, <1>11
  <2>2. bytes \in Seq(Nat) /\ Len(bytes) = Len(u.bytes) + Len(more)
    BY <1>1, <1>6, <1>11, ConcatProperties
  <2>3. (d = 6 /\ k = 3) \/ (d = 12 /\ k = 6)
    <3>1. CodesUsed(codes) = 1 \/ CodesUsed(codes) = 2
      BY <1>5, <1>11
    <3> HIDE DEF bytes
    <3> QED
      BY <3>1
  <2>4. u.at + d <= end /\ Len(more) \in Nat /\ Len(more) <= k
    BY <1>6, <1>11
  <2> HIDE DEF bytes, k, d
  <2>5. Jumped(E, u.at + d) \in Nat /\ Jumped(E, u.at + d) <= Jumped(E, u.at) + k
    BY <1>1, <2>3, JumpedSix
  <2>6. u.at + d <= end + 1 /\ Len(bytes) + Jumped(E, u.at + d) <= (u.at + d) - from
    <3>1. u.at + d <= end + 1
      BY <1>1, <2>3, <2>4
    <3>2. k \in Nat /\ d \in Nat /\ Len(more) + k <= d
      BY <2>3, <2>4
    <3>3. (Len(u.bytes) + Len(more)) + Jumped(E, u.at + d) <= (u.at + d) - from
      BY Zenon, <1>1, <1>13, <2>4, <2>5, <3>2, InsideSums
    <3> QED
      BY Zenon, <2>2, <3>1, <3>3
  <2> QED
    BY Zenon, <2>1, <2>6 DEF Inside
<1>12. CASE symbol = Backslash /\ next \notin DOMAIN Unescaped /\ ~(CodesUsed(codes) > 0)
  <2>1. UnescapeStep(content, end, u) = [u EXCEPT !.bad = u.at]
    BY <1>7, <1>12
  <2>2. [u EXCEPT !.bad = u.at].at = u.at /\ [u EXCEPT !.bad = u.at].bytes = u.bytes
    BY <1>1
  <2> QED
    BY <2>1, <2>2 DEF Inside
<1> QED
  BY <1>9, <1>10, <1>11, <1>12

(* parse_string allocates a byte for each symbol of the string and for its    *)
(* first quote, less one for each backslash its first loop jumps from, and    *)
(* one more: what its second loop writes never exceeds that, terminator      *)
(* included, though the two loops do not always agree on where the escapes   *)
(* are, as a literal may lack digits and take a backslash for one of them.   *)
THEOREM StringsFit ==
    ASSUME NEW content \in Seq(Nat), NEW from \in Nat, from >= 1
    PROVE  OutputFits(content, from)
<1> DEFINE end == ClosingQuote(content, from)
           made == Unescape(content, from, end)
           E == Jumps(content, from, end)
<1>1. CASE end = 0
  BY <1>1 DEF OutputFits
<1>2. CASE end # 0
  <2>1. end \in from..Len(content) /\ end \in Nat /\ Len(content) \in Nat
    BY <1>2, QuoteIsInside, LenProperties
  <2> HIDE DEF end
  <2>2. Apart(E) /\ \A i \in E : i >= from /\ i < end /\ content[i] = Backslash
    BY <2>1, JumpsAre
  <2>3. PICK run : UnescapeRun(content, from, end, run) /\ made = run[end - from]
    BY <2>1, UnescapeRuns
  <2> HIDE DEF made, E
  <2> DEFINE N == end - from
             T == {n \in 0..N : Inside(E, from, end, run[n])}
  <2>4. N \in Nat /\ \A n \in 0..N : run[n] \in Unescapings(from, end)
    BY <2>1, <2>3 DEF UnescapeRun
  <2>5. 0 \in T
    <3>1. run[0].at = from /\ run[0].bytes = <<>>
      BY <2>3 DEF UnescapeRun
    <3>2. {i \in E : i < from} = {}
      <4>1. \A i \in E : i \in Nat
        BY <2>2 DEF Apart
      <4>2. \A i \in E : ~(i < from)
        BY <2>2, <4>1
      <4> QED
        BY Zenon, <4>2
    <3>3. Jumped(E, from) = 0
      BY <3>2, FS_EmptySet DEF Jumped
    <3>4. Len(run[0].bytes) = 0
      BY <3>1
    <3>5. Inside(E, from, end, run[0])
      BY <2>1, <3>1, <3>3, <3>4 DEF Inside
    <3> QED
      BY <2>4, <3>5
  <2>6. ASSUME NEW n \in 0..(N - 1), n \in T PROVE n + 1 \in T
    <3>1. n \in 0..N /\ n + 1 \in 0..N
      BY <2>4
    <3>2. run[n + 1] = UnescapeOn(content, end, run[n])
      BY <2>3 DEF UnescapeRun
    <3>3. Inside(E, from, end, run[n]) /\ run[n] \in Unescapings(from, end)
      BY <2>4, <2>6, <3>1
    <3> HIDE DEF T, N
    <3>4. Inside(E, from, end, run[n + 1])
      <4>1. CASE run[n].at >= end \/ run[n].bad # 0
        BY <3>2, <3>3, <4>1 DEF UnescapeOn
      <4>2. CASE ~(run[n].at >= end \/ run[n].bad # 0)
        <5>1. run[n].at \in Nat
          BY <3>3 DEF Unescapings
        <5>2. run[n].at < end
          BY <2>1, <4>2, <5>1
        <5>3. run[n + 1] = UnescapeStep(content, end, run[n])
          BY <3>2, <4>2 DEF UnescapeOn
        <5> QED
          BY <2>1, <2>2, <3>3, <5>2, <5>3, InsideOne
      <4> QED
        BY <4>1, <4>2
    <3> QED
      BY <3>1, <3>4 DEF T
  <2> HIDE DEF T
  <2>7. T = 0..N
    <3>1. T \in SUBSET (0..N)
      BY DEF T
    <3> QED
      BY <2>4, <2>5, <2>6, <3>1, UpTo
  <2>8. Inside(E, from, end, made) /\ made \in Unescapings(from, end)
    BY <2>3, <2>4, <2>7 DEF T
  <2>9. made.at \in Nat /\ made.bytes \in Seq(Nat) /\ Len(made.bytes) \in Nat
    BY <2>8, LenProperties DEF Unescapings
  <2>10. Len(made.bytes) + Jumped(E, made.at) <= made.at - from /\ made.at <= end + 1
    BY <2>8 DEF Inside
  <2>11. Jumped(E, made.at) \in Nat /\ Jumped(E, end) \in Nat
    BY <2>1, <2>2, <2>9, JumpedOne DEF Apart
  <2>12. Cardinality(E) = Jumped(E, end)
    <3>1. {i \in E : i < end} = E
      BY <2>2
    <3> QED
      BY <3>1 DEF Jumped
  <2>13. Len(made.bytes) + Jumped(E, end) <= (end - from) + 1
    <3>1. CASE made.at <= end
      <4> DEFINE rest == end - made.at
      <4>1. rest \in Nat /\ made.at + rest = end
        BY <2>1, <2>9, <3>1
      <4> HIDE DEF rest
      <4>2. Jumped(E, made.at + rest) <= Jumped(E, made.at) + rest
        BY <2>2, <2>9, <4>1, JumpedFurther
      <4>3. Jumped(E, end) <= Jumped(E, made.at) + rest
        BY <4>1, <4>2
      <4>4. 0 \in Nat /\ 0 + rest <= rest
        BY <4>1
      <4>5. (Len(made.bytes) + 0) + Jumped(E, end) <= (made.at + rest) - from
        BY Zenon, <2>9, <2>10, <2>11, <4>1, <4>3, <4>4, InsideSums
      <4>6. (Len(made.bytes) + 0) + Jumped(E, end) <= end - from
        BY Zenon, <4>1, <4>5
      <4> QED
        BY <2>1, <2>9, <2>11, <4>6
    <3>2. CASE ~(made.at <= end)
      <4>1. made.at = end + 1
        <5>1. made.at \in Nat /\ end \in Nat /\ made.at <= end + 1
          BY <2>1, <2>9, <2>10
        <5> QED
          BY <3>2, <5>1
      <4>2. end \notin E
        BY <2>1, <2>2
      <4>3. Jumped(E, end + 1) = Jumped(E, end)
        BY <2>1, <2>2, <4>2, JumpedOne DEF Apart
      <4> QED
        BY <2>1, <2>9, <2>10, <2>11, <4>1, <4>3
    <3> QED
      BY <3>1, <3>2
  <2>14. Len(made.bytes) + 1 <= (end - from + 1) - Cardinality(E) + 1
    BY <2>1, <2>9, <2>11, <2>12, <2>13
  <2> QED
    BY <2>14 DEF OutputFits, OutputRoom, made, E, end
<1> QED
  BY <1>1, <1>2

-----------------------------------------------------------------------------
LEMMA AsCStringIs ==
    ASSUME NEW bytes \in Seq(Nat)
    PROVE  AsCString(bytes) \in Seq(Nat)
<1>1. Len(bytes) \in Nat /\ DOMAIN bytes = 1..Len(bytes) /\ \A i \in 1..Len(bytes) : bytes[i] \in Nat
  BY LenProperties, ElementOfSeq
<1>2. CASE \E i \in DOMAIN bytes : bytes[i] = 0
  <2> DEFINE Ends(i) == bytes[i] = 0 /\ \A j \in 1..(i - 1) : bytes[j] # 0
             ends == {i \in DOMAIN bytes : Ends(i)}
             i == CHOOSE k \in DOMAIN bytes : Ends(k)
  <2>1. \E k \in DOMAIN bytes : Ends(k)
    <3> DEFINE T == {k \in 0..Len(bytes) : \A j \in 1..k : bytes[j] # 0}
    <3>1. SUFFICES ASSUME ~ \E k \in DOMAIN bytes : Ends(k) PROVE FALSE
      OBVIOUS
    <3>2. 0 \in T
      BY <1>1
    <3>3. ASSUME NEW k \in 0..(Len(bytes) - 1), k \in T PROVE k + 1 \in T
      <4>1. k + 1 \in DOMAIN bytes /\ (k + 1) - 1 = k /\ k + 1 \in 0..Len(bytes) /\ k \in Nat
        BY <1>1
      <4>2. \A j \in 1..k : bytes[j] # 0
        BY <3>3
      <4>3. bytes[k + 1] # 0
        BY <3>1, <4>1, <4>2
      <4>4. \A j \in 1..(k + 1) : j \in 1..k \/ j = k + 1
        BY <4>1
      <4> QED
        BY <4>1, <4>2, <4>3, <4>4
    <3>4. T \in SUBSET (0..Len(bytes))
      OBVIOUS
    <3> HIDE DEF T, Ends
    <3>5. T = 0..Len(bytes)
      BY <1>1, <3>2, <3>3, <3>4, UpTo
    <3>6. \A j \in 1..Len(bytes) : bytes[j] # 0
      BY <1>1, <3>5 DEF T
    <3> QED
      BY <1>1, <1>2, <3>6
  <2>2. AsCString(bytes) = SubSeq(bytes, 1, i - 1)
    BY <1>2 DEF AsCString
  <2>3. i \in DOMAIN bytes
    <3> HIDE DEF Ends
    <3> QED
      BY <2>1
  <2> HIDE DEF i
  <2>4. i - 1 \in Int /\ \A k \in 1..(i - 1) : bytes[k] \in Nat
    BY <1>1, <2>3
  <2> QED
    BY <2>2, <2>4, SubSeqProperties
<1>3. CASE ~ \E i \in DOMAIN bytes : bytes[i] = 0
  BY <1>3 DEF AsCString
<1> QED
  BY <1>2, <1>3

(* The length of a number is the longest of the lengths that could be.       *)
LEMMA Longest ==
    ASSUME NEW N \in Nat, NEW lengths \in SUBSET (1..N), lengths # {}
    PROVE  \E n \in lengths : \A k \in lengths : k <= n
<1> DEFINE T == {m \in 0..N : (\E n \in lengths : n >= N - m)
                                 => \E n \in lengths : \A k \in lengths : k <= n}
<1>1. 0 \in T
  OBVIOUS
<1>2. ASSUME NEW m \in 0..(N - 1), m \in T PROVE m + 1 \in T
  <2>1. m + 1 \in 0..N
    OBVIOUS
  <2>2. ASSUME NEW n \in lengths, n >= N - (m + 1)
        PROVE  \E l \in lengths : \A k \in lengths : k <= l
    <3>1. CASE \E l \in lengths : l >= N - m
      BY <1>2, <3>1
    <3>2. CASE ~ \E l \in lengths : l >= N - m
      <4>1. \A k \in lengths : k <= n
        BY <2>2, <3>2
      <4> QED
        BY <4>1
    <3> QED
      BY <3>1, <3>2
  <2> QED
    BY <2>1, <2>2
<1>3. T \in SUBSET (0..N)
  OBVIOUS
<1> HIDE DEF T
<1>4. T = 0..N
  BY <1>1, <1>2, <1>3, UpTo
<1>5. (\E n \in lengths : n >= N - N) => \E n \in lengths : \A k \in lengths : k <= n
  BY <1>4 DEF T
<1>6. ASSUME NEW n \in lengths PROVE n >= N - N
  OBVIOUS
<1> QED
  BY <1>5, <1>6

LEMMA StrtodIs ==
    ASSUME NEW bytes \in Seq(Nat)
    PROVE  strtod(bytes) = 0 \/ (strtod(bytes) \in 1..Len(bytes) /\ bytes[strtod(bytes)] \in Digits)
<1> DEFINE IsNumber(n) == /\ bytes[n] \in Digits
                          /\ \A i \in 1..n : \/ bytes[i] \in Digits
                                             \/ i = 1 /\ bytes[i] = Minus
           lengths     == {n \in 1..Len(bytes) : IsNumber(n)}
<1>1. Len(bytes) \in Nat
  BY LenProperties
<1>2. strtod(bytes) = IF lengths = {} THEN 0
                      ELSE CHOOSE n \in lengths : \A k \in lengths : k <= n
  BY DEF strtod
<1>3. \A n \in lengths : n \in 1..Len(bytes) /\ bytes[n] \in Digits
  OBVIOUS
<1>4. lengths \in SUBSET (1..Len(bytes))
  OBVIOUS
<1> HIDE DEF lengths
<1>5. lengths # {} => strtod(bytes) \in lengths
  BY <1>1, <1>2, <1>4, Longest
<1>6. lengths = {} => strtod(bytes) = 0
  BY <1>2
<1> QED
  BY <1>3, <1>5, <1>6

(* An item as it is before its value is read: blank but for its name.         *)
Begun == [type : {"Invalid", "String"}, val : {NULL},
          name : {NULL} \cup Seq(Nat), kids : {<<>>}]

(* What the reading of one string, number or name, r, has made of b.          *)
Reads(b, r) ==
    /\ Later(b, r.b) /\ r.ok \in BOOLEAN /\ r.b.depth = b.depth
    /\ r.ok => Ready(r.b) /\ r.b.offset >= b.offset

Filled(item, type, s) == [item EXCEPT !.type = type, !.val = s]

StringRead(item, b, r) ==
    /\ Reads(b, r)
    /\ r.ok => /\ r.b.live = b.live + 1
               /\ \E s \in Seq(Nat) : r.item = Filled(item, "String", s)
    /\ ~r.ok => r.b.live = b.live /\ r.item = item

NumberRead(item, b, r) ==
    /\ Reads(b, r) /\ r.b.live = b.live
    /\ r.ok => \E s \in Seq(Nat) : r.item = Filled(item, "Number", s)
    /\ ~r.ok => r.item = item

LEMMA ReadyIs ==
    ASSUME NEW b, Ready(b)
    PROVE  /\ b \in Buffers /\ Len(b.content) > 0 /\ b.content[Len(b.content)] = 0
           /\ Len(b.content) \in Nat /\ b.offset \in Nat /\ b.offset < Len(b.content)
           /\ b.offset + 1 \in 1..Len(b.content) /\ At(b) = b.content[b.offset + 1]
           /\ At(b) \in Nat /\ (At(b) # 0 => b.offset + 1 < Len(b.content))
<1>1. b \in Buffers /\ Len(b.content) > 0 /\ b.content[Len(b.content)] = 0
      /\ b.offset < Len(b.content)
  BY DEF Ready
<1>2. Len(b.content) \in Nat /\ b.offset \in Nat /\ \A i \in 1..Len(b.content) : b.content[i] \in Nat
  BY <1>1, BufferFields
<1>3. b.offset + 1 \in 1..Len(b.content) /\ At(b) = b.content[b.offset + 1]
  BY <1>1, <1>2 DEF At
<1>4. At(b) # 0 => b.offset + 1 # Len(b.content)
  BY <1>1, <1>3
<1> QED
  BY <1>1, <1>2, <1>3, <1>4

LEMMA MovedBy ==
    ASSUME NEW b \in Buffers, NEW n \in Int, b.offset + n \in Nat
    PROVE  /\ Moved(b, n) \in Buffers /\ Moved(b, n).offset = b.offset + n
           /\ Moved(b, n).content = b.content /\ Moved(b, n).depth = b.depth
           /\ Moved(b, n).allocs = b.allocs /\ Moved(b, n).live = b.live
<1> DEFINE m == b.offset + n
<1>1. Moved(b, n) = [b EXCEPT !.offset = m]
  BY DEF Moved
<1> HIDE DEF m
<1>2. m \in Nat
  BY DEF m
<1> QED
  BY <1>1, <1>2, MovedTo DEF m

LEMMA ReadyMoved ==
    ASSUME NEW b, Ready(b), NEW n \in Int, b.offset + n \in Nat, b.offset + n < Len(b.content)
    PROVE  Ready(Moved(b, n))
<1>1. b \in Buffers
  BY DEF Ready
<1> QED
  BY <1>1, MovedBy DEF Ready

LEMMA UnusedString ==
    ASSUME NEW b \in Buffers, Granted(b), NEW n \in Nat
    PROVE  LET c == [b EXCEPT !.offset = n, !.allocs = @ - 1]
           IN  c \in Buffers /\ c.offset = n /\ c.content = b.content
               /\ c.depth = b.depth /\ c.live = b.live
<1>1. b.allocs - 1 \in Nat
  BY DEF Buffers, Granted
<1> QED
  BY <1>1 DEF Buffers

LEMMA StringIsRead ==
    ASSUME NEW b, Ready(b), NEW item \in Begun
    PROVE  StringRead(item, b, parse_string(item, b))
<1> DEFINE end == ClosingQuote(b.content, b.offset + 2)
           made == Unescape(b.content, b.offset + 2, end)
           r == parse_string(item, b)
<1>1. b \in Buffers /\ b.content \in Seq(Nat) /\ Len(b.content) \in Nat /\ b.offset \in Nat
      /\ b.offset < Len(b.content) /\ b.live \in Int /\ b.content[Len(b.content)] = 0
  BY ReadyIs, BufferFields
<1>2. r = IF At(b) # Quote \/ end = 0 \/ ~Granted(b)
          THEN Result(Moved(b, 1), FALSE, item)
          ELSE StringOf(item, b, end, made)
  BY DEF parse_string, StringUpTo
<1>3. end = 0 \/ (end \in (b.offset + 2)..Len(b.content) /\ b.content[end] = Quote)
  <2>1. b.offset + 2 \in Nat /\ b.offset + 2 >= 1
    BY <1>1
  <2> QED
    BY <1>1, <2>1, QuoteIsInside
<1> HIDE DEF r, end
<1>4. CASE At(b) # Quote \/ end = 0 \/ ~Granted(b)
  <2>1. r = Result(Moved(b, 1), FALSE, item)
    BY <1>2, <1>4
  <2>2. b.offset + 1 \in Nat
    BY <1>1
  <2>3. Moved(b, 1) \in Buffers /\ Moved(b, 1).offset = b.offset + 1 /\ Moved(b, 1).live = b.live
        /\ Moved(b, 1).content = b.content /\ Moved(b, 1).depth = b.depth
    BY <1>1, <2>2, MovedBy
  <2>4. r.b = Moved(b, 1) /\ r.ok = FALSE /\ r.item = item
    BY <2>1 DEF Result
  <2>5. Later(b, r.b)
    BY <1>1, <2>3, <2>4 DEF Later
  <2> QED
    BY <2>3, <2>4, <2>5 DEF r, Reads, StringRead, Filled
<1>5. CASE ~(At(b) # Quote \/ end = 0 \/ ~Granted(b))
  <2>1. r = StringOf(item, b, end, made) /\ Granted(b)
        /\ end \in (b.offset + 2)..Len(b.content) /\ b.content[end] = Quote /\ end \in Nat
    BY <1>1, <1>2, <1>3, <1>5
  <2>2. made \in Unescapings(b.offset + 2, end)
    <3>1. b.offset + 2 \in Nat /\ b.offset + 2 >= 1
      BY <1>1
    <3> QED
      BY <1>1, <2>1, <3>1, UnescapeIs
  <2> HIDE DEF made
  <2>3. /\ made.bytes \in Seq(Nat) /\ made.bad \in Nat
        /\ made.bad = 0 \/ made.bad \in (b.offset + 2)..(end - 1)
    BY <2>2 DEF Unescapings
  <2>4. CASE made.bad # 0
    <3> DEFINE n == made.bad - 1
               c == [b EXCEPT !.offset = n, !.allocs = @ - 1]
    <3>1. r = Result(c, FALSE, item)
      BY <2>1, <2>4 DEF StringOf
    <3>2. n \in Nat /\ n <= Len(b.content)
      <4>1. made.bad \in Nat /\ made.bad # 0 /\ made.bad <= end - 1
        BY <1>1, <2>1, <2>3, <2>4
      <4>2. Len(b.content) \in Nat /\ end <= Len(b.content) /\ end \in Nat
        BY <1>1, <2>1
      <4> HIDE DEF made
      <4> QED
        BY <4>1, <4>2
    <3> HIDE DEF n
    <3>3. c \in Buffers /\ c.offset = n /\ c.content = b.content /\ c.depth = b.depth
          /\ c.live = b.live
      BY <1>1, <2>1, <3>2, UnusedString
    <3> HIDE DEF c
    <3>4. r.b = c /\ r.ok = FALSE /\ r.item = item
      BY <3>1 DEF Result
    <3>5. Later(b, r.b)
      BY <1>1, <3>2, <3>3, <3>4 DEF Later
    <3> QED
      BY <3>3, <3>4, <3>5 DEF r, Reads, StringRead, Filled
  <2>5. CASE made.bad = 0
    <3> DEFINE d == Taken(b)
               c == [d EXCEPT !.offset = end]
    <3>1. r = Result(c, TRUE, [item EXCEPT !.type = "String", !.val = AsCString(made.bytes)])
      BY <2>1, <2>5 DEF StringOf
    <3>2. d \in Buffers /\ d.live = b.live + 1 /\ d.content = b.content /\ d.depth = b.depth
      BY <1>1, <2>1, TakenOne
    <3> HIDE DEF d
    <3>3. c \in Buffers /\ c.offset = end /\ c.content = b.content /\ c.depth = b.depth
          /\ c.live = b.live + 1
      BY <2>1, <3>2, MovedTo
    <3> HIDE DEF c
    <3>4. r.b = c /\ r.ok = TRUE
          /\ r.item = [item EXCEPT !.type = "String", !.val = AsCString(made.bytes)]
      BY <3>1 DEF Result
    <3>5. end # Len(b.content)
      BY <1>1, <2>1 DEF Quote
    <3>6. Later(b, r.b) /\ Ready(r.b) /\ r.b.offset >= b.offset
      BY <1>1, <2>1, <3>3, <3>4, <3>5 DEF Later, Ready
    <3>7. AsCString(made.bytes) \in Seq(Nat)
      BY <2>3, AsCStringIs
    <3> QED
      BY <3>3, <3>4, <3>6, <3>7 DEF r, Reads, StringRead, Filled
  <2> QED
    BY <2>4, <2>5
<1> QED
  BY <1>4, <1>5

LEMMA NumberIsRead ==
    ASSUME NEW b, Ready(b), NEW item \in Begun
    PROVE  NumberRead(item, b, parse_number(item, b))
<1> DEFINE end == IF b.offset + NumberSize - 1 < Len(b.content)
                  THEN b.offset + NumberSize - 1 ELSE Len(b.content)
           inside == SubSeq(b.content, b.offset + 1, end)
           length == strtod(inside)
           r == parse_number(item, b)
<1>1. b \in Buffers /\ b.content \in Seq(Nat) /\ Len(b.content) \in Nat /\ b.offset \in Nat
      /\ b.offset < Len(b.content) /\ b.live \in Int /\ b.content[Len(b.content)] = 0
      /\ \A i \in 1..Len(b.content) : b.content[i] \in Nat
  BY ReadyIs, BufferFields
<1>2. r = IF length = 0 THEN Result(b, FALSE, item)
          ELSE Result(Moved(b, length), TRUE,
                      [item EXCEPT !.type = "Number", !.val = SubSeq(inside, 1, length)])
  BY DEF parse_number
<1>3. end \in b.offset..Len(b.content) /\ end \in Int
  BY <1>1, ParseAssumption
<1> HIDE DEF r, end
<1>4. /\ inside \in Seq(Nat) /\ Len(inside) = end - b.offset
      /\ \A i \in 1..(end - b.offset) : inside[i] = b.content[b.offset + i]
  <2>1. \A i \in (b.offset + 1)..end : b.content[i] \in Nat
    BY <1>1, <1>3
  <2>2. b.offset + 1 \in Int
    BY <1>1
  <2>3. /\ inside \in Seq(Nat)
        /\ Len(inside) = IF b.offset + 1 <= end THEN end - (b.offset + 1) + 1 ELSE 0
        /\ \A i \in 1..(end - (b.offset + 1) + 1) : inside[i] = b.content[(b.offset + 1) + i - 1]
    BY <1>3, <2>1, <2>2, SubSeqProperties
  <2> HIDE DEF inside
  <2>4. Len(inside) = end - b.offset
    BY <1>1, <1>3, <2>3
  <2>5. ASSUME NEW i \in 1..(end - b.offset) PROVE inside[i] = b.content[b.offset + i]
    <3>1. i \in 1..(end - (b.offset + 1) + 1) /\ (b.offset + 1) + i - 1 = b.offset + i
      BY <1>1, <1>3
    <3> QED
      BY <2>3, <3>1
  <2> QED
    BY <2>3, <2>4, <2>5
<1> HIDE DEF inside
<1>5. length = 0 \/ (length \in 1..Len(inside) /\ inside[length] \in Digits)
  BY <1>4, StrtodIs
<1> HIDE DEF length
<1>6. CASE length = 0
  <2>1. r.b = b /\ r.ok = FALSE /\ r.item = item
    BY <1>2, <1>6 DEF Result
  <2>2. Later(b, r.b)
    BY <1>1, <2>1 DEF Later
  <2> QED
    BY <2>1, <2>2 DEF r, Reads, NumberRead, Filled
<1>7. CASE length # 0
  <2>1. length \in 1..(end - b.offset) /\ inside[length] \in Digits /\ length \in Int
    BY <1>1, <1>3, <1>4, <1>5, <1>7
  <2>2. b.content[b.offset + length] # 0
    BY <1>4, <2>1 DEF Digits
  <2>3. b.offset + length \in Nat /\ b.offset + length < Len(b.content) /\ b.offset + length >= b.offset
    BY <1>1, <1>3, <2>1, <2>2
  <2>4. Ready(Moved(b, length)) /\ Moved(b, length) \in Buffers
        /\ Moved(b, length).offset = b.offset + length /\ Moved(b, length).live = b.live
        /\ Moved(b, length).content = b.content /\ Moved(b, length).depth = b.depth
    BY <1>1, <2>1, <2>3, ReadyMoved, MovedBy
  <2>5. SubSeq(inside, 1, length) \in Seq(Nat)
    <3>1. length \in 1..Len(inside) /\ \A i \in 1..length : inside[i] \in Nat
      BY <1>4, <1>5, <1>7, LenProperties, ElementOfSeq
    <3>2. 1 \in Int
      OBVIOUS
    <3> QED
      BY <2>1, <3>1, <3>2, SubSeqProperties
  <2> DEFINE s == SubSeq(inside, 1, length)
  <2>6. r.b = Moved(b, length) /\ r.ok = TRUE
        /\ r.item = [item EXCEPT !.type = "Number", !.val = s]
    BY <1>2, <1>7 DEF Result
  <2> HIDE DEF s
  <2>7. Later(b, r.b)
    BY <1>1, <2>3, <2>4, <2>6 DEF Later
  <2>8. s \in Seq(Nat)
    BY <2>5 DEF s
  <2> QED
    BY <2>3, <2>4, <2>6, <2>7, <2>8 DEF r, Reads, NumberRead, Filled
<1> QED
  BY <1>6, <1>7

(* What the parser makes has no raw items.                                  *)
Safe == Types \ {"Raw"}

(* Items that print_value prints.                                           *)
Valid == Safe \ {"Invalid"}

Leaf ==
    {item \in [type : Safe, val : {NULL} \cup Seq(Nat), name : {NULL} \cup Seq(Nat),
               kids : {<<>>}] :
        item.type = "Number" => item.val # NULL}

LEMMA SkipReady ==
    ASSUME NEW b, Ready(b)
    PROVE  LET c == buffer_skip_whitespace(b)
           IN  /\ Ready(c) /\ Later(b, c) /\ c.offset >= b.offset
               /\ c.live = b.live /\ c.depth = b.depth
<1> DEFINE c == buffer_skip_whitespace(b)
<1>1. b \in Buffers /\ Len(b.content) > 0 /\ b.content[Len(b.content)] = 0
      /\ Len(b.content) \in Nat /\ b.offset \in Nat /\ b.offset < Len(b.content)
  BY ReadyIs
<1>2. /\ Ready(c) /\ c.content = b.content /\ c.live = b.live /\ c.depth = b.depth
  BY <1>1, SkipKeeps
<1>3. PICK n \in Nat : /\ c = [b EXCEPT !.offset = n]
                       /\ n < Len(b.content)
                       /\ n >= b.offset \/ n = Len(b.content) - 1
  BY <1>1, Skipped
<1>4. c.offset = n
  BY <1>1, <1>3, MovedTo
<1> HIDE DEF c
<1>5. c.offset >= b.offset /\ c.offset <= Len(b.content) /\ c \in Buffers
  BY <1>1, <1>2, <1>3, <1>4 DEF Ready
<1>6. Later(b, c)
  BY <1>2, <1>5 DEF Later
<1> QED
  BY <1>2, <1>5, <1>6 DEF c

LEMMA TypesAre ==
    /\ Safe \subseteq Types
    /\ {"Invalid", "NULL", "True", "False", "Number", "String", "Array", "Object"} \subseteq Safe
    /\ DOMAIN Words = {"NULL", "True", "False"}
    /\ "Raw" \notin Safe
    /\ Valid \subseteq Safe
    /\ {"NULL", "True", "False", "Number", "String", "Array", "Object"} \subseteq Valid
    /\ \A type \in Safe : type # "Invalid" => type \in Valid
BY DEF Safe, Valid, Types, Words

LEMMA ValidLeaves ==
    ASSUME NEW item \in Leaf, item.type # "Invalid", NEW k \in 1..Levels
    PROVE  item \in Trees(Valid)[k]
<1>1. k - 1 \in 0..(Levels - 1) /\ (k - 1) + 1 = k
  BY TextAssumption
<1>2. item.type \in Valid
  BY TypesAre DEF Leaf
<1>3. <<>> \in Seq(Trees(Valid)[k - 1])
  BY EmptySeq
<1>4. item \in Level(Valid, Trees(Valid)[k - 1])
  BY <1>2, <1>3 DEF Leaf, Level
<1>5. Trees(Valid)[(k - 1) + 1] = Level(Valid, Trees(Valid)[k - 1])
  BY <1>1, TreesAre
<1> QED
  BY <1>1, <1>4, <1>5

LEMMA Leaves ==
    ASSUME NEW item \in Leaf, NEW k \in 1..Levels
    PROVE  /\ item \in Trees(Safe)[k]
           /\ item \in Trees(Types)[Levels] /\ Blocks(item) = OwnBlocks(item)
           /\ Blocks(item) \in Nat
<1>1. Levels \in Nat /\ k - 1 \in 0..(Levels - 1) /\ (k - 1) + 1 = k /\ k \in 0..Levels
      /\ Levels \in 0..Levels
  BY TextAssumption
<1>2. item.kids = <<>> /\ item.type \in Safe
  BY DEF Leaf
<1>3. item \in Level(Safe, Trees(Safe)[k - 1])
  <2>1. <<>> \in Seq(Trees(Safe)[k - 1])
    BY EmptySeq
  <2> QED
    BY <2>1 DEF Leaf, Level
<1>4. item \in Trees(Safe)[k]
  <2>1. Trees(Safe)[(k - 1) + 1] = Level(Safe, Trees(Safe)[k - 1])
    BY <1>1, TreesAre
  <2> QED
    BY <1>1, <1>3, <2>1
<1>5. item \in Trees(Types)[Levels]
  <2>1. Trees(Safe)[k] \subseteq Trees(Safe)[Levels]
    BY <1>1, TreesNest
  <2>2. Trees(Safe)[Levels] \subseteq Trees(Types)[Levels]
    BY <1>1, TypesAre, TreesOfMore
  <2> QED
    BY <1>4, <2>1, <2>2
<1>6. Blocks(item) = OwnBlocks(item) + BlocksOf(<<>>) /\ Blocks(item) \in Nat
  BY <1>2, <1>5, BlocksAre
<1>7. OwnBlocks(item) \in Nat
  BY DEF OwnBlocks
<1> QED
  BY <1>4, <1>5, <1>6, <1>7, BlocksOfNone

(* The items that are not filled, or filled with what needs no list.          *)
LEMMA BegunIs ==
    ASSUME NEW item \in Begun
    PROVE  /\ item \in Leaf /\ item.val = NULL /\ item.kids = <<>>
           /\ item.name \in {NULL} \cup Seq(Nat)
           /\ OwnBlocks(item) = 1 + (IF item.name # NULL THEN 1 ELSE 0)
<1>1. item \in Leaf /\ item.val = NULL /\ item.kids = <<>> /\ item.name \in {NULL} \cup Seq(Nat)
  BY TypesAre DEF Begun, Leaf
<1> QED
  BY <1>1 DEF OwnBlocks

LEMMA BlankIs == Blank \in Begun /\ Blank.name = NULL
BY DEF Blank, Item, Begun

LEMMA RecordIs ==
    ASSUME NEW t, NEW v, NEW n, NEW k, NEW item \in [type : {t}, val : {v}, name : {n}, kids : {k}]
    PROVE  item = [type |-> t, val |-> v, name |-> n, kids |-> k]
OBVIOUS

LEMMA Refilled ==
    ASSUME NEW item \in Leaf, NEW t, NEW v
    PROVE  Filled(item, t, v)
              = [type |-> t, val |-> v, name |-> item.name, kids |-> item.kids]
<1> DEFINE c == Filled(item, t, v)
<1>1. c \in [type : {t}, val : {v}, name : {item.name}, kids : {item.kids}]
  BY DEF Filled, Leaf
<1> HIDE DEF c
<1>2. c = [type |-> t, val |-> v, name |-> item.name, kids |-> item.kids]
  BY <1>1, RecordIs
<1> QED
  BY <1>2 DEF c

Renaming(item, v, n) == [item EXCEPT !.val = v, !.name = n]

LEMMA Renamed ==
    ASSUME NEW item \in Leaf, NEW v, NEW n
    PROVE  Renaming(item, v, n)
              = [type |-> item.type, val |-> v, name |-> n, kids |-> item.kids]
<1> DEFINE c == Renaming(item, v, n)
<1>1. c \in [type : {item.type}, val : {v}, name : {n}, kids : {item.kids}]
  BY DEF Renaming, Leaf
<1> HIDE DEF c
<1>2. c = [type |-> item.type, val |-> v, name |-> n, kids |-> item.kids]
  BY <1>1, RecordIs
<1> QED
  BY <1>2 DEF c

LEMMA Retyped ==
    ASSUME NEW item \in Leaf, NEW t
    PROVE  [item EXCEPT !.type = t]
              = [type |-> t, val |-> item.val, name |-> item.name, kids |-> item.kids]
BY DEF Leaf

Listing(item, t, list) == [item EXCEPT !.type = t, !.kids = list]

LEMMA Listed ==
    ASSUME NEW item \in Leaf, NEW t, NEW list
    PROVE  Listing(item, t, list)
              = [type |-> t, val |-> item.val, name |-> item.name, kids |-> list]
<1> DEFINE c == Listing(item, t, list)
<1>1. c \in [type : {t}, val : {item.val}, name : {item.name}, kids : {list}]
  BY DEF Listing, Leaf
<1> HIDE DEF c
<1>2. c = [type |-> t, val |-> item.val, name |-> item.name, kids |-> list]
  BY <1>1, RecordIs
<1> QED
  BY <1>2 DEF c

(* An item that is filled with what has no list.                            *)
LEMMA FilledIs ==
    ASSUME NEW item \in Begun, NEW s \in Seq(Nat)
    PROVE  /\ Filled(item, "String", s) \in Leaf
           /\ Filled(item, "String", s).name = item.name
           /\ Filled(item, "String", s).val = s
           /\ Filled(item, "String", s).type = "String"
           /\ Filled(item, "Number", s).type = "Number"
           /\ OwnBlocks(Filled(item, "String", s)) = OwnBlocks(item) + 1
           /\ Filled(item, "Number", s) \in Leaf
           /\ Filled(item, "Number", s).name = item.name
           /\ OwnBlocks(Filled(item, "Number", s)) = OwnBlocks(item)
<1>1. /\ item.val = NULL /\ item.kids = <<>> /\ item.name \in {NULL} \cup Seq(Nat)
  BY DEF Begun
<1>2. s # NULL
  BY TextAssumption
<1>3. ASSUME NEW type
      PROVE  Filled(item, type, s) = [type |-> type, val |-> s, name |-> item.name, kids |-> <<>>]
  <2>1. item \in Leaf
    BY BegunIs
  <2>2. Filled(item, type, s) = [type |-> type, val |-> s, name |-> item.name, kids |-> item.kids]
    BY <2>1, Refilled
  <2> QED
    BY <1>1, <2>2
<1>5. OwnBlocks(item) = 1 + (IF item.name # NULL THEN 1 ELSE 0)
  BY BegunIs
<1> DEFINE t == [type |-> "String", val |-> s, name |-> item.name, kids |-> <<>>]
           n == [type |-> "Number", val |-> s, name |-> item.name, kids |-> <<>>]
<1>6. t \in Leaf /\ t.name = item.name /\ t.val = s /\ OwnBlocks(t) = OwnBlocks(item) + 1
  <2>1. t \in Leaf /\ t.name = item.name /\ t.val = s
    BY <1>1, TypesAre DEF Leaf
  <2>2. OwnBlocks(t) = 1 + 1 + (IF item.name # NULL THEN 1 ELSE 0)
    BY <1>2 DEF OwnBlocks
  <2> QED
    BY <1>5, <2>1, <2>2
<1>7. n \in Leaf /\ n.name = item.name /\ OwnBlocks(n) = OwnBlocks(item)
  <2>1. n \in Leaf /\ n.name = item.name
    BY <1>1, <1>2, TypesAre DEF Leaf
  <2>2. OwnBlocks(n) = 1 + 0 + (IF item.name # NULL THEN 1 ELSE 0)
    BY DEF OwnBlocks
  <2> QED
    BY <1>5, <2>1, <2>2
<1> HIDE DEF t, n
<1>8. Filled(item, "String", s) = t /\ Filled(item, "Number", s) = n
  BY <1>3 DEF t, n
<1>9. t.type = "String" /\ n.type = "Number"
  BY DEF t, n
<1> QED
  BY <1>6, <1>7, <1>8, <1>9

LEMMA WordIs ==
    ASSUME NEW item \in Begun, NEW type \in DOMAIN Words
    PROVE  /\ [item EXCEPT !.type = type] \in Leaf
           /\ [item EXCEPT !.type = type].name = item.name
           /\ OwnBlocks([item EXCEPT !.type = type]) = OwnBlocks(item)
<1>1. /\ item.val = NULL /\ item.kids = <<>> /\ item.name \in {NULL} \cup Seq(Nat)
  BY DEF Begun
<1> DEFINE w == [type |-> type, val |-> NULL, name |-> item.name, kids |-> <<>>]
<1>2. [item EXCEPT !.type = type] = w
  <2>1. [item EXCEPT !.type = type] = [type |-> type, val |-> item.val, name |-> item.name, kids |-> item.kids]
    BY BegunIs, Retyped
  <2> QED
    BY <1>1, <2>1
<1>3. w \in Leaf /\ w.name = item.name
  BY <1>1, TypesAre DEF Leaf
<1>4. OwnBlocks(w) = 1 + 0 + (IF item.name # NULL THEN 1 ELSE 0)
  BY DEF OwnBlocks
<1> HIDE DEF w
<1>5. OwnBlocks(w) = OwnBlocks(item)
  BY <1>4, BegunIs
<1> QED
  BY <1>2, <1>3, <1>5

(* The name of an element, moved from the value it was read as.              *)
NameRead(b, r) ==
    /\ Reads(b, r) /\ r.item \in Begun
    /\ r.b.live - Blocks(r.item) = b.live - 1
    /\ r.ok => r.item.name # NULL

LEMMA ColonIsRead ==
    ASSUME NEW b, Ready(b), NEW ahead, Ready(ahead), Later(b, ahead), ahead.live = b.live + 1,
           ahead.depth = b.depth, ahead.offset >= b.offset, NEW child \in Begun,
           child.name # NULL, Blocks(child) = 2
    PROVE  NameRead(b, NameAndColon(ahead, child))
<1> DEFINE r == NameAndColon(ahead, child)
<1>1. /\ ahead.content = b.content /\ ahead.offset \in Nat /\ b.offset \in Nat /\ b.live \in Int
  BY ReadyIs, BufferFields DEF Later
<1>2. CASE At(ahead) # Colon
  <2>1. r = Result(ahead, FALSE, child)
    BY <1>2 DEF NameAndColon
  <2> HIDE DEF r
  <2>2. r.b = ahead /\ r.ok = FALSE /\ r.item = child
    BY <2>1 DEF Result
  <2>3. Reads(b, r) /\ r.b.live = b.live + 1
    BY <2>2 DEF Reads
  <2>4. NameRead(b, r)
    BY <1>1, <2>2, <2>3 DEF NameRead
  <2> QED
    BY <2>4 DEF r
<1>3. CASE At(ahead) = Colon
  <2> DEFINE after == buffer_skip_whitespace(Moved(ahead, 1))
  <2>1. r = Result(after, TRUE, child)
    BY <1>3 DEF NameAndColon
  <2>2. Ready(Moved(ahead, 1)) /\ Moved(ahead, 1).content = ahead.content
        /\ Moved(ahead, 1).live = ahead.live /\ Moved(ahead, 1).depth = ahead.depth
        /\ Moved(ahead, 1).offset = ahead.offset + 1
    <3>1. At(ahead) # 0
      BY <1>3 DEF Colon
    <3>2. ahead.offset + 1 < Len(ahead.content) /\ ahead \in Buffers /\ ahead.offset + 1 \in Nat
      BY <3>1, ReadyIs
    <3> QED
      BY <3>2, ReadyMoved, MovedBy
  <2>3. /\ Ready(after) /\ Later(Moved(ahead, 1), after)
        /\ after.offset >= Moved(ahead, 1).offset
        /\ after.live = Moved(ahead, 1).live /\ after.depth = Moved(ahead, 1).depth
    BY <2>2, SkipReady
  <2> HIDE DEF after, r
  <2>4. after.offset \in Nat
    BY <2>3, ReadyIs
  <2>5. r.b = after /\ r.ok = TRUE /\ r.item = child
    BY <2>1 DEF Result
  <2>6. Later(b, after) /\ after.live = b.live + 1 /\ after.depth = b.depth
        /\ after.offset >= b.offset
    BY <1>1, <2>2, <2>3, <2>4 DEF Later
  <2>7. Reads(b, r) /\ r.b.live = b.live + 1
    BY <2>3, <2>5, <2>6 DEF Reads
  <2>8. NameRead(b, r)
    BY <1>1, <2>5, <2>7 DEF NameRead
  <2> QED
    BY <2>8 DEF r
<1> QED
  BY <1>2, <1>3

LEMMA NameIsRead ==
    ASSUME NEW b, Ready(b), Levels >= 1
    PROVE  NameRead(b, ParseName(b))
<1> DEFINE named == parse_string(Blank, b)
           r == ParseName(b)
<1>1. 1 \in 1..Levels /\ b.live \in Int
  BY TextAssumption, ReadyIs, BufferFields
<1>2. Blocks(Blank) = 1
  <2>1. Blocks(Blank) = OwnBlocks(Blank)
    BY <1>1, BlankIs, BegunIs, Leaves
  <2> QED
    BY <2>1, BlankIs, BegunIs
<1>3. Blank \in Begun
  BY BlankIs
<1>4. StringRead(Blank, b, named)
  BY <1>3, StringIsRead
<1>5. r = IF ~named.ok THEN named
          ELSE NameAndColon(buffer_skip_whitespace(named.b),
                      [named.item EXCEPT !.val = NULL, !.name = named.item.val])
  BY DEF ParseName, NameOf
<1> HIDE DEF named, r
<1>6. CASE ~named.ok
  <2>1. r = named
    BY <1>5, <1>6
  <2>2. NameRead(b, r)
    BY <1>1, <1>2, <1>3, <1>4, <1>6, <2>1 DEF NameRead, StringRead, Reads
  <2> QED
    BY <2>2 DEF r
<1>7. CASE named.ok
  <2> DEFINE child == [named.item EXCEPT !.val = NULL, !.name = named.item.val]
             ahead == buffer_skip_whitespace(named.b)
  <2>1. PICK s \in Seq(Nat) : named.item = Filled(Blank, "String", s)
    BY <1>4, <1>7 DEF StringRead
  <2>2. named.item \in Leaf /\ named.item.val = s /\ named.item.type = "String"
    <3>1. Filled(Blank, "String", s) \in Leaf /\ Filled(Blank, "String", s).val = s
      BY <1>3, FilledIs
    <3>2. Filled(Blank, "String", s).type = "String"
      BY <1>3 DEF Filled, Begun
    <3> QED
      BY <2>1, <3>1, <3>2
  <2>3. child = [type |-> "String", val |-> NULL, name |-> s, kids |-> <<>>]
    <3>1. named.item.kids = <<>>
      BY <2>2 DEF Leaf
    <3>2. child = [type |-> named.item.type, val |-> NULL, name |-> named.item.val,
                   kids |-> named.item.kids]
      <4>2. child = Renaming(named.item, NULL, named.item.val)
        BY DEF Renaming
      <4> HIDE DEF child
      <4> QED
        BY <2>2, <4>2, Renamed
    <3> HIDE DEF child
    <3> QED
      BY <2>2, <3>1, <3>2
  <2> HIDE DEF child
  <2>4. child \in Begun /\ child.name = s /\ s # NULL
    BY <2>3, TextAssumption DEF Begun
  <2>5. Blocks(child) = 2
    <3>1. Blocks(child) = OwnBlocks(child)
      BY <1>1, <2>4, BegunIs, Leaves
    <3>2. OwnBlocks(child) = 1 + 1
      BY <2>4, BegunIs
    <3> QED
      BY <3>1, <3>2
  <2>6. Ready(named.b) /\ named.b.content = b.content /\ named.b.depth = b.depth
        /\ named.b.live = b.live + 1 /\ named.b.offset >= b.offset
    BY <1>4, <1>7 DEF Reads, Later, StringRead
  <2>7. Ready(ahead) /\ Later(named.b, ahead) /\ ahead.offset >= named.b.offset
        /\ ahead.live = named.b.live /\ ahead.depth = named.b.depth
    BY <2>6, SkipReady
  <2>8. r = NameAndColon(ahead, child)
    BY <1>5, <1>7 DEF child
  <2> HIDE DEF ahead
  <2>9. /\ ahead.live = b.live + 1 /\ ahead.depth = b.depth
        /\ ahead.offset >= b.offset /\ Later(b, ahead)
    <3>1. named.b.offset \in Nat /\ ahead.offset \in Nat /\ b.offset \in Nat
      BY <2>6, <2>7, ReadyIs
    <3> QED
      BY <2>6, <2>7, <3>1 DEF Later
  <2>10. NameRead(b, NameAndColon(ahead, child))
    BY <2>4, <2>5, <2>7, <2>9, ColonIsRead
  <2> QED
    BY <2>8, <2>10 DEF r
<1> QED
  BY <1>6, <1>7

AllNamed(list) == \A i \in DOMAIN list : list[i].name # NULL

(* What parse_value has made of an item at b, in trees of at most k levels:    *)
(* whether or not it succeeds, it has taken what it has hung on the item.     *)
ValueRead(item, b, r, k) ==
    /\ Later(b, r.b) /\ r.ok \in BOOLEAN
    /\ r.item \in Trees(Safe)[k] /\ r.item.name = item.name
    /\ r.b.live - Blocks(r.item) = b.live - Blocks(item)
    /\ r.ok => r.item \in Trees(Valid)[k]
    /\ r.ok => Ready(r.b) /\ r.b.offset >= b.offset /\ r.b.depth = b.depth
    /\ r.ok /\ At(b) # OpenArray => AllNamed(r.item.kids)

Reader(inner, k, d) ==
    \A item \in Begun, b \in Buffers :
        Ready(b) /\ b.depth = d => ValueRead(item, b, inner[[item |-> item, b |-> b]], k)

(* What n elements of a list make of b, where the list starts.               *)
Reading(b, close, k, n) ==
    {e \in [b : Buffers, ok : BOOLEAN, item : Seq(Trees(Valid)[k]), more : BOOLEAN] :
        /\ Later(b, e.b) /\ e.b.live - BlocksOf(e.item) = b.live
        /\ e.ok => /\ e.b.depth = b.depth /\ Ready(e.b)
                   /\ e.b.offset + 1 < Len(b.content) /\ e.b.offset >= b.offset
        /\ ~e.ok => e.item = <<>>
        /\ e.more => e.ok /\ e.b.offset >= b.offset + n
        /\ close = CloseObject => AllNamed(e.item)}

LEMMA KidsAreTrees ==
    ASSUME NEW k \in 0..Levels
    PROVE  /\ Trees(Safe)[k] \subseteq Trees(Types)[Levels]
           /\ Seq(Trees(Safe)[k]) \subseteq Seq(Trees(Types)[Levels])
           /\ Seq(Trees(Valid)[k]) \subseteq Seq(Trees(Safe)[k])
           /\ Trees(Valid)[k] \subseteq Trees(Safe)[k]
<1>1. Levels \in 0..Levels
  BY TextAssumption
<1>2. Trees(Safe)[k] \subseteq Trees(Safe)[Levels] /\ Trees(Safe)[Levels] \subseteq Trees(Types)[Levels]
  BY <1>1, TreesNest, TreesOfMore, TypesAre
<1>3. Trees(Valid)[k] \subseteq Trees(Safe)[k]
  BY TreesOfMore, TypesAre
<1> QED
  BY <1>2, <1>3, SeqMonotonic

LEMMA DeletedIs ==
    ASSUME NEW b \in Buffers, NEW list, BlocksOf(list) \in Int
    PROVE  /\ Deleted(b, list) \in Buffers /\ Deleted(b, list).live = b.live - BlocksOf(list)
           /\ Deleted(b, list).content = b.content /\ Deleted(b, list).offset = b.offset
           /\ Deleted(b, list).depth = b.depth
<1>1. b.live - BlocksOf(list) \in Int
  BY BufferFields
<1> QED
  BY <1>1 DEF Deleted, Buffers

LEMMA FailedIs ==
    ASSUME NEW b \in Buffers, NEW c, Later(b, c), NEW k \in 0..Levels,
           NEW list \in Seq(Trees(Safe)[k]), c.live - BlocksOf(list) = b.live, NEW close, NEW n
    PROVE  Failed(c, list) \in Reading(b, close, k, n)
<1> DEFINE d == Deleted(c, list)
           e == Failed(c, list)
<1>1. c \in Buffers /\ BlocksOf(list) \in Int
  BY KidsAreTrees, BlocksAre DEF Later
<1>2. d \in Buffers /\ d.live = b.live /\ d.content = c.content /\ d.offset = c.offset
  BY <1>1, DeletedIs
<1>3. e = [b |-> d, ok |-> FALSE, item |-> <<>>, more |-> FALSE]
  BY DEF Failed, Elements
<1> HIDE DEF d, e
<1>4. e \in [b : Buffers, ok : BOOLEAN, item : Seq(Trees(Valid)[k]), more : BOOLEAN]
      /\ e.b = d /\ e.item = <<>> /\ ~e.ok /\ ~e.more
  BY <1>2, <1>3, EmptySeq
<1>5. Later(b, e.b)
  BY <1>2, <1>4 DEF Later
<1>6. AllNamed(e.item)
  BY <1>4 DEF AllNamed
<1>7. e.b.live - BlocksOf(e.item) = b.live
  <2>1. b.live \in Int
    BY BufferFields
  <2> QED
    BY <1>2, <1>4, <2>1, BlocksOfNone
<1>8. e \in Reading(b, close, k, n)
  BY <1>4, <1>5, <1>6, <1>7 DEF Reading
<1> QED
  BY <1>8 DEF e

LEMMA NextIs ==
    ASSUME NEW b \in Buffers, NEW c, Later(b, c), Ready(c), c.depth = b.depth,
           NEW k \in 0..Levels, NEW n \in Nat, c.offset >= b.offset + n,
           NEW list \in Seq(Trees(Valid)[k]), c.live - BlocksOf(list) = b.live,
           NEW close \in {CloseArray, CloseObject},
           close = CloseObject => AllNamed(list)
    PROVE  ParseNext(c, list, close) \in Reading(b, close, k, n)
<1> DEFINE e == ParseNext(c, list, close)
<1>1. b.offset \in Nat /\ c.offset \in Nat /\ c \in Buffers /\ c.content = b.content
  BY BufferFields, ReadyIs DEF Later
<1>2. CASE At(c) = Comma \/ At(c) = close
  <2>1. PICK more \in BOOLEAN : e = [b |-> c, ok |-> TRUE, item |-> list, more |-> more]
    BY <1>2 DEF ParseNext, Elements
  <2>2. At(c) # 0
    BY <1>2 DEF Comma, CloseArray, CloseObject
  <2>3. c.offset + 1 < Len(b.content)
    BY <1>1, <2>2, ReadyIs
  <2> HIDE DEF e
  <2>4. e \in [b : Buffers, ok : BOOLEAN, item : Seq(Trees(Valid)[k]), more : BOOLEAN]
        /\ e.b = c /\ e.item = list /\ e.ok = TRUE
    BY <1>1, <2>1
  <2>5. c.offset >= b.offset
    BY <1>1
  <2>6. e \in Reading(b, close, k, n)
    BY <2>3, <2>4, <2>5 DEF Reading
  <2> QED
    BY <2>6 DEF e
<1>3. CASE ~(At(c) = Comma \/ At(c) = close)
  <2>1. e = Failed(c, list)
    BY <1>3 DEF ParseNext
  <2> HIDE DEF e
  <2>3. list \in Seq(Trees(Safe)[k])
    BY KidsAreTrees
  <2>2. Failed(c, list) \in Reading(b, close, k, n)
    BY <2>3, FailedIs
  <2> QED
    BY <2>1, <2>2 DEF e
<1> QED
  BY <1>2, <1>3

(* One more element, of which the name is read.                             *)
LEMMA ElementIs ==
    ASSUME NEW b \in Buffers, NEW close \in {CloseArray, CloseObject}, NEW k \in 1..Levels,
           NEW n \in Nat, NEW inner, Reader(inner, k, b.depth),
           NEW list \in Seq(Trees(Valid)[k]), close = CloseObject => AllNamed(list),
           NEW named, Later(b, named.b), named.ok \in BOOLEAN, named.item \in Begun,
           named.b.live - Blocks(named.item) - BlocksOf(list) = b.live,
           named.ok => /\ Ready(named.b) /\ named.b.depth = b.depth
                       /\ named.b.offset >= b.offset + n
                       /\ close = CloseObject => named.item.name # NULL
    PROVE  NamedElement(named, list, close, inner) \in Reading(b, close, k, n)
<1> DEFINE value == inner[[item |-> named.item, b |-> named.b]]
           e == NamedElement(named, list, close, inner)
<1>1. /\ k \in 0..Levels /\ named.b \in Buffers /\ named.b.content = b.content
      /\ b.live \in Int /\ b.offset \in Nat /\ named.b.live \in Int
      /\ named.item \in Leaf /\ named.item \in Trees(Safe)[k] /\ Blocks(named.item) \in Int
      /\ BlocksOf(list) \in Int
  <2>1. k \in 0..Levels
    BY TextAssumption
  <2>2. named.b \in Buffers /\ named.b.content = b.content
    BY DEF Later
  <2>3. named.item \in Leaf /\ named.item \in Trees(Safe)[k] /\ Blocks(named.item) \in Int
    BY BegunIs, Leaves
  <2>4. BlocksOf(list) \in Int
    BY <2>1, KidsAreTrees, BlocksAre
  <2> QED
    BY <2>1, <2>2, <2>3, <2>4, BufferFields
<1>2. ASSUME NEW item \in Trees(Safe)[k]
      PROVE  /\ Append(list, item) \in Seq(Trees(Safe)[k])
             /\ item \in Trees(Valid)[k] => Append(list, item) \in Seq(Trees(Valid)[k])
             /\ BlocksOf(Append(list, item)) = BlocksOf(list) + Blocks(item)
             /\ Blocks(item) \in Int
             /\ AllNamed(list) /\ item.name # NULL => AllNamed(Append(list, item))
  <2>1. /\ Append(list, item) \in Seq(Trees(Safe)[k]) /\ Len(Append(list, item)) = Len(list) + 1
        /\ Append(list, item)[Len(list) + 1] = item
        /\ \A i \in 1..Len(list) : Append(list, item)[i] = list[i]
    <3>1. list \in Seq(Trees(Safe)[k])
      BY <1>1, KidsAreTrees
    <3> QED
      BY <3>1, AppendProperties
  <2>7. item \in Trees(Valid)[k] => Append(list, item) \in Seq(Trees(Valid)[k])
    BY AppendProperties
  <2>2. list \in Seq(Trees(Types)[Levels]) /\ item \in Trees(Types)[Levels]
    BY <1>1, KidsAreTrees
  <2>3. BlocksOf(Append(list, item)) = BlocksOf(list) + Blocks(item) /\ Blocks(item) \in Int
    BY <2>2, BlocksOfMore, BlocksAre
  <2>4. /\ Len(list) \in Nat /\ DOMAIN list = 1..Len(list)
        /\ DOMAIN Append(list, item) = 1..(Len(list) + 1)
    BY <2>1, LenProperties
  <2>5. \A i \in 1..(Len(list) + 1) : i \in 1..Len(list) \/ i = Len(list) + 1
    BY <2>4
  <2> DEFINE more == Append(list, item)
  <2> HIDE DEF more
  <2>6. AllNamed(list) /\ item.name # NULL => AllNamed(more)
    BY <2>1, <2>4, <2>5 DEF AllNamed, more
  <2> QED
    BY <2>1, <2>3, <2>6, <2>7 DEF more
<1>3. CASE ~named.ok
  <2>1. e = Failed(named.b, Append(list, named.item))
    BY <1>3 DEF NamedElement
  <2>2. /\ Append(list, named.item) \in Seq(Trees(Safe)[k])
        /\ BlocksOf(Append(list, named.item)) = BlocksOf(list) + Blocks(named.item)
    BY <1>1, <1>2
  <2>3. named.b.live - BlocksOf(Append(list, named.item)) = b.live
    BY <1>1, <2>2
  <2> HIDE DEF e
  <2>4. e \in Reading(b, close, k, n)
    BY <1>1, <2>1, <2>2, <2>3, FailedIs
  <2> QED
    BY <2>4 DEF e
<1>4. CASE named.ok
  <2>1. ValueRead(named.item, named.b, value, k)
    BY <1>1, <1>4 DEF Reader
  <2>2. e = ParsedElement(value, list, close)
    BY <1>4 DEF NamedElement
  <2> HIDE DEF value, e
  <2> DEFINE all == Append(list, value.item)
             after == buffer_skip_whitespace(value.b)
  <2>3. /\ all \in Seq(Trees(Safe)[k]) /\ (value.ok => all \in Seq(Trees(Valid)[k]))
        /\ BlocksOf(all) = BlocksOf(list) + Blocks(value.item)
        /\ Blocks(value.item) \in Int
        /\ close = CloseObject => AllNamed(all)
    <3>1. /\ value.item \in Trees(Safe)[k] /\ value.item.name = named.item.name
          /\ value.ok => value.item \in Trees(Valid)[k]
      BY <2>1 DEF ValueRead
    <3> QED
      BY <1>2, <1>4, <3>1
  <2>4. Later(b, value.b) /\ value.b.live \in Int
    <3>1. Later(named.b, value.b)
      BY <2>1 DEF ValueRead
    <3>2. value.b \in Buffers
      BY <3>1 DEF Later
    <3> QED
      BY <1>1, <3>1, <3>2, BufferFields DEF Later
  <2>5. value.b.live - BlocksOf(all) = b.live
    <3>1. value.b.live - Blocks(value.item) = named.b.live - Blocks(named.item)
      BY <2>1 DEF ValueRead
    <3> HIDE DEF all
    <3> QED
      BY <1>1, <2>3, <2>4, <3>1
  <2>6. CASE ~value.ok
    <3>1. e = Failed(value.b, all)
      BY <2>2, <2>6 DEF ParsedElement
    <3> HIDE DEF all
    <3>2. e \in Reading(b, close, k, n)
      BY <1>1, <2>3, <2>4, <2>5, <3>1, FailedIs
    <3> QED
      BY <3>2 DEF e
  <2>7. CASE value.ok
    <3>1. e = ParseNext(after, all, close)
      BY <2>2, <2>7 DEF ParsedElement
    <3>2. Ready(value.b) /\ value.b.offset >= named.b.offset /\ value.b.depth = b.depth
      BY <1>4, <2>1, <2>7 DEF ValueRead
    <3>3. /\ Ready(after) /\ Later(value.b, after) /\ after.offset >= value.b.offset
          /\ after.live = value.b.live /\ after.depth = value.b.depth
      BY <3>2, SkipReady
    <3> HIDE DEF all, after
    <3>4. after.offset \in Nat /\ value.b.offset \in Nat /\ named.b.offset \in Nat
      BY <1>4, <3>2, <3>3, ReadyIs
    <3>8. named.b.offset >= b.offset + n
      BY <1>4
    <3>5. after.offset >= b.offset + n /\ Later(b, after) /\ after.depth = b.depth
      <4>1. after.offset >= b.offset + n
        BY <1>1, <3>2, <3>3, <3>4, <3>8
      <4>2. Later(b, after)
        BY <2>4, <3>3 DEF Later
      <4> QED
        BY <3>2, <3>3, <4>1, <4>2
    <3>6. after.live - BlocksOf(all) = b.live
      BY <2>5, <3>3
    <3>7. e \in Reading(b, close, k, n)
      BY <1>1, <2>3, <2>7, <3>1, <3>3, <3>5, <3>6, NextIs
    <3> QED
      BY <3>7 DEF e
  <2> QED
    BY <2>6, <2>7
<1> QED
  BY <1>3, <1>4

LEMMA ParseElementIs ==
    ASSUME NEW b \in Buffers, NEW close \in {CloseArray, CloseObject}, NEW k \in 1..Levels,
           NEW n \in Nat, NEW inner, Reader(inner, k, b.depth),
           NEW e \in Reading(b, close, k, n), e.more
    PROVE  ParseElement(e, close, inner) \in Reading(b, close, k, n + 1)
<1> DEFINE first == buffer_skip_whitespace(Moved(Taken(e.b), 1))
           named == IF close = CloseObject THEN ParseName(first) ELSE Result(first, TRUE, Blank)
           m == n + 1
<1>1. /\ e.b \in Buffers /\ e.item \in Seq(Trees(Valid)[k])
      /\ Later(b, e.b) /\ e.b.live - BlocksOf(e.item) = b.live
      /\ e.b.depth = b.depth /\ Ready(e.b)
      /\ e.b.offset + 1 < Len(b.content) /\ e.b.offset >= b.offset + n
      /\ close = CloseObject => AllNamed(e.item)
  BY DEF Reading
<1>2. ParseElement(e, close, inner) =
         IF ~Granted(e.b) THEN Failed(e.b, e.item) ELSE NamedElement(named, e.item, close, inner)
  BY DEF ParseElement
<1>3. m \in Nat /\ k \in 0..Levels /\ Levels >= 1 /\ e.b.offset \in Nat /\ e.b.live \in Int
      /\ b.offset \in Nat /\ b.live \in Int /\ BlocksOf(e.item) \in Int
  <2>1. k \in 0..Levels /\ Levels >= 1
    BY TextAssumption
  <2>2. BlocksOf(e.item) \in Int
    BY <1>1, <2>1, KidsAreTrees, BlocksAre
  <2> QED
    BY <1>1, <2>1, <2>2, BufferFields
<1>4. CASE ~Granted(e.b)
  <2>2. e.item \in Seq(Trees(Safe)[k])
    BY <1>1, <1>3, KidsAreTrees
  <2>1. Failed(e.b, e.item) \in Reading(b, close, k, m)
    BY <1>1, <1>3, <2>2, FailedIs
  <2> QED
    BY <1>2, <1>4, <2>1
<1>5. CASE Granted(e.b)
  <2> DEFINE t == Taken(e.b)
  <2>1. t \in Buffers /\ t.live = e.b.live + 1 /\ t.offset = e.b.offset
        /\ t.content = b.content /\ t.depth = b.depth
    <3>1. e.b.content = b.content
      BY <1>1 DEF Later
    <3> QED
      BY <1>1, <1>5, <3>1, TakenOne
  <2>2. Ready(t)
    BY <1>1, <2>1 DEF Ready, Later
  <2> HIDE DEF t
  <2>3. Ready(Moved(t, 1)) /\ Moved(t, 1).live = t.live /\ Moved(t, 1).offset = e.b.offset + 1
        /\ Moved(t, 1).content = b.content /\ Moved(t, 1).depth = b.depth
    <3>1. t.offset + 1 \in Nat /\ t.offset + 1 < Len(t.content)
      BY <1>1, <1>3, <2>1
    <3> QED
      BY <2>1, <2>2, <3>1, ReadyMoved, MovedBy
  <2>4. first = buffer_skip_whitespace(Moved(t, 1))
    BY DEF t
  <2>5. Ready(first) /\ Later(Moved(t, 1), first) /\ first.offset >= Moved(t, 1).offset
        /\ first.live = Moved(t, 1).live /\ first.depth = Moved(t, 1).depth
    BY <2>3, <2>4, SkipReady
  <2> HIDE DEF first
  <2>6. /\ first \in Buffers /\ first.content = b.content /\ first.live = e.b.live + 1
        /\ first.depth = b.depth /\ first.offset >= b.offset + m /\ first.offset \in Nat
        /\ Later(b, first)
    <3>1. first \in Buffers /\ first.content = b.content /\ first.offset \in Nat
      BY <2>3, <2>5, ReadyIs DEF Later
    <3>2. first.live = e.b.live + 1 /\ first.depth = b.depth
      BY <2>1, <2>3, <2>5
    <3>3. first.offset >= b.offset + m
      BY <1>1, <1>3, <2>3, <2>5, <3>1
    <3>4. Later(b, first)
      BY <2>3, <2>5 DEF Later
    <3> QED
      BY <3>1, <3>2, <3>3, <3>4
  <2>7. /\ Later(b, named.b) /\ named.ok \in BOOLEAN /\ named.item \in Begun
        /\ named.b.live - Blocks(named.item) = e.b.live
        /\ named.ok => /\ Ready(named.b) /\ named.b.depth = b.depth
                       /\ named.b.offset >= b.offset + m
                       /\ close = CloseObject => named.item.name # NULL
    <3>1. CASE close = CloseObject
      <4>1. named = ParseName(first)
        BY <3>1
      <4>2. NameRead(first, named)
        BY <1>3, <2>5, <4>1, NameIsRead
      <4> HIDE DEF named
      <4>3. Later(first, named.b) /\ named.ok \in BOOLEAN /\ named.b.depth = first.depth
        BY <4>2 DEF NameRead, Reads
      <4>4. Later(b, named.b)
        BY <2>6, <4>3 DEF Later
      <4>5. named.b.live - Blocks(named.item) = first.live - 1 /\ named.item \in Begun
        BY <4>2 DEF NameRead
      <4>6. named.b.live - Blocks(named.item) = e.b.live
        BY <1>3, <2>6, <4>5
      <4>7. ASSUME named.ok
            PROVE  /\ Ready(named.b) /\ named.b.depth = b.depth
                   /\ named.b.offset >= b.offset + m /\ named.item.name # NULL
        <5>1. Ready(named.b) /\ named.b.offset >= first.offset /\ named.item.name # NULL
          BY <4>2, <4>7 DEF NameRead, Reads
        <5>2. named.b.offset \in Nat
          BY <5>1, ReadyIs
        <5> HIDE DEF m
        <5>3. named.b.offset >= b.offset + m
          BY <1>3, <2>6, <5>1, <5>2
        <5> QED
          BY <2>6, <4>3, <5>1, <5>3
      <4> QED
        BY <4>3, <4>4, <4>5, <4>6, <4>7
    <3>2. CASE close # CloseObject
      <4>1. named = Result(first, TRUE, Blank)
        BY <3>2
      <4> HIDE DEF named
      <4>2. named.b = first /\ named.ok = TRUE /\ named.item = Blank
        BY <4>1 DEF Result
      <4>3. Blocks(Blank) = 1 /\ Blank \in Begun
        <5>1. Blank \in Begun /\ Blank.name = NULL
          BY BlankIs
        <5>2. Blocks(Blank) = OwnBlocks(Blank)
          BY <5>1, BegunIs, Leaves
        <5> QED
          BY <5>1, <5>2, BegunIs
      <4>4. named.b.live - Blocks(named.item) = e.b.live
        BY <1>3, <2>6, <4>2, <4>3
      <4> QED
        BY <2>5, <2>6, <3>2, <4>2, <4>3, <4>4
    <3> QED
      BY <3>1, <3>2
  <2> HIDE DEF named, m
  <2>8. named.b.live - Blocks(named.item) - BlocksOf(e.item) = b.live
    BY <1>1, <1>3, <2>7
  <2>9. NamedElement(named, e.item, close, inner) \in Reading(b, close, k, m)
    BY <1>1, <1>3, <2>7, <2>8, ElementIs
  <2> QED
    BY <1>2, <1>5, <2>9 DEF m
<1> QED
  BY <1>4, <1>5

(* The elements of a list, one by one.                                       *)
OneElement(e, close, inner) == IF e.more THEN ParseElement(e, close, inner) ELSE e

ListRun(b, close, k, inner, run) ==
    /\ run[0] = Elements(b, TRUE, <<>>, TRUE)
    /\ \A n \in 0..Len(b.content) : run[n] \in Reading(b, close, k, n)
    /\ \A n \in 0..(Len(b.content) - 1) : run[n + 1] = OneElement(run[n], close, inner)

LEMMA ElementsRun ==
    ASSUME NEW b \in Buffers, Ready(b), b.offset + 1 < Len(b.content),
           NEW close \in {CloseArray, CloseObject}, NEW k \in 1..Levels,
           NEW inner, Reader(inner, k, b.depth)
    PROVE  \E run : /\ ListRun(b, close, k, inner, run)
                    /\ ParseElements(b, close, inner) = run[Len(b.content)]
<1> DEFINE N == Len(b.content)
           Then(e) == IF e.more THEN ParseElement(e, close, inner) ELSE e
           a == Elements(b, TRUE, <<>>, TRUE)
           D(g, n) == IF n = 0 THEN a ELSE Then(g[n - 1])
           Is(g) == g = [n \in 0..N |-> D(g, n)]
           run == CHOOSE g : Is(g)
           F == [n \in 0..N |-> Reading(b, close, k, n)]
           step == [n \in 0..(N - 1) |-> [e \in F[n] |-> Then(e)]]
<1>1. N \in Nat /\ b.offset \in Nat /\ b.live \in Int
  BY BufferFields
<1>2. \A n \in 0..N : F[n] = Reading(b, close, k, n)
  BY <1>1
<1>7. ParseElements(b, close, inner) = run[N]
  BY DEF ParseElements
<1>11. a \in F[0]
  <2>1. a = [b |-> b, ok |-> TRUE, item |-> <<>>, more |-> TRUE]
    BY DEF Elements
  <2> HIDE DEF a
  <2>2. a \in [b : Buffers, ok : BOOLEAN, item : Seq(Trees(Valid)[k]), more : BOOLEAN]
        /\ a.b = b /\ a.item = <<>> /\ a.ok = TRUE /\ a.more = TRUE
    BY <2>1, EmptySeq
  <2>3. Later(b, a.b) /\ AllNamed(a.item)
    BY <1>1, <2>2 DEF Later, AllNamed
  <2>4. a.b.live - BlocksOf(a.item) = b.live
    BY <1>1, <2>2, BlocksOfNone
  <2>5. a.b.offset >= b.offset /\ a.b.offset >= b.offset + 0
    BY <1>1, <2>2
  <2>7. /\ a.b.depth = b.depth /\ Ready(a.b) /\ a.b.offset + 1 < Len(b.content)
    BY <2>2
  <2>6. a \in Reading(b, close, k, 0)
    BY <2>2, <2>3, <2>4, <2>5, <2>7 DEF Reading
  <2> HIDE DEF F
  <2> QED
    BY <1>1, <1>2, <2>6
<1> HIDE DEF a
<1>3. ASSUME NEW n \in 0..(N - 1), NEW e \in F[n] PROVE Then(e) \in F[n + 1]
  <2>1. n \in 0..N /\ n + 1 \in 0..N /\ n \in Nat
    BY <1>1
  <2>2. e \in Reading(b, close, k, n)
    BY <1>2, <2>1
  <2>3. CASE e.more
    <3>1. ParseElement(e, close, inner) \in Reading(b, close, k, n + 1)
      BY <2>1, <2>2, <2>3, ParseElementIs
    <3> HIDE DEF F
    <3> QED
      BY <1>2, <2>1, <2>3, <3>1
  <2>4. CASE ~e.more
    <3>1. e \in Reading(b, close, k, n + 1)
      BY <2>2, <2>4 DEF Reading
    <3> HIDE DEF F
    <3> QED
      BY <1>2, <2>1, <2>4, <3>1
  <2> QED
    BY <2>3, <2>4
<1> HIDE DEF Then
<1>4. Steps(N, F, step)
  <2>1. ASSUME NEW n \in 0..(N - 1) PROVE step[n] \in [F[n] -> F[n + 1]]
    <3>1. step[n] = [e \in F[n] |-> Then(e)]
      OBVIOUS
    <3> HIDE DEF F, step
    <3> QED
      BY <1>3, <3>1
  <2> HIDE DEF step, F
  <2> QED
    BY <2>1 DEF Steps
<1>5. \E g : Is(g)
  <2>1. PICK g : g = [n \in 0..N |-> g[n]] /\ g[0] = a /\ Reaches(N, F, step, g)
    <3> HIDE DEF N, F, step
    <3> QED
      BY <1>1, <1>11, <1>4, Recursion
  <2>2. ASSUME NEW n \in 0..N PROVE g[n] = D(g, n)
    <3>1. CASE n # 0
      <4>1. n - 1 \in 0..(N - 1) /\ (n - 1) + 1 = n /\ n - 1 \in 0..N
        BY <1>1, <3>1
      <4>2. g[n - 1] \in F[n - 1] /\ g[n] = step[n - 1][g[n - 1]]
        BY <2>1, <4>1 DEF Reaches
      <4> HIDE DEF F
      <4> QED
        BY <3>1, <4>1, <4>2
    <3> QED
      BY <2>1, <3>1
  <2> HIDE DEF D
  <2>3. Is(g)
    BY <2>1, <2>2
  <2> HIDE DEF Is
  <2> QED
    BY <2>3
<1>6. Is(run)
  <2> HIDE DEF Is
  <2> QED
    BY <1>5
<1> HIDE DEF run
<1>8. \A n \in 0..N : run[n] = D(run, n)
  <2> HIDE DEF D
  <2> QED
    BY <1>6
<1>9. Reaches(N, F, step, run)
  <2>1. run[0] \in F[0]
    <3>1. run[0] = a
      BY <1>1, <1>8
    <3> HIDE DEF F
    <3> QED
      BY <1>11, <3>1
  <2>2. Takes(N, F, step, run)
    <3>1. ASSUME NEW n \in 0..(N - 1), run[n] \in F[n]
          PROVE  run[n + 1] = step[n][run[n]]
      <4>1. n + 1 \in 0..N /\ (n + 1) - 1 = n /\ n \in 0..N /\ n + 1 # 0
        BY <1>1
      <4>2. run[n + 1] = Then(run[n])
        BY <1>8, <4>1
      <4> HIDE DEF F
      <4> QED
        BY <3>1, <4>1, <4>2
    <3> HIDE DEF step, F
    <3> QED
      BY <3>1 DEF Takes
  <2> HIDE DEF N, F, step
  <2> QED
    BY <1>1, <1>4, <2>1, <2>2, Recursed
<1>10. \A n \in 0..N : run[n] \in Reading(b, close, k, n)
  <2>2. \A n \in 0..N : run[n] \in F[n]
    <3> HIDE DEF F, step
    <3> QED
      BY <1>9 DEF Reaches
  <2> HIDE DEF F, step, N
  <2> QED
    BY <1>2, <2>2
<1>12. run[0] = a
  BY <1>1, <1>8
<1>13. ASSUME NEW n \in 0..(N - 1) PROVE run[n + 1] = Then(run[n])
  <2>1. n + 1 \in 0..N /\ (n + 1) - 1 = n /\ n + 1 # 0
    BY <1>1
  <2> QED
    BY <1>8, <2>1
<1>14. \A e : Then(e) = OneElement(e, close, inner)
  BY DEF Then, OneElement
<1>15. ListRun(b, close, k, inner, run)
  BY <1>10, <1>12, <1>13, <1>14 DEF ListRun, a
<1> QED
  BY <1>7, <1>15

(* The list is read to its end: there is no element left when the symbols are  *)
(* used up.                                                                 *)
LEMMA ParseElementsAre ==
    ASSUME NEW b \in Buffers, Ready(b), b.offset + 1 < Len(b.content),
           NEW close \in {CloseArray, CloseObject}, NEW k \in 1..Levels,
           NEW inner, Reader(inner, k, b.depth)
    PROVE  /\ ParseElements(b, close, inner) \in Reading(b, close, k, Len(b.content))
           /\ ~ParseElements(b, close, inner).more
<1> DEFINE N == Len(b.content)
<1>1. N \in Nat /\ b.offset \in Nat /\ N \in 0..N
  BY BufferFields
<1>2. PICK run : ListRun(b, close, k, inner, run) /\ ParseElements(b, close, inner) = run[N]
  BY ElementsRun
<1>10. run[N] \in Reading(b, close, k, N)
  BY <1>1, <1>2 DEF ListRun
<1>12. ~run[N].more
  <2>1. SUFFICES ASSUME run[N].more PROVE FALSE
    OBVIOUS
  <2> DEFINE e == run[N]
  <2> HIDE DEF e
  <2>2. e \in Reading(b, close, k, N) /\ e.more
    BY <1>10, <2>1 DEF e
  <2>3. e.b.offset + 1 < Len(b.content) /\ e.b.offset >= b.offset + N /\ e.b \in Buffers
    BY <2>2 DEF Reading
  <2>4. e.b.offset \in Nat
    BY <2>3, BufferFields
  <2> QED
    BY <1>1, <2>3, <2>4
<1> QED
  BY <1>2, <1>10, <1>12

-----------------------------------------------------------------------------
LEMMA ContainersAre ==
    ASSUME NEW item \in Begun, NEW type \in {"Array", "Object"}, NEW k \in 1..(Levels - 1),
           NEW list \in Seq(Trees(Valid)[k])
    PROVE  /\ Listing(item, type, list) \in Trees(Safe)[k + 1]
           /\ Listing(item, type, list) \in Trees(Valid)[k + 1]
           /\ Listing(item, type, list).name = item.name
           /\ Listing(item, type, list).kids = list
           /\ Blocks(Listing(item, type, list)) = Blocks(item) + BlocksOf(list)
           /\ Blocks(item) \in Int /\ BlocksOf(list) \in Int
<1> DEFINE c == Listing(item, type, list)
<1>1. Levels \in Nat /\ k \in 0..(Levels - 1) /\ k + 1 \in 0..Levels /\ 1 \in 1..Levels /\ k \in 0..Levels
  BY TextAssumption
<1>2. item \in Leaf /\ item.val = NULL /\ item.name \in {NULL} \cup Seq(Nat)
      /\ OwnBlocks(item) = 1 + (IF item.name # NULL THEN 1 ELSE 0)
  BY BegunIs
<1>3. c = [type |-> type, val |-> NULL, name |-> item.name, kids |-> list]
  BY <1>2, Listed
<1> HIDE DEF c
<1>4. c.type = type /\ c.val = NULL /\ c.name = item.name /\ c.kids = list
  BY <1>3
<1>5. c \in Level(Valid, Trees(Valid)[k])
  BY <1>2, <1>3, TypesAre DEF Level
<1>6. c \in Trees(Safe)[k + 1] /\ c \in Trees(Valid)[k + 1]
  <2>1. Trees(Valid)[k + 1] = Level(Valid, Trees(Valid)[k])
    BY <1>1, TreesAre
  <2> QED
    BY <1>1, <1>5, <2>1, KidsAreTrees
<1>7. Blocks(c) = OwnBlocks(c) + BlocksOf(list) /\ BlocksOf(list) \in Int
  <2>1. c \in Trees(Types)[Levels] /\ list \in Seq(Trees(Types)[Levels])
    BY <1>1, <1>6, KidsAreTrees
  <2> QED
    BY <1>4, <2>1, BlocksAre
<1>8. OwnBlocks(c) = 1 + (IF item.name # NULL THEN 1 ELSE 0)
  BY <1>4 DEF OwnBlocks
<1>9. Blocks(item) = OwnBlocks(item) /\ Blocks(item) \in Int
  BY <1>1, <1>2, Leaves
<1> QED
  BY <1>2, <1>4, <1>6, <1>7, <1>8, <1>9 DEF c

LEMMA ContainerFields ==
    ASSUME NEW b \in Buffers, b.depth >= 1
    PROVE  /\ [Moved(b, 1) EXCEPT !.depth = @ - 1] \in Buffers
           /\ [Moved(b, 1) EXCEPT !.depth = @ - 1].offset = b.offset + 1
           /\ [Moved(b, 1) EXCEPT !.depth = @ - 1].content = b.content
           /\ [Moved(b, 1) EXCEPT !.depth = @ - 1].depth = b.depth - 1
           /\ [Moved(b, 1) EXCEPT !.depth = @ - 1].live = b.live
<1> DEFINE m == Moved(b, 1)
<1>1. m \in Buffers /\ m.offset = b.offset + 1 /\ m.content = b.content /\ m.depth = b.depth
      /\ m.live = b.live
  <2>1. b.offset + 1 \in Nat
    BY BufferFields
  <2> QED
    BY <2>1, MovedBy
<1> HIDE DEF m
<1>2. m.depth - 1 \in Nat
  BY <1>1, BufferFields
<1>3. /\ [m EXCEPT !.depth = @ - 1] \in Buffers
      /\ [m EXCEPT !.depth = @ - 1].offset = m.offset
      /\ [m EXCEPT !.depth = @ - 1].content = m.content
      /\ [m EXCEPT !.depth = @ - 1].depth = m.depth - 1
      /\ [m EXCEPT !.depth = @ - 1].live = m.live
  BY <1>1, <1>2 DEF Buffers
<1> QED
  BY <1>1, <1>3 DEF m

LEMMA DeeperBy ==
    ASSUME NEW b, Ready(b)
    PROVE  /\ Ready([b EXCEPT !.depth = @ + 1])
           /\ [b EXCEPT !.depth = @ + 1].depth = b.depth + 1
           /\ [b EXCEPT !.depth = @ + 1].content = b.content
           /\ [b EXCEPT !.depth = @ + 1].offset = b.offset
           /\ [b EXCEPT !.depth = @ + 1].live = b.live
<1>1. b \in Buffers /\ b.depth + 1 \in Nat
  BY BufferFields DEF Ready
<1>2. /\ [b EXCEPT !.depth = @ + 1] \in Buffers
      /\ [b EXCEPT !.depth = @ + 1].depth = b.depth + 1
      /\ [b EXCEPT !.depth = @ + 1].content = b.content
      /\ [b EXCEPT !.depth = @ + 1].offset = b.offset
      /\ [b EXCEPT !.depth = @ + 1].live = b.live
  BY <1>1 DEF Buffers
<1> QED
  BY <1>2 DEF Ready

LEMMA ContainerIsRead ==
    ASSUME NEW item \in Begun, NEW b, Ready(b), At(b) # 0,
           NEW type \in {"Array", "Object"}, NEW close \in {CloseArray, CloseObject},
           close = CloseArray => At(b) = OpenArray,
           NEW k \in 1..(Levels - 1), NEW inner,
           b.depth < NestingLimit => Reader(inner, k, b.depth + 1)
    PROVE  ValueRead(item, b, ParseContainer(item, b, type, close, inner), k + 1)
<1> DEFINE d == [b EXCEPT !.depth = @ + 1]
           first == buffer_skip_whitespace(Moved(d, 1))
           els == IF At(first) = close THEN Elements(first, TRUE, <<>>, FALSE)
                                       ELSE ParseElements(Moved(first, -1), close, inner)
           r == ParseContainer(item, b, type, close, inner)
<1>1. /\ b \in Buffers /\ b.offset \in Nat /\ b.depth \in Nat /\ b.live \in Int
      /\ Len(b.content) \in Nat /\ b.offset + 1 < Len(b.content) /\ NestingLimit \in Nat
      /\ Levels \in Nat /\ k + 1 \in 1..Levels /\ k \in 1..Levels /\ k \in 0..Levels
  BY ReadyIs, BufferFields, ParseAssumption, TextAssumption
<1>2. r = IF b.depth >= NestingLimit THEN Result(b, FALSE, item) ELSE ContainerOf(item, els, type)
  BY DEF ParseContainer
<1>3. item \in Leaf /\ item \in Trees(Safe)[k + 1]
  BY <1>1, BegunIs, Leaves
<1>4. CASE b.depth >= NestingLimit
  <2>1. r = Result(b, FALSE, item)
    BY <1>2, <1>4
  <2> HIDE DEF r
  <2>2. r.b = b /\ r.ok = FALSE /\ r.item = item
    BY <2>1 DEF Result
  <2>3. Later(b, r.b)
    BY <1>1, <2>2 DEF Later
  <2>4. ValueRead(item, b, r, k + 1)
    BY <1>3, <2>2, <2>3 DEF ValueRead
  <2> QED
    BY <2>4 DEF r
<1>5. CASE ~(b.depth >= NestingLimit)
  <2>1. Reader(inner, k, b.depth + 1) /\ r = ContainerOf(item, els, type)
    <3>1. b.depth < NestingLimit
      BY <1>1, <1>5
    <3>2. r = ContainerOf(item, els, type)
      <4> HIDE DEF r, els
      <4> QED
        BY <1>2, <1>5
    <3> HIDE DEF r, els
    <3> QED
      BY <3>1, <3>2
  <2>2. /\ Ready(d) /\ d.depth = b.depth + 1 /\ d.content = b.content
        /\ d.offset = b.offset /\ d.live = b.live /\ d \in Buffers
    BY DeeperBy DEF Ready
  <2> HIDE DEF d, r
  <2>3. /\ Ready(Moved(d, 1)) /\ Moved(d, 1).offset = b.offset + 1 /\ Moved(d, 1).live = b.live
        /\ Moved(d, 1).content = b.content /\ Moved(d, 1).depth = b.depth + 1
    <3>1. d.offset + 1 \in Nat /\ d.offset + 1 < Len(d.content)
      BY <1>1, <2>2
    <3> QED
      BY <2>2, <3>1, ReadyMoved, MovedBy
  <2>4. /\ Ready(first) /\ Later(Moved(d, 1), first) /\ first.offset >= Moved(d, 1).offset
        /\ first.live = Moved(d, 1).live /\ first.depth = Moved(d, 1).depth
    BY <2>3, SkipReady
  <2> HIDE DEF first
  <2>5. /\ first \in Buffers /\ first.content = b.content /\ first.live = b.live
        /\ first.depth = b.depth + 1 /\ first.offset \in Nat /\ first.offset >= b.offset + 1
        /\ first.offset < Len(b.content)
    <3>1. first.content = b.content
      BY <2>3, <2>4 DEF Later
    <3> QED
      BY <2>3, <2>4, <3>1, ReadyIs
  <2>6. /\ els.b \in Buffers /\ els.b.content = b.content /\ els.b.offset <= Len(b.content)
        /\ els.ok \in BOOLEAN /\ els.item \in Seq(Trees(Valid)[k])
        /\ els.b.live - BlocksOf(els.item) = b.live
        /\ ~els.ok => els.item = <<>>
        /\ els.ok => /\ els.b.depth = b.depth + 1 /\ els.b.offset + 1 < Len(b.content)
                     /\ els.b.offset >= b.offset
        /\ close = CloseObject => AllNamed(els.item)
    <3>1. CASE At(first) = close
      <4>1. els = [b |-> first, ok |-> TRUE, item |-> <<>>, more |-> FALSE]
        BY <3>1 DEF Elements
      <4>2. At(first) # 0
        BY <3>1 DEF CloseArray, CloseObject
      <4>3. first.offset + 1 < Len(b.content)
        BY <2>4, <2>5, <4>2, ReadyIs
      <4> HIDE DEF els
      <4>4. els.b = first /\ els.ok = TRUE /\ els.item = <<>>
        BY <4>1
      <4>5. <<>> \in Seq(Trees(Valid)[k]) /\ AllNamed(<<>>)
        BY EmptySeq DEF AllNamed
      <4>6. first.offset <= Len(b.content) /\ first.offset >= b.offset
        BY <1>1, <2>5
      <4>7. els.b.live - BlocksOf(els.item) = b.live
        BY <1>1, <2>5, <4>4, BlocksOfNone
      <4> QED
        BY <2>5, <4>3, <4>4, <4>5, <4>6, <4>7
    <3>2. CASE At(first) # close
      <4> DEFINE c == Moved(first, -1)
      <4>1. els = ParseElements(c, close, inner)
        BY <3>2
      <4>2. c \in Buffers /\ c.offset = first.offset - 1 /\ c.content = b.content
            /\ c.live = b.live /\ c.depth = b.depth + 1 /\ Ready(c)
        <5>1. first.offset + (-1) \in Nat /\ first.offset + (-1) < Len(first.content)
              /\ first.offset + (-1) = first.offset - 1
          BY <1>1, <2>5
        <5> QED
          BY <2>4, <2>5, <5>1, MovedBy, ReadyMoved
      <4> HIDE DEF c, els
      <4>3. c.offset + 1 < Len(c.content)
        BY <2>5, <4>2
      <4>4. els \in Reading(c, close, k, Len(c.content))
        BY <1>1, <2>1, <4>1, <4>2, <4>3, ParseElementsAre
      <4>5. els.b \in Buffers /\ els.b.content = b.content /\ els.b.offset <= Len(b.content)
        BY <4>2, <4>4 DEF Reading, Later
      <4>6. /\ els.ok \in BOOLEAN /\ els.item \in Seq(Trees(Valid)[k])
            /\ els.b.live - BlocksOf(els.item) = b.live
            /\ ~els.ok => els.item = <<>>
            /\ close = CloseObject => AllNamed(els.item)
        BY <4>2, <4>4 DEF Reading
      <4>7. ASSUME els.ok
            PROVE  /\ els.b.depth = b.depth + 1 /\ els.b.offset + 1 < Len(b.content)
                   /\ els.b.offset >= b.offset
        <5>1. /\ els.b.depth = c.depth /\ els.b.offset + 1 < Len(c.content)
              /\ els.b.offset >= c.offset
          BY <4>4, <4>7 DEF Reading
        <5>2. els.b.offset \in Nat
          BY <4>5, BufferFields
        <5>3. els.b.offset >= b.offset
          BY <1>1, <2>5, <4>2, <5>1, <5>2
        <5> QED
          BY <4>2, <5>1, <5>3
      <4> QED
        BY <4>5, <4>6, <4>7
    <3> QED
      BY <3>1, <3>2
  <2> HIDE DEF els
  <2>7. CASE ~els.ok
    <3>1. r = Result(els.b, FALSE, item)
      BY <2>1, <2>7 DEF ContainerOf
    <3>2. r.b = els.b /\ r.ok = FALSE /\ r.item = item
      BY <3>1 DEF Result
    <3>3. Later(b, r.b)
      BY <2>6, <3>2 DEF Later
    <3>4. els.b.live = b.live
      <4>1. els.b.live \in Int
        BY <2>6, BufferFields
      <4> QED
        BY <2>6, <2>7, <4>1, BlocksOfNone
    <3>5. ValueRead(item, b, r, k + 1)
      BY <1>3, <3>2, <3>3, <3>4 DEF ValueRead
    <3> QED
      BY <3>5 DEF r
  <2>8. CASE els.ok
    <3> DEFINE end == [Moved(els.b, 1) EXCEPT !.depth = @ - 1]
    <3>1. r = Result(end, TRUE, Listing(item, type, els.item))
      BY <2>1, <2>8 DEF ContainerOf, Listing
    <3>2. els.b.depth >= 1 /\ els.b.depth = b.depth + 1 /\ els.b.offset \in Nat
          /\ els.b.offset + 1 < Len(b.content) /\ els.b.offset >= b.offset
      BY <1>1, <2>6, <2>8, BufferFields
    <3>3. end \in Buffers /\ end.offset = els.b.offset + 1 /\ end.content = b.content
          /\ end.depth = els.b.depth - 1 /\ end.live = els.b.live
      BY <2>6, <3>2, ContainerFields
    <3> HIDE DEF end
    <3>4. Ready(end) /\ Later(b, end) /\ end.offset >= b.offset /\ end.depth = b.depth
      <4>1. Len(end.content) > 0 /\ end.content[Len(end.content)] = 0
        BY <3>3 DEF Ready
      <4>2. end.offset < Len(b.content) /\ end.offset >= b.offset /\ end.depth = b.depth
            /\ end.offset <= Len(b.content)
        BY <1>1, <3>2, <3>3
      <4> QED
        BY <3>3, <4>1, <4>2 DEF Ready, Later
    <3>5. r.b = end /\ r.ok = TRUE /\ r.item = Listing(item, type, els.item)
      BY <3>1 DEF Result
    <3>6. /\ r.item \in Trees(Safe)[k + 1] /\ r.item \in Trees(Valid)[k + 1] /\ r.item.name = item.name /\ r.item.kids = els.item
          /\ Blocks(r.item) = Blocks(item) + BlocksOf(els.item)
          /\ Blocks(item) \in Int /\ BlocksOf(els.item) \in Int
      BY <2>6, <3>5, ContainersAre
    <3>7. r.b.live - Blocks(r.item) = b.live - Blocks(item)
      <4>1. els.b.live \in Int
        BY <2>6, BufferFields
      <4> QED
        BY <1>1, <2>6, <3>3, <3>5, <3>6, <4>1
    <3>8. At(b) # OpenArray => AllNamed(r.item.kids)
      <4>1. At(b) # OpenArray => close = CloseObject
        OBVIOUS
      <4> QED
        BY <2>6, <3>6, <4>1
    <3>9. ValueRead(item, b, r, k + 1)
      BY <3>4, <3>5, <3>6, <3>7, <3>8 DEF ValueRead
    <3> QED
      BY <3>9 DEF r
  <2> QED
    BY <2>7, <2>8
<1> QED
  BY <1>4, <1>5

(* An item of a list is not begun: there is nothing to hang it on.            *)
LEMMA LimitIsKept ==
    ASSUME NEW item \in Begun, NEW b, Ready(b), b.depth >= NestingLimit,
           NEW type, NEW close, NEW k \in 0..(Levels - 1), NEW inner
    PROVE  ValueRead(item, b, ParseContainer(item, b, type, close, inner), k + 1)
<1> DEFINE r == ParseContainer(item, b, type, close, inner)
<1>1. /\ b \in Buffers /\ b.offset \in Nat /\ b.offset <= Len(b.content) /\ k + 1 \in 1..Levels
  BY ReadyIs, TextAssumption
<1>2. r = [b |-> b, ok |-> FALSE, item |-> item]
  BY DEF ParseContainer, Result
<1>3. item \in Trees(Safe)[k + 1]
  BY <1>1, BegunIs, Leaves
<1> HIDE DEF r
<1>4. r.b = b /\ r.ok = FALSE /\ r.item = item
  BY <1>2
<1>5. Later(b, r.b)
  BY <1>1, <1>4 DEF Later
<1>6. ValueRead(item, b, r, k + 1)
  BY <1>3, <1>4, <1>5 DEF ValueRead
<1> QED
  BY <1>6 DEF r

(* A value that is a leaf.                                                  *)
LEMMA LeafIsRead ==
    ASSUME NEW item \in Begun, NEW b, Ready(b), NEW r, NEW k \in 0..(Levels - 1),
           Reads(b, r), r.item \in Leaf, r.item.name = item.name, r.ok => r.item.type # "Invalid",
           r.b.live - OwnBlocks(r.item) = b.live - OwnBlocks(item)
    PROVE  ValueRead(item, b, r, k + 1)
<1>1. k + 1 \in 1..Levels
  BY TextAssumption
<1>2. r.item \in Trees(Safe)[k + 1] /\ Blocks(r.item) = OwnBlocks(r.item)
  BY <1>1, Leaves
<1>6. r.ok => r.item \in Trees(Valid)[k + 1]
  BY <1>1, ValidLeaves
<1>3. Blocks(item) = OwnBlocks(item)
  BY <1>1, BegunIs, Leaves
<1>4. r.item.kids = <<>> /\ AllNamed(<<>>)
  BY DEF Leaf, AllNamed
<1>5. Later(b, r.b) /\ r.ok \in BOOLEAN /\ r.b.depth = b.depth
      /\ (r.ok => Ready(r.b) /\ r.b.offset >= b.offset)
  BY DEF Reads
<1> QED
  BY <1>2, <1>3, <1>4, <1>5, <1>6 DEF ValueRead

LEMMA ValueIsRead ==
    ASSUME NEW item \in Begun, NEW b, Ready(b), NEW k \in 0..(Levels - 1), NEW inner,
           b.depth < NestingLimit => k >= 1 /\ Reader(inner, k, b.depth + 1)
    PROVE  ValueRead(item, b, parse_value(item, b, inner), k + 1)
<1> DEFINE r == parse_value(item, b, inner)
<1>1. /\ b \in Buffers /\ b.offset \in Nat /\ Len(b.content) \in Nat /\ b.offset < Len(b.content)
      /\ b.live \in Int /\ b.depth \in Nat /\ NestingLimit \in Nat
      /\ item \in Leaf /\ OwnBlocks(item) \in Int
  BY ReadyIs, BufferFields, BegunIs, ParseAssumption
<1>2. CASE IsWord(At(b))
  <2> DEFINE type == TypeOf(At(b))
             whole == [item EXCEPT !.type = type]
  <2>1. type \in DOMAIN Words /\ Words[type] = At(b)
    BY <1>2 DEF IsWord, TypeOf
  <2>2. r = [b |-> Moved(b, 1), ok |-> TRUE, item |-> whole]
    BY <1>2 DEF parse_value, Result
  <2>3. At(b) # 0
    BY <2>1 DEF Words
  <2> HIDE DEF r, type
  <2>4. whole \in Leaf /\ whole.name = item.name /\ OwnBlocks(whole) = OwnBlocks(item)
    BY <2>1, WordIs
  <2>5. b.offset + 1 \in Nat /\ b.offset + 1 < Len(b.content)
    BY <1>1, <2>3, ReadyIs
  <2>6. Ready(Moved(b, 1)) /\ Moved(b, 1) \in Buffers /\ Moved(b, 1).offset = b.offset + 1
        /\ Moved(b, 1).content = b.content /\ Moved(b, 1).depth = b.depth
        /\ Moved(b, 1).live = b.live
    BY <1>1, <2>5, ReadyMoved, MovedBy
  <2> HIDE DEF whole
  <2>7. r.b = Moved(b, 1) /\ r.ok = TRUE /\ r.item = whole
    BY <2>2
  <2>8. Reads(b, r)
    <3>1. b.offset + 1 <= Len(b.content) /\ b.offset + 1 >= b.offset
      BY <1>1, <2>5
    <3>2. Later(b, r.b)
      BY <2>6, <2>7, <3>1 DEF Later
    <3> QED
      BY <2>6, <2>7, <3>1, <3>2 DEF Reads
  <2>10. r.item.type # "Invalid"
    BY <2>1, <2>7, TypesAre DEF whole, Leaf
  <2>9. ValueRead(item, b, r, k + 1)
    BY <2>4, <2>6, <2>7, <2>8, <2>10, LeafIsRead
  <2> QED
    BY <2>9 DEF r
<1>3. CASE ~IsWord(At(b)) /\ At(b) = Quote
  <2>1. StringRead(item, b, r)
    BY <1>3, StringIsRead DEF parse_value
  <2> HIDE DEF r
  <2>2. Reads(b, r)
    BY <2>1 DEF StringRead
  <2>3. /\ r.item \in Leaf /\ r.item.name = item.name
        /\ r.b.live - OwnBlocks(r.item) = b.live - OwnBlocks(item)
        /\ r.ok => r.item.type # "Invalid"
    <3>1. CASE r.ok
      <4>1. PICK s \in Seq(Nat) : r.item = Filled(item, "String", s)
        BY <2>1, <3>1 DEF StringRead
      <4>2. r.item \in Leaf /\ r.item.name = item.name /\ OwnBlocks(r.item) = OwnBlocks(item) + 1
            /\ r.item.type = "String"
        BY <4>1, FilledIs
      <4> QED
        BY <1>1, <2>1, <3>1, <4>2 DEF StringRead
    <3>2. CASE ~r.ok
      BY <1>1, <2>1, <3>2 DEF StringRead
    <3> QED
      BY <3>1, <3>2
  <2>4. ValueRead(item, b, r, k + 1)
    BY <2>2, <2>3, LeafIsRead
  <2> QED
    BY <2>4 DEF r
<1>4. CASE ~IsWord(At(b)) /\ At(b) # Quote /\ At(b) \in Digits \cup {Minus}
  <2>1. NumberRead(item, b, r)
    BY <1>4, NumberIsRead DEF parse_value
  <2> HIDE DEF r
  <2>2. Reads(b, r) /\ r.b.live = b.live
    BY <2>1 DEF NumberRead
  <2>3. r.item \in Leaf /\ r.item.name = item.name /\ OwnBlocks(r.item) = OwnBlocks(item)
        /\ (r.ok => r.item.type # "Invalid")
    <3>1. CASE r.ok
      <4>1. PICK s \in Seq(Nat) : r.item = Filled(item, "Number", s)
        BY <2>1, <3>1 DEF NumberRead
      <4> QED
        BY <4>1, FilledIs
    <3>2. CASE ~r.ok
      BY <1>1, <2>1, <3>2 DEF NumberRead
    <3> QED
      BY <3>1, <3>2
  <2>4. ValueRead(item, b, r, k + 1)
    BY <2>2, <2>3, LeafIsRead
  <2> QED
    BY <2>4 DEF r
<1>5. ASSUME NEW type \in {"Array", "Object"}, NEW close \in {CloseArray, CloseObject},
             close = CloseArray => At(b) = OpenArray, At(b) # 0
      PROVE  ValueRead(item, b, ParseContainer(item, b, type, close, inner), k + 1)
  <2>1. CASE b.depth >= NestingLimit
    BY <2>1, LimitIsKept
  <2>2. CASE b.depth < NestingLimit
    <3>1. k \in 1..(Levels - 1) /\ Reader(inner, k, b.depth + 1)
      BY <2>2, TextAssumption
    <3> QED
      BY <1>5, <3>1, ContainerIsRead
  <2> QED
    BY <1>1, <2>1, <2>2
<1>6. CASE ~IsWord(At(b)) /\ At(b) = OpenArray
  <2>1. At(b) # Quote /\ At(b) \notin Digits \cup {Minus} /\ At(b) # 0
    BY <1>6 DEF OpenArray, Quote, Digits, Minus
  <2>2. r = ParseContainer(item, b, "Array", CloseArray, inner)
    BY <1>6, <2>1 DEF parse_value, parse_array
  <2> HIDE DEF r
  <2>3. ValueRead(item, b, ParseContainer(item, b, "Array", CloseArray, inner), k + 1)
    BY <1>5, <1>6, <2>1
  <2> QED
    BY <2>2, <2>3 DEF r
<1>7. CASE ~IsWord(At(b)) /\ At(b) = OpenObject
  <2>1. At(b) # Quote /\ At(b) \notin Digits \cup {Minus} /\ At(b) # 0 /\ At(b) # OpenArray
        /\ CloseObject # CloseArray
    BY <1>7 DEF OpenArray, OpenObject, Quote, Digits, Minus, CloseObject, CloseArray
  <2>2. r = ParseContainer(item, b, "Object", CloseObject, inner)
    BY <1>7, <2>1 DEF parse_value, parse_object
  <2> HIDE DEF r
  <2>3. ValueRead(item, b, ParseContainer(item, b, "Object", CloseObject, inner), k + 1)
    BY <1>5, <1>7, <2>1
  <2> QED
    BY <2>2, <2>3 DEF r
<1>8. CASE ~IsWord(At(b)) /\ At(b) \notin {Quote, OpenArray, OpenObject} \cup Digits \cup {Minus}
  <2>1. r = [b |-> b, ok |-> FALSE, item |-> item]
    BY <1>8 DEF parse_value, Result
  <2> HIDE DEF r
  <2>2. r.b = b /\ r.ok = FALSE /\ r.item = item
    BY <2>1
  <2>3. Reads(b, r)
    <3>1. b.offset <= Len(b.content)
      BY <1>1
    <3> QED
      BY <1>1, <2>2, <3>1 DEF Reads, Later
  <2>4. ValueRead(item, b, r, k + 1)
    BY <1>1, <2>2, <2>3, LeafIsRead
  <2> QED
    BY <2>4 DEF r
<1> QED
  BY <1>2, <1>3, <1>4, <1>6, <1>7, <1>8

-----------------------------------------------------------------------------
(* The levels of nesting, one by one.                                       *)
ValueFrom(n, inner) ==
    [s \in Starts |-> IF n = 0 THEN Result(s.b, FALSE, s.item)
                      ELSE parse_value(s.item, s.b, inner)]

LEMMA ValueInIs ==
    \A n \in 1..(NestingLimit + 1) : ValueIn[n] = ValueFrom(n, ValueIn[n - 1])
<1> DEFINE L == NestingLimit + 1
           none == ValueFrom(0, NULL)
           D(g, n) == IF n = 0 THEN none ELSE ValueFrom(n, g[n - 1])
           Is(g, N) == g = [n \in 0..N |-> D(g, n)]
           T == {N \in 0..L : \E g : Is(g, N)}
<1>1. L \in Nat
  BY ParseAssumption
<1>2. 0 \in T
  <2> DEFINE g == [n \in 0..0 |-> none]
  <2> HIDE DEF none
  <2>1. \A n \in 0..0 : D(g, n) = none
    OBVIOUS
  <2> HIDE DEF D
  <2>2. Is(g, 0)
    BY <2>1
  <2> HIDE DEF Is
  <2> QED
    BY <1>1, <2>2
<1> HIDE DEF none
<1>3. ASSUME NEW N \in 0..(L - 1), N \in T PROVE N + 1 \in T
  <2>1. PICK g : Is(g, N)
    BY <1>3
  <2> DEFINE new == ValueFrom(N + 1, g[N])
             h == [n \in 0..(N + 1) |-> IF n <= N THEN g[n] ELSE new]
  <2> HIDE DEF new, L
  <2>2. N \in Nat /\ \A n \in 0..N : h[n] = g[n] /\ g[n] = D(g, n)
    <3> HIDE DEF D
    <3> QED
      BY <1>1, <2>1
  <2>3. h[N + 1] = new
    BY <2>2
  <2>4. ASSUME NEW n \in 0..(N + 1) PROVE h[n] = D(h, n)
    <3>1. CASE n = 0
      <4>1. n \in 0..N
        BY <2>2, <3>1
      <4> HIDE DEF h
      <4>2. h[n] = D(g, n)
        BY <2>2, <4>1
      <4> QED
        BY <3>1, <4>2
    <3>2. CASE n = N + 1
      <4>1. n # 0 /\ n - 1 = N /\ h[N] = g[N]
        BY <2>2, <3>2
      <4> HIDE DEF h
      <4>2. D(h, n) = ValueFrom(n, g[N])
        BY <4>1
      <4> QED
        BY <2>3, <3>2, <4>2 DEF new
    <3>3. CASE n # 0 /\ n # N + 1
      <4>1. n \in 0..N /\ n - 1 \in 0..N
        BY <2>2, <3>3
      <4>2. h[n] = D(g, n) /\ h[n - 1] = g[n - 1]
        BY <2>2, <4>1
      <4> HIDE DEF h
      <4> QED
        BY <3>3, <4>2
    <3> QED
      BY <3>1, <3>2, <3>3
  <2>5. h = [n \in 0..(N + 1) |-> h[n]]
    OBVIOUS
  <2> HIDE DEF h, D
  <2>6. Is(h, N + 1)
    BY <2>4, <2>5
  <2> HIDE DEF Is
  <2>7. N + 1 \in 0..L
    BY <1>1
  <2> QED
    BY <2>6, <2>7
<1> HIDE DEF Is, D
<1>4. T \in SUBSET (0..L)
  OBVIOUS
<1> HIDE DEF T
<1>5. T = 0..L
  <2> HIDE DEF L
  <2> QED
    BY <1>1, <1>2, <1>3, <1>4, UpTo
<1> DEFINE E(g, n) == [s \in Starts |-> IF n = 0 THEN Result(s.b, FALSE, s.item)
                                        ELSE parse_value(s.item, s.b, g[n - 1])]
           Real(g) == g = [n \in 0..L |-> E(g, n)]
<1>6. \E g : Is(g, L)
  <2> HIDE DEF L
  <2> QED
    BY <1>1, <1>5 DEF T
<1>7. \A g, n : E(g, n) = D(g, n)
  <2>1. ASSUME NEW g, NEW n, n = 0 PROVE E(g, n) = D(g, n)
    BY <2>1 DEF D, none, ValueFrom
  <2>2. ASSUME NEW g, NEW n, n # 0 PROVE E(g, n) = D(g, n)
    BY <2>2 DEF D, ValueFrom
  <2> QED
    BY <2>1, <2>2
<1>8. ValueIn = CHOOSE g : Real(g)
  BY DEF ValueIn
<1> HIDE DEF E
<1>9. \E g : Real(g)
  <2> HIDE DEF L
  <2> QED
    BY <1>6, <1>7 DEF Is
<1>10. Real(ValueIn)
  <2> HIDE DEF Real
  <2> QED
    BY <1>8, <1>9
<1>11. \A n \in 0..L : ValueIn[n] = D(ValueIn, n)
  <2> HIDE DEF L
  <2> QED
    BY <1>7, <1>10
<1>12. ASSUME NEW n \in 1..L PROVE ValueIn[n] = ValueFrom(n, ValueIn[n - 1])
  <2>1. n \in 0..L /\ n # 0
    BY <1>1
  <2> HIDE DEF L
  <2> QED
    BY <1>11, <2>1 DEF D
<1> QED
  BY <1>12

(* However deep the value is nested, it is read.                            *)
LEMMA EveryLevelIsRead ==
    \A n \in 0..NestingLimit : Reader(ValueIn[n + 1], n + 1, NestingLimit - n)
<1> DEFINE L == NestingLimit
           T == {n \in 0..L : Reader(ValueIn[n + 1], n + 1, L - n)}
<1>1. L \in Nat /\ Levels \in Nat /\ L + 2 <= Levels
  BY ParseAssumption, TextAssumption
<1>2. ASSUME NEW n \in 0..L, n # 0 => n - 1 \in T
      PROVE  Reader(ValueIn[n + 1], n + 1, L - n)
  <2> DEFINE inner == ValueIn[n]
  <2>1. n + 1 \in 1..(L + 1) /\ (n + 1) - 1 = n /\ n \in 0..(Levels - 1) /\ n + 1 # 0
    BY <1>1
  <2>2. ValueIn[n + 1] = ValueFrom(n + 1, inner)
    BY <2>1, ValueInIs
  <2>3. n # 0 => Reader(inner, n, (L - n) + 1)
    <3>1. SUFFICES ASSUME n # 0 PROVE Reader(inner, n, (L - n) + 1)
      OBVIOUS
    <3>2. n - 1 \in 0..L /\ (n - 1) + 1 = n /\ L - (n - 1) = (L - n) + 1
      BY <1>1, <3>1
    <3>3. Reader(ValueIn[(n - 1) + 1], (n - 1) + 1, L - (n - 1))
      BY <1>2, <3>1
    <3> QED
      BY <3>2, <3>3
  <2> HIDE DEF inner, L
  <2>4. ASSUME NEW item \in Begun, NEW b \in Buffers, Ready(b), b.depth = L - n
        PROVE  ValueRead(item, b, ValueFrom(n + 1, inner)[[item |-> item, b |-> b]], n + 1)
    <3> DEFINE s == [item |-> item, b |-> b]
    <3>1. s \in Starts /\ s.item = item /\ s.b = b
      BY DEF Starts, Begun, Buffers
    <3> HIDE DEF s
    <3>2. ValueFrom(n + 1, inner)[s] = parse_value(item, b, inner)
      BY <2>1, <3>1 DEF ValueFrom
    <3>3. b.depth < NestingLimit => n >= 1 /\ Reader(inner, n, b.depth + 1)
      <4>1. b.depth < NestingLimit => n >= 1 /\ n # 0
        BY <1>1, <2>4 DEF L
      <4> QED
        BY <2>3, <2>4, <4>1
    <3>4. ValueRead(item, b, parse_value(item, b, inner), n + 1)
      BY <2>1, <2>4, <3>3, ValueIsRead
    <3> QED
      BY <3>2, <3>4 DEF s
  <2>5. Reader(ValueFrom(n + 1, inner), n + 1, L - n)
    BY <2>4 DEF Reader
  <2> QED
    BY <2>2, <2>5
<1>3. 0 \in T
  <2>1. 0 \in 0..L
    BY <1>1
  <2>2. Reader(ValueIn[0 + 1], 0 + 1, L - 0)
    BY <1>2, <2>1
  <2> QED
    BY <2>1, <2>2
<1>4. ASSUME NEW n \in 0..(L - 1), n \in T PROVE n + 1 \in T
  <2>1. n + 1 \in 0..L /\ (n + 1) - 1 = n
    BY <1>1
  <2> HIDE DEF L
  <2>2. Reader(ValueIn[(n + 1) + 1], (n + 1) + 1, L - (n + 1))
    <3> HIDE DEF T
    <3> QED
      BY <1>2, <1>4, <2>1
  <2> QED
    BY <2>1, <2>2
<1>5. T \in SUBSET (0..L)
  OBVIOUS
<1> HIDE DEF T, L
<1>6. T = 0..L
  BY <1>1, <1>3, <1>4, <1>5, UpTo
<1> QED
  BY <1>6 DEF T, L

(* What cJSON_ParseWithOpts tells of a text.                                 *)
ParsedRightly(text_, parsed) ==
    /\ parsed.item = NULL \/ parsed.item \in Trees(Valid)[NestingLimit + 1]
    /\ parsed.live = IF parsed.item = NULL THEN 0 ELSE Blocks(parsed.item)
    /\ parsed.place \in 0..Len(text_)
    /\ parsed.item # NULL /\ OpenArray \notin ToSet(text_) => AllNamed(parsed.item.kids)

LEMMA ParsingLevels ==
    /\ NestingLimit + 1 \in 1..Levels /\ NestingLimit \in Nat
    /\ NULL \notin Trees(Safe)[NestingLimit + 1]
<1>1. NestingLimit + 1 \in 1..Levels /\ NestingLimit + 1 \in 0..Levels /\ NestingLimit \in Nat
  BY ParseAssumption, TextAssumption
<1> QED
  BY <1>1, KidsAreTrees, TextAssumption

LEMMA BlocksOfItem ==
    ASSUME NEW item \in Trees(Safe)[NestingLimit + 1]
    PROVE  BlocksOf(<<item>>) = Blocks(item) /\ Blocks(item) \in Nat
<1>1. item \in Trees(Types)[Levels]
  BY ParsingLevels, TextAssumption, KidsAreTrees
<1>2. BlocksOf(Append(<<>>, item)) = BlocksOf(<<>>) + Blocks(item) /\ Blocks(item) \in Nat
  BY <1>1, EmptySeq, BlocksOfMore, BlocksAre
<1>3. Append(<<>>, item) = <<item>>
  OBVIOUS
<1> QED
  BY <1>2, <1>3, BlocksOfNone

LEMMA BufferIs ==
    ASSUME NEW s \in Seq(Nat), NEW allocs \in Nat, allocs # 0
    PROVE  /\ Ready(Taken(Buffer(s, allocs))) /\ Taken(Buffer(s, allocs)).live = 1
           /\ Taken(Buffer(s, allocs)).depth = 0
           /\ Taken(Buffer(s, allocs)).content = Append(s, 0)
<1> DEFINE b == Buffer(s, allocs)
<1>1. /\ Append(s, 0) \in Seq(Nat) /\ Len(Append(s, 0)) = Len(s) + 1 /\ Len(s) \in Nat
      /\ Append(s, 0)[Len(s) + 1] = 0
  BY AppendProperties, LenProperties
<1> DEFINE t == Append(s, 0)
<1> HIDE DEF t
<1>2. b = [content |-> t, offset |-> 0, depth |-> 0, allocs |-> allocs, live |-> 0]
  BY DEF Buffer, t
<1> HIDE DEF b
<1>3. b \in Buffers /\ b.content = t /\ b.offset = 0 /\ b.depth = 0 /\ b.live = 0
      /\ Granted(b)
  BY <1>1, <1>2 DEF Buffers, Granted, t
<1>4. /\ Taken(b) \in Buffers /\ Taken(b).live = 1 /\ Taken(b).offset = 0
      /\ Taken(b).content = t /\ Taken(b).depth = 0
  BY <1>3, TakenOne
<1>5. Len(t) > 0 /\ t[Len(t)] = 0 /\ 0 < Len(t)
  BY <1>1 DEF t
<1>6. Ready(Taken(b))
  BY <1>4, <1>5 DEF Ready
<1> QED
  BY <1>4, <1>6 DEF b, t

LEMMA OutcomeIs ==
    ASSUME NEW s \in Seq(Nat), NEW value, NEW last \in Buffers, NEW whole \in BOOLEAN,
           last.content = Append(s, 0), value.ok \in BOOLEAN,
           value.item \in Trees(Safe)[NestingLimit + 1],
           value.ok => value.item \in Trees(Valid)[NestingLimit + 1],
           last.live = Blocks(value.item),
           value.ok => last.offset < Len(last.content),
           value.ok /\ OpenArray \notin ToSet(s) => AllNamed(value.item.kids)
    PROVE  ParsedRightly(s, Outcome(value, last, whole))
<1> DEFINE r == Outcome(value, last, whole)
<1>1. Len(last.content) = Len(s) + 1 /\ Len(s) \in Nat /\ last.offset \in Nat /\ last.live \in Int
  BY AppendProperties, LenProperties, BufferFields
<1>2. BlocksOf(<<value.item>>) = Blocks(value.item) /\ Blocks(value.item) \in Nat
  BY BlocksOfItem
<1>3. CASE value.ok /\ (whole => At(last) = 0)
  <2>1. r = [item |-> value.item, place |-> last.offset, live |-> last.live]
    BY <1>3 DEF Outcome
  <2> HIDE DEF r
  <2>2. r.item = value.item /\ r.place = last.offset /\ r.live = last.live
    BY <2>1
  <2>3. r.item # NULL
    BY <2>2, ParsingLevels
  <2>4. r.place \in 0..Len(s)
    BY <1>1, <1>3, <2>2
  <2>5. ParsedRightly(s, r)
    BY <1>3, <2>2, <2>3, <2>4 DEF ParsedRightly
  <2> QED
    BY <2>5 DEF r
<1>4. CASE ~(value.ok /\ (whole => At(last) = 0))
  <2>1. r = [item |-> NULL, place |-> Place(last), live |-> Deleted(last, <<value.item>>).live]
    BY <1>4 DEF Outcome
  <2> HIDE DEF r
  <2>2. r.item = NULL /\ r.place = Place(last) /\ r.live = Deleted(last, <<value.item>>).live
    BY <2>1
  <2>3. Deleted(last, <<value.item>>).live = 0
    <3>1. BlocksOf(<<value.item>>) \in Int
      BY <1>2
    <3>2. Deleted(last, <<value.item>>).live = last.live - BlocksOf(<<value.item>>)
      BY <3>1, DeletedIs
    <3> QED
      BY <1>2, <3>2
  <2>4. r.place \in 0..Len(s)
    BY <1>1, <2>2 DEF Place
  <2>5. ParsedRightly(s, r)
    BY <2>2, <2>3, <2>4 DEF ParsedRightly
  <2> QED
    BY <2>5 DEF r
<1> QED
  BY <1>3, <1>4

(* Whatever the text, whether something may follow the value and however many *)
(* allocations are granted: what cJSON_ParseWithOpts returns is NULL or a tree *)
(* no deeper than the limit, without raw or invalid items; the memory in use  *)
(* is that of the tree, none without one; the place where parsing ended, which *)
(* goes to return_parse_end and the global error, is never beyond the          *)
(* terminator; and without an opening bracket every child has a name.         *)
THEOREM ParsingBalances ==
    ASSUME NEW s \in Seq(Nat), NEW whole \in BOOLEAN, NEW allocs \in Nat
    PROVE  ParsedRightly(s, cJSON_ParseWithOpts(s, whole, allocs))
<1> DEFINE b == Taken(Buffer(s, allocs))
           c == buffer_skip_whitespace(b)
           value == ParsedValue(Blank, c)
           r == cJSON_ParseWithOpts(s, whole, allocs)
<1>1. Len(s) \in Nat
  BY LenProperties
<1>2. CASE allocs = 0
  <2>1. r = [item |-> NULL, place |-> 0, live |-> 0]
    BY <1>2 DEF cJSON_ParseWithOpts
  <2> HIDE DEF r
  <2>2. r.item = NULL /\ r.place = 0 /\ r.live = 0
    BY <2>1
  <2>3. ParsedRightly(s, r)
    BY <1>1, <2>2 DEF ParsedRightly
  <2> QED
    BY <2>3 DEF r
<1>3. CASE allocs # 0
  <2>1. r = EndOf(value, whole)
    BY <1>3 DEF cJSON_ParseWithOpts
  <2>2. Ready(b) /\ b.live = 1 /\ b.depth = 0 /\ b.content = Append(s, 0)
    BY <1>3, BufferIs
  <2> HIDE DEF r, b
  <2>3. Ready(c) /\ Later(b, c) /\ c.live = 1 /\ c.depth = 0 /\ c.content = Append(s, 0)
        /\ c \in Buffers
    <3>1. Ready(c) /\ Later(b, c) /\ c.live = b.live /\ c.depth = b.depth
      BY <2>2, SkipReady
    <3> QED
      BY <2>2, <3>1 DEF Later
  <2> HIDE DEF c
  <2>4. ValueRead(Blank, c, value, NestingLimit + 1)
    <3>1. NestingLimit \in 0..NestingLimit /\ NestingLimit - NestingLimit = 0
      BY ParsingLevels
    <3>2. Reader(ValueIn[NestingLimit + 1], NestingLimit + 1, NestingLimit - NestingLimit)
      BY <3>1, EveryLevelIsRead
    <3> QED
      BY <2>3, <3>1, <3>2, BlankIs DEF Reader, ParsedValue
  <2> HIDE DEF value
  <2>5. /\ value.item \in Trees(Safe)[NestingLimit + 1] /\ value.ok \in BOOLEAN
        /\ value.ok => value.item \in Trees(Valid)[NestingLimit + 1]
        /\ value.b \in Buffers /\ value.b.content = Append(s, 0)
        /\ value.ok => Ready(value.b)
        /\ value.b.live - Blocks(value.item) = 1 - Blocks(Blank)
        /\ value.ok /\ At(c) # OpenArray => AllNamed(value.item.kids)
    BY <2>3, <2>4 DEF ValueRead, Later
  <2>6. value.b.live = Blocks(value.item)
    <3>1. Blocks(Blank) = 1
      <4>1. Blank \in Begun /\ Blank.name = NULL
        BY BlankIs
      <4>2. Blocks(Blank) = OwnBlocks(Blank)
        BY <4>1, BegunIs, Leaves, ParsingLevels
      <4> QED
        BY <4>1, <4>2, BegunIs
    <3>2. Blocks(value.item) \in Nat /\ value.b.live \in Int
      BY <2>5, BlocksOfItem, BufferFields
    <3> QED
      BY <2>5, <3>1, <3>2
  <2>7. OpenArray \notin ToSet(s) => At(c) # OpenArray
    <3>1. c.offset + 1 \in 1..(Len(s) + 1) /\ At(c) = Append(s, 0)[c.offset + 1]
      <4>1. c.offset + 1 \in 1..Len(c.content) /\ At(c) = c.content[c.offset + 1]
        BY <2>3, ReadyIs
      <4>2. Len(Append(s, 0)) = Len(s) + 1
        BY AppendProperties
      <4> QED
        BY <2>3, <4>1, <4>2
    <3>2. Append(s, 0)[Len(s) + 1] = 0 /\ \A i \in 1..Len(s) : Append(s, 0)[i] = s[i]
      BY AppendProperties
    <3>3. \A i \in 1..Len(s) : s[i] \in ToSet(s)
      BY LenProperties DEF ToSet
    <3>4. OpenArray # 0
      BY DEF OpenArray
    <3>5. \A i \in 1..(Len(s) + 1) : i \in 1..Len(s) \/ i = Len(s) + 1
      BY <1>1
    <3>6. c.offset + 1 \in 1..Len(s) \/ c.offset + 1 = Len(s) + 1
      BY <3>1, <3>5
    <3> QED
      BY <3>1, <3>2, <3>3, <3>4, <3>6
  <2> DEFINE last == IF value.ok /\ whole THEN buffer_skip_whitespace(value.b) ELSE value.b
  <2>8. /\ last \in Buffers /\ last.content = Append(s, 0) /\ last.live = Blocks(value.item)
        /\ value.ok => last.offset < Len(last.content)
    <3>1. CASE value.ok /\ whole
      <4>1. last = buffer_skip_whitespace(value.b)
        BY <3>1
      <4> HIDE DEF last
      <4>2. Ready(last) /\ Later(value.b, last) /\ last.live = value.b.live
        BY <2>5, <3>1, <4>1, SkipReady
      <4> QED
        BY <2>5, <2>6, <4>2, ReadyIs DEF Later
    <3>2. CASE ~(value.ok /\ whole)
      <4>1. last = value.b
        BY <3>2
      <4> HIDE DEF last
      <4> QED
        BY <2>5, <2>6, <4>1, ReadyIs
    <3> QED
      BY <3>1, <3>2
  <2>9. EndOf(value, whole) = Outcome(value, last, whole)
    BY DEF EndOf
  <2> HIDE DEF last
  <2>10. ParsedRightly(s, Outcome(value, last, whole))
    BY <2>5, <2>7, <2>8, OutcomeIs
  <2> QED
    BY <2>1, <2>9, <2>10 DEF r
<1> QED
  BY <1>2, <1>3

(* What strip leaves is the text without what it removes.                    *)
StripRun(s, removed, kept) ==
    /\ kept[0] = <<>>
    /\ \A n \in 0..Len(s) : /\ kept[n] \in Seq(Nat)
                            /\ \A i \in 1..Len(kept[n]) : kept[n][i] \notin removed
    /\ \A n \in 0..(Len(s) - 1) :
          kept[n + 1] = IF s[n + 1] \in removed THEN kept[n] ELSE Append(kept[n], s[n + 1])

LEMMA StripRuns ==
    ASSUME NEW s \in Seq(Nat), NEW removed
    PROVE  \E kept : StripRun(s, removed, kept) /\ strip(s, removed) = kept[Len(s)]
<1> DEFINE N == Len(s)
           Clean == {t \in Seq(Nat) : \A i \in 1..Len(t) : t[i] \notin removed}
           Then(t, n) == IF s[n] \in removed THEN t ELSE Append(t, s[n])
           D(g, n) == IF n = 0 THEN <<>>
                      ELSE IF s[n] \in removed THEN g[n - 1] ELSE Append(g[n - 1], s[n])
           Is(g) == g = [n \in 0..N |-> D(g, n)]
           kept == CHOOSE g : Is(g)
           F == [n \in 0..N |-> Clean]
           step == [n \in 0..(N - 1) |-> [t \in F[n] |-> Then(t, n + 1)]]
<1>1. N \in Nat /\ DOMAIN s = 1..N
  BY LenProperties
<1>2. strip(s, removed) = kept[N]
  BY DEF strip
<1>3. <<>> \in Clean
  BY EmptySeq
<1>4. ASSUME NEW n \in 0..(N - 1), NEW t \in Clean PROVE Then(t, n + 1) \in Clean
  <2>1. n + 1 \in 1..N
    BY <1>1
  <2>2. s[n + 1] \in Nat
    BY <1>1, <2>1, ElementOfSeq
  <2>3. CASE s[n + 1] \in removed
    BY <2>3
  <2>4. CASE s[n + 1] \notin removed
    <3> DEFINE u == Append(t, s[n + 1])
    <3>1. /\ u \in Seq(Nat) /\ Len(u) = Len(t) + 1 /\ u[Len(t) + 1] = s[n + 1]
          /\ \A i \in 1..Len(t) : u[i] = t[i]
      BY <2>2, AppendProperties
    <3>2. Len(t) \in Nat
      BY LenProperties
    <3> HIDE DEF u
    <3>3. \A i \in 1..Len(u) : u[i] \notin removed
      <4>1. \A i \in 1..Len(u) : i \in 1..Len(t) \/ i = Len(t) + 1
        BY <3>1, <3>2
      <4> QED
        BY <2>4, <3>1, <4>1
    <3>4. u \in Clean
      BY <3>1, <3>3
    <3> QED
      BY <2>4, <3>4 DEF u
  <2> QED
    BY <2>3, <2>4
<1>5. \A n \in 0..N : F[n] = Clean
  OBVIOUS
<1> HIDE DEF Clean, Then
<1>6. Steps(N, F, step)
  <2>1. ASSUME NEW n \in 0..(N - 1) PROVE step[n] \in [F[n] -> F[n + 1]]
    <3>1. step[n] = [t \in F[n] |-> Then(t, n + 1)]
      OBVIOUS
    <3>2. n \in 0..N /\ n + 1 \in 0..N
      BY <1>1
    <3>3. F[n] = Clean /\ F[n + 1] = Clean
      BY <1>5, <3>2
    <3> HIDE DEF F, step
    <3> QED
      BY <1>4, <3>1, <3>3
  <2> HIDE DEF step, F
  <2> QED
    BY <2>1 DEF Steps
<1>7. <<>> \in F[0]
  <2>1. 0 \in 0..N
    BY <1>1
  <2> HIDE DEF F
  <2> QED
    BY <1>3, <1>5, <2>1
<1>8. \A g, n : n # 0 => D(g, n) = Then(g[n - 1], n)
  BY DEF Then
<1>9. \A g : D(g, 0) = <<>>
  OBVIOUS
<1> HIDE DEF D
<1>10. \E g : Is(g)
  <2>1. PICK g : g = [n \in 0..N |-> g[n]] /\ g[0] = <<>> /\ Reaches(N, F, step, g)
    <3> HIDE DEF N, F, step
    <3> QED
      BY <1>1, <1>6, <1>7, Recursion
  <2>2. ASSUME NEW n \in 0..N PROVE g[n] = D(g, n)
    <3>1. CASE n # 0
      <4>1. n - 1 \in 0..(N - 1) /\ (n - 1) + 1 = n /\ n - 1 \in 0..N
        BY <1>1, <3>1
      <4>2. g[n - 1] \in F[n - 1] /\ g[n] = step[n - 1][g[n - 1]]
        BY <2>1, <4>1 DEF Reaches
      <4> HIDE DEF F
      <4> QED
        BY <1>8, <3>1, <4>1, <4>2
    <3> QED
      BY <1>9, <2>1, <3>1
  <2>3. Is(g)
    BY <2>1, <2>2
  <2> HIDE DEF Is
  <2> QED
    BY <2>3
<1>11. Is(kept)
  <2> HIDE DEF Is
  <2> QED
    BY <1>10
<1> HIDE DEF kept
<1>12. \A n \in 0..N : kept[n] = D(kept, n)
  BY <1>11
<1>13. Reaches(N, F, step, kept)
  <2>1. kept[0] \in F[0]
    <3>1. kept[0] = <<>>
      BY <1>1, <1>9, <1>12
    <3> HIDE DEF F
    <3> QED
      BY <1>7, <3>1
  <2>2. Takes(N, F, step, kept)
    <3>1. ASSUME NEW n \in 0..(N - 1), kept[n] \in F[n]
          PROVE  kept[n + 1] = step[n][kept[n]]
      <4>1. n + 1 \in 0..N /\ (n + 1) - 1 = n /\ n \in 0..N /\ n + 1 # 0
        BY <1>1
      <4>2. kept[n + 1] = Then(kept[n], n + 1)
        BY <1>8, <1>12, <4>1
      <4> HIDE DEF F
      <4> QED
        BY <3>1, <4>1, <4>2
    <3> HIDE DEF step, F
    <3> QED
      BY <3>1 DEF Takes
  <2> HIDE DEF N, F, step
  <2> QED
    BY <1>1, <1>6, <2>1, <2>2, Recursed
<1>14. \A n \in 0..N : kept[n] \in Clean
  <2>1. \A n \in 0..N : kept[n] \in F[n]
    <3> HIDE DEF F, step
    <3> QED
      BY <1>13 DEF Reaches
  <2> HIDE DEF F, N
  <2> QED
    BY <1>5, <2>1
<1>15. kept[0] = <<>>
  BY <1>1, <1>9, <1>12
<1>16. ASSUME NEW n \in 0..(N - 1)
       PROVE  kept[n + 1] = IF s[n + 1] \in removed THEN kept[n] ELSE Append(kept[n], s[n + 1])
  <2>1. n + 1 \in 0..N /\ (n + 1) - 1 = n /\ n + 1 # 0
    BY <1>1
  <2>2. kept[n + 1] = Then(kept[n], n + 1)
    BY <1>8, <1>12, <2>1
  <2> QED
    BY <2>2 DEF Then
<1>17. \A n \in 0..N : /\ kept[n] \in Seq(Nat)
                       /\ \A i \in 1..Len(kept[n]) : kept[n][i] \notin removed
  BY <1>14 DEF Clean
<1>18. StripRun(s, removed, kept)
  BY <1>15, <1>16, <1>17 DEF StripRun
<1> QED
  BY <1>2, <1>18

LEMMA StripIs ==
    ASSUME NEW s \in Seq(Nat), NEW removed
    PROVE  /\ strip(s, removed) \in Seq(Nat)
           /\ \A i \in DOMAIN strip(s, removed) : strip(s, removed)[i] \notin removed
<1> DEFINE t == strip(s, removed)
<1>1. Len(s) \in 0..Len(s)
  BY LenProperties
<1>2. t \in Seq(Nat) /\ \A i \in 1..Len(t) : t[i] \notin removed
  BY <1>1, StripRuns DEF StripRun
<1> HIDE DEF t
<1>3. DOMAIN t = 1..Len(t)
  BY <1>2, LenProperties
<1> QED
  BY <1>2, <1>3 DEF t

LEMMA FilterBracketsIs ==
    ASSUME NEW s \in Seq(Nat)
    PROVE  FilterBrackets(s) \in Seq(Nat) /\ OpenArray \notin ToSet(FilterBrackets(s))
BY StripIs DEF FilterBrackets, ToSet

-----------------------------------------------------------------------------
(* What is counted: the texts are texts, and nothing but the objects of the   *)
(* messages and the buffers of the commands is left.                        *)
Counted ==
    /\ text \in Seq(Nat)
    /\ received \in Nat /\ sent \in Nat
    /\ LeavesTheSame

LEMMA MessageIs ==
    ASSUME text \in Seq(Nat)
    PROVE  ParsedRightly(FilterBrackets(text), Parsed) /\ LeftOfMessage = 2 /\ NamesFound
<1> DEFINE s == FilterBrackets(text)
           parsed == Parsed
<1>1. s \in Seq(Nat) /\ OpenArray \notin ToSet(s)
  BY FilterBracketsIs
<1>2. Plenty \in Nat
  BY PlentyAssumption
<1>3. parsed = cJSON_ParseWithOpts(s, FALSE, Plenty)
  BY DEF Parsed, cJSON_Parse
<1> HIDE DEF s
<1>4. ParsedRightly(s, cJSON_ParseWithOpts(s, FALSE, Plenty))
  BY <1>1, <1>2, ParsingBalances
<1> HIDE DEF parsed
<1>5. ParsedRightly(s, parsed)
  BY <1>3, <1>4
<1>6. LeftOfMessage = 2 + parsed.live - (IF parsed.item = NULL THEN 0 ELSE Blocks(parsed.item))
  BY DEF LeftOfMessage, parsed
<1>7. parsed.live \in Int /\ parsed.live = IF parsed.item = NULL THEN 0 ELSE Blocks(parsed.item)
  <2>1. CASE parsed.item = NULL
    BY <1>5, <2>1 DEF ParsedRightly
  <2>2. CASE parsed.item # NULL
    <3>1. parsed.item \in Trees(Valid)[NestingLimit + 1] /\ parsed.live = Blocks(parsed.item)
      BY <1>5, <2>2 DEF ParsedRightly
    <3>2. Blocks(parsed.item) \in Nat
      <4>1. parsed.item \in Trees(Safe)[NestingLimit + 1]
        BY <3>1, ParsingLevels, KidsAreTrees
      <4> QED
        BY <4>1, BlocksOfItem
    <3> QED
      BY <2>2, <3>1, <3>2
  <2> QED
    BY <2>1, <2>2
<1>8. LeftOfMessage = 2
  BY <1>6, <1>7
<1>9. ~MeetsNameless(parsed.item, Data)
  BY <1>1, <1>5 DEF ParsedRightly, MeetsNameless, AllNamed
<1> QED
  BY <1>5, <1>8, <1>9 DEF parsed, s, NamesFound

LEMMA CountedFirst == Init => Counted
BY EmptySeq DEF Init, Counted, LeavesTheSame

LEMMA CountedAlways == Counted /\ [Next]_vars => Counted'
<1> SUFFICES ASSUME Counted, [Next]_vars PROVE Counted'
  OBVIOUS
<1>1. text \in Seq(Nat) /\ received \in Nat /\ sent \in Nat /\ live = 2 * received + sent
  BY DEF Counted, LeavesTheSame
<1>2. CASE Extend
  <2>1. PICK piece \in MayFollow : text' = text \o piece
    BY <1>2 DEF Extend
  <2>2. MayFollow \subseteq Seq(Nat)
    BY PiecesAssumption DEF MayFollow
  <2>3. text' \in Seq(Nat)
    BY <1>1, <2>1, <2>2, ConcatProperties
  <2>4. received' = received /\ sent' = sent /\ live' = live
    BY <1>2 DEF Extend
  <2> QED
    BY <1>1, <2>3, <2>4 DEF Counted, LeavesTheSame
<1>3. ASSUME NEW crashes, Receive(crashes), sent' = sent PROVE Counted'
  <2>1. text' = <<>> /\ received' = received + 1 /\ sent' = sent /\ live' = live + LeftOfMessage
    BY <1>3 DEF Receive
  <2>2. LeftOfMessage = 2
    BY <1>1, MessageIs
  <2>3. text' \in Seq(Nat)
    BY <2>1, EmptySeq
  <2> QED
    BY <1>1, <2>1, <2>2, <2>3 DEF Counted, LeavesTheSame
<1>4. CASE MeterMessage \/ ParameterMessage \/ UnknownMessage
  <2>1. PICK crashes : Receive(crashes)
    BY <1>4 DEF MeterMessage, ParameterMessage, UnknownMessage
  <2>2. sent' = sent
    BY <2>1 DEF Receive
  <2> QED
    BY <1>3, <2>1, <2>2
<1>5. CASE send_json_obj
  <2>1. text' = <<>> /\ sent' = sent + 1 /\ live' = live + 1 /\ received' = received
    BY <1>5 DEF send_json_obj
  <2> QED
    BY <1>1, <2>1, EmptySeq DEF Counted, LeavesTheSame
<1>6. CASE UNCHANGED vars
  BY <1>1, <1>6 DEF vars, Counted, LeavesTheSame
<1> QED
  BY <1>2, <1>4, <1>5, <1>6 DEF Next

LEMMA AlwaysCounted == Spec => []Counted
<1> QED
  BY CountedFirst, CountedAlways, PTL DEF Spec

(* cJSON_Parse gives back all its memory when it fails, and has taken what    *)
(* cJSON_Delete will free when it succeeds: for every text a peer may write,  *)
(* however deep, and wherever memory runs out; its strings have their room.  *)
THEOREM ParsesBalance == Spec => []ParseBalances
<1>1. Counted => ParseBalances
  <2>1. ASSUME Counted, NEW allocs \in 0..Len(text)
        PROVE  LET parsed == cJSON_Parse(text, allocs)
               IN  parsed.live = IF parsed.item = NULL THEN 0 ELSE Blocks(parsed.item)
    <3>1. text \in Seq(Nat) /\ allocs \in Nat
      BY <2>1 DEF Counted
    <3>2. ParsedRightly(text, cJSON_ParseWithOpts(text, FALSE, allocs))
      BY <3>1, ParsingBalances
    <3> QED
      BY <3>2 DEF ParsedRightly, cJSON_Parse
  <2>2. ASSUME Counted, NEW i \in DOMAIN text PROVE OutputFits(text, i + 1)
    <3>1. text \in Seq(Nat) /\ i + 1 \in Nat /\ i + 1 >= 1
      BY <2>2, LenProperties DEF Counted
    <3> QED
      BY <3>1, StringsFit
  <2> QED
    BY <2>1, <2>2 DEF ParseBalances
<1> QED
  BY <1>1, AlwaysCounted, PTL

(* No message has msgarrvd compare with the name a child does not have.        *)
THEOREM NamesAreFound == Spec => []NamesFound
<1>1. Counted => NamesFound
  BY MessageIs DEF Counted
<1> QED
  BY <1>1, AlwaysCounted, PTL

(* What the calls leave behind does not depend on what was received or sent.   *)
THEOREM CallsLeaveTheSame == Spec => []LeavesTheSame
<1>1. Counted => LeavesTheSame
  BY DEF Counted
<1> QED
  BY <1>1, AlwaysCounted, PTL

-----------------------------------------------------------------------------
(* The same text without its first symbol.                                   *)
LEMMA TailIs ==
    ASSUME NEW s \in Seq(Nat), Len(s) >= 1
    PROVE  /\ Tail(s) \in Seq(Nat) /\ Len(Tail(s)) = Len(s) - 1 /\ Len(s) \in Nat
           /\ \A i \in 1..(Len(s) - 1) : Tail(s)[i] = s[i + 1]
BY LenProperties

(* c stands in the rest of a text where b stands in the text, one level of     *)
(* nesting further out, and at least as many allocations are granted to it.   *)
Shadows(b, c) ==
    /\ Ready(b) /\ Ready(c) /\ c.content = Tail(b.content)
    /\ b.offset = c.offset + 1 /\ b.depth = c.depth + 1 /\ b.allocs <= c.allocs

(* What is read in the text is read in the rest of it, too.                   *)
Same(r, q) == r.ok => q.ok /\ q.item = r.item /\ Shadows(r.b, q.b)

LEMMA OneBehind ==
    ASSUME NEW n \in Nat, NEW k \in Nat, NEW l \in Nat, k = l + 1, k < n
    PROVE  n >= 2 /\ l = k - 1
  OBVIOUS

LEMMA ShadowFields ==
    ASSUME NEW b, NEW c, Shadows(b, c)
    PROVE  /\ b \in Buffers /\ c \in Buffers
           /\ b.content \in Seq(Nat) /\ c.content \in Seq(Nat)
           /\ Len(b.content) \in Nat /\ Len(b.content) >= 2
           /\ Len(c.content) = Len(b.content) - 1
           /\ b.offset \in Nat /\ c.offset \in Nat /\ c.offset = b.offset - 1
           /\ b.offset < Len(b.content) /\ c.offset < Len(c.content)
           /\ \A i \in 1..(Len(b.content) - 1) : c.content[i] = b.content[i + 1]
           /\ b.content[Len(b.content)] = 0
           /\ b.depth \in Nat /\ c.depth \in Nat /\ c.depth = b.depth - 1
           /\ b.allocs \in Nat /\ c.allocs \in Nat /\ b.allocs <= c.allocs
<1>1. Ready(b) /\ Ready(c) /\ c.content = Tail(b.content)
      /\ b.offset = c.offset + 1 /\ b.depth = c.depth + 1 /\ b.allocs <= c.allocs
  BY DEF Shadows
<1>2. b \in Buffers /\ c \in Buffers /\ Len(b.content) > 0 /\ b.content[Len(b.content)] = 0
      /\ Len(b.content) \in Nat /\ b.offset < Len(b.content) /\ c.offset < Len(c.content)
  BY <1>1, ReadyIs
<1>3. b.content \in Seq(Nat) /\ c.content \in Seq(Nat) /\ b.offset \in Nat /\ c.offset \in Nat
      /\ b.depth \in Nat /\ c.depth \in Nat /\ b.allocs \in Nat /\ c.allocs \in Nat
  BY <1>2, BufferFields
<1>4. Len(c.content) = Len(b.content) - 1
      /\ \A i \in 1..(Len(b.content) - 1) : c.content[i] = b.content[i + 1]
  BY <1>1, <1>2, <1>3, TailIs
<1>5. Len(b.content) >= 2 /\ c.offset = b.offset - 1 /\ c.depth = b.depth - 1
  <2>1. b.offset = c.offset + 1 /\ b.depth = c.depth + 1
    BY <1>1
  <2>2. b.offset \in Nat /\ c.offset \in Nat /\ b.depth \in Nat /\ c.depth \in Nat
    BY <1>3
  <2>3. Len(b.content) \in Nat /\ b.offset < Len(b.content)
    BY <1>2
  <2>4. Len(b.content) >= 2 /\ c.offset = b.offset - 1
    BY <2>1, <2>2, <2>3, OneBehind
  <2>5. c.depth = b.depth - 1
    BY <2>1, <2>2
  <2> QED
    BY <2>4, <2>5
<1> QED
  BY <1>1, <1>2, <1>3, <1>4, <1>5

LEMMA ShadowAt ==
    ASSUME NEW b, NEW c, Shadows(b, c)
    PROVE  At(b) = At(c)
<1>1. b.offset \in Nat /\ c.offset = b.offset - 1 /\ b.offset < Len(b.content)
      /\ c.offset < Len(c.content) /\ c.offset \in Nat /\ Len(b.content) \in Nat
      /\ \A i \in 1..(Len(b.content) - 1) : c.content[i] = b.content[i + 1]
  BY ShadowFields
<1>2. c.offset + 1 \in 1..(Len(b.content) - 1) /\ (c.offset + 1) + 1 = b.offset + 1
  BY <1>1
<1>3. c.content[c.offset + 1] = b.content[b.offset + 1]
  BY <1>1, <1>2
<1> QED
  BY <1>1, <1>3 DEF At

LEMMA ShadowMoved ==
    ASSUME NEW b, NEW c, Shadows(b, c), NEW n \in Int, c.offset + n \in Nat,
           b.offset + n < Len(b.content)
    PROVE  Shadows(Moved(b, n), Moved(c, n))
<1>1. /\ Ready(b) /\ Ready(c) /\ c.content = Tail(b.content)
      /\ b.offset = c.offset + 1 /\ b.depth = c.depth + 1 /\ b.allocs <= c.allocs
  BY DEF Shadows
<1>2. b \in Buffers /\ c \in Buffers /\ b.offset \in Nat /\ c.offset \in Nat
      /\ Len(b.content) \in Nat /\ Len(c.content) = Len(b.content) - 1
  BY ShadowFields
<1>3. b.offset + n \in Nat /\ b.offset + n = (c.offset + n) + 1 /\ c.offset + n < Len(c.content)
  BY <1>1, <1>2
<1>4. Ready(Moved(b, n)) /\ Ready(Moved(c, n))
  BY <1>1, <1>3, ReadyMoved
<1>5. /\ Moved(b, n).offset = b.offset + n /\ Moved(c, n).offset = c.offset + n
      /\ Moved(b, n).content = b.content /\ Moved(c, n).content = c.content
      /\ Moved(b, n).depth = b.depth /\ Moved(c, n).depth = c.depth
      /\ Moved(b, n).allocs = b.allocs /\ Moved(c, n).allocs = c.allocs
  BY <1>2, <1>3, MovedBy
<1> QED
  BY <1>1, <1>3, <1>4, <1>5 DEF Shadows

(* A block for both: what b is granted, c is granted.                        *)
LEMMA ShadowTaken ==
    ASSUME NEW b, NEW c, Shadows(b, c), Granted(b)
    PROVE  Granted(c) /\ Shadows(Taken(b), Taken(c))
<1>1. /\ Ready(b) /\ Ready(c) /\ c.content = Tail(b.content)
      /\ b.offset = c.offset + 1 /\ b.depth = c.depth + 1 /\ b.allocs <= c.allocs
  BY DEF Shadows
<1>2. b \in Buffers /\ c \in Buffers /\ b.allocs \in Nat /\ c.allocs \in Nat
  BY ShadowFields
<1>3. Granted(c) /\ b.allocs > 0
  BY <1>1, <1>2 DEF Granted
<1>4. /\ Taken(b) \in Buffers /\ Taken(c) \in Buffers
      /\ Taken(b).offset = b.offset /\ Taken(c).offset = c.offset
      /\ Taken(b).content = b.content /\ Taken(c).content = c.content
      /\ Taken(b).depth = b.depth /\ Taken(c).depth = c.depth
  BY <1>2, <1>3, TakenOne
<1>5. Taken(b).allocs = b.allocs - 1 /\ Taken(c).allocs = c.allocs - 1
  BY <1>2 DEF Taken, Buffers
<1>6. Taken(b).allocs <= Taken(c).allocs
  BY <1>1, <1>2, <1>5
<1>7. Ready(Taken(b)) /\ Ready(Taken(c))
  BY <1>1, <1>4 DEF Ready
<1> QED
  BY <1>1, <1>3, <1>4, <1>6, <1>7 DEF Shadows

(* Blanks end at no other place.                                             *)
LEMMA OneEnd ==
    ASSUME NEW b \in Buffers, NEW n, EndOfBlanks(b, n), NEW m, EndOfBlanks(b, m)
    PROVE  n = m
<1>1. b.offset \in Nat /\ Len(b.content) \in Nat /\ \A i \in 1..Len(b.content) : b.content[i] \in Nat
  BY BufferFields
<1>2. ASSUME NEW k, EndOfBlanks(b, k), NEW l, EndOfBlanks(b, l), k < l PROVE FALSE
  <2>1. k \in b.offset..Len(b.content) /\ l \in b.offset..Len(b.content)
    BY <1>2 DEF EndOfBlanks
  <2>2. k + 1 \in (b.offset + 1)..l /\ k < Len(b.content) /\ k + 1 \in 1..Len(b.content)
    BY <1>1, <1>2, <2>1
  <2>3. b.content[k + 1] <= Space /\ b.content[k + 1] > Space
    BY <1>2, <2>2 DEF EndOfBlanks
  <2>4. b.content[k + 1] \in Nat
    BY <1>1, <2>2
  <2> QED
    BY <2>3, <2>4 DEF Space
<1>3. n \in b.offset..Len(b.content) /\ m \in b.offset..Len(b.content)
  BY DEF EndOfBlanks
<1>4. ~(n < m) /\ ~(m < n)
  BY <1>2
<1> QED
  BY <1>1, <1>3, <1>4

LastPlace(b, n) == IF n = Len(b.content) THEN n - 1 ELSE n

LEMMA SkippedTo ==
    ASSUME NEW b \in Buffers, b.offset <= Len(b.content), NEW n, EndOfBlanks(b, n)
    PROVE  buffer_skip_whitespace(b) = [b EXCEPT !.offset = LastPlace(b, n)]
<1>1. PICK m : /\ EndOfBlanks(b, m)
               /\ buffer_skip_whitespace(b)
                    = [b EXCEPT !.offset = IF m = Len(b.content) THEN m - 1 ELSE m]
  BY BlanksEnd
<1>2. m = n
  BY <1>1, OneEnd
<1> QED
  BY <1>1, <1>2 DEF LastPlace

LEMMA ShadowPlaced ==
    ASSUME NEW b, NEW c, Shadows(b, c), NEW n \in Nat, n < Len(c.content)
    PROVE  Shadows([b EXCEPT !.offset = n + 1], [c EXCEPT !.offset = n])
<1> DEFINE d == [b EXCEPT !.offset = n + 1]
           e == [c EXCEPT !.offset = n]
<1>1. /\ Ready(b) /\ Ready(c) /\ c.content = Tail(b.content)
      /\ b.offset = c.offset + 1 /\ b.depth = c.depth + 1 /\ b.allocs <= c.allocs
  BY DEF Shadows
<1>2. b \in Buffers /\ c \in Buffers /\ Len(b.content) \in Nat /\ Len(c.content) = Len(b.content) - 1
  BY ShadowFields
<1>3. n + 1 \in Nat /\ n + 1 < Len(b.content)
  BY <1>2
<1>4. /\ d \in Buffers /\ d.offset = n + 1 /\ d.content = b.content /\ d.depth = b.depth
      /\ d.allocs = b.allocs
  BY <1>2, <1>3, MovedTo
<1>5. /\ e \in Buffers /\ e.offset = n /\ e.content = c.content /\ e.depth = c.depth
      /\ e.allocs = c.allocs
  BY <1>2, MovedTo
<1> HIDE DEF d, e
<1>6. Ready(d) /\ Ready(e)
  BY <1>1, <1>3, <1>4, <1>5 DEF Ready
<1>7. Shadows(d, e)
  BY <1>1, <1>4, <1>5, <1>6 DEF Shadows
<1> QED
  BY <1>7 DEF d, e

LEMMA ShadowSkipped ==
    ASSUME NEW b, NEW c, Shadows(b, c)
    PROVE  Shadows(buffer_skip_whitespace(b), buffer_skip_whitespace(c))
<1> DEFINE N == Len(b.content)
<1>1. /\ b \in Buffers /\ c \in Buffers /\ N \in Nat /\ N >= 2 /\ Len(c.content) = N - 1
      /\ b.offset \in Nat /\ c.offset \in Nat /\ c.offset = b.offset - 1
      /\ b.offset < N /\ c.offset < Len(c.content)
      /\ \A i \in 1..(N - 1) : c.content[i] = b.content[i + 1]
  BY ShadowFields
<1>2. PICK m : EndOfBlanks(c, m)
  BY <1>1, BlanksEnd
<1>3. /\ m \in c.offset..(N - 1)
      /\ \A i \in (c.offset + 1)..m : c.content[i] <= Space
      /\ m < N - 1 => c.content[m + 1] > Space
  BY <1>1, <1>2 DEF EndOfBlanks
<1>4. m \in Nat /\ m + 1 \in b.offset..N
  BY <1>1, <1>3
<1>5. EndOfBlanks(b, m + 1)
  <2>1. ASSUME NEW i \in (b.offset + 1)..(m + 1) PROVE b.content[i] <= Space
    <3>1. i - 1 \in (c.offset + 1)..m /\ i - 1 \in 1..(N - 1) /\ (i - 1) + 1 = i
      BY <1>1, <1>3
    <3> QED
      BY <1>1, <1>3, <3>1
  <2>2. ASSUME m + 1 < N PROVE b.content[(m + 1) + 1] > Space
    <3>1. m < N - 1 /\ m + 1 \in 1..(N - 1)
      BY <1>1, <1>3, <2>2
    <3> QED
      BY <1>1, <1>3, <3>1
  <2> QED
    BY <1>4, <2>1, <2>2 DEF EndOfBlanks
<1> DEFINE n == LastPlace(c, m)
<1>6. n \in Nat /\ n < Len(c.content) /\ LastPlace(b, m + 1) = n + 1
  <2>1. (m = N - 1) <=> (m + 1 = N)
    BY <1>1, <1>4
  <2>2. CASE m = N - 1
    BY <1>1, <1>4, <2>1, <2>2 DEF LastPlace
  <2>3. CASE m # N - 1
    BY <1>1, <1>3, <1>4, <2>1, <2>3 DEF LastPlace
  <2> QED
    BY <2>2, <2>3
<1> HIDE DEF n
<1>7. buffer_skip_whitespace(c) = [c EXCEPT !.offset = n]
  BY <1>1, <1>2, SkippedTo DEF n
<1>8. buffer_skip_whitespace(b) = [b EXCEPT !.offset = n + 1]
  BY <1>1, <1>5, <1>6, SkippedTo
<1> QED
  BY <1>6, <1>7, <1>8, ShadowPlaced

(* Where blanks have been skipped there are none left to skip.               *)
LEMMA SkipTwice ==
    ASSUME NEW b, Ready(b)
    PROVE  buffer_skip_whitespace(buffer_skip_whitespace(b)) = buffer_skip_whitespace(b)
<1> DEFINE N == Len(b.content)
<1>1. b \in Buffers /\ N \in Nat /\ N > 0 /\ b.content[N] = 0 /\ b.offset \in Nat /\ b.offset < N
  BY ReadyIs
<1>2. PICK n : EndOfBlanks(b, n)
  BY <1>1, BlanksEnd
<1> DEFINE k == LastPlace(b, n)
           c == [b EXCEPT !.offset = k]
<1>3. n \in b.offset..N /\ n \in Nat /\ (n < N => b.content[n + 1] > Space)
  BY <1>1, <1>2 DEF EndOfBlanks
<1>4. k \in Nat /\ k < N /\ (n = N => k = N - 1) /\ (n # N => k = n)
  BY <1>1, <1>3 DEF LastPlace
<1>5. buffer_skip_whitespace(b) = c
  BY <1>1, <1>2, SkippedTo
<1> HIDE DEF k
<1>6. c \in Buffers /\ c.offset = k /\ c.content = b.content
  BY <1>1, <1>4, MovedTo
<1>7. [c EXCEPT !.offset = k] = c
  BY <1>1 DEF Buffers
<1> HIDE DEF c
<1>8. EndOfBlanks(c, n)
  <2>1. CASE n = N
    <3>1. k = N - 1 /\ \A i \in (k + 1)..N : i = N
      BY <1>1, <1>4, <2>1
    <3>2. N \in k..N
      BY <1>1, <3>1
    <3>3. b.content[N] <= Space
      BY <1>1 DEF Space
    <3> QED
      BY <1>1, <1>6, <2>1, <3>1, <3>2, <3>3 DEF EndOfBlanks
  <2>2. CASE n # N
    <3>1. k = n /\ n \in n..N /\ (n + 1)..n = {}
      BY <1>3, <1>4, <2>2
    <3> QED
      BY <1>3, <1>6, <3>1 DEF EndOfBlanks
  <2> QED
    BY <2>1, <2>2
<1>9. LastPlace(c, n) = k
  BY <1>6 DEF LastPlace, k
<1>10. buffer_skip_whitespace(c) = c
  BY <1>1, <1>4, <1>6, <1>7, <1>8, <1>9, SkippedTo
<1> QED
  BY <1>5, <1>10

LEMMA TailSub ==
    ASSUME NEW s \in Seq(Nat), Len(s) >= 1, NEW m \in Nat, m >= 1, NEW n \in Nat, n <= Len(s) - 1
    PROVE  SubSeq(s, m + 1, n + 1) = SubSeq(Tail(s), m, n)
<1> DEFINE t == Tail(s)
           u == SubSeq(t, m, n)
           v == SubSeq(s, m + 1, n + 1)
<1>1. t \in Seq(Nat) /\ Len(t) = Len(s) - 1 /\ Len(s) \in Nat
      /\ \A i \in 1..(Len(s) - 1) : t[i] = s[i + 1]
  BY TailIs
<1>2. \A i \in m..n : t[i] \in Nat
  <2>1. \A i \in m..n : i \in 1..Len(t)
    BY <1>1
  <2> QED
    BY <1>1, <2>1, ElementOfSeq
<1>3. \A i \in (m + 1)..(n + 1) : s[i] \in Nat
  <2>1. \A i \in (m + 1)..(n + 1) : i \in 1..Len(s)
    BY <1>1
  <2> QED
    BY <2>1, ElementOfSeq
<1> HIDE DEF t
<1>4. /\ u \in Seq(Nat) /\ Len(u) = IF m <= n THEN n - m + 1 ELSE 0
      /\ \A i \in 1..(n - m + 1) : u[i] = t[m + i - 1]
  BY <1>2, SubSeqProperties
<1>5. /\ v \in Seq(Nat)
      /\ Len(v) = IF m + 1 <= n + 1 THEN (n + 1) - (m + 1) + 1 ELSE 0
      /\ \A i \in 1..((n + 1) - (m + 1) + 1) : v[i] = s[(m + 1) + i - 1]
  BY <1>3, SubSeqProperties
<1> HIDE DEF u, v
<1>6. Len(u) = Len(v) /\ Len(u) \in Nat
  BY <1>4, <1>5
<1>7. ASSUME NEW i \in 1..Len(u) PROVE u[i] = v[i]
  <2>1. /\ i \in 1..(n - m + 1) /\ i \in 1..((n + 1) - (m + 1) + 1) /\ m + i - 1 \in 1..(Len(s) - 1)
        /\ (m + 1) + i - 1 = (m + i - 1) + 1
    BY <1>1, <1>4
  <2> QED
    BY <1>1, <1>4, <1>5, <2>1
<1>8. u = v
  BY <1>4, <1>5, <1>6, <1>7, SeqEqual
<1> QED
  BY <1>8 DEF u, v, t

(* The bytes that parse_number copies.                                      *)
NumberEnd(b) ==
    IF b.offset + NumberSize - 1 < Len(b.content) THEN b.offset + NumberSize - 1 ELSE Len(b.content)

NumberBytes(b) == SubSeq(b.content, b.offset + 1, NumberEnd(b))

NumberMade(item, bytes, b) ==
    IF strtod(bytes) = 0 THEN Result(b, FALSE, item)
    ELSE Result(Moved(b, strtod(bytes)), TRUE,
                [item EXCEPT !.type = "Number", !.val = SubSeq(bytes, 1, strtod(bytes))])

LEMMA ShadowBytes ==
    ASSUME NEW b, NEW c, Shadows(b, c)
    PROVE  NumberBytes(b) = NumberBytes(c)
<1>1. /\ b.content \in Seq(Nat) /\ Len(b.content) \in Nat /\ Len(b.content) >= 2
      /\ Len(c.content) = Len(b.content) - 1
      /\ b.offset \in Nat /\ c.offset \in Nat /\ c.offset = b.offset - 1
      /\ b.offset < Len(b.content) /\ c.content = Tail(b.content)
  BY ShadowFields DEF Shadows
<1>2. NumberSize \in Nat /\ NumberSize >= 1
  BY ParseAssumption
<1>3. NumberEnd(b) = NumberEnd(c) + 1 /\ NumberEnd(c) \in Nat /\ NumberEnd(c) <= Len(b.content) - 1
  <2> DEFINE N == Len(b.content)
             M == Len(c.content)
             k == b.offset
             l == c.offset
  <2>1. /\ NumberEnd(b) = IF k + NumberSize - 1 < N THEN k + NumberSize - 1 ELSE N
        /\ NumberEnd(c) = IF l + NumberSize - 1 < M THEN l + NumberSize - 1 ELSE M
    BY DEF NumberEnd
  <2>2. N \in Nat /\ N >= 2 /\ M = N - 1 /\ k \in Nat /\ l \in Nat /\ l = k - 1
    BY <1>1
  <2> HIDE DEF N, M, k, l
  <2>3. NumberEnd(b) = NumberEnd(c) + 1 /\ NumberEnd(c) \in Nat /\ NumberEnd(c) <= N - 1
    BY <1>2, <2>1, <2>2
  <2> QED
    BY <2>3 DEF N
<1>4. b.offset + 1 = (c.offset + 1) + 1 /\ c.offset + 1 \in Nat /\ c.offset + 1 >= 1
      /\ Len(b.content) >= 1
  BY <1>1
<1> DEFINE n == NumberEnd(c)
           s == b.content
<1>5. n \in Nat /\ n <= Len(s) - 1 /\ s \in Seq(Nat) /\ Len(s) >= 1
  BY <1>1, <1>3
<1> HIDE DEF n
<1>6. SubSeq(s, (c.offset + 1) + 1, n + 1) = SubSeq(Tail(s), c.offset + 1, n)
  BY <1>4, <1>5, TailSub
<1>7. NumberEnd(b) = n + 1 /\ c.content = Tail(s)
  BY <1>1, <1>3 DEF n
<1> QED
  BY <1>4, <1>6, <1>7 DEF NumberBytes, n

LEMMA ShadowNumber ==
    ASSUME NEW b, NEW c, Shadows(b, c), NEW item \in Begun
    PROVE  Same(parse_number(item, b), parse_number(item, c))
<1> DEFINE bytes == NumberBytes(b)
           n == strtod(bytes)
           r == parse_number(item, b)
           q == parse_number(item, c)
<1>1. r = NumberMade(item, bytes, b) /\ q = NumberMade(item, bytes, c)
  <2>1. r = NumberMade(item, NumberBytes(b), b)
    BY DEF parse_number, NumberMade, NumberBytes, NumberEnd
  <2>2. q = NumberMade(item, NumberBytes(c), c)
    BY DEF parse_number, NumberMade, NumberBytes, NumberEnd
  <2> HIDE DEF r, q
  <2> QED
    BY <2>1, <2>2, ShadowBytes
<1>2. NumberRead(item, b, r) /\ Ready(b) /\ Ready(c)
  BY NumberIsRead DEF Shadows
<1> HIDE DEF r, q
<1>3. bytes \in Seq(Nat)
  <2>1. /\ b.content \in Seq(Nat) /\ Len(b.content) \in Nat /\ b.offset \in Nat
        /\ b.offset < Len(b.content)
    BY ShadowFields
  <2>2. NumberEnd(b) \in Nat /\ NumberEnd(b) <= Len(b.content)
    BY <2>1, ParseAssumption DEF NumberEnd
  <2>3. \A i \in (b.offset + 1)..NumberEnd(b) : i \in 1..Len(b.content)
    BY <2>1, <2>2
  <2>4. \A i \in (b.offset + 1)..NumberEnd(b) : b.content[i] \in Nat
    BY <2>1, <2>3, ElementOfSeq
  <2> QED
    BY <2>1, <2>2, <2>4, SubSeqProperties DEF NumberBytes
<1>4. n \in Nat
  <2>1. Len(bytes) \in Nat
    BY <1>3, LenProperties
  <2> HIDE DEF bytes
  <2> QED
    BY <1>3, <2>1, StrtodIs
<1> HIDE DEF bytes
<1>5. CASE n = 0
  <2>1. r.ok = FALSE
    BY <1>1, <1>5 DEF NumberMade, Result
  <2> QED
    BY <2>1 DEF Same, r
<1>6. CASE n # 0
  <2>1. r.b = Moved(b, n) /\ q.b = Moved(c, n) /\ q.ok = TRUE /\ r.ok = TRUE /\ q.item = r.item
    BY <1>1, <1>6 DEF NumberMade, Result
  <2>2. Ready(Moved(b, n))
    BY <1>2, <2>1 DEF NumberRead, Reads
  <2>3. /\ b \in Buffers /\ b.offset \in Nat /\ c.offset \in Nat
    BY ShadowFields
  <2>4. b.offset + n \in Nat /\ c.offset + n \in Nat /\ n \in Int
    BY <1>4, <2>3
  <2>5. b.offset + n < Len(b.content)
    BY <2>2, <2>3, <2>4, MovedBy, ReadyIs
  <2>6. Shadows(r.b, q.b)
    BY <2>1, <2>4, <2>5, ShadowMoved
  <2> QED
    BY <2>1, <2>6 DEF Same, r, q
<1> QED
  BY <1>5, <1>6

(* The walk over a string goes through the same places, one less.            *)
LEMMA TailBeyond ==
    ASSUME NEW s \in Seq(Nat), Len(s) >= 1, NEW i \in Nat, i >= 1
    PROVE  /\ Beyond(s, i + 1) = Beyond(Tail(s), i) + 1
           /\ Stops(s, i + 1) <=> Stops(Tail(s), i)
<1>1. Len(Tail(s)) = Len(s) - 1 /\ Len(s) \in Nat /\ \A j \in 1..(Len(s) - 1) : Tail(s)[j] = s[j + 1]
  BY TailIs
<1>2. CASE i > Len(s) - 1
  BY <1>1, <1>2 DEF Beyond, Stops
<1>3. CASE ~(i > Len(s) - 1)
  <2>1. i \in 1..(Len(s) - 1) /\ ~(i + 1 > Len(s)) /\ ~(i > Len(Tail(s)))
    BY <1>1, <1>3
  <2>2. Tail(s)[i] = s[i + 1]
    BY <1>1, <2>1
  <2>3. (i + 1) + 2 = (i + 2) + 1
    OBVIOUS
  <2> QED
    BY <2>1, <2>2, <2>3 DEF Beyond, Stops
<1> QED
  BY <1>2, <1>3

LEMMA TailQuote ==
    ASSUME NEW s \in Seq(Nat), Len(s) >= 1, NEW from \in Nat, from >= 1
    PROVE  ClosingQuote(s, from + 1)
              = IF ClosingQuote(Tail(s), from) = 0 THEN 0 ELSE ClosingQuote(Tail(s), from) + 1
<1> DEFINE t == Tail(s)
           M == Len(t)
<1>1. t \in Seq(Nat) /\ M \in Nat /\ Len(s) = M + 1
  BY TailIs, LenProperties
<1>2. from + 1 \in Nat /\ from + 1 >= 1
  OBVIOUS
<1>3. PICK a : /\ Walk(s, from + 1, a)
               /\ ClosingQuote(s, from + 1) = IF a[Len(s)] > Len(s) THEN 0 ELSE a[Len(s)]
  BY <1>2, QuoteIsWalkedTo
<1>4. PICK c : /\ Walk(t, from, c)
               /\ ClosingQuote(t, from) = IF c[M] > M THEN 0 ELSE c[M]
  BY <1>1, QuoteIsWalkedTo
<1> DEFINE T == {n \in 0..M : a[n] = c[n] + 1}
<1>5. 0 \in T
  BY <1>1, <1>3, <1>4 DEF Walk
<1>6. ASSUME NEW n \in 0..(M - 1), n \in T PROVE n + 1 \in T
  <2>1. n \in 0..M /\ n \in 0..(Len(s) - 1) /\ n + 1 \in 0..M
    BY <1>1
  <2>2. a[n + 1] = Beyond(s, a[n]) /\ a[n] = c[n] + 1
    BY <1>3, <1>6, <2>1 DEF Walk
  <2>3. c[n + 1] = Beyond(t, c[n]) /\ c[n] \in Nat /\ c[n] >= from
    BY <1>4, <2>1 DEF Walk
  <2>4. c[n] >= 1
    BY <2>3
  <2>5. Beyond(s, c[n] + 1) = Beyond(t, c[n]) + 1
    BY <1>1, <2>3, <2>4, TailBeyond
  <2> QED
    BY <2>1, <2>2, <2>3, <2>5
<1>7. T \in SUBSET (0..M)
  OBVIOUS
<1> HIDE DEF T
<1>8. T = 0..M
  BY <1>1, <1>5, <1>6, <1>7, UpTo
<1>9. M \in 0..M
  BY <1>1
<1>10. a[M] = c[M] + 1
  BY <1>8, <1>9 DEF T
<1>11. c[M] \in Nat /\ c[M] >= from /\ (c[M] >= from + M \/ Stops(t, c[M]))
  BY <1>4, <1>9 DEF Walk
<1>12. a[M + 1] = a[M]
  <2>1. a[M + 1] = Beyond(s, a[M])
    BY <1>1, <1>3, <1>9 DEF Walk
  <2>2. Stops(s, a[M])
    <3>1. CASE c[M] >= from + M
      BY <1>1, <1>10, <1>11, <3>1 DEF Stops
    <3>2. CASE Stops(t, c[M])
      <4>1. c[M] \in Nat /\ c[M] >= 1
        BY <1>11
      <4>2. Stops(s, c[M] + 1)
        BY <3>2, <4>1, TailBeyond
      <4> QED
        BY <1>10, <4>2
    <3> QED
      BY <1>11, <3>1, <3>2
  <2> QED
    BY <2>1, <2>2 DEF Beyond, Stops
<1> HIDE DEF M, t
<1>13. ClosingQuote(s, from + 1) = IF c[M] + 1 > M + 1 THEN 0 ELSE c[M] + 1
  BY <1>1, <1>3, <1>10, <1>12
<1>14. ClosingQuote(t, from) = IF c[M] > M THEN 0 ELSE c[M]
  BY <1>4
<1> QED
  BY <1>1, <1>11, <1>13, <1>14 DEF t

-----------------------------------------------------------------------------
(* The literals after a backslash are the same.                              *)
LEMMA TailLiteral ==
    ASSUME NEW s \in Seq(Nat), Len(s) >= 1, NEW at \in Nat, at >= 1,
           NEW end \in Nat, end <= Len(s) - 1
    PROVE  /\ IsLiteral(s, at + 1, end + 1) <=> IsLiteral(Tail(s), at, end)
           /\ IsLiteral(Tail(s), at, end) => CodeAt(s, at + 1) = CodeAt(Tail(s), at)
<1> DEFINE t == Tail(s)
<1>1. Len(s) \in Nat /\ Len(t) = Len(s) - 1 /\ t \in Seq(Nat)
      /\ \A j \in 1..(Len(s) - 1) : t[j] = s[j + 1]
  BY TailIs
<1>2. (at + 1) + 6 <= end + 1 <=> at + 6 <= end
  OBVIOUS
<1> HIDE DEF t
<1>3. CASE ~(at + 6 <= end)
  BY <1>2, <1>3 DEF IsLiteral, t
<1>4. CASE at + 6 <= end
  <2>1. at \in 1..(Len(s) - 1) /\ at + 1 \in 1..(Len(s) - 1)
    BY <1>1, <1>4
  <2>2. s[at + 1] = t[at] /\ s[(at + 1) + 1] = t[at + 1]
    BY <1>1, <2>1
  <2>3. at + 2 \in Nat /\ at + 2 >= 1 /\ at + 5 \in Nat /\ at + 5 <= Len(s) - 1
    <3>1. Len(s) \in Nat
      BY <1>1
    <3>2. at + 5 <= end
      BY <1>4
    <3> QED
      BY <3>1, <3>2
  <2>4. (at + 1) + 2 = (at + 2) + 1 /\ (at + 1) + 5 = (at + 5) + 1
    OBVIOUS
  <2>5. SubSeq(s, (at + 2) + 1, (at + 5) + 1) = SubSeq(Tail(s), at + 2, at + 5)
    BY <2>3, TailSub
  <2>6. CodeAt(s, at + 1) = CodeAt(t, at)
    BY <2>4, <2>5 DEF CodeAt, t
  <2> QED
    BY <1>2, <1>4, <2>2, <2>6 DEF IsLiteral, t
<1> QED
  BY <1>3, <1>4

LEMMA TailCodes ==
    ASSUME NEW s \in Seq(Nat), Len(s) >= 1, NEW at \in Nat, at >= 1,
           NEW end \in Nat, end <= Len(s) - 1
    PROVE  CodesFrom(s, at + 1, end + 1) = CodesFrom(Tail(s), at, end)
<1>1. /\ IsLiteral(s, at + 1, end + 1) <=> IsLiteral(Tail(s), at, end)
      /\ IsLiteral(Tail(s), at, end) => CodeAt(s, at + 1) = CodeAt(Tail(s), at)
  BY TailLiteral
<1>2. at + 6 \in Nat /\ at + 6 >= 1 /\ (at + 1) + 6 = (at + 6) + 1
  OBVIOUS
<1>3. /\ IsLiteral(s, (at + 6) + 1, end + 1) <=> IsLiteral(Tail(s), at + 6, end)
      /\ IsLiteral(Tail(s), at + 6, end) => CodeAt(s, (at + 6) + 1) = CodeAt(Tail(s), at + 6)
  BY <1>2, TailLiteral
<1> QED
  BY <1>1, <1>2, <1>3 DEF CodesFrom

(* v is, in the rest of the text, where u is in the text.                     *)
Behind(u, v) ==
    u.at = v.at + 1 /\ u.bytes = v.bytes /\ (u.bad = 0 <=> v.bad = 0)

Unescaper == [at : Nat, bytes : Seq(Nat), bad : Nat]

Onward(u, n, bytes) == [u EXCEPT !.at = @ + n, !.bytes = bytes]

LEMMA BehindMoved ==
    ASSUME NEW u \in Unescaper, NEW v \in Unescaper, Behind(u, v), NEW n \in Nat, NEW bytes
    PROVE  Behind(Onward(u, n, bytes), Onward(v, n, bytes))
<1>1. /\ u.at \in Nat /\ v.at \in Nat
      /\ [u EXCEPT !.at = @ + n, !.bytes = bytes].at = u.at + n
      /\ [v EXCEPT !.at = @ + n, !.bytes = bytes].at = v.at + n
      /\ [u EXCEPT !.at = @ + n, !.bytes = bytes].bytes = bytes
      /\ [v EXCEPT !.at = @ + n, !.bytes = bytes].bytes = bytes
      /\ [u EXCEPT !.at = @ + n, !.bytes = bytes].bad = u.bad
      /\ [v EXCEPT !.at = @ + n, !.bytes = bytes].bad = v.bad
  BY DEF Unescaper
<1> DEFINE a == [u EXCEPT !.at = @ + n, !.bytes = bytes]
           c == [v EXCEPT !.at = @ + n, !.bytes = bytes]
<1> HIDE DEF a, c
<1>2. /\ a.at = u.at + n /\ c.at = v.at + n /\ a.bytes = bytes /\ c.bytes = bytes
      /\ a.bad = u.bad /\ c.bad = v.bad
  BY <1>1 DEF a, c
<1>3. u.at + n = (v.at + n) + 1
  BY <1>1 DEF Behind
<1>4. Behind(a, c)
  BY <1>2, <1>3 DEF Behind
<1> QED
  BY <1>4 DEF a, c, Onward

LEMMA TailUnescaped ==
    ASSUME NEW s \in Seq(Nat), Len(s) >= 1, NEW end \in Nat, end <= Len(s) - 1,
           NEW u \in Unescaper, NEW v \in Unescaper, Behind(u, v), v.at >= 1, v.at < end
    PROVE  Behind(UnescapeStep(s, end + 1, u), UnescapeStep(Tail(s), end, v))
<1> DEFINE t == Tail(s)
           symbol == t[v.at]
           next == t[v.at + 1]
           codes == CodesFrom(t, v.at, end)
<1>1. Len(s) \in Nat /\ \A j \in 1..(Len(s) - 1) : t[j] = s[j + 1]
  BY TailIs
<1>2. v.at \in Nat /\ u.at = v.at + 1 /\ u.bytes = v.bytes /\ u.at \in Nat /\ u.at # 0
  BY DEF Unescaper, Behind
<1>3. v.at \in 1..(Len(s) - 1) /\ v.at + 1 \in 1..(Len(s) - 1)
  BY <1>1, <1>2
<1>4. s[u.at] = symbol /\ s[u.at + 1] = next
  BY <1>1, <1>2, <1>3
<1>5. CodesFrom(s, u.at, end + 1) = codes
  BY <1>2, TailCodes
<1> HIDE DEF symbol, next, codes
<1> DEFINE Step(w) ==
               IF symbol # Backslash
               THEN [w EXCEPT !.at = @ + 1, !.bytes = Append(@, symbol)]
               ELSE IF next \in DOMAIN Unescaped
               THEN [w EXCEPT !.at = @ + 2, !.bytes = Append(@, Unescaped[next])]
               ELSE IF CodesUsed(codes) > 0
               THEN [w EXCEPT !.at = @ + 6 * CodesUsed(codes),
                              !.bytes = @ \o utf16_literal_to_utf8(codes)]
               ELSE [w EXCEPT !.bad = w.at]
<1>6. UnescapeStep(s, end + 1, u) = Step(u)
  BY <1>4, <1>5 DEF UnescapeStep
<1>7. UnescapeStep(t, end, v) = Step(v)
  BY DEF UnescapeStep, symbol, next, codes
<1>8. CASE symbol # Backslash
  <2>1. /\ Step(u) = Onward(u, 1, Append(v.bytes, symbol))
        /\ Step(v) = Onward(v, 1, Append(v.bytes, symbol))
    BY <1>2, <1>8 DEF Onward
  <2> HIDE DEF Step, t
  <2> QED
    BY <1>6, <1>7, <2>1, BehindMoved DEF t
<1>9. CASE symbol = Backslash /\ next \in DOMAIN Unescaped
  <2>1. /\ Step(u) = Onward(u, 2, Append(v.bytes, Unescaped[next]))
        /\ Step(v) = Onward(v, 2, Append(v.bytes, Unescaped[next]))
    BY <1>2, <1>9 DEF Onward
  <2> HIDE DEF Step, t
  <2> QED
    BY <1>6, <1>7, <2>1, BehindMoved DEF t
<1>10. CASE symbol = Backslash /\ next \notin DOMAIN Unescaped /\ CodesUsed(codes) > 0
  <2> DEFINE n == 6 * CodesUsed(codes)
             bytes == v.bytes \o utf16_literal_to_utf8(codes)
  <2>1. /\ Step(u) = Onward(u, n, bytes)
        /\ Step(v) = Onward(v, n, bytes)
    BY <1>2, <1>10 DEF Onward
  <2>2. n \in Nat
    BY DEF CodesUsed
  <2> HIDE DEF Step, t, n, bytes
  <2> QED
    BY <1>6, <1>7, <2>1, <2>2, BehindMoved DEF t
<1>11. CASE symbol = Backslash /\ next \notin DOMAIN Unescaped /\ ~(CodesUsed(codes) > 0)
  <2>1. Step(u) = [u EXCEPT !.bad = u.at] /\ Step(v) = [v EXCEPT !.bad = v.at]
    BY <1>11
  <2>2. /\ [u EXCEPT !.bad = u.at].at = u.at /\ [v EXCEPT !.bad = v.at].at = v.at
        /\ [u EXCEPT !.bad = u.at].bytes = u.bytes /\ [v EXCEPT !.bad = v.at].bytes = v.bytes
        /\ [u EXCEPT !.bad = u.at].bad = u.at /\ [v EXCEPT !.bad = v.at].bad = v.at
    BY DEF Unescaper
  <2> HIDE DEF Step, t
  <2>3. Behind([u EXCEPT !.bad = u.at], [v EXCEPT !.bad = v.at])
    BY <1>2, <2>2 DEF Behind
  <2> QED
    BY <1>6, <1>7, <2>1, <2>3 DEF t
<1> QED
  BY <1>8, <1>9, <1>10, <1>11

LEMMA TailUnescape ==
    ASSUME NEW s \in Seq(Nat), Len(s) >= 1, NEW from \in Nat, from >= 1,
           NEW end \in from..(Len(s) - 1)
    PROVE  Behind(Unescape(s, from + 1, end + 1), Unescape(Tail(s), from, end))
<1> DEFINE t == Tail(s)
           N == end - from
<1>1. /\ t \in Seq(Nat) /\ Len(t) = Len(s) - 1 /\ Len(s) \in Nat /\ end \in Nat
      /\ end \in from..Len(t) /\ end + 1 \in (from + 1)..Len(s) /\ end <= Len(s) - 1
      /\ from + 1 \in Nat /\ from + 1 >= 1 /\ (end + 1) - (from + 1) = N /\ N \in Nat
  BY TailIs
<1>2. PICK a : /\ UnescapeRun(s, from + 1, end + 1, a)
               /\ Unescape(s, from + 1, end + 1) = a[(end + 1) - (from + 1)]
  BY <1>1, UnescapeRuns
<1>3. PICK c : /\ UnescapeRun(t, from, end, c)
               /\ Unescape(t, from, end) = c[end - from]
  BY <1>1, UnescapeRuns
<1> DEFINE T == {n \in 0..N : Behind(a[n], c[n])}
<1>4. 0 \in T
  <2>1. a[0] = [at |-> from + 1, bytes |-> <<>>, bad |-> 0]
        /\ c[0] = [at |-> from, bytes |-> <<>>, bad |-> 0]
    BY <1>2, <1>3 DEF UnescapeRun
  <2>2. Behind(a[0], c[0])
    BY <2>1 DEF Behind
  <2> QED
    BY <1>1, <2>2
<1>5. ASSUME NEW n \in 0..(N - 1), n \in T PROVE n + 1 \in T
  <2>1. n \in 0..N /\ n + 1 \in 0..N /\ n \in 0..((end + 1) - (from + 1) - 1)
        /\ n \in 0..((end + 1) - (from + 1)) /\ n \in 0..(end - from) /\ n \in 0..(end - from - 1)
    BY <1>1
  <2> DEFINE u == a[n]
             v == c[n]
  <2>2. u \in Unescapings(from + 1, end + 1) /\ v \in Unescapings(from, end)
        /\ a[n + 1] = UnescapeOn(s, end + 1, u) /\ c[n + 1] = UnescapeOn(t, end, v)
    BY <1>2, <1>3, <2>1 DEF UnescapeRun
  <2>3. Behind(u, v)
    BY <1>5
  <2> HIDE DEF u, v
  <2>4. u \in Unescaper /\ v \in Unescaper /\ v.at >= from /\ v.at \in Nat
    BY <2>2 DEF Unescapings, Unescaper
  <2>5. (u.at >= end + 1) <=> (v.at >= end)
    BY <1>1, <2>3, <2>4 DEF Behind
  <2>6. CASE v.at >= end \/ v.bad # 0
    <3>1. UnescapeOn(t, end, v) = v
      BY <2>6 DEF UnescapeOn
    <3>2. UnescapeOn(s, end + 1, u) = u
      BY <2>3, <2>5, <2>6 DEF UnescapeOn, Behind
    <3> HIDE DEF t, N
    <3> QED
      BY <2>1, <2>2, <2>3, <3>1, <3>2
  <2>7. CASE ~(v.at >= end \/ v.bad # 0)
    <3>1. UnescapeOn(t, end, v) = UnescapeStep(t, end, v)
      BY <2>7 DEF UnescapeOn
    <3>2. UnescapeOn(s, end + 1, u) = UnescapeStep(s, end + 1, u)
      BY <2>3, <2>5, <2>7 DEF UnescapeOn, Behind
    <3>3. v.at >= 1 /\ v.at < end
      BY <1>1, <2>4, <2>7
    <3>4. Behind(UnescapeStep(s, end + 1, u), UnescapeStep(t, end, v))
      BY <1>1, <2>3, <2>4, <3>3, TailUnescaped
    <3> HIDE DEF t, N
    <3> QED
      BY <2>1, <2>2, <3>1, <3>2, <3>4
  <2> QED
    BY <2>6, <2>7
<1>6. T \in SUBSET (0..N)
  OBVIOUS
<1> HIDE DEF T, N
<1>7. T = 0..N
  BY <1>1, <1>4, <1>5, <1>6, UpTo
<1>8. N \in T
  BY <1>1, <1>7
<1>9. Behind(a[N], c[N])
  BY <1>8 DEF T
<1> QED
  BY <1>1, <1>2, <1>3, <1>9 DEF N

LEMMA ShadowString ==
    ASSUME NEW b, NEW c, Shadows(b, c), NEW item \in Begun
    PROVE  Same(parse_string(item, b), parse_string(item, c))
<1> DEFINE s == b.content
           from == c.offset + 2
           end == ClosingQuote(c.content, from)
           last == ClosingQuote(s, b.offset + 2)
           u == Unescape(s, b.offset + 2, last)
           v == Unescape(c.content, from, end)
           r == parse_string(item, b)
           q == parse_string(item, c)
<1>1. /\ b \in Buffers /\ c \in Buffers /\ s \in Seq(Nat) /\ c.content \in Seq(Nat)
      /\ Len(s) \in Nat /\ Len(s) >= 2 /\ Len(c.content) = Len(s) - 1
      /\ b.offset \in Nat /\ c.offset \in Nat /\ c.offset = b.offset - 1
      /\ s[Len(s)] = 0
      /\ \A i \in 1..(Len(s) - 1) : c.content[i] = s[i + 1]
      /\ c.content = Tail(s)
  BY ShadowFields DEF Shadows
<1>2. from \in Nat /\ from >= 1 /\ b.offset + 2 = from + 1 /\ Len(s) >= 1
  BY <1>1
<1>3. last = IF end = 0 THEN 0 ELSE end + 1
  BY <1>1, <1>2, TailQuote
<1>4. end = 0 \/ (end \in from..Len(c.content) /\ c.content[end] = Quote)
  BY <1>1, <1>2, QuoteIsInside
<1>5. r = StringUpTo(item, b, last) /\ q = StringUpTo(item, c, end)
  BY DEF parse_string
<1>6. StringUpTo(item, b, last)
        = IF At(b) # Quote \/ last = 0 \/ ~Granted(b) THEN Result(Moved(b, 1), FALSE, item)
          ELSE StringOf(item, b, last, u)
  BY DEF StringUpTo
<1>7. StringUpTo(item, c, end)
        = IF At(c) # Quote \/ end = 0 \/ ~Granted(c) THEN Result(Moved(c, 1), FALSE, item)
          ELSE StringOf(item, c, end, v)
  BY DEF StringUpTo
<1> HIDE DEF r, q, end, last
<1>8. CASE At(b) # Quote \/ last = 0 \/ ~Granted(b) \/ u.bad # 0
  <2>1. r.ok = FALSE
    BY <1>5, <1>6, <1>8 DEF StringOf, Result
  <2> QED
    BY <2>1 DEF Same, r
<1>9. CASE ~(At(b) # Quote \/ last = 0 \/ ~Granted(b) \/ u.bad # 0)
  <2>1. end # 0 /\ last = end + 1 /\ end \in from..(Len(s) - 1)
    BY <1>1, <1>3, <1>4, <1>9
  <2>2. Behind(u, v)
    <3>1. Behind(Unescape(s, from + 1, end + 1), Unescape(Tail(s), from, end))
      BY <1>1, <1>2, <2>1, TailUnescape
    <3> QED
      BY <1>1, <1>2, <2>1, <3>1
  <2> HIDE DEF u, v
  <2>3. At(c) = Quote /\ Granted(c) /\ Shadows(Taken(b), Taken(c)) /\ v.bad = 0 /\ u.bytes = v.bytes
    BY <1>9, <2>2, ShadowAt, ShadowTaken DEF Behind
  <2>4. r = StringOf(item, b, last, u) /\ q = StringOf(item, c, end, v)
    BY <1>5, <1>6, <1>7, <1>9, <2>1, <2>3
  <2>5. /\ r.b = [Taken(b) EXCEPT !.offset = end + 1] /\ q.b = [Taken(c) EXCEPT !.offset = end]
        /\ q.ok = TRUE /\ q.item = r.item
    BY <1>9, <2>1, <2>3, <2>4 DEF StringOf, Result
  <2>6. end \in Nat /\ end < Len(c.content)
    <3>1. c.content[Len(s) - 1] = 0
      <4>1. Len(s) - 1 \in 1..(Len(s) - 1) /\ (Len(s) - 1) + 1 = Len(s)
        BY <1>1
      <4> QED
        BY <1>1, <4>1
    <3>2. end # Len(s) - 1
      BY <1>4, <2>1, <3>1 DEF Quote
    <3>3. end \in Nat /\ end <= Len(s) - 1
      BY <1>1, <1>2, <2>1
    <3>4. end < Len(s) - 1
      BY <1>1, <3>2, <3>3
    <3> QED
      BY <1>1, <3>3, <3>4
  <2>7. Taken(c).content = c.content
    BY <1>1, <2>3, TakenOne
  <2>8. Shadows(r.b, q.b)
    BY <2>3, <2>5, <2>6, <2>7, ShadowPlaced
  <2> QED
    BY <2>5, <2>8 DEF Same, r, q
<1> QED
  BY <1>8, <1>9

-----------------------------------------------------------------------------
LEMMA ShadowColon ==
    ASSUME NEW b, NEW c, Shadows(b, c), NEW child
    PROVE  Same(NameAndColon(b, child), NameAndColon(c, child))
<1> DEFINE r == NameAndColon(b, child)
           q == NameAndColon(c, child)
<1>1. At(b) = At(c)
  BY ShadowAt
<1>2. CASE At(b) # Colon
  <2>1. r.ok = FALSE
    BY <1>2 DEF NameAndColon, Result
  <2> QED
    BY <2>1 DEF Same
<1>3. CASE At(b) = Colon
  <2>1. Shadows(Moved(b, 1), Moved(c, 1))
    <3>1. b \in Buffers /\ b.offset \in Nat /\ c.offset \in Nat /\ Ready(b)
      BY ShadowFields DEF Shadows
    <3>2. b.offset + 1 < Len(b.content) /\ c.offset + 1 \in Nat
      BY <1>3, <3>1, ReadyIs DEF Colon
    <3> QED
      BY <3>2, ShadowMoved
  <2>2. Shadows(buffer_skip_whitespace(Moved(b, 1)), buffer_skip_whitespace(Moved(c, 1)))
    BY <2>1, ShadowSkipped
  <2>3. /\ r.b = buffer_skip_whitespace(Moved(b, 1)) /\ q.b = buffer_skip_whitespace(Moved(c, 1))
        /\ q.ok = TRUE /\ q.item = r.item
    BY <1>1, <1>3 DEF NameAndColon, Result
  <2> HIDE DEF r, q
  <2>4. Same(r, q)
    BY <2>2, <2>3 DEF Same
  <2> QED
    BY <2>4 DEF r, q
<1> QED
  BY <1>2, <1>3

LEMMA ShadowName ==
    ASSUME NEW b, NEW c, Shadows(b, c)
    PROVE  Same(ParseName(b), ParseName(c))
<1> DEFINE m == parse_string(Blank, b)
           n == parse_string(Blank, c)
<1>1. Same(m, n)
  BY ShadowString, BlankIs
<1>2. ParseName(b) = NameOf(m) /\ ParseName(c) = NameOf(n)
  BY DEF ParseName
<1> HIDE DEF m, n
<1>3. CASE ~m.ok
  BY <1>2, <1>3 DEF NameOf, Same
<1>4. CASE m.ok
  <2>1. n.ok /\ n.item = m.item /\ Shadows(m.b, n.b)
    BY <1>1, <1>4 DEF Same
  <2>2. Shadows(buffer_skip_whitespace(m.b), buffer_skip_whitespace(n.b))
    BY <2>1, ShadowSkipped
  <2> DEFINE child == [m.item EXCEPT !.val = NULL, !.name = m.item.val]
  <2>3. /\ NameOf(m) = NameAndColon(buffer_skip_whitespace(m.b), child)
        /\ NameOf(n) = NameAndColon(buffer_skip_whitespace(n.b), child)
    BY <1>4, <2>1 DEF NameOf
  <2> HIDE DEF child
  <2> QED
    BY <1>2, <2>2, <2>3, ShadowColon
<1> QED
  BY <1>3, <1>4

(* The elements read in the text are those read in the rest of it.            *)
Matching(e, f) ==
    e.ok => /\ f.ok /\ f.item = e.item /\ f.more = e.more /\ Shadows(e.b, f.b)

ShadowReader(inner, within, d) ==
    \A item \in Begun : \A b, c :
        Shadows(b, c) /\ b.depth = d =>
            Same(inner[[item |-> item, b |-> b]], within[[item |-> item, b |-> c]])

LEMMA FailedFields ==
    ASSUME NEW b, NEW list
    PROVE  Failed(b, list).ok = FALSE /\ Failed(b, list).more = FALSE
BY DEF Failed, Elements

LEMMA ShadowNext ==
    ASSUME NEW b, NEW c, Shadows(b, c), NEW list, NEW close
    PROVE  Matching(ParseNext(b, list, close), ParseNext(c, list, close))
<1>1. At(b) = At(c)
  BY ShadowAt
<1>2. CASE At(b) = Comma
  BY <1>1, <1>2 DEF ParseNext, Elements, Matching
<1>3. CASE At(b) # Comma /\ At(b) = close
  BY <1>1, <1>3 DEF ParseNext, Elements, Matching
<1>4. CASE At(b) # Comma /\ At(b) # close
  BY <1>4, FailedFields DEF ParseNext, Matching
<1> QED
  BY <1>2, <1>3, <1>4

LEMMA ShadowValue ==
    ASSUME NEW r, NEW q, Same(r, q), NEW list, NEW close
    PROVE  Matching(ParsedElement(r, list, close), ParsedElement(q, list, close))
<1>1. CASE ~r.ok
  BY <1>1, FailedFields DEF ParsedElement, Matching
<1>2. CASE r.ok
  <2>1. q.ok /\ q.item = r.item /\ Shadows(r.b, q.b)
    BY <1>2 DEF Same
  <2>2. Shadows(buffer_skip_whitespace(r.b), buffer_skip_whitespace(q.b))
    BY <2>1, ShadowSkipped
  <2> DEFINE l == Append(list, r.item)
  <2>3. /\ ParsedElement(r, list, close) = ParseNext(buffer_skip_whitespace(r.b), l, close)
        /\ ParsedElement(q, list, close) = ParseNext(buffer_skip_whitespace(q.b), l, close)
    BY <1>2, <2>1 DEF ParsedElement
  <2> HIDE DEF l
  <2> QED
    BY <2>2, <2>3, ShadowNext
<1> QED
  BY <1>1, <1>2

LEMMA ShadowElement ==
    ASSUME NEW r, NEW q, Same(r, q), NEW list, NEW close, NEW inner, NEW within, NEW d,
           ShadowReader(inner, within, d), r.ok => r.item \in Begun /\ r.b.depth = d
    PROVE  Matching(NamedElement(r, list, close, inner), NamedElement(q, list, close, within))
<1>1. CASE ~r.ok
  BY <1>1, FailedFields DEF NamedElement, Matching
<1>2. CASE r.ok
  <2>1. q.ok /\ q.item = r.item /\ Shadows(r.b, q.b)
    BY <1>2 DEF Same
  <2> DEFINE x == inner[[item |-> r.item, b |-> r.b]]
             y == within[[item |-> r.item, b |-> q.b]]
  <2>2. Same(x, y)
    BY <1>2, <2>1 DEF ShadowReader
  <2>3. /\ NamedElement(r, list, close, inner) = ParsedElement(x, list, close)
        /\ NamedElement(q, list, close, within) = ParsedElement(y, list, close)
    BY <1>2, <2>1 DEF NamedElement
  <2> HIDE DEF x, y
  <2> QED
    BY <2>2, <2>3, ShadowValue
<1> QED
  BY <1>1, <1>2

(* One more element of a list, an object's with its name.                    *)
LEMMA ShadowMember ==
    ASSUME NEW e, NEW f, Matching(e, f), e.ok, e.b.offset + 1 < Len(e.b.content),
           NEW close, NEW inner, NEW within, NEW d, ShadowReader(inner, within, d),
           e.b.depth = d, Levels >= 1
    PROVE  Matching(ParseElement(e, close, inner), ParseElement(f, close, within))
<1>1. f.ok /\ f.item = e.item /\ Shadows(e.b, f.b)
  BY DEF Matching
<1>2. CASE ~Granted(e.b)
  BY <1>2, FailedFields DEF ParseElement, Matching
<1>3. CASE Granted(e.b)
  <2> DEFINE m == Taken(e.b)
             n == Taken(f.b)
             first == buffer_skip_whitespace(Moved(m, 1))
             start == buffer_skip_whitespace(Moved(n, 1))
             named == IF close = CloseObject THEN ParseName(first) ELSE Result(first, TRUE, Blank)
             called == IF close = CloseObject THEN ParseName(start) ELSE Result(start, TRUE, Blank)
             list == e.item
  <2>1. Granted(f.b) /\ Shadows(m, n)
    BY <1>1, <1>3, ShadowTaken
  <2>2. /\ ParseElement(e, close, inner) = NamedElement(named, list, close, inner)
        /\ ParseElement(f, close, within) = NamedElement(called, list, close, within)
    BY <1>1, <1>3, <2>1 DEF ParseElement
  <2>3. m.offset = e.b.offset /\ m.content = e.b.content /\ m.depth = e.b.depth
    BY <1>1, <1>3, ShadowFields, TakenOne
  <2> HIDE DEF m, n
  <2>4. m \in Buffers /\ m.offset \in Nat /\ n.offset \in Nat /\ Ready(m)
    BY <2>1, ShadowFields DEF Shadows
  <2>5. Shadows(Moved(m, 1), Moved(n, 1)) /\ Moved(m, 1).depth = d /\ Ready(Moved(m, 1))
    <3>1. m.offset + 1 < Len(m.content) /\ n.offset + 1 \in Nat /\ m.offset + 1 \in Nat
      BY <2>3, <2>4
    <3> QED
      BY <2>1, <2>3, <2>4, <3>1, ShadowMoved, MovedBy DEF Shadows
  <2>6. Shadows(first, start) /\ first.depth = d /\ Ready(first)
    BY <2>5, ShadowSkipped, SkipReady
  <2> HIDE DEF first, start
  <2>7. Same(named, called) /\ (named.ok => named.item \in Begun /\ named.b.depth = d)
    <3>1. CASE close = CloseObject
      <4>1. named = ParseName(first) /\ called = ParseName(start)
        BY <3>1
      <4>2. NameRead(first, ParseName(first))
        BY <2>6, NameIsRead
      <4> HIDE DEF named, called
      <4> QED
        BY <2>6, <4>1, <4>2, ShadowName DEF NameRead, Reads
    <3>2. CASE close # CloseObject
      <4>1. named = Result(first, TRUE, Blank) /\ called = Result(start, TRUE, Blank)
        BY <3>2
      <4> HIDE DEF named, called
      <4> QED
        BY <2>6, <4>1, BlankIs DEF Same, Result
    <3> QED
      BY <3>1, <3>2
  <2> HIDE DEF named, called, list
  <2> QED
    BY <2>2, <2>7, ShadowElement
<1> QED
  BY <1>2, <1>3

LEMMA ReadingFields ==
    ASSUME NEW b \in Buffers, NEW close, NEW k, NEW n, NEW e \in Reading(b, close, k, n)
    PROVE  /\ e.ok \in BOOLEAN /\ e.more \in BOOLEAN /\ e.b \in Buffers
           /\ e.more => e.ok /\ e.b.offset >= b.offset + n
           /\ e.ok => /\ Ready(e.b) /\ e.b.depth = b.depth /\ e.b.content = b.content
                      /\ e.b.offset + 1 < Len(b.content) /\ e.b.offset >= b.offset
BY DEF Reading, Later

LEMMA ShadowElements ==
    ASSUME NEW b, NEW c, Shadows(b, c), b.offset + 1 < Len(b.content),
           NEW close \in {CloseArray, CloseObject}, NEW k \in 1..Levels, NEW j \in 1..Levels,
           NEW inner, Reader(inner, k, b.depth), NEW within, Reader(within, j, c.depth),
           ShadowReader(inner, within, b.depth)
    PROVE  Matching(ParseElements(b, close, inner), ParseElements(c, close, within))
<1> DEFINE N == Len(b.content)
           M == Len(c.content)
<1>1. /\ b \in Buffers /\ c \in Buffers /\ N \in Nat /\ M \in Nat /\ N = M + 1
      /\ b.offset \in Nat /\ b.offset >= 1 /\ c.offset + 1 < M
      /\ Ready(b) /\ Ready(c) /\ Levels >= 1
  <2>1. /\ b \in Buffers /\ c \in Buffers /\ N \in Nat /\ N >= 2 /\ M = N - 1
        /\ b.offset \in Nat /\ c.offset \in Nat /\ c.offset = b.offset - 1
    BY ShadowFields
  <2>2. Ready(b) /\ Ready(c)
    BY DEF Shadows
  <2>3. Levels >= 1
    BY TextAssumption
  <2>4. b.offset + 1 < N
    OBVIOUS
  <2> HIDE DEF N, M
  <2>5. M \in Nat /\ N = M + 1 /\ b.offset >= 1 /\ c.offset + 1 < M
    BY <2>1, <2>4
  <2> QED
    BY <2>1, <2>2, <2>3, <2>5
<1>2. PICK a : ListRun(b, close, k, inner, a) /\ ParseElements(b, close, inner) = a[N]
  BY <1>1, ElementsRun
<1>3. PICK g : ListRun(c, close, j, within, g) /\ ParseElements(c, close, within) = g[M]
  BY <1>1, ElementsRun
<1> HIDE DEF N, M
<1>4. /\ a[0] = Elements(b, TRUE, <<>>, TRUE) /\ g[0] = Elements(c, TRUE, <<>>, TRUE)
      /\ \A n \in 0..N : a[n] \in Reading(b, close, k, n)
      /\ \A n \in 0..(N - 1) : a[n + 1] = OneElement(a[n], close, inner)
      /\ \A n \in 0..M : g[n] \in Reading(c, close, j, n)
      /\ \A n \in 0..(M - 1) : g[n + 1] = OneElement(g[n], close, within)
  BY <1>2, <1>3 DEF ListRun, N, M
<1> DEFINE T == {n \in 0..M : Matching(a[n], g[n])}
<1>5. 0 \in T
  <2>1. Matching(a[0], g[0])
    BY <1>4 DEF Matching, Elements
  <2> QED
    BY <1>1, <2>1
<1>6. ASSUME NEW n \in 0..(M - 1), n \in T PROVE n + 1 \in T
  <2> DEFINE e == a[n]
             f == g[n]
  <2>1. n \in 0..N /\ n \in 0..(N - 1) /\ n \in 0..M /\ n + 1 \in 0..M
    BY <1>1
  <2>2. /\ e \in Reading(b, close, k, n) /\ f \in Reading(c, close, j, n)
        /\ a[n + 1] = OneElement(e, close, inner) /\ g[n + 1] = OneElement(f, close, within)
        /\ Matching(e, f)
    BY <1>4, <1>6, <2>1
  <2> HIDE DEF e, f, T
  <2>3. Matching(a[n + 1], g[n + 1])
    <3>1. CASE e.more
      <4>1. e.ok /\ e.b.depth = b.depth /\ e.b.content = b.content /\ e.b.offset + 1 < Len(b.content)
        BY <1>1, <2>2, <3>1, ReadingFields
      <4>2. f.more
        BY <2>2, <3>1, <4>1 DEF Matching
      <4>3. Matching(ParseElement(e, close, inner), ParseElement(f, close, within))
        BY <1>1, <2>2, <4>1, ShadowMember
      <4> QED
        BY <2>2, <3>1, <4>2, <4>3 DEF OneElement
    <3>2. CASE ~e.more /\ e.ok
      <4>1. ~f.more
        BY <2>2, <3>2 DEF Matching
      <4> QED
        BY <2>2, <3>2, <4>1 DEF OneElement
    <3>3. CASE ~e.more /\ ~e.ok
      BY <2>2, <3>3 DEF OneElement, Matching
    <3> QED
      BY <3>1, <3>2, <3>3
  <2> QED
    BY <2>1, <2>3 DEF T
<1>7. T \in SUBSET (0..M)
  OBVIOUS
<1> HIDE DEF T
<1>8. T = 0..M
  BY <1>1, <1>5, <1>6, <1>7, UpTo
<1>9. Matching(a[M], g[M])
  <2>1. M \in T
    BY <1>1, <1>8
  <2> QED
    BY <2>1 DEF T
<1>10. ~a[M].more
  <2>1. SUFFICES ASSUME a[M].more PROVE FALSE
    OBVIOUS
  <2> DEFINE e == a[M]
  <2>2. e \in Reading(b, close, k, M)
    BY <1>1, <1>4
  <2> HIDE DEF e
  <2>3. e.b \in Buffers /\ e.b.offset >= b.offset + M /\ e.b.offset + 1 < N
    BY <1>1, <2>1, <2>2, ReadingFields DEF e, N
  <2>4. e.b.offset \in Nat
    BY <2>3, BufferFields
  <2> QED
    BY <1>1, <2>3, <2>4
<1>11. a[N] = a[M]
  <2>1. M \in 0..(N - 1)
    BY <1>1
  <2>2. a[M + 1] = OneElement(a[M], close, inner)
    BY <1>4, <2>1
  <2> QED
    BY <1>1, <1>10, <2>2 DEF OneElement
<1> QED
  BY <1>2, <1>3, <1>9, <1>11

LEMMA ShadowDeeper ==
    ASSUME NEW b, NEW c, Shadows(b, c)
    PROVE  Shadows([b EXCEPT !.depth = @ + 1], [c EXCEPT !.depth = @ + 1])
<1> DEFINE d == [b EXCEPT !.depth = @ + 1]
           e == [c EXCEPT !.depth = @ + 1]
<1>1. Ready(b) /\ Ready(c) /\ c.content = Tail(b.content) /\ b.offset = c.offset + 1
      /\ b.depth = c.depth + 1 /\ b.allocs <= c.allocs /\ b.depth \in Nat /\ c.depth \in Nat
  BY ShadowFields DEF Shadows
<1>2. /\ Ready(d) /\ d.depth = b.depth + 1 /\ d.content = b.content /\ d.offset = b.offset
      /\ Ready(e) /\ e.depth = c.depth + 1 /\ e.content = c.content /\ e.offset = c.offset
  BY <1>1, DeeperBy
<1>3. d.allocs = b.allocs /\ e.allocs = c.allocs
  BY ShadowFields DEF Buffers
<1> HIDE DEF d, e
<1>4. Shadows(d, e)
  BY <1>1, <1>2, <1>3 DEF Shadows
<1> QED
  BY <1>4 DEF d, e

Shallower(b) == [Moved(b, 1) EXCEPT !.depth = @ - 1]

LEMMA ShadowShallower ==
    ASSUME NEW b, NEW c, Shadows(b, c), b.offset + 1 < Len(b.content), c.depth >= 1
    PROVE  Shadows(Shallower(b), Shallower(c))
<1>1. /\ c.content = Tail(b.content) /\ b.allocs <= c.allocs
  BY DEF Shadows
<1>2. /\ b \in Buffers /\ c \in Buffers /\ b.offset \in Nat /\ c.offset \in Nat
      /\ b.depth \in Nat /\ c.depth \in Nat /\ c.offset = b.offset - 1 /\ c.depth = b.depth - 1
      /\ Len(b.content) \in Nat /\ Len(c.content) = Len(b.content) - 1
      /\ Ready(b) /\ Ready(c) /\ b.depth >= 1
  <2>1. /\ b \in Buffers /\ c \in Buffers /\ b.offset \in Nat /\ c.offset \in Nat
        /\ b.depth \in Nat /\ c.depth \in Nat /\ c.offset = b.offset - 1 /\ c.depth = b.depth - 1
        /\ Len(b.content) \in Nat /\ Len(c.content) = Len(b.content) - 1
    BY ShadowFields
  <2>2. Ready(b) /\ Ready(c) /\ b.depth >= 1
    BY <2>1 DEF Shadows
  <2> QED
    BY <2>1, <2>2
<1>3. /\ Shallower(b) \in Buffers /\ Shallower(b).offset = b.offset + 1
      /\ Shallower(b).content = b.content /\ Shallower(b).depth = b.depth - 1
      /\ Shallower(c) \in Buffers /\ Shallower(c).offset = c.offset + 1
      /\ Shallower(c).content = c.content /\ Shallower(c).depth = c.depth - 1
  BY <1>2, ContainerFields DEF Shallower
<1>4. Shallower(b).allocs = b.allocs /\ Shallower(c).allocs = c.allocs
  <2>1. b.offset + 1 \in Nat /\ c.offset + 1 \in Nat
    BY <1>2
  <2>2. /\ Moved(b, 1) \in Buffers /\ Moved(b, 1).allocs = b.allocs
        /\ Moved(c, 1) \in Buffers /\ Moved(c, 1).allocs = c.allocs
    BY <1>2, <2>1, MovedBy
  <2>3. \A m \in Buffers : [m EXCEPT !.depth = @ - 1].allocs = m.allocs
    BY DEF Buffers
  <2> QED
    BY <2>2, <2>3 DEF Shallower
<1>5. c.offset + 1 < Len(c.content) /\ b.offset + 1 = (c.offset + 1) + 1
      /\ b.depth - 1 = (c.depth - 1) + 1
  BY <1>2
<1>6. Ready(Shallower(b)) /\ Ready(Shallower(c))
  BY <1>2, <1>3, <1>5 DEF Ready
<1> QED
  BY <1>1, <1>3, <1>4, <1>5, <1>6 DEF Shadows

(* A list, an array's or an object's, with its brackets.                     *)
LEMMA ShadowContainer ==
    ASSUME NEW b, NEW c, Shadows(b, c), NEW item \in Begun, At(b) # 0,
           NEW type \in {"Array", "Object"}, NEW close \in {CloseArray, CloseObject},
           NEW inner, NEW within, NEW k \in 1..Levels, NEW j \in 1..Levels,
           b.depth < NestingLimit => /\ Reader(inner, k, b.depth + 1)
                                     /\ Reader(within, j, c.depth + 1)
                                     /\ ShadowReader(inner, within, b.depth + 1)
    PROVE  Same(ParseContainer(item, b, type, close, inner),
                ParseContainer(item, c, type, close, within))
<1> DEFINE d == [b EXCEPT !.depth = @ + 1]
           e == [c EXCEPT !.depth = @ + 1]
           first == buffer_skip_whitespace(Moved(d, 1))
           start == buffer_skip_whitespace(Moved(e, 1))
           els == IF At(first) = close THEN Elements(first, TRUE, <<>>, FALSE)
                                       ELSE ParseElements(Moved(first, -1), close, inner)
           els2 == IF At(start) = close THEN Elements(start, TRUE, <<>>, FALSE)
                                        ELSE ParseElements(Moved(start, -1), close, within)
           r == ParseContainer(item, b, type, close, inner)
           q == ParseContainer(item, c, type, close, within)
<1>1. /\ r = IF b.depth >= NestingLimit THEN Result(b, FALSE, item) ELSE ContainerOf(item, els, type)
      /\ q = IF c.depth >= NestingLimit THEN Result(c, FALSE, item) ELSE ContainerOf(item, els2, type)
  BY DEF ParseContainer
<1>2. /\ b \in Buffers /\ c \in Buffers /\ b.offset \in Nat /\ c.offset \in Nat
      /\ b.depth \in Nat /\ c.depth \in Nat /\ c.offset = b.offset - 1 /\ c.depth = b.depth - 1
      /\ Len(b.content) \in Nat /\ Len(c.content) = Len(b.content) - 1 /\ NestingLimit \in Nat
      /\ b.offset + 1 < Len(b.content)
  <2>1. b.offset + 1 < Len(b.content)
    BY ReadyIs DEF Shadows
  <2> QED
    BY <2>1, ShadowFields, ParseAssumption
<1> HIDE DEF r, q, els, els2
<1>3. CASE b.depth >= NestingLimit
  <2>1. r.ok = FALSE
    BY <1>1, <1>3 DEF Result
  <2> QED
    BY <2>1 DEF Same, r
<1>4. CASE ~(b.depth >= NestingLimit)
  <2>1. r = ContainerOf(item, els, type) /\ q = ContainerOf(item, els2, type) /\ b.depth < NestingLimit
    <3>1. b.depth < NestingLimit /\ ~(c.depth >= NestingLimit)
      BY <1>2, <1>4
    <3> QED
      BY <1>1, <1>4, <3>1
  <2>2. Shadows(d, e) /\ d.offset = b.offset /\ d.content = b.content /\ d.depth = b.depth + 1
        /\ e.offset = c.offset /\ e.depth = c.depth + 1
    BY ShadowDeeper, DeeperBy DEF Shadows
  <2> HIDE DEF d, e
  <2>3. Shadows(Moved(d, 1), Moved(e, 1))
    <3>1. d.offset + 1 < Len(d.content) /\ e.offset + 1 \in Nat
      BY <1>2, <2>2
    <3> QED
      BY <2>2, <3>1, ShadowMoved
  <2>4. /\ Shadows(first, start) /\ first.depth = b.depth + 1 /\ start.depth = c.depth + 1
        /\ first.content = b.content /\ first.offset >= b.offset + 1 /\ first.offset \in Nat
        /\ start.offset >= c.offset + 1 /\ start.offset \in Nat
    <3>1. d \in Buffers /\ e \in Buffers /\ d.offset + 1 \in Nat /\ e.offset + 1 \in Nat
      <4>1. d \in Buffers /\ e \in Buffers
        BY <2>2, ShadowFields
      <4> QED
        BY <1>2, <2>2, <4>1
    <3>2. /\ Moved(d, 1).depth = b.depth + 1 /\ Moved(e, 1).depth = c.depth + 1
          /\ Moved(d, 1).content = b.content /\ Moved(d, 1).offset = b.offset + 1
          /\ Moved(e, 1).offset = c.offset + 1
      BY <2>2, <3>1, MovedBy
    <3>3. Ready(Moved(d, 1)) /\ Ready(Moved(e, 1))
      BY <2>3 DEF Shadows
    <3>4. /\ Ready(first) /\ Later(Moved(d, 1), first) /\ first.offset >= Moved(d, 1).offset
          /\ first.depth = Moved(d, 1).depth
          /\ Ready(start) /\ start.offset >= Moved(e, 1).offset /\ start.depth = Moved(e, 1).depth
      BY <3>3, SkipReady
    <3>5. Shadows(first, start)
      BY <2>3, ShadowSkipped
    <3> HIDE DEF first, start
    <3>6. first.offset \in Nat /\ start.offset \in Nat
      BY <3>4, ReadyIs
    <3> QED
      BY <3>2, <3>4, <3>5, <3>6 DEF Later
  <2> HIDE DEF first, start
  <2>5. Matching(els, els2) /\ (els.ok => els.b.depth = b.depth + 1 /\ els.b.content = b.content
                                          /\ els.b.offset + 1 < Len(b.content))
    <3>1. At(first) = At(start)
      BY <2>4, ShadowAt
    <3>2. CASE At(first) = close
      <4>1. /\ els = Elements(first, TRUE, <<>>, FALSE) /\ els2 = Elements(start, TRUE, <<>>, FALSE)
        BY <3>1, <3>2 DEF els, els2
      <4>2. first.offset + 1 < Len(b.content)
        <5>1. Ready(first) /\ At(first) # 0
          BY <2>4, <3>2 DEF Shadows, CloseArray, CloseObject
        <5> QED
          BY <2>4, <5>1, ReadyIs
      <4> QED
        BY <2>4, <4>1, <4>2 DEF Matching, Elements
    <3>3. CASE At(first) # close
      <4> DEFINE f == Moved(first, -1)
                 g == Moved(start, -1)
      <4>1. els = ParseElements(f, close, inner) /\ els2 = ParseElements(g, close, within)
        BY <3>1, <3>3 DEF els, els2
      <4>2. first \in Buffers /\ start \in Buffers /\ first.offset < Len(b.content)
        BY <2>4, ShadowFields
      <4>3. /\ first.offset + (-1) \in Nat /\ start.offset + (-1) \in Nat
            /\ first.offset + (-1) < Len(first.content)
            /\ (first.offset + (-1)) + 1 < Len(first.content)
        <5>1. first.offset >= 1 /\ start.offset >= 1 /\ first.offset \in Nat /\ start.offset \in Nat
          BY <1>2, <2>4
        <5>2. first.offset < Len(first.content) /\ Len(first.content) \in Nat
          BY <1>2, <2>4, <4>2
        <5>3. first.offset + (-1) \in Nat /\ start.offset + (-1) \in Nat
              /\ (first.offset + (-1)) + 1 = first.offset
          BY <5>1
        <5> QED
          BY <5>1, <5>2, <5>3
      <4>4. Shadows(f, g)
        BY <2>4, <4>3, ShadowMoved
      <4>5. f.depth = b.depth + 1 /\ g.depth = c.depth + 1 /\ f.content = b.content
            /\ f.offset + 1 < Len(f.content) /\ f \in Buffers /\ Ready(f)
        BY <2>4, <4>2, <4>3, <4>4, MovedBy DEF Shadows
      <4> HIDE DEF f, g
      <4>6. Reader(inner, k, f.depth) /\ Reader(within, j, g.depth) /\ ShadowReader(inner, within, f.depth)
        BY <2>1, <4>5
      <4>7. Matching(els, els2)
        BY <4>1, <4>4, <4>5, <4>6, ShadowElements
      <4>8. els \in Reading(f, close, k, Len(f.content))
        BY <4>1, <4>5, <4>6, ParseElementsAre
      <4> QED
        BY <4>5, <4>7, <4>8, ReadingFields
    <3> QED
      BY <3>2, <3>3
  <2>6. CASE ~els.ok
    <3>1. r.ok = FALSE
      BY <2>1, <2>6 DEF ContainerOf, Result
    <3> QED
      BY <3>1 DEF Same, r
  <2>7. CASE els.ok
    <3>1. els2.ok /\ els2.item = els.item /\ Shadows(els.b, els2.b)
      BY <2>5, <2>7 DEF Matching
    <3>2. r.b = Shallower(els.b) /\ q.b = Shallower(els2.b) /\ q.ok = TRUE /\ q.item = r.item
      BY <2>1, <2>7, <3>1 DEF ContainerOf, Result, Shallower
    <3>3. els.b.offset + 1 < Len(els.b.content) /\ els2.b.depth >= 1
      <4>1. els2.b.depth = els.b.depth - 1 /\ els.b.depth = b.depth + 1 /\ b.depth >= 1
        <5>1. els2.b.depth = els.b.depth - 1
          BY <3>1, ShadowFields
        <5>2. b.depth >= 1
          BY ShadowFields DEF Shadows
        <5> QED
          BY <2>5, <2>7, <5>1, <5>2
      <4>2. els2.b.depth >= 1
        BY <1>2, <4>1
      <4> QED
        BY <2>5, <2>7, <4>2
    <3>4. Shadows(r.b, q.b)
      BY <3>1, <3>2, <3>3, ShadowShallower
    <3> QED
      BY <3>2, <3>4 DEF Same, r, q
  <2> QED
    BY <2>6, <2>7
<1> QED
  BY <1>3, <1>4

LEMMA ShadowParse ==
    ASSUME NEW b, NEW c, Shadows(b, c), NEW item \in Begun, NEW inner, NEW within,
           NEW k \in 1..Levels, NEW j \in 1..Levels,
           b.depth < NestingLimit => /\ Reader(inner, k, b.depth + 1)
                                     /\ Reader(within, j, c.depth + 1)
                                     /\ ShadowReader(inner, within, b.depth + 1)
    PROVE  Same(parse_value(item, b, inner), parse_value(item, c, within))
<1> DEFINE r == parse_value(item, b, inner)
           q == parse_value(item, c, within)
<1>1. At(b) = At(c)
  BY ShadowAt
<1>2. CASE IsWord(At(b))
  <2> DEFINE whole == [item EXCEPT !.type = TypeOf(At(b))]
  <2>1. r = Result(Moved(b, 1), TRUE, whole) /\ q = Result(Moved(c, 1), TRUE, whole)
    BY <1>1, <1>2 DEF parse_value
  <2>2. At(b) # 0
    BY <1>2 DEF IsWord, Words
  <2>3. Shadows(Moved(b, 1), Moved(c, 1))
    <3>1. Ready(b) /\ c.offset \in Nat /\ b.offset \in Nat
      BY ShadowFields DEF Shadows
    <3>2. b.offset + 1 < Len(b.content) /\ c.offset + 1 \in Nat
      BY <2>2, <3>1, ReadyIs
    <3> QED
      BY <3>2, ShadowMoved
  <2> HIDE DEF whole, r, q
  <2>4. Same(r, q)
    BY <2>1, <2>3 DEF Same, Result
  <2> QED
    BY <2>4 DEF r, q
<1>3. CASE ~IsWord(At(b)) /\ At(b) = Quote
  <2>1. r = parse_string(item, b) /\ q = parse_string(item, c)
    BY <1>1, <1>3 DEF parse_value
  <2> HIDE DEF r, q
  <2>2. Same(r, q)
    BY <2>1, ShadowString
  <2> QED
    BY <2>2 DEF r, q
<1>4. CASE ~IsWord(At(b)) /\ At(b) # Quote /\ At(b) \in Digits \cup {Minus}
  <2>1. r = parse_number(item, b) /\ q = parse_number(item, c)
    BY <1>1, <1>4 DEF parse_value
  <2> HIDE DEF r, q
  <2>2. Same(r, q)
    BY <2>1, ShadowNumber
  <2> QED
    BY <2>2 DEF r, q
<1>5. CASE ~IsWord(At(b)) /\ At(b) # Quote /\ At(b) \notin Digits \cup {Minus}
           /\ At(b) = OpenArray
  <2>1. /\ r = ParseContainer(item, b, "Array", CloseArray, inner)
        /\ q = ParseContainer(item, c, "Array", CloseArray, within)
    BY <1>1, <1>5 DEF parse_value, parse_array
  <2>2. At(b) # 0
    BY <1>5 DEF OpenArray
  <2> HIDE DEF r, q
  <2>3. Same(r, q)
    BY <2>1, <2>2, ShadowContainer
  <2> QED
    BY <2>3 DEF r, q
<1>6. CASE ~IsWord(At(b)) /\ At(b) # Quote /\ At(b) \notin Digits \cup {Minus}
           /\ At(b) # OpenArray /\ At(b) = OpenObject
  <2>1. /\ r = ParseContainer(item, b, "Object", CloseObject, inner)
        /\ q = ParseContainer(item, c, "Object", CloseObject, within)
    BY <1>1, <1>6 DEF parse_value, parse_object
  <2>2. At(b) # 0
    BY <1>6 DEF OpenObject
  <2> HIDE DEF r, q
  <2>3. Same(r, q)
    BY <2>1, <2>2, ShadowContainer
  <2> QED
    BY <2>3 DEF r, q
<1>7. CASE ~IsWord(At(b)) /\ At(b) # Quote /\ At(b) \notin Digits \cup {Minus}
           /\ At(b) # OpenArray /\ At(b) # OpenObject
  <2>1. r.ok = FALSE
    BY <1>7 DEF parse_value, Result
  <2> QED
    BY <2>1 DEF Same
<1> QED
  BY <1>2, <1>3, <1>4, <1>5, <1>6, <1>7

(* Whatever the level of nesting: inside a list of the text and outside of it  *)
(* in the rest of the text.                                                  *)
LEMMA ShadowLevels ==
    \A n \in 0..(NestingLimit - 1) :
        ShadowReader(ValueIn[n + 1], ValueIn[n + 2], NestingLimit - n)
<1> DEFINE L == NestingLimit
           T == {n \in 0..(L - 1) : ShadowReader(ValueIn[n + 1], ValueIn[n + 2], L - n)}
<1>1. L \in Nat /\ Levels \in Nat /\ L + 2 <= Levels
  BY ParseAssumption, TextAssumption
<1>2. ASSUME NEW n \in 0..(L - 1), n # 0 => n - 1 \in T
      PROVE  ShadowReader(ValueIn[n + 1], ValueIn[n + 2], L - n)
  <2> DEFINE inner == ValueIn[n]
             within == ValueIn[n + 1]
  <2>1. /\ n + 1 \in 1..(L + 1) /\ (n + 1) - 1 = n /\ n + 2 \in 1..(L + 1) /\ (n + 2) - 1 = n + 1
        /\ n \in 0..L /\ n \in Nat /\ n + 1 \in 1..Levels /\ n + 1 # 0 /\ n + 2 # 0
    BY <1>1
  <2>2. ValueIn[n + 1] = ValueFrom(n + 1, inner) /\ ValueIn[n + 2] = ValueFrom(n + 2, within)
    BY <2>1, ValueInIs
  <2>3. Reader(within, n + 1, L - n)
    BY <2>1, EveryLevelIsRead
  <2>4. n # 0 => /\ Reader(inner, n, (L - n) + 1) /\ ShadowReader(inner, within, (L - n) + 1)
                 /\ n \in 1..Levels
    <3>1. SUFFICES ASSUME n # 0
                   PROVE  /\ Reader(inner, n, (L - n) + 1) /\ ShadowReader(inner, within, (L - n) + 1)
                          /\ n \in 1..Levels
      OBVIOUS
    <3>2. /\ n - 1 \in 0..L /\ (n - 1) + 1 = n /\ (n - 1) + 2 = n + 1 /\ L - (n - 1) = (L - n) + 1
          /\ n \in 1..Levels
      BY <1>1, <2>1, <3>1
    <3>3. Reader(ValueIn[(n - 1) + 1], (n - 1) + 1, L - (n - 1))
      BY <3>2, EveryLevelIsRead
    <3>4. ShadowReader(ValueIn[(n - 1) + 1], ValueIn[(n - 1) + 2], L - (n - 1))
      BY <1>2, <3>1
    <3> QED
      BY <3>2, <3>3, <3>4
  <2> HIDE DEF inner, within, L
  <2>5. ASSUME NEW item \in Begun, NEW b, NEW c, Shadows(b, c), b.depth = L - n
        PROVE  Same(ValueFrom(n + 1, inner)[[item |-> item, b |-> b]],
                    ValueFrom(n + 2, within)[[item |-> item, b |-> c]])
    <3> DEFINE s == [item |-> item, b |-> b]
               t == [item |-> item, b |-> c]
    <3>1. b \in Buffers /\ c \in Buffers /\ c.depth = b.depth - 1 /\ b.depth \in Nat /\ c.depth \in Nat
      BY <2>5, ShadowFields
    <3>2. s \in Starts /\ s.item = item /\ s.b = b /\ t \in Starts /\ t.item = item /\ t.b = c
      BY <3>1 DEF Starts, Begun, Buffers
    <3> HIDE DEF s, t
    <3>3. ValueFrom(n + 1, inner)[s] = parse_value(item, b, inner)
      BY <2>1, <3>2 DEF ValueFrom
    <3>4. ValueFrom(n + 2, within)[t] = parse_value(item, c, within)
      BY <2>1, <3>2 DEF ValueFrom
    <3>5. c.depth + 1 = L - n /\ b.depth + 1 = (L - n) + 1
      BY <2>5, <3>1
    <3>6. Same(parse_value(item, b, inner), parse_value(item, c, within))
      <4>1. CASE n # 0
        <5>1. /\ Reader(inner, n, b.depth + 1) /\ Reader(within, n + 1, c.depth + 1)
              /\ ShadowReader(inner, within, b.depth + 1)
              /\ n \in 1..Levels /\ n + 1 \in 1..Levels
          BY <2>1, <2>3, <2>4, <3>5, <4>1
        <5> QED
          BY <2>5, <5>1, ShadowParse
      <4>2. CASE n = 0
        <5>1. ~(b.depth < NestingLimit)
          BY <1>1, <2>5, <3>1, <4>2 DEF L
        <5> QED
          BY <2>1, <2>5, <5>1, ShadowParse
      <4> QED
        BY <4>1, <4>2
    <3> QED
      BY <3>3, <3>4, <3>6 DEF s, t
  <2>6. ShadowReader(ValueFrom(n + 1, inner), ValueFrom(n + 2, within), L - n)
    BY <2>5 DEF ShadowReader
  <2> QED
    BY <2>2, <2>6
<1>3. CASE L = 0
  BY <1>3
<1>4. CASE L # 0
  <2>1. L - 1 \in Nat /\ 0 \in 0..(L - 1)
    BY <1>1, <1>4
  <2>2. 0 \in T
    <3>1. ShadowReader(ValueIn[0 + 1], ValueIn[0 + 2], L - 0)
      BY <1>2, <2>1
    <3> QED
      BY <2>1, <3>1
  <2>3. ASSUME NEW n \in 0..((L - 1) - 1), n \in T PROVE n + 1 \in T
    <3>1. n + 1 \in 0..(L - 1) /\ (n + 1) - 1 = n
      BY <2>1
    <3> HIDE DEF L
    <3>2. ShadowReader(ValueIn[(n + 1) + 1], ValueIn[(n + 1) + 2], L - (n + 1))
      <4> HIDE DEF T
      <4> QED
        BY <1>2, <2>3, <3>1
    <3> QED
      BY <3>1, <3>2
  <2>4. T \in SUBSET (0..(L - 1))
    OBVIOUS
  <2> HIDE DEF T, L
  <2>5. T = 0..(L - 1)
    BY <2>1, <2>2, <2>3, <2>4, UpTo
  <2> QED
    BY <2>5 DEF T, L
<1> QED
  BY <1>3, <1>4

LEMMA Appended ==
    ASSUME NEW S, NEW list \in Seq(S), NEW x
    PROVE  /\ Len(Append(list, x)) = Len(list) + 1 /\ Append(list, x)[Len(list) + 1] = x
           /\ \A i \in 1..Len(list) : Append(list, x)[i] = list[i]
           /\ Len(list) \in Nat
<1>1. list \in Seq(S \cup {x}) /\ x \in S \cup {x}
  OBVIOUS
<1> QED
  BY <1>1, AppendProperties, LenProperties

(* The only one of its symbols that is removed is the first: the rest is left. *)
LEMMA StripFirst ==
    ASSUME NEW s \in Seq(Nat), Len(s) >= 1, s[1] \notin ToSet(Tail(s))
    PROVE  strip(s, {s[1]}) = Tail(s)
<1> DEFINE t == Tail(s)
           x == s[1]
<1>1. /\ t \in Seq(Nat) /\ Len(t) = Len(s) - 1 /\ Len(s) \in Nat
      /\ \A i \in 1..(Len(s) - 1) : t[i] = s[i + 1]
  BY TailIs
<1> DEFINE N == Len(s)
<1>2. \A i \in 1..(N - 1) : t[i] # x
  <2>1. \A i \in 1..Len(t) : t[i] \in ToSet(t)
    BY <1>1, LenProperties DEF ToSet
  <2> HIDE DEF t
  <2>2. x \notin ToSet(t)
    BY DEF t
  <2> HIDE DEF x
  <2> QED
    BY <1>1, <2>1, <2>2
<1>3. PICK kept : StripRun(s, {x}, kept) /\ strip(s, {x}) = kept[N]
  BY StripRuns
<1> HIDE DEF t, x, N
<1>4. /\ kept[0] = <<>> /\ N \in Nat /\ N >= 1
      /\ \A n \in 0..N : kept[n] \in Seq(Nat)
      /\ \A n \in 0..(N - 1) :
            kept[n + 1] = IF s[n + 1] = x THEN kept[n] ELSE Append(kept[n], s[n + 1])
  BY <1>1, <1>3 DEF StripRun, N
<1>5. s[1] = x
  BY DEF x
<1> DEFINE T == {m \in 0..(N - 1) : /\ Len(kept[m + 1]) = m
                                    /\ \A i \in 1..m : kept[m + 1][i] = s[i + 1]}
<1>6. 0 \in T
  <2>1. 0 \in 0..(N - 1) /\ 0 + 1 = 1
    BY <1>4
  <2>2. kept[0 + 1] = <<>>
    BY <1>4, <1>5, <2>1
  <2>3. Len(kept[0 + 1]) = 0 /\ \A i \in 1..0 : kept[0 + 1][i] = s[i + 1]
    BY <2>2
  <2> QED
    BY <2>1, <2>3
<1>7. ASSUME NEW m \in 0..((N - 1) - 1), m \in T PROVE m + 1 \in T
  <2>1. /\ m + 1 \in 0..(N - 1) /\ m + 1 \in 0..N /\ m + 1 \in 1..(N - 1) /\ m \in Nat
    BY <1>4
  <2>2. t[m + 1] # x /\ t[m + 1] = s[(m + 1) + 1]
    BY <1>1, <1>2, <2>1 DEF N
  <2> DEFINE old == kept[m + 1]
             new == kept[(m + 1) + 1]
             y == s[(m + 1) + 1]
  <2>3. old \in Seq(Nat) /\ Len(old) = m /\ \A i \in 1..m : old[i] = s[i + 1]
    BY <1>4, <1>7, <2>1
  <2>4. new = Append(old, y)
    BY <1>4, <2>1, <2>2
  <2> HIDE DEF old, new, y, T
  <2>5. Len(new) = m + 1 /\ new[m + 1] = y /\ \A i \in 1..m : new[i] = old[i]
    BY <2>3, <2>4, Appended
  <2>6. ASSUME NEW i \in 1..(m + 1) PROVE new[i] = s[i + 1]
    <3>1. i \in 1..m \/ i = m + 1
      BY <2>1
    <3> QED
      BY <2>3, <2>5, <3>1 DEF y
  <2> QED
    BY <2>1, <2>5, <2>6 DEF T, new
<1>8. T \in SUBSET (0..(N - 1))
  OBVIOUS
<1> HIDE DEF T
<1>9. T = 0..(N - 1)
  <2>1. N - 1 \in Nat
    BY <1>4
  <2> QED
    BY <1>6, <1>7, <1>8, <2>1, UpTo
<1>10. Len(kept[N]) = N - 1 /\ \A i \in 1..(N - 1) : kept[N][i] = s[i + 1]
  <2>1. N - 1 \in 0..(N - 1) /\ (N - 1) + 1 = N
    BY <1>4
  <2>2. N - 1 \in T
    BY <1>9, <2>1
  <2> QED
    BY <2>1, <2>2 DEF T
<1>11. kept[N] = t
  <2>1. kept[N] \in Seq(Nat) /\ Len(t) = N - 1 /\ \A i \in 1..(N - 1) : t[i] = s[i + 1]
    BY <1>1, <1>4 DEF N
  <2> QED
    BY <1>1, <1>10, <2>1, SeqEqual
<1> QED
  BY <1>3, <1>11 DEF t, x

-----------------------------------------------------------------------------
(* What is no blank is where it is skipped to.                               *)
LEMMA NothingToSkip ==
    ASSUME NEW b, Ready(b), At(b) > Space
    PROVE  buffer_skip_whitespace(b) = b
<1>1. /\ b \in Buffers /\ Len(b.content) \in Nat /\ b.offset \in Nat /\ b.offset < Len(b.content)
      /\ At(b) = b.content[b.offset + 1]
  BY ReadyIs
<1>2. EndOfBlanks(b, b.offset)
  <2>1. b.offset \in b.offset..Len(b.content) /\ (b.offset + 1)..b.offset = {}
    BY <1>1
  <2> QED
    BY <1>1, <2>1 DEF EndOfBlanks
<1>3. LastPlace(b, b.offset) = b.offset
  BY <1>1 DEF LastPlace
<1>4. buffer_skip_whitespace(b) = [b EXCEPT !.offset = b.offset]
  BY <1>1, <1>2, <1>3, SkippedTo
<1>5. [b EXCEPT !.offset = b.offset] = b
  BY <1>1 DEF Buffers
<1> QED
  BY <1>4, <1>5

(* An element of an array, read where its value starts.                      *)
ElementFrom(b) == buffer_skip_whitespace(Moved(Taken(b), 1))

ElementValue(b, inner) == inner[[item |-> Blank, b |-> ElementFrom(b)]]

LEMMA OneMore ==
    ASSUME NEW e, NEW inner, ParseElement(e, CloseArray, inner).ok
    PROVE  /\ Granted(e.b) /\ ElementValue(e.b, inner).ok
           /\ ParseElement(e, CloseArray, inner).item
                = Append(e.item, ElementValue(e.b, inner).item)
<1> DEFINE first == ElementFrom(e.b)
           named == Result(first, TRUE, Blank)
           value == ElementValue(e.b, inner)
           list == Append(e.item, value.item)
<1>1. Granted(e.b)
  BY FailedFields DEF ParseElement
<1>2. CloseArray # CloseObject
  BY DEF CloseArray, CloseObject
<1>3. ParseElement(e, CloseArray, inner) = NamedElement(named, e.item, CloseArray, inner)
  BY <1>1, <1>2 DEF ParseElement, ElementFrom
<1>4. named.ok = TRUE /\ named.item = Blank /\ named.b = first
  BY DEF Result
<1>5. value = inner[[item |-> Blank, b |-> first]]
  BY DEF ElementValue
<1> HIDE DEF named, first, value
<1>6. NamedElement(named, e.item, CloseArray, inner) = ParsedElement(value, e.item, CloseArray)
  BY <1>4, <1>5 DEF NamedElement
<1>7. value.ok
  <2>1. CASE ~value.ok
    <3>1. ParseElement(e, CloseArray, inner) = Failed(value.b, list)
      BY <1>3, <1>6, <2>1 DEF ParsedElement
    <3> QED
      BY <3>1, FailedFields
  <2> QED
    BY <2>1
<1> DEFINE after == buffer_skip_whitespace(value.b)
<1>8. ParseElement(e, CloseArray, inner) = ParseNext(after, list, CloseArray)
  BY <1>3, <1>6, <1>7 DEF ParsedElement
<1> HIDE DEF list, after
<1>9. ParseNext(after, list, CloseArray).ok => ParseNext(after, list, CloseArray).item = list
  BY FailedFields DEF ParseNext, Elements
<1> QED
  BY <1>1, <1>7, <1>8, <1>9 DEF value, list

(* The first element that is read stays the first one.                       *)
LEMMA FirstElement ==
    ASSUME NEW b \in Buffers, NEW k \in 1..Levels, NEW inner, NEW run,
           ListRun(b, CloseArray, k, inner, run)
    PROVE  \A n \in 1..Len(b.content) : run[n].ok =>
              /\ Granted(b) /\ ElementValue(b, inner).ok
              /\ Len(run[n].item) >= 1
              /\ run[n].item[1] = ElementValue(b, inner).item
<1> DEFINE N == Len(b.content)
           x == ElementValue(b, inner).item
           Good(e) == /\ Granted(b) /\ ElementValue(b, inner).ok
                      /\ Len(e.item) >= 1 /\ e.item[1] = x
           T == {n \in 0..N : n # 0 /\ run[n].ok => Good(run[n])}
<1>1. N \in Nat
  BY BufferFields
<1>2. /\ run[0] = Elements(b, TRUE, <<>>, TRUE)
      /\ \A n \in 0..N : run[n] \in Reading(b, CloseArray, k, n)
      /\ \A n \in 0..(N - 1) : run[n + 1] = OneElement(run[n], CloseArray, inner)
  BY DEF ListRun
<1>3. \A n \in 0..N : run[n].item \in Seq(Trees(Valid)[k])
  BY <1>2 DEF Reading
<1> HIDE DEF N, x
<1>4. 0 \in T
  BY <1>1
<1>5. ASSUME NEW n \in 0..(N - 1), n \in T PROVE n + 1 \in T
  <2> DEFINE e == run[n]
             f == run[n + 1]
  <2>1. n \in 0..N /\ n + 1 \in 0..N /\ n \in Nat
    BY <1>1
  <2>2. /\ f = OneElement(e, CloseArray, inner) /\ e.item \in Seq(Trees(Valid)[k])
        /\ n # 0 /\ e.ok => Good(e)
        /\ e.more => e.ok
    <3>1. e \in Reading(b, CloseArray, k, n)
      BY <1>2, <2>1
    <3>2. e.more => e.ok
      BY <3>1, ReadingFields
    <3> QED
      BY <1>2, <1>3, <1>5, <2>1, <3>2
  <2>3. n = 0 => e.b = b /\ e.item = <<>> /\ e.more = TRUE
    BY <1>2 DEF Elements
  <2> HIDE DEF e, f
  <2>4. ASSUME f.ok PROVE Good(f)
    <3>1. CASE e.more
      <4> DEFINE y == ElementValue(e.b, inner).item
      <4>1. f = ParseElement(e, CloseArray, inner)
        BY <2>2, <3>1 DEF OneElement
      <4>2. Granted(e.b) /\ ElementValue(e.b, inner).ok /\ f.item = Append(e.item, y)
        BY <2>4, <4>1, OneMore
      <4>3. y = ElementValue(e.b, inner).item
        OBVIOUS
      <4> HIDE DEF y
      <4>4. /\ Len(f.item) = Len(e.item) + 1 /\ f.item[Len(e.item) + 1] = y
            /\ \A i \in 1..Len(e.item) : f.item[i] = e.item[i]
            /\ Len(e.item) \in Nat
        BY <2>2, <4>2, Appended
      <4>5. CASE n = 0
        <5>1. e.b = b /\ Len(e.item) = 0
          BY <2>3, <4>5
        <5>2. Len(f.item) = 1 /\ f.item[1] = y /\ y = x
          BY <4>3, <4>4, <5>1 DEF x
        <5> QED
          BY <4>2, <5>1, <5>2
      <4>6. CASE n # 0
        <5>1. Good(e)
          BY <2>2, <3>1, <4>6
        <5>2. Len(e.item) >= 1 /\ e.item[1] = x
          BY <5>1
        <5>3. Len(f.item) >= 1 /\ 1 \in 1..Len(e.item)
          BY <4>4, <5>2
        <5> QED
          BY <4>4, <5>1, <5>2, <5>3
      <4> QED
        BY <4>5, <4>6
    <3>2. CASE ~e.more
      <4>1. f = e /\ n # 0
        BY <2>2, <2>3, <3>2 DEF OneElement
      <4> HIDE DEF Good
      <4> QED
        BY <2>2, <2>4, <4>1
    <3> QED
      BY <3>1, <3>2
  <2> HIDE DEF Good
  <2> QED
    BY <2>1, <2>4 DEF f
<1>6. T \in SUBSET (0..N)
  OBVIOUS
<1> HIDE DEF T, Good
<1>7. T = 0..N
  BY <1>1, <1>4, <1>5, <1>6, UpTo
<1>8. ASSUME NEW n \in 1..N, run[n].ok PROVE Good(run[n])
  <2>1. n \in 0..N /\ n # 0
    BY <1>1
  <2>2. n \in T
    BY <1>7, <2>1
  <2> QED
    BY <1>8, <2>1, <2>2 DEF T
<1> QED
  BY <1>8 DEF Good, N, x

LEMMA ValueAt ==
    ASSUME NEW n \in 1..(NestingLimit + 1), NEW item \in Begun, NEW b \in Buffers
    PROVE  ValueIn[n][[item |-> item, b |-> b]] = parse_value(item, b, ValueIn[n - 1])
<1> DEFINE s == [item |-> item, b |-> b]
           inner == ValueIn[n - 1]
<1>1. s \in Starts /\ s.item = item /\ s.b = b
  BY DEF Starts, Begun, Buffers
<1>2. ValueIn[n] = ValueFrom(n, inner) /\ n # 0
  BY ValueInIs, ParseAssumption
<1> HIDE DEF s, inner
<1>3. ValueIn[n][s] = parse_value(item, b, inner)
  BY <1>1, <1>2 DEF ValueFrom
<1> QED
  BY <1>3 DEF s, inner

(* Where the parser starts.                                                  *)
LEMMA StartIs ==
    ASSUME NEW s \in Seq(Nat), NEW allocs \in Nat, allocs # 0
    PROVE  /\ Ready(Taken(Buffer(s, allocs)))
           /\ Taken(Buffer(s, allocs)).content = Append(s, 0)
           /\ Taken(Buffer(s, allocs)).offset = 0 /\ Taken(Buffer(s, allocs)).depth = 0
           /\ Taken(Buffer(s, allocs)).allocs = allocs - 1
<1> DEFINE b == Buffer(s, allocs)
           t == Append(s, 0)
<1>1. b = [content |-> t, offset |-> 0, depth |-> 0, allocs |-> allocs, live |-> 0]
  BY DEF Buffer
<1>2. t \in Seq(Nat)
  BY AppendProperties
<1> HIDE DEF b, t
<1>3. b \in Buffers /\ b.offset = 0 /\ b.allocs = allocs
  BY <1>1, <1>2 DEF Buffers
<1>4. Granted(b)
  BY <1>3 DEF Granted
<1>5. Taken(b).offset = 0
  BY <1>3, <1>4, TakenOne
<1>6. Taken(b).allocs = allocs - 1
  BY <1>3 DEF Taken, Buffers
<1> QED
  BY <1>5, <1>6, BufferIs DEF b

LEMMA OpenArrayIs ==
    /\ ~IsWord(OpenArray) /\ OpenArray # Quote /\ OpenArray \notin Digits \cup {Minus}
    /\ OpenArray > Space /\ OpenArray # 0
BY DEF OpenArray, IsWord, Words, Quote, Digits, Minus, Space

(* An array that is read, with one element: which one, and where it stands.    *)
LEMMA ArrayOfOne ==
    ASSUME NEW b, Ready(b), At(b) = OpenArray, b.depth = 0, NEW inner,
           0 < NestingLimit => Reader(inner, NestingLimit, 1),
           parse_value(Blank, b, inner).ok,
           Len(parse_value(Blank, b, inner).item.kids) = 1
    PROVE  /\ 0 < NestingLimit
           /\ LET first == buffer_skip_whitespace(Moved([b EXCEPT !.depth = @ + 1], 1))
                  value == ElementValue(Moved(first, -1), inner)
              IN  /\ Granted(Moved(first, -1)) /\ value.ok
                  /\ parse_value(Blank, b, inner).item.kids[1] = value.item
<1> DEFINE d == [b EXCEPT !.depth = @ + 1]
           first == buffer_skip_whitespace(Moved(d, 1))
           f == Moved(first, -1)
           els == IF At(first) = CloseArray THEN Elements(first, TRUE, <<>>, FALSE)
                                            ELSE ParseElements(f, CloseArray, inner)
           r == parse_value(Blank, b, inner)
<1>1. r = ParseContainer(Blank, b, "Array", CloseArray, inner)
  BY OpenArrayIs DEF parse_value, parse_array
<1>2. ParseContainer(Blank, b, "Array", CloseArray, inner)
        = IF 0 >= NestingLimit THEN Result(b, FALSE, Blank) ELSE ContainerOf(Blank, els, "Array")
  BY DEF ParseContainer
<1>3. /\ b \in Buffers /\ b.offset \in Nat /\ Len(b.content) \in Nat
      /\ b.offset + 1 < Len(b.content)
      /\ NestingLimit \in Nat /\ NestingLimit <= Levels /\ Levels \in Nat
  BY ReadyIs, OpenArrayIs, ParseAssumption, TextAssumption
<1>4. r.ok /\ Len(r.item.kids) = 1
  OBVIOUS
<1> HIDE DEF r, els
<1>5. 0 < NestingLimit /\ r = ContainerOf(Blank, els, "Array")
  <2>1. CASE 0 >= NestingLimit
    <3>1. r.ok = FALSE
      BY <1>1, <1>2, <2>1 DEF Result
    <3> QED
      BY <1>4, <3>1
  <2>2. CASE ~(0 >= NestingLimit)
    BY <1>1, <1>2, <1>3, <2>2
  <2> QED
    BY <2>1, <2>2
<1>6. els.ok
  <2>1. CASE ~els.ok
    <3>1. r.ok = FALSE
      BY <1>5, <2>1 DEF ContainerOf, Result
    <3> QED
      BY <1>4, <3>1
  <2> QED
    BY <2>1
<1>7. r.item.kids = els.item
  <2> DEFINE list == els.item
  <2>1. r.item = [Blank EXCEPT !.type = "Array", !.kids = list]
    BY <1>5, <1>6 DEF ContainerOf, Result
  <2> HIDE DEF list
  <2>2. Blank \in Leaf
    BY BlankIs, BegunIs
  <2>3. Listing(Blank, "Array", list).kids = list
    BY <2>2, Listed
  <2> QED
    BY <2>1, <2>3 DEF Listing, list
<1>8. At(first) # CloseArray
  <2>1. CASE At(first) = CloseArray
    <3>1. els = Elements(first, TRUE, <<>>, FALSE)
      BY <2>1 DEF els
    <3>2. els.item = <<>>
      BY <3>1 DEF Elements
    <3>3. Len(els.item) = 1
      BY <1>4, <1>7
    <3> QED
      BY <3>2, <3>3
  <2> QED
    BY <2>1
<1>9. els = ParseElements(f, CloseArray, inner)
  BY <1>8 DEF els
<1>10. Ready(d) /\ d.depth = b.depth + 1 /\ d.content = b.content /\ d.offset = b.offset
       /\ d \in Buffers
  BY DeeperBy DEF Ready
<1> HIDE DEF d
<1>11. Ready(Moved(d, 1)) /\ Moved(d, 1).depth = 1 /\ Moved(d, 1).content = b.content
       /\ Moved(d, 1).offset = b.offset + 1
  <2>1. d.offset + 1 \in Nat /\ d.offset + 1 < Len(d.content)
    BY <1>3, <1>10
  <2> QED
    BY <1>10, <2>1, ReadyMoved, MovedBy
<1>12. Ready(first) /\ first.offset >= b.offset + 1 /\ first.depth = 1
  BY <1>11, SkipReady
<1> HIDE DEF first
<1>13. first \in Buffers /\ first.offset \in Nat /\ first.offset < Len(first.content)
       /\ Len(first.content) \in Nat
  BY <1>12, ReadyIs
<1>14. first.offset + (-1) \in Nat /\ first.offset + (-1) < Len(first.content)
       /\ (first.offset + (-1)) + 1 < Len(first.content)
  BY <1>3, <1>12, <1>13
<1>15. f \in Buffers /\ Ready(f) /\ f.depth = 1 /\ f.offset + 1 < Len(f.content)
  BY <1>12, <1>13, <1>14, MovedBy, ReadyMoved
<1> HIDE DEF f
<1>16. NestingLimit \in 1..Levels /\ Reader(inner, NestingLimit, f.depth)
  BY <1>3, <1>5, <1>15
<1>17. PICK run : /\ ListRun(f, CloseArray, NestingLimit, inner, run)
                  /\ ParseElements(f, CloseArray, inner) = run[Len(f.content)]
  BY <1>15, <1>16, ElementsRun
<1>18. Len(f.content) \in 1..Len(f.content)
  <2>1. f.offset \in Nat /\ Len(f.content) \in Nat
    BY <1>15, BufferFields
  <2> QED
    BY <1>15, <2>1
<1>19. run[Len(f.content)].ok => /\ Granted(f) /\ ElementValue(f, inner).ok
                                 /\ run[Len(f.content)].item[1] = ElementValue(f, inner).item
  BY <1>15, <1>16, <1>17, <1>18, FirstElement
<1>20. /\ Granted(f) /\ ElementValue(f, inner).ok
       /\ els.item[1] = ElementValue(f, inner).item
  BY <1>6, <1>9, <1>17, <1>19
<1> QED
  BY <1>5, <1>7, <1>20 DEF r, f, first, d

(* The element of the array, where the array's bracket is missing.            *)
LEMMA ElementAlone ==
    ASSUME NEW b, NEW c, Ready(b), Ready(c), b.offset = 0, c.offset = 0,
           b.depth = 0, c.depth = 0, c.content = Tail(b.content), b.allocs <= c.allocs,
           At(b) # 0, 0 < NestingLimit
    PROVE  LET first == buffer_skip_whitespace(Moved([b EXCEPT !.depth = @ + 1], 1))
               start == buffer_skip_whitespace(c)
           IN  Granted(Moved(first, -1)) =>
                 Same(ElementValue(Moved(first, -1), ValueIn[NestingLimit]),
                      ValueIn[NestingLimit + 1][[item |-> Blank, b |-> start]])
<1> DEFINE d == [b EXCEPT !.depth = @ + 1]
           g == Moved(d, 1)
           first == buffer_skip_whitespace(g)
           start == buffer_skip_whitespace(c)
           f == Moved(first, -1)
           m == Moved(Taken(f), 1)
<1>1. /\ b \in Buffers /\ c \in Buffers /\ Len(b.content) \in Nat /\ 1 < Len(b.content)
      /\ b.allocs \in Nat /\ c.allocs \in Nat
  <2>1. b \in Buffers /\ c \in Buffers /\ Len(b.content) \in Nat /\ b.offset + 1 < Len(b.content)
    BY ReadyIs
  <2> QED
    BY <2>1, BufferFields
<1>2. Ready(d) /\ d.depth = 1 /\ d.content = b.content /\ d.offset = 0 /\ d.allocs = b.allocs
      /\ d \in Buffers
  <2>1. d.allocs = b.allocs
    BY <1>1 DEF Buffers
  <2> HIDE DEF d
  <2>2. Ready(d) /\ d.depth = b.depth + 1 /\ d.content = b.content /\ d.offset = b.offset
    BY DeeperBy DEF d
  <2> QED
    BY <2>1, <2>2 DEF Ready
<1> HIDE DEF d
<1>3. Ready(g) /\ g.depth = 1 /\ g.content = b.content /\ g.offset = 1 /\ g.allocs = b.allocs
  <2>1. d.offset + 1 \in Nat /\ d.offset + 1 < Len(d.content) /\ d.offset + 1 = 1
    BY <1>1, <1>2
  <2> QED
    BY <1>2, <2>1, ReadyMoved, MovedBy
<1> HIDE DEF g
<1>4. Shadows(g, c)
  <2>1. g.offset = c.offset + 1 /\ g.depth = c.depth + 1
    BY <1>3
  <2> QED
    BY <1>3, <2>1 DEF Shadows
<1>5. Shadows(first, start)
  BY <1>4, ShadowSkipped
<1>6. buffer_skip_whitespace(start) = start
  BY SkipTwice
<1>7. first.depth = 1 /\ first.offset >= 1
  BY <1>3, SkipReady
<1> HIDE DEF first, start
<1>8. SUFFICES ASSUME Granted(f)
               PROVE  Same(ElementValue(f, ValueIn[NestingLimit]),
                           ValueIn[NestingLimit + 1][[item |-> Blank, b |-> start]])
  BY DEF first, start, g, d
<1>9. /\ first \in Buffers /\ first.offset \in Nat /\ first.offset < Len(first.content)
      /\ Len(first.content) \in Nat /\ first.allocs \in Nat /\ start.allocs \in Nat
  BY <1>5, ShadowFields
<1>10. /\ f \in Buffers /\ f.offset = first.offset - 1 /\ f.content = first.content
       /\ f.depth = first.depth /\ f.allocs = first.allocs
  <2>1. first.offset + (-1) \in Nat /\ first.offset + (-1) = first.offset - 1
    BY <1>7, <1>9
  <2> QED
    BY <1>9, <2>1, MovedBy
<1> HIDE DEF f
<1>11. /\ Taken(f) \in Buffers /\ Taken(f).offset = first.offset - 1
       /\ Taken(f).content = first.content /\ Taken(f).depth = first.depth
       /\ Taken(f).allocs = first.allocs - 1
  <2>1. Taken(f).allocs = f.allocs - 1
    BY <1>10 DEF Taken, Buffers
  <2> QED
    BY <1>8, <1>10, <2>1, TakenOne
<1>12. /\ m \in Buffers /\ m.offset = first.offset /\ m.content = first.content
       /\ m.depth = first.depth /\ m.allocs = first.allocs - 1
  <2>1. Taken(f).offset + 1 \in Nat /\ Taken(f).offset + 1 = first.offset
    BY <1>9, <1>11
  <2> QED
    BY <1>11, <2>1, MovedBy
<1> HIDE DEF m
<1>13. Shadows(m, start)
  <2>1. /\ Ready(first) /\ Ready(start) /\ start.content = Tail(first.content)
        /\ first.offset = start.offset + 1 /\ first.depth = start.depth + 1
        /\ first.allocs <= start.allocs
    BY <1>5 DEF Shadows
  <2>2. m.allocs <= start.allocs
    BY <1>9, <1>12, <2>1
  <2>3. Ready(m)
    BY <1>12, <2>1 DEF Ready
  <2> QED
    BY <1>12, <2>1, <2>2, <2>3 DEF Shadows
<1> DEFINE e == buffer_skip_whitespace(m)
<1>14. Shadows(e, start) /\ e.depth = 1
  <2>1. Shadows(e, start)
    BY <1>6, <1>13, ShadowSkipped
  <2>2. e.depth = m.depth
    BY <1>13, SkipReady DEF Shadows
  <2> QED
    BY <1>7, <1>12, <2>1, <2>2
<1> HIDE DEF e
<1>15. ShadowReader(ValueIn[NestingLimit], ValueIn[NestingLimit + 1], 1)
  <2> DEFINE n == NestingLimit - 1
  <2>1. /\ n \in 0..(NestingLimit - 1) /\ n + 1 = NestingLimit /\ n + 2 = NestingLimit + 1
        /\ NestingLimit - n = 1
    BY ParseAssumption
  <2> HIDE DEF n
  <2>2. ShadowReader(ValueIn[n + 1], ValueIn[n + 2], NestingLimit - n)
    BY <2>1, ShadowLevels
  <2> QED
    BY <2>1, <2>2
<1>16. Same(ValueIn[NestingLimit][[item |-> Blank, b |-> e]],
            ValueIn[NestingLimit + 1][[item |-> Blank, b |-> start]])
  BY <1>14, <1>15, BlankIs DEF ShadowReader
<1> QED
  BY <1>16 DEF ElementValue, ElementFrom, e, m

(* What is read of a text that is an array of one element is that element,     *)
(* if the text is read without the array's opening bracket.                  *)
THEOREM ElementsAreRead ==
    ASSUME NEW s \in Seq(Nat), Len(s) >= 1, s[1] = OpenArray,
           Whole(s).item # NULL, Len(Whole(s).item.kids) = 1
    PROVE  cJSON_Parse(Tail(s), Plenty).item = Whole(s).item.kids[1]
<1> DEFINE t == Tail(s)
           b == Taken(Buffer(s, Plenty))
           c == Taken(Buffer(t, Plenty))
           start == buffer_skip_whitespace(c)
           r == ParsedValue(Blank, b)
           q == ParsedValue(Blank, start)
<1>1. Plenty \in Nat /\ Plenty # 0
  BY PlentyAssumption
<1>2. t \in Seq(Nat) /\ Len(t) = Len(s) - 1 /\ Len(s) \in Nat
      /\ \A i \in 1..(Len(s) - 1) : t[i] = s[i + 1]
  BY TailIs
<1> HIDE DEF t
<1>3. /\ Ready(b) /\ b.content = Append(s, 0) /\ b.offset = 0 /\ b.depth = 0
      /\ b.allocs = Plenty - 1
      /\ Ready(c) /\ c.content = Append(t, 0) /\ c.offset = 0 /\ c.depth = 0
      /\ c.allocs = Plenty - 1
  BY <1>1, <1>2, StartIs
<1>4. Whole(s) = EndOf(ParsedValue(Blank, buffer_skip_whitespace(b)), TRUE)
  BY <1>1 DEF Whole, cJSON_ParseWithOpts
<1>5. cJSON_Parse(t, Plenty) = EndOf(q, FALSE)
  BY <1>1 DEF cJSON_Parse, cJSON_ParseWithOpts
<1> HIDE DEF b, c
<1>6. At(b) = OpenArray
  <2>1. At(b) = Append(s, 0)[0 + 1]
    BY <1>3, ReadyIs
  <2>2. Append(s, 0)[1] = s[1]
    <3>1. 1 \in 1..Len(s)
      BY <1>2
    <3> QED
      BY <3>1, Appended
  <2> QED
    BY <2>1, <2>2
<1>7. buffer_skip_whitespace(b) = b
  BY <1>3, <1>6, OpenArrayIs, NothingToSkip
<1>8. c.content = Tail(b.content)
  <2> DEFINE u == Append(s, 0)
             v == Append(t, 0)
  <2>1. /\ u \in Seq(Nat) /\ Len(u) = Len(s) + 1 /\ u[Len(s) + 1] = 0
        /\ \A i \in 1..Len(s) : u[i] = s[i]
        /\ v \in Seq(Nat) /\ Len(v) = Len(t) + 1 /\ v[Len(t) + 1] = 0
        /\ \A i \in 1..Len(t) : v[i] = t[i]
    BY <1>2, AppendProperties
  <2> HIDE DEF u, v
  <2>2. Len(u) >= 1
    BY <1>2, <2>1
  <2>3. Tail(u) \in Seq(Nat) /\ Len(Tail(u)) = Len(u) - 1
        /\ \A i \in 1..(Len(u) - 1) : Tail(u)[i] = u[i + 1]
    BY <2>1, <2>2, TailIs
  <2>4. Len(Tail(u)) = Len(v) /\ Len(v) = Len(s) /\ Len(u) - 1 = Len(s)
    <3>1. Len(s) \in Nat /\ Len(t) = Len(s) - 1
      BY <1>2
    <3>2. Len(u) = Len(s) + 1 /\ Len(v) = Len(t) + 1 /\ Len(Tail(u)) = Len(u) - 1
      BY <2>1, <2>3
    <3> HIDE DEF t
    <3> QED
      BY <3>1, <3>2
  <2>5. ASSUME NEW i \in 1..Len(v) PROVE Tail(u)[i] = v[i]
    <3>1. i \in 1..(Len(u) - 1) /\ (i \in 1..(Len(s) - 1) \/ i = Len(s))
      BY <1>2, <2>4
    <3>2. Tail(u)[i] = u[i + 1]
      BY <2>3, <3>1
    <3>3. CASE i = Len(s)
      <4>1. i = Len(t) + 1
        BY <1>2, <3>3
      <4> QED
        BY <2>1, <3>2, <3>3, <4>1
    <3>4. CASE i \in 1..(Len(s) - 1)
      <4>1. i + 1 \in 1..Len(s) /\ i \in 1..Len(t)
        BY <1>2, <3>4
      <4>2. u[i + 1] = s[i + 1] /\ v[i] = t[i] /\ t[i] = s[i + 1]
        BY <1>2, <2>1, <3>4, <4>1
      <4> QED
        BY <3>2, <4>2
    <3> QED
      BY <3>1, <3>3, <3>4
  <2>6. Tail(u) = v
    BY <2>1, <2>3, <2>4, <2>5, SeqEqual
  <2> QED
    BY <1>3, <2>6 DEF u, v
<1>9. Whole(s) = EndOf(r, TRUE)
  BY <1>4, <1>7
<1> DEFINE inner == ValueIn[NestingLimit]
<1>10. r = parse_value(Blank, b, inner)
  <2>1. NestingLimit + 1 \in 1..(NestingLimit + 1) /\ (NestingLimit + 1) - 1 = NestingLimit
    BY ParseAssumption
  <2>2. b \in Buffers
    BY <1>3 DEF Ready
  <2>3. ValueIn[NestingLimit + 1][[item |-> Blank, b |-> b]]
          = parse_value(Blank, b, ValueIn[(NestingLimit + 1) - 1])
    BY <2>1, <2>2, BlankIs, ValueAt
  <2> QED
    BY <2>1, <2>3 DEF ParsedValue
<1> HIDE DEF r, q
<1>11. r.ok /\ Whole(s).item = r.item
  <2>1. ASSUME NEW last PROVE Outcome(r, last, TRUE).item \in {r.item, NULL}
                              /\ (~r.ok => Outcome(r, last, TRUE).item = NULL)
    BY DEF Outcome
  <2>2. PICK last : Whole(s) = Outcome(r, last, TRUE)
    BY <1>9 DEF EndOf
  <2> QED
    BY <2>1, <2>2
<1>12. 0 < NestingLimit => Reader(inner, NestingLimit, 1)
  <2>1. SUFFICES ASSUME 0 < NestingLimit PROVE Reader(inner, NestingLimit, 1)
    OBVIOUS
  <2> DEFINE n == NestingLimit - 1
  <2>2. n \in 0..NestingLimit /\ n + 1 = NestingLimit /\ NestingLimit - n = 1
    BY <2>1, ParseAssumption
  <2> HIDE DEF n
  <2>3. Reader(ValueIn[n + 1], n + 1, NestingLimit - n)
    BY <2>2, EveryLevelIsRead
  <2> QED
    BY <2>2, <2>3
<1>13. parse_value(Blank, b, inner).ok /\ Len(parse_value(Blank, b, inner).item.kids) = 1
  BY <1>10, <1>11
<1> HIDE DEF inner
<1> DEFINE first == buffer_skip_whitespace(Moved([b EXCEPT !.depth = @ + 1], 1))
           value == ElementValue(Moved(first, -1), inner)
<1>14. /\ 0 < NestingLimit /\ Granted(Moved(first, -1)) /\ value.ok
       /\ parse_value(Blank, b, inner).item.kids[1] = value.item
  BY <1>3, <1>6, <1>12, <1>13, ArrayOfOne
<1>15. b.allocs <= c.allocs
  BY <1>1, <1>3
<1>16. Same(value, q)
  <2>1. Granted(Moved(first, -1)) =>
          Same(ElementValue(Moved(first, -1), ValueIn[NestingLimit]),
               ValueIn[NestingLimit + 1][[item |-> Blank, b |-> start]])
    BY <1>3, <1>6, <1>8, <1>14, <1>15, OpenArrayIs, ElementAlone
  <2> QED
    BY <1>14, <2>1 DEF inner, q, ParsedValue
<1> HIDE DEF value, first, start
<1>17. q.ok /\ q.item = value.item
  BY <1>14, <1>16 DEF Same
<1>18. EndOf(q, FALSE).item = q.item
  BY <1>17 DEF EndOf, Outcome
<1> QED
  BY <1>5, <1>10, <1>11, <1>14, <1>17, <1>18 DEF t

-----------------------------------------------------------------------------
LEMMA MessageIsStored ==
    ASSUME text \in Seq(Nat), ParameterMessage, IsMessage(text)
    PROVE  LET data == DataOf(Whole(text).item.kids[1])
           IN  cJSON_IsNumber(data) => Value' = data.val /\ status' = "up"
<1> DEFINE item == Whole(text).item.kids[1]
           data == DataOf(item)
<1> SUFFICES ASSUME cJSON_IsNumber(data) PROVE Value' = data.val /\ status' = "up"
  OBVIOUS
<1>1. /\ Len(text) >= 1 /\ text[1] = OpenArray /\ OpenArray \notin ToSet(Tail(text))
      /\ Whole(text).item # NULL /\ Len(Whole(text).item.kids) = 1
  <2>1. Len(text) \in Nat /\ Len(text) > 1
    BY LenProperties DEF IsMessage, Encloses
  <2> QED
    BY <2>1 DEF IsMessage, Encloses
<1>2. FilterBrackets(text) = Tail(text)
  BY <1>1, StripFirst DEF FilterBrackets
<1>3. Parsed.item = item
  BY <1>1, <1>2, ElementsAreRead DEF Parsed
<1> HIDE DEF item
<1>4. /\ Receive(DataOf(Parsed.item) = NULL)
      /\ Value' = IF DataOf(Parsed.item) = NULL THEN Value ELSE valuedouble(DataOf(Parsed.item))
  BY DEF ParameterMessage
<1>5. Receive(data = NULL) /\ Value' = IF data = NULL THEN Value ELSE valuedouble(data)
  BY <1>3, <1>4
<1> HIDE DEF data
<1>6. data # NULL /\ data.type = "Number"
  BY DEF cJSON_IsNumber
<1>7. Value' = data.val
  BY <1>5, <1>6 DEF valuedouble
<1>8. ~MeetsNameless(Parsed.item, Data)
  BY MessageIs DEF NamesFound
<1>9. ~FilterOverruns(text)
  <2>1. 1 \in DOMAIN text
    BY <1>1, LenProperties
  <2>2. OpenArray \in ToSet(text)
    BY <1>1, <2>1 DEF ToSet
  <2> QED
    BY <2>2 DEF FilterOverruns
<1>10. status' = "up"
  BY <1>5, <1>6, <1>8, <1>9 DEF Receive, Outcomes
<1> QED
  BY <1>7, <1>10

(* A message that is one object, in brackets, gives its parameter the number   *)
(* that JSON says its data is, and leaves the program up: though msgarrvd has  *)
(* taken the opening bracket out, and what it parses is no JSON any more.     *)
THEOREM DataIsStored == Spec => StoresTheData
<1>1. Counted /\ [Next]_vars =>
        [ParameterMessage /\ IsMessage(text) =>
            LET data == DataOf(Whole(text).item.kids[1])
            IN  cJSON_IsNumber(data) => Value' = data.val /\ status' = "up"]_vars
  BY MessageIsStored DEF Counted
<1> QED
  BY <1>1, AlwaysCounted, PTL DEF Spec, StoresTheData

-----------------------------------------------------------------------------
(* The buffer of what is printed.                                           *)

(* Growth can fail without notice only where realloc is used: ensure then     *)
(* answers with an address of no buffer.                                     *)
Spared(p) == ~(p.realloc /\ ~p.noalloc /\ p.allocs = 0)

(* A buffer that is only written to where it is, and of which the memory is   *)
(* accounted for.                                                           *)
Sound(p) ==
    /\ p \in Printbuffers
    /\ p.length <= INT_MAX
    /\ Spared(p) => ~p.fault
    /\ p.noalloc => p.held /\ p.live = 0
    /\ ~p.noalloc /\ ~p.realloc => p.live = (IF p.held THEN 1 ELSE 0) /\ (p.ok => p.held)

(* What no print function changes of its buffer.                             *)
Alike(p, q) ==
    /\ q.realloc = p.realloc /\ q.noalloc = p.noalloc /\ q.format = p.format
    /\ p.noalloc => q.length = p.length

LEMMA NewSizeIsRoom ==
    ASSUME NEW total \in Nat, total <= INT_MAX
    PROVE  NewSize(total) \in Nat /\ total <= NewSize(total) /\ NewSize(total) <= INT_MAX
<1>1. INT_MAX \in Nat
  BY IntAssumption
<1>2. CASE total > INT_MAX \div 2
  BY <1>1, <1>2 DEF NewSize
<1>3. CASE ~(total > INT_MAX \div 2)
  <2>1. 2 * total <= INT_MAX
    BY <1>1, <1>3
  <2> QED
    BY <1>3, <2>1 DEF NewSize
<1> QED
  BY <1>2, <1>3

LEMMA PrintFields ==
    ASSUME NEW p \in Printbuffers
    PROVE  /\ p.length \in Nat /\ p.offset \in Nat /\ p.allocs \in Nat /\ p.live \in Int
           /\ p.held \in BOOLEAN /\ p.noalloc \in BOOLEAN /\ p.realloc \in BOOLEAN
           /\ p.ok \in BOOLEAN /\ p.fault \in BOOLEAN /\ p.format \in BOOLEAN
           /\ p.depth \in Nat /\ p.text \in Seq(Nat) /\ p.ended \in BOOLEAN
BY DEF Printbuffers

LEMMA RefusedIs ==
    ASSUME NEW p, Sound(p)
    PROVE  LET e == Refused(p)
           IN  /\ Sound(e) /\ Alike(p, e) /\ ~e.ok
               /\ e.offset = p.offset /\ e.text = p.text /\ e.depth = p.depth
<1> DEFINE e == Refused(p)
<1>1. p \in Printbuffers
  BY DEF Sound
<1>2. /\ e \in Printbuffers /\ e.length = p.length /\ e.offset = p.offset /\ e.allocs = p.allocs
      /\ e.live = p.live /\ e.held = p.held /\ e.noalloc = p.noalloc /\ e.realloc = p.realloc
      /\ e.ok = FALSE /\ e.fault = p.fault /\ e.format = p.format /\ e.depth = p.depth
      /\ e.text = p.text
  BY <1>1 DEF Refused, Printbuffers
<1> HIDE DEF e
<1>3. Sound(e)
  BY <1>2 DEF Sound, Spared
<1>4. Alike(p, e)
  BY <1>2 DEF Alike
<1> QED
  BY <1>2, <1>3, <1>4 DEF e

LEMMA GrownIs ==
    ASSUME NEW p, Sound(p), p.held, ~p.noalloc, p.allocs # 0, NEW size \in Nat, size <= INT_MAX
    PROVE  LET e == Grown(p, size)
           IN  /\ Sound(e) /\ Alike(p, e) /\ e.ok = p.ok /\ e.length = size /\ e.held
               /\ e.offset = p.offset /\ e.text = p.text /\ e.depth = p.depth
<1> DEFINE e == Grown(p, size)
<1>1. p \in Printbuffers
  BY DEF Sound
<1>2. p.allocs - 1 \in Nat
  BY <1>1, PrintFields
<1>3. /\ e \in Printbuffers /\ e.length = size /\ e.offset = p.offset /\ e.allocs = p.allocs - 1
      /\ e.live = p.live /\ e.held = p.held /\ e.noalloc = p.noalloc /\ e.realloc = p.realloc
      /\ e.ok = p.ok /\ e.fault = p.fault /\ e.format = p.format /\ e.depth = p.depth
      /\ e.text = p.text
  BY <1>1, <1>2 DEF Grown, Printbuffers
<1> HIDE DEF e
<1>4. Sound(e)
  BY <1>3 DEF Sound, Spared
<1>5. Alike(p, e)
  BY <1>3 DEF Alike
<1> QED
  BY <1>3, <1>4, <1>5 DEF e

LEMMA GrowFailsIs ==
    ASSUME NEW p, Sound(p), p.ok, p.held, ~p.noalloc, p.allocs = 0
    PROVE  LET e == GrowFails(p)
           IN  /\ Sound(e) /\ Alike(p, e) /\ (e.ok => e.fault)
               /\ e.offset = p.offset /\ e.text = p.text /\ e.depth = p.depth
<1> DEFINE e == GrowFails(p)
<1>1. p \in Printbuffers
  BY DEF Sound
<1>2. CASE p.realloc
  <2>1. e = [p EXCEPT !.held = FALSE, !.ok = (p.offset # 0), !.fault = @ \/ p.offset # 0]
    BY <1>2 DEF GrowFails
  <2>2. /\ e \in Printbuffers /\ e.length = p.length /\ e.offset = p.offset /\ e.allocs = p.allocs
        /\ e.noalloc = p.noalloc /\ e.realloc = p.realloc
        /\ e.ok = (p.offset # 0) /\ e.fault = (p.fault \/ p.offset # 0) /\ e.format = p.format
        /\ e.depth = p.depth /\ e.text = p.text
    BY <1>1, <2>1 DEF Printbuffers
  <2> HIDE DEF e
  <2>3. Sound(e)
    BY <1>2, <2>2 DEF Sound, Spared
  <2>4. Alike(p, e)
    BY <2>2 DEF Alike
  <2> QED
    BY <2>2, <2>3, <2>4 DEF e
<1>3. CASE ~p.realloc
  <2>1. e = [p EXCEPT !.held = FALSE, !.ok = FALSE, !.length = 0, !.live = @ - 1]
    BY <1>3 DEF GrowFails
  <2>2. p.live - 1 \in Int
    BY <1>1, PrintFields
  <2>3. /\ e \in Printbuffers /\ e.length = 0 /\ e.offset = p.offset /\ e.allocs = p.allocs
        /\ e.noalloc = p.noalloc /\ e.realloc = p.realloc /\ e.live = p.live - 1
        /\ e.held = FALSE
        /\ e.ok = FALSE /\ e.fault = p.fault /\ e.format = p.format
        /\ e.depth = p.depth /\ e.text = p.text
    BY <1>1, <2>1, <2>2 DEF Printbuffers
  <2> HIDE DEF e
  <2>5. 0 <= INT_MAX
    BY IntAssumption
  <2>6. e.live = 0
    <3>1. p.live = 1
      BY <1>3 DEF Sound
    <3> QED
      BY <2>3, <3>1
  <2>7. Sound(e)
    BY <1>3, <2>3, <2>5, <2>6 DEF Sound, Spared
  <2>8. Alike(p, e)
    BY <2>3 DEF Alike
  <2> QED
    BY <2>3, <2>7, <2>8 DEF e
<1> QED
  BY <1>1, <1>2, <1>3, PrintFields

(* What ensure grants is there, the terminator counted; it moves nothing that *)
(* was printed, and the buffer of a caller stays as long as it was.           *)
THEOREM EnsureGivesRoom ==
    ASSUME NEW p, Sound(p), NEW needed \in Nat
    PROVE  LET e == ensure(p, needed)
           IN  /\ Sound(e) /\ Alike(p, e)
               /\ e.offset = p.offset /\ e.text = p.text /\ e.depth = p.depth
               /\ e.ok => p.ok
               /\ e.ok /\ ~e.fault => e.held /\ p.offset + needed + 1 <= e.length
               /\ p.ok /\ p.noalloc /\ p.offset + needed + 1 <= p.length => e.ok
<1> DEFINE e == ensure(p, needed)
<1>1. p \in Printbuffers /\ p.length <= INT_MAX /\ INT_MAX \in Nat
  BY IntAssumption DEF Sound
<1>2. p.length \in Nat /\ p.offset \in Nat /\ p.allocs \in Nat
  BY <1>1, PrintFields
<1>3. Total(p, needed) \in Nat /\ Total(p, needed) = p.offset + needed + 1
  BY <1>2 DEF Total
<1>4. ASSUME e = Refused(p)
      PROVE  /\ Sound(e) /\ Alike(p, e) /\ ~e.ok
             /\ e.offset = p.offset /\ e.text = p.text /\ e.depth = p.depth
  <2> HIDE DEF e
  <2> QED
    BY <1>4, RefusedIs
<1>7. p.noalloc => p.held
  BY DEF Sound
<1>5. CASE ~p.ok \/ ~p.held \/ (p.length > 0 /\ p.offset >= p.length) \/ needed > INT_MAX
  <2>1. e = Refused(p)
    BY <1>5 DEF ensure
  <2> HIDE DEF e
  <2>2. ~(p.ok /\ p.noalloc /\ p.offset + needed + 1 <= p.length)
    BY <1>1, <1>2, <1>5, <1>7
  <2> QED
    BY <1>4, <2>1, <2>2 DEF e
<1>6. CASE ~(~p.ok \/ ~p.held \/ (p.length > 0 /\ p.offset >= p.length) \/ needed > INT_MAX)
  <2>1. CASE Total(p, needed) <= p.length
    <3>1. e = p
      BY <1>6, <2>1 DEF ensure
    <3> HIDE DEF e
    <3> QED
      BY <1>3, <1>6, <2>1, <3>1 DEF Alike, e
  <2>2. CASE ~(Total(p, needed) <= p.length) /\ ~MayGrow(p, needed)
    <3>1. e = Refused(p)
      BY <1>6, <2>2 DEF ensure
    <3> HIDE DEF e
    <3> QED
      BY <1>3, <1>4, <2>2, <3>1 DEF e
  <2>3. CASE ~(Total(p, needed) <= p.length) /\ MayGrow(p, needed) /\ p.allocs = 0
    <3>1. e = GrowFails(p)
      BY <1>6, <2>3 DEF ensure
    <3>2. ~p.noalloc
      BY <2>3 DEF MayGrow
    <3> HIDE DEF e
    <3> QED
      BY <1>3, <1>6, <2>3, <3>1, <3>2, GrowFailsIs DEF e
  <2>4. CASE ~(Total(p, needed) <= p.length) /\ MayGrow(p, needed) /\ p.allocs # 0
    <3> DEFINE size == NewSize(Total(p, needed))
    <3>1. e = Grown(p, size)
      BY <1>6, <2>4 DEF ensure
    <3>2. ~p.noalloc /\ Total(p, needed) <= INT_MAX
      BY <2>4 DEF MayGrow
    <3>3. size \in Nat /\ Total(p, needed) <= size /\ size <= INT_MAX
      BY <1>3, <3>2, NewSizeIsRoom
    <3> HIDE DEF size, e
    <3>4. /\ Sound(e) /\ Alike(p, e) /\ e.ok = p.ok /\ e.length = size /\ e.held
          /\ e.offset = p.offset /\ e.text = p.text /\ e.depth = p.depth
      BY <1>6, <2>4, <3>1, <3>2, <3>3, GrownIs
    <3> QED
      BY <1>3, <1>6, <3>3, <3>4 DEF e
  <2> QED
    BY <2>1, <2>2, <2>3, <2>4
<1> QED
  BY <1>5, <1>6

(* A caller that writes no more than it asked for and a terminator, and keeps *)
(* no more than it asked for, never writes beyond the buffer, and leaves room *)
(* for the terminator.                                                      *)
THEOREM StoredStaysInside ==
    ASSUME NEW p, Sound(p), NEW needed \in Nat,
           NEW size \in 0..(needed + 1), NEW advance \in 0..needed
    PROVE  LET q == Stored(p, needed, size, advance)
           IN  /\ Sound(q) /\ Alike(p, q) /\ q.text = p.text /\ q.depth = p.depth
               /\ q.ok => /\ p.ok /\ q.offset = p.offset + advance
                          /\ ~q.fault => q.offset < q.length /\ p.offset + size <= q.length
               /\ p.ok /\ p.noalloc /\ p.offset + needed + 1 <= p.length => q.ok
<1> DEFINE e == ensure(p, needed)
           q == Stored(p, needed, size, advance)
<1>1. /\ Sound(e) /\ Alike(p, e) /\ e.offset = p.offset /\ e.text = p.text /\ e.depth = p.depth
      /\ e.ok => p.ok
      /\ e.ok /\ ~e.fault => e.held /\ p.offset + needed + 1 <= e.length
      /\ p.ok /\ p.noalloc /\ p.offset + needed + 1 <= p.length => e.ok
  BY EnsureGivesRoom
<1>2. q = IF ~e.ok THEN e ELSE [e EXCEPT !.offset = @ + advance,
                                        !.fault = @ \/ e.offset + size > e.length]
  BY DEF Stored
<1> HIDE DEF e, q
<1>3. /\ e \in Printbuffers /\ e.length \in Nat /\ e.offset \in Nat /\ e.fault \in BOOLEAN
      /\ e.offset + advance \in Nat
  <2>1. e \in Printbuffers
    BY <1>1 DEF Sound
  <2> QED
    BY <2>1, PrintFields
<1>4. CASE ~e.ok
  BY <1>1, <1>2, <1>4 DEF q
<1>5. CASE e.ok
  <2>1. e.fault \/ (e.offset + size <= e.length /\ e.offset + advance < e.length)
    BY <1>1, <1>3, <1>5
  <2>2. (e.fault \/ e.offset + size > e.length) = e.fault
    BY <1>3, <2>1
  <2>3. q = [e EXCEPT !.offset = e.offset + advance, !.fault = e.fault]
    BY <1>2, <1>5, <2>2
  <2>4. /\ q \in Printbuffers /\ q.length = e.length /\ q.allocs = e.allocs
        /\ q.live = e.live /\ q.held = e.held /\ q.noalloc = e.noalloc /\ q.realloc = e.realloc
        /\ q.ok = e.ok /\ q.fault = e.fault /\ q.format = e.format /\ q.depth = e.depth
        /\ q.text = e.text /\ q.offset = e.offset + advance
    BY <1>3, <2>3 DEF Printbuffers
  <2>5. Sound(q)
    BY <1>1, <2>4 DEF Sound, Spared
  <2>6. Alike(p, q)
    BY <1>1, <2>4 DEF Alike
  <2> QED
    BY <1>1, <1>5, <2>1, <2>4, <2>5, <2>6 DEF q
<1> QED
  BY <1>4, <1>5

(* A buffer of a caller in which a text has its place, and two bytes more.    *)
Fits(m, t) == m.noalloc /\ strlen(t) + 2 <= m.length

(* Buffers with a text that can be written on, at the depth d: the offset is  *)
(* at its end.                                                              *)
Stage(m, d, t) ==
    {q \in Printbuffers :
        /\ Sound(q) /\ Alike(m, q) /\ (q.ok => m.ok)
        /\ q.ok => q.depth = d /\ q.text = t /\ q.offset = strlen(t)
        /\ Fits(m, t) => q.ok}

(* Buffers as print_value leaves them: there is a terminator, and room for it. *)
Done(m, d, t) ==
    {q \in Printbuffers :
        /\ Sound(q) /\ Alike(m, q) /\ (q.ok => m.ok)
        /\ q.ok => q.depth = d /\ q.text = t /\ q.ended /\ (~q.fault => strlen(t) < q.length)
        /\ Fits(m, t) => q.ok}

LEMMA FitsBefore ==
    ASSUME NEW m, NEW t \in Seq(Nat), NEW s \in Seq(Nat), Fits(m, t \o s), m.length \in Int
    PROVE  Fits(m, t) /\ strlen(t) + strlen(s) + 2 <= m.length
<1>1. strlen(t \o s) = strlen(t) + strlen(s) /\ strlen(t) \in Nat /\ strlen(s) \in Nat
  BY StrlenConcat, Widths
<1> QED
  BY <1>1 DEF Fits

LEMMA AlikeTo ==
    ASSUME NEW m, NEW p, Alike(m, p), NEW q, Alike(p, q)
    PROVE  Alike(m, q)
BY DEF Alike

Continuing(e, t, ended) == [e EXCEPT !.text = t, !.ended = ended]

LEMMA WrittenIs ==
    ASSUME NEW e, Sound(e), e.ok, NEW t \in Seq(Nat), NEW ended \in BOOLEAN
    PROVE  LET q == Continuing(e, t, ended)
           IN  /\ Sound(q) /\ Alike(e, q) /\ q.ok /\ q.text = t /\ q.ended = ended
               /\ q.offset = e.offset /\ q.depth = e.depth /\ q.fault = e.fault
               /\ q.length = e.length
<1> DEFINE q == Continuing(e, t, ended)
<1>1. e \in Printbuffers
  BY DEF Sound
<1>2. /\ q \in Printbuffers /\ q.length = e.length /\ q.allocs = e.allocs
      /\ q.live = e.live /\ q.held = e.held /\ q.noalloc = e.noalloc /\ q.realloc = e.realloc
      /\ q.ok = e.ok /\ q.fault = e.fault /\ q.format = e.format /\ q.depth = e.depth
      /\ q.text = t /\ q.offset = e.offset /\ q.ended = ended
  BY <1>1 DEF Printbuffers, Continuing
<1> HIDE DEF q
<1>3. Sound(q)
  BY <1>2 DEF Sound, Spared
<1>4. Alike(e, q)
  BY <1>2 DEF Alike
<1> QED
  BY <1>2, <1>3, <1>4 DEF q

(* What is written follows what was there.                                   *)
LEMMA WriteIs ==
    ASSUME NEW m, NEW d, NEW t \in Seq(Nat), NEW p \in Stage(m, d, t),
           NEW needed \in Nat, NEW symbols \in Seq(Nat),
           NEW ended \in BOOLEAN, NEW moves \in BOOLEAN,
           strlen(symbols) + (IF ended THEN 1 ELSE 0) <= needed + 1,
           needed <= strlen(symbols) + 1,
           moves => strlen(symbols) <= needed
    PROVE  /\ moves => Write(p, needed, symbols, ended, moves) \in Stage(m, d, t \o symbols)
           /\ ended => Write(p, needed, symbols, ended, moves) \in Done(m, d, t \o symbols)
<1> DEFINE q == Write(p, needed, symbols, ended, moves)
           size == strlen(symbols)
           stored == size + (IF ended THEN 1 ELSE 0)
           advance == IF moves THEN size ELSE 0
           e == Stored(p, needed, stored, advance)
           u == t \o symbols
<1>1. /\ p \in Printbuffers /\ Sound(p) /\ Alike(m, p) /\ (p.ok => m.ok)
      /\ p.ok => p.depth = d /\ p.text = t /\ p.offset = strlen(t)
      /\ Fits(m, t) => p.ok
  BY DEF Stage
<1>2. size \in Nat /\ p.offset \in Nat /\ strlen(t) \in Nat /\ p.length \in Nat
  BY <1>1, Widths, PrintFields
<1>3. stored \in 0..(needed + 1) /\ advance \in 0..needed
  <2> HIDE DEF size
  <2> QED
    BY <1>2 DEF size
<1>4. q = IF ~e.ok THEN e ELSE [e EXCEPT !.text = Kept(p) \o symbols, !.ended = ended]
  BY DEF Write, WriteSized, WrittenTo
<1>11. u \in Seq(Nat) /\ strlen(u) = strlen(t) + size
  BY StrlenConcat, ConcatProperties
<1> HIDE DEF q, size, stored, advance, u
<1>5. /\ Sound(e) /\ Alike(p, e) /\ e.text = p.text /\ e.depth = p.depth
      /\ e.ok => /\ p.ok /\ e.offset = p.offset + advance
                 /\ ~e.fault => e.offset < e.length /\ p.offset + stored <= e.length
      /\ p.ok /\ p.noalloc /\ p.offset + needed + 1 <= p.length => e.ok
  BY <1>1, <1>3, StoredStaysInside
<1>10. Fits(m, u) => e.ok
  <2>1. SUFFICES ASSUME Fits(m, u) PROVE e.ok
    OBVIOUS
  <2>2. p.length = m.length /\ p.noalloc
    BY <1>1, <2>1 DEF Alike, Fits
  <2>3. Fits(m, t) /\ strlen(t) + size + 2 <= m.length
    <3>1. m.length \in Int
      BY <1>2, <2>2
    <3> QED
      BY <2>1, <3>1, FitsBefore DEF u, size
  <2>4. needed <= size + 1
    BY DEF size
  <2>5. p.offset + needed + 1 <= p.length
    BY <1>1, <1>2, <2>2, <2>3, <2>4
  <2> HIDE DEF e
  <2> QED
    BY <1>1, <1>5, <2>2, <2>3, <2>5
<1> HIDE DEF e
<1>6. e \in Printbuffers
  BY <1>5 DEF Sound
<1>7. Alike(m, e)
  BY <1>1, <1>5, AlikeTo
<1>8. CASE ~e.ok
  <2>1. q = e
    BY <1>4, <1>8
  <2>2. q \in Stage(m, d, u) /\ q \in Done(m, d, u)
    BY <1>5, <1>6, <1>7, <1>8, <1>10, <2>1 DEF Stage, Done
  <2> QED
    BY <2>2 DEF q, u
<1>9. CASE e.ok
  <2>2. Kept(p) \o symbols = u
    BY <1>1, <1>5, <1>9 DEF Kept, u
  <2>3. q = Continuing(e, u, ended)
    BY <1>4, <1>9, <2>2 DEF Continuing
  <2>5. /\ Sound(q) /\ Alike(e, q) /\ q.ok /\ q.text = u /\ q.ended = ended
        /\ q.offset = e.offset /\ q.depth = e.depth /\ q.fault = e.fault
        /\ q.length = e.length
    <3>1. Sound(e) /\ e.ok /\ u \in Seq(Nat) /\ ended \in BOOLEAN
      BY <1>5, <1>9, <1>11
    <3> QED
      BY SMTT(60), <2>3, <3>1, WrittenIs
  <2>6. Alike(m, q) /\ q \in Printbuffers /\ q.depth = d
    BY <1>1, <1>5, <1>7, <1>9, <2>5, AlikeTo DEF Sound
  <2>7. moves => q.offset = strlen(u)
    BY <1>1, <1>5, <1>9, <1>11, <2>5 DEF advance
  <2>8. ended /\ ~q.fault => strlen(u) < q.length
    <3>1. SUFFICES ASSUME ended, ~q.fault PROVE strlen(u) < q.length
      OBVIOUS
    <3>2. stored = size + 1 /\ p.offset + stored <= q.length /\ q.length \in Nat
      BY <1>5, <1>9, <2>5, <2>6, <3>1, PrintFields DEF stored
    <3> QED
      BY <1>1, <1>2, <1>5, <1>9, <1>11, <3>2
  <2>9. /\ moves => q \in Stage(m, d, u)
        /\ ended => q \in Done(m, d, u)
    BY <1>1, <1>5, <1>9, <2>5, <2>6, <2>7, <2>8 DEF Stage, Done
  <2> QED
    BY <2>9 DEF q, u
<1> QED
  BY <1>8, <1>9

(* strlen finds the end that print_value has left.                           *)
LEMMA UpdatedIs ==
    ASSUME NEW m, NEW d, NEW t \in Seq(Nat), NEW p \in Done(m, d, t)
    PROVE  LET q == update_offset(p)
           IN  /\ q \in Stage(m, d, t) /\ q.ok = p.ok /\ q.allocs = p.allocs
               /\ q.fault = p.fault /\ q.ended = p.ended /\ q.held = p.held /\ q.live = p.live
               /\ q.length = p.length
<1> DEFINE q == update_offset(p)
           n == strlen(t)
<1>1. /\ p \in Printbuffers /\ Sound(p) /\ Alike(m, p) /\ p.fault \in BOOLEAN
      /\ p.ok => m.ok
      /\ p.ok => p.depth = d /\ p.ended /\ p.text = t
      /\ Fits(m, t) => p.ok
  BY PrintFields DEF Done
<1>4. n \in Nat
  BY Widths
<1> HIDE DEF n
<1>2. CASE ~p.ok
  <2>1. q = p
    BY <1>2 DEF update_offset
  <2> HIDE DEF q
  <2>2. q \in Stage(m, d, t)
    BY <1>1, <1>2, <2>1 DEF Stage
  <2> QED
    BY <2>1, <2>2 DEF q
<1>3. CASE p.ok
  <2>1. q = [p EXCEPT !.offset = n, !.fault = @ \/ ~p.ended]
    BY <1>1, <1>3 DEF update_offset, n
  <2>2. (p.fault \/ ~p.ended) = p.fault
    BY <1>1, <1>3
  <2>3. q = [p EXCEPT !.offset = n, !.fault = p.fault]
    BY <2>1, <2>2
  <2> HIDE DEF q
  <2>6. /\ q \in Printbuffers /\ q.length = p.length /\ q.allocs = p.allocs
        /\ q.live = p.live /\ q.held = p.held /\ q.noalloc = p.noalloc /\ q.realloc = p.realloc
        /\ q.ok = p.ok /\ q.fault = p.fault /\ q.format = p.format /\ q.depth = p.depth
        /\ q.text = p.text /\ q.offset = n /\ q.ended = p.ended
    BY <1>1, <1>4, <2>3 DEF Printbuffers
  <2>7. Sound(q)
    BY <1>1, <2>6 DEF Sound, Spared
  <2>8. Alike(m, q)
    BY <1>1, <2>6 DEF Alike
  <2>9. q \in Stage(m, d, t)
    BY <1>1, <1>3, <2>6, <2>7, <2>8 DEF Stage, n
  <2> QED
    BY <2>6, <2>9 DEF q
<1> QED
  BY <1>2, <1>3

LEMMA DeeperIs ==
    ASSUME NEW p, Sound(p), NEW n \in Int, p.ok => p.depth + n \in Nat
    PROVE  LET q == Deeper(p, n)
           IN  /\ Sound(q) /\ Alike(p, q) /\ q.ok = p.ok /\ q.text = p.text
               /\ q.offset = p.offset /\ q.ended = p.ended /\ q.fault = p.fault
               /\ q.length = p.length /\ q \in Printbuffers
               /\ p.ok => q.depth = p.depth + n
<1> DEFINE q == Deeper(p, n)
<1>1. p \in Printbuffers
  BY DEF Sound
<1>2. CASE ~p.ok
  <2>1. q = p
    BY <1>2 DEF Deeper
  <2> QED
    BY <1>1, <1>2, <2>1 DEF Alike
<1>3. CASE p.ok
  <2>1. q = [p EXCEPT !.depth = @ + n]
    BY <1>3 DEF Deeper
  <2>2. /\ q \in Printbuffers /\ q.length = p.length /\ q.allocs = p.allocs
        /\ q.live = p.live /\ q.held = p.held /\ q.noalloc = p.noalloc /\ q.realloc = p.realloc
        /\ q.ok = p.ok /\ q.fault = p.fault /\ q.format = p.format /\ q.depth = p.depth + n
        /\ q.text = p.text /\ q.offset = p.offset /\ q.ended = p.ended
    BY <1>1, <1>3, <2>1 DEF Printbuffers
  <2> HIDE DEF q
  <2>3. Sound(q)
    BY <2>2 DEF Sound, Spared
  <2>4. Alike(p, q)
    BY <2>2 DEF Alike
  <2> QED
    BY <2>2, <2>3, <2>4 DEF q
<1> QED
  BY <1>2, <1>3

LEMMA DeeperStage ==
    ASSUME NEW m, NEW d \in Nat, NEW t, NEW p \in Stage(m, d, t)
    PROVE  Deeper(p, 1) \in Stage(m, d + 1, t)
<1>1. /\ Sound(p) /\ Alike(m, p) /\ (Fits(m, t) => p.ok) /\ (p.ok => m.ok)
      /\ p.ok => p.depth = d /\ p.text = t /\ p.offset = strlen(t)
  BY DEF Stage
<1> DEFINE q == Deeper(p, 1)
<1> HIDE DEF q
<1>2. /\ Sound(q) /\ Alike(p, q) /\ q.ok = p.ok /\ q.text = p.text
      /\ q.offset = p.offset /\ q \in Printbuffers /\ (p.ok => q.depth = p.depth + 1)
  <2>1. 1 \in Int /\ (p.ok => p.depth + 1 \in Nat)
    BY <1>1
  <2> QED
    BY <1>1, <2>1, DeeperIs DEF q
<1>3. Alike(m, q)
  BY <1>1, <1>2, AlikeTo
<1> QED
  BY <1>1, <1>2, <1>3 DEF Stage, q

LEMMA ShallowerDone ==
    ASSUME NEW m, NEW d \in Nat, NEW t, NEW p \in Done(m, d + 1, t)
    PROVE  Deeper(p, -1) \in Done(m, d, t)
<1>1. /\ Sound(p) /\ Alike(m, p) /\ (Fits(m, t) => p.ok) /\ (p.ok => m.ok)
      /\ p.ok => /\ p.depth = d + 1 /\ p.ended /\ p.text = t
                 /\ ~p.fault => strlen(t) < p.length
  BY DEF Done
<1> DEFINE q == Deeper(p, -1)
<1> HIDE DEF q
<1>2. /\ Sound(q) /\ Alike(p, q) /\ q.ok = p.ok /\ q.text = p.text /\ q.fault = p.fault
      /\ q.length = p.length /\ q.ended = p.ended /\ q \in Printbuffers
      /\ p.ok => q.depth = p.depth + (-1)
  <2>1. -1 \in Int /\ (p.ok => p.depth + (-1) \in Nat)
    BY <1>1
  <2> QED
    BY <1>1, <2>1, DeeperIs DEF q
<1>3. Alike(m, q)
  BY <1>1, <1>2, AlikeTo
<1>4. p.ok => q.depth = d
  BY <1>1, <1>2
<1> QED
  BY <1>1, <1>2, <1>3, <1>4 DEF Done, q

LEMMA SameBuffer ==
    ASSUME NEW m, NEW d, NEW t, NEW p \in Stage(m, d, t)
    PROVE  /\ p \in Printbuffers /\ p.format = m.format
           /\ p \in Stage(p, d, t) /\ \A u : Done(p, d, u) \subseteq Done(m, d, u)
<1>1. /\ p \in Printbuffers /\ Sound(p) /\ Alike(m, p) /\ (p.ok => m.ok)
      /\ p.ok => p.depth = d /\ p.text = t /\ p.offset = strlen(t)
      /\ Fits(m, t) => p.ok
  BY DEF Stage
<1>2. \A u : Fits(m, u) => Fits(p, u)
  BY <1>1 DEF Alike, Fits
<1>3. m.noalloc = p.noalloc
  BY <1>1 DEF Alike
<1>4. \A u : Fits(p, u) => Fits(m, u)
  BY <1>1, <1>3 DEF Alike, Fits
<1>5. Alike(p, p)
  BY DEF Alike
<1>6. p \in Stage(p, d, t)
  BY <1>1, <1>4, <1>5 DEF Stage
<1>7. ASSUME NEW u, NEW q \in Done(p, d, u) PROVE q \in Done(m, d, u)
  <2>1. /\ q \in Printbuffers /\ Sound(q) /\ Alike(p, q) /\ (q.ok => p.ok)
        /\ q.ok => q.depth = d /\ q.text = u /\ q.ended /\ (~q.fault => strlen(u) < q.length)
        /\ Fits(p, u) => q.ok
    BY <1>7 DEF Done
  <2>2. Alike(m, q)
    BY <1>1, <2>1, AlikeTo
  <2> QED
    BY <1>1, <1>2, <2>1, <2>2 DEF Done
<1> QED
  BY <1>1, <1>6, <1>7 DEF Alike

(* What failed is written on by nobody.                                      *)
LEMMA RefusedStays ==
    ASSUME NEW m, NEW d, NEW t \in Seq(Nat), NEW p \in Stage(m, d, t), ~p.ok, m.length \in Int,
           NEW needed, NEW symbols, NEW ended, NEW moves, NEW u \in Seq(Nat)
    PROVE  /\ Write(p, needed, symbols, ended, moves) \in Stage(m, d, t \o u)
           /\ Write(p, needed, symbols, ended, moves) \in Done(m, d, t \o u)
<1> DEFINE q == Write(p, needed, symbols, ended, moves)
<1>1. q = Refused(p)
  <2>1. \A size, advance : Stored(p, needed, size, advance) = Refused(p) /\ ~Refused(p).ok
    <3>1. ensure(p, needed) = Refused(p)
      BY DEF ensure
    <3>2. ~Refused(p).ok
      BY RefusedIs DEF Stage
    <3> QED
      BY <3>1, <3>2 DEF Stored
  <2> QED
    BY <2>1 DEF Write, WriteSized, WrittenTo
<1>2. Sound(p) /\ Alike(m, p) /\ (Fits(m, t) => p.ok)
  BY DEF Stage
<1> HIDE DEF q
<1>3. Sound(q) /\ Alike(p, q) /\ ~q.ok
  BY <1>1, <1>2, RefusedIs
<1>4. Alike(m, q) /\ q \in Printbuffers
  BY <1>2, <1>3, AlikeTo DEF Sound
<1>5. ~Fits(m, t \o u)
  BY <1>2, FitsBefore
<1>6. q \in Stage(m, d, t \o u) /\ q \in Done(m, d, t \o u)
  BY <1>3, <1>4, <1>5 DEF Stage, Done
<1> QED
  BY <1>6 DEF q

(* The symbols of one byte that the layout is made of.                       *)
Narrow == {Tab, Newline, Space, Comma, Colon, OpenArray, CloseArray, OpenObject, CloseObject}

LEMMA NarrowIs == Narrow \subseteq Nat /\ \A symbol \in Narrow : Width(symbol) = 1
BY DEF Narrow, Width, Words, Tab, Newline, Space, Comma, Colon, OpenArray, CloseArray,
       OpenObject, CloseObject

LEMMA Ones ==
    ASSUME NEW s \in Seq(Int), \A i \in 1..Len(s) : s[i] = 1
    PROVE  SumOf(s) = Len(s)
<1> DEFINE N == Len(s)
           T == {n \in 0..N : \A f : Sums(s, f) => f[n] = n}
<1>1. N \in Nat
  BY LenProperties
<1>2. 0 \in T
  BY <1>1 DEF Sums
<1>3. ASSUME NEW n \in 0..(N - 1), n \in T PROVE n + 1 \in T
  <2>1. ASSUME NEW f, Sums(s, f) PROVE f[n + 1] = n + 1
    <3>1. n + 1 \in 0..N /\ n + 1 # 0 /\ (n + 1) - 1 = n /\ n + 1 \in 1..N
      BY <1>1
    <3>2. f[n + 1] = f[n] + s[n + 1]
      BY <2>1, <3>1 DEF Sums
    <3>3. f[n] = n
      BY <1>3, <2>1
    <3> QED
      BY <3>1, <3>2, <3>3
  <2> QED
    BY <1>1, <2>1
<1>4. T \in SUBSET (0..N)
  OBVIOUS
<1> HIDE DEF T
<1>5. T = 0..N
  BY <1>1, <1>2, <1>3, <1>4, UpTo
<1>6. PICK f : Sums(s, f) /\ SumOf(s) = f[Len(s)]
  BY SumIsSums
<1>7. N \in T
  BY <1>1, <1>5
<1> QED
  BY <1>6, <1>7 DEF T

(* Of these symbols strlen counts as many as there are.                      *)
LEMMA NarrowTexts ==
    ASSUME NEW s \in Seq(Narrow)
    PROVE  s \in Seq(Nat) /\ strlen(s) = Len(s) /\ Len(s) \in Nat
<1>1. s \in Seq(Nat) /\ Len(s) \in Nat /\ DOMAIN s = 1..Len(s)
  BY NarrowIs, SeqMonotonic, LenProperties
<1> DEFINE w == [i \in DOMAIN s |-> Width(s[i])]
<1>2. w \in Seq(Int)
  BY <1>1, Widths
<1>3. DOMAIN w = 1..Len(s) /\ Len(w) = Len(s)
  BY <1>1, <1>2, LenProperties
<1>4. \A i \in 1..Len(w) : w[i] = 1
  <2>1. \A i \in 1..Len(s) : s[i] \in Narrow
    BY ElementOfSeq
  <2> QED
    BY <1>1, <1>3, <2>1, NarrowIs
<1> HIDE DEF w
<1>5. SumOf(w) = Len(w)
  BY <1>2, <1>4, Ones
<1> QED
  BY <1>1, <1>3, <1>5 DEF strlen, w

LEMMA OneNarrow ==
    ASSUME NEW symbol \in Narrow
    PROVE  <<symbol>> \in Seq(Narrow) /\ Len(<<symbol>>) = 1
OBVIOUS

LEMMA MayBeNarrow ==
    ASSUME NEW s \in Seq(Narrow), NEW condition \in BOOLEAN
    PROVE  If(condition, s) \in Seq(Narrow)
BY EmptySeq DEF If

LEMMA TabsAre ==
    ASSUME NEW n \in Nat
    PROVE  Tabs(n) \in Seq(Narrow) /\ Len(Tabs(n)) = n
<1>1. Tab \in Narrow
  BY DEF Narrow
<1>2. Tabs(n) \in [1..n -> Narrow]
  BY <1>1 DEF Tabs
<1>3. Tabs(n) \in Seq(Narrow)
  BY <1>2, SeqDef
<1>4. DOMAIN Tabs(n) = 1..n /\ DOMAIN Tabs(n) = 1..Len(Tabs(n)) /\ Len(Tabs(n)) \in Nat
  BY <1>2, <1>3, LenProperties
<1>5. Len(Tabs(n)) = n
  <2> DEFINE l == Len(Tabs(n))
  <2> HIDE DEF l
  <2>1. 1..n = 1..l /\ l \in Nat
    BY <1>4 DEF l
  <2>2. l = n
    BY <2>1
  <2> QED
    BY <2>2 DEF l
<1> QED
  BY <1>3, <1>5

LEMMA Together ==
    ASSUME NEW a \in Seq(Narrow), NEW b \in Seq(Narrow)
    PROVE  a \o b \in Seq(Narrow) /\ Len(a \o b) = Len(a) + Len(b)
BY ConcatProperties

-----------------------------------------------------------------------------
LEMMA LiteralIs == ASSUME NEW code \in Nat PROVE Literal(code) \in Seq(Nat)
<1> DEFINE Digit(n) == LET d == (code \div n) % 16 IN IF d < 10 THEN 48 + d ELSE 87 + d
<1>1. \A d \in Int : d \in Nat => (IF d < 10 THEN 48 + d ELSE 87 + d) \in Nat
  OBVIOUS
<1>2. /\ (code \div 4096) % 16 \in Nat /\ (code \div 256) % 16 \in Nat
      /\ (code \div 16) % 16 \in Nat /\ (code \div 1) % 16 \in Nat
  OBVIOUS
<1>3. Digit(4096) \in Nat /\ Digit(256) \in Nat /\ Digit(16) \in Nat /\ Digit(1) \in Nat
  BY <1>1, <1>2
<1>4. Literal(code) = <<Backslash, LetterU, Digit(4096), Digit(256), Digit(16), Digit(1)>>
  BY DEF Literal
<1> HIDE DEF Digit
<1>5. Backslash \in Nat /\ LetterU \in Nat
  BY DEF Backslash, LetterU
<1>6. ASSUME NEW a \in Nat, NEW b \in Nat, NEW c \in Nat, NEW d \in Nat, NEW e \in Nat, NEW f \in Nat
      PROVE  <<a, b, c, d, e, f>> \in Seq(Nat)
  OBVIOUS
<1> QED
  BY <1>3, <1>4, <1>5, <1>6

LEMMA EscapedIs ==
    ASSUME NEW symbol \in Nat
    PROVE  Escaped(symbol) \in Seq(Nat)
<1>1. ASSUME NEW a \in Nat, NEW b \in Nat PROVE <<a, b>> \in Seq(Nat)
  OBVIOUS
<1>2. ASSUME NEW a \in Nat PROVE <<a>> \in Seq(Nat)
  OBVIOUS
<1>3. \A c \in DOMAIN Letter : Letter[c] \in Nat
  <2>1. \A c \in {8, 9, 10, 12, 13, Quote, Backslash} : c \in Nat
    BY DEF Quote, Backslash
  <2>2. DOMAIN Letter = {8, 9, 10, 12, 13, Quote, Backslash}
    BY DEF Letter
  <2>3. ASSUME NEW c \in {8, 9, 10, 12, 13, Quote, Backslash} PROVE Letter[c] \in Nat
    <3>1. Letter[c] = CASE c = 8  -> 98  [] c = 9  -> 116
                        [] c = 10 -> 110 [] c = 12 -> 102
                        [] c = 13 -> 114 [] OTHER  -> c
      BY DEF Letter
    <3> QED
      BY <2>1, <3>1
  <2> QED
    BY <2>2, <2>3
<1>4. Backslash \in Nat /\ Literal(symbol) \in Seq(Nat)
  BY LiteralIs DEF Backslash
<1>5. CASE symbol \in DOMAIN Letter
  <2>1. Escaped(symbol) = <<Backslash, Letter[symbol]>>
    BY <1>5 DEF Escaped
  <2> HIDE DEF Letter
  <2> QED
    BY <1>1, <1>3, <1>4, <1>5, <2>1
<1>6. CASE symbol \notin DOMAIN Letter
  <2>1. Escaped(symbol) = IF symbol < 32 THEN Literal(symbol) ELSE <<symbol>>
    BY <1>6 DEF Escaped
  <2> QED
    BY <1>1, <1>2, <1>4, <2>1
<1> QED
  BY <1>5, <1>6

(* What is between the quotes is a text.                                     *)
LEMMA QuotedIs ==
    ASSUME NEW s \in Seq(Nat)
    PROVE  EscapedString(s) \in Seq(Nat)
<1> DEFINE N == Len(s)
           Texts == Seq(Nat)
           Then(t, n) == t \o Escaped(s[n])
           D(g, n) == IF n = 0 THEN <<>> ELSE g[n - 1] \o Escaped(s[n])
           Is(g) == g = [n \in 0..N |-> D(g, n)]
           escaped == CHOOSE g : Is(g)
           F == [n \in 0..N |-> Texts]
           step == [n \in 0..(N - 1) |-> [t \in F[n] |-> Then(t, n + 1)]]
<1>1. N \in Nat /\ DOMAIN s = 1..N
  BY LenProperties
<1>2. EscapedString(s) = <<Quote>> \o escaped[N] \o <<Quote>>
  BY DEF EscapedString
<1>3. <<>> \in Texts
  BY EmptySeq
<1>4. ASSUME NEW n \in 0..(N - 1), NEW t \in Texts PROVE Then(t, n + 1) \in Texts
  <2>1. n + 1 \in 1..N
    BY <1>1
  <2>2. s[n + 1] \in Nat
    BY <1>1, <2>1, ElementOfSeq
  <2> QED
    BY <2>2, EscapedIs, ConcatProperties
<1>5. \A n \in 0..N : F[n] = Texts
  OBVIOUS
<1> HIDE DEF Texts, Then
<1>6. Steps(N, F, step)
  <2>1. ASSUME NEW n \in 0..(N - 1) PROVE step[n] \in [F[n] -> F[n + 1]]
    <3>1. step[n] = [t \in F[n] |-> Then(t, n + 1)]
      OBVIOUS
    <3>2. n \in 0..N /\ n + 1 \in 0..N
      BY <1>1
    <3>3. F[n] = Texts /\ F[n + 1] = Texts
      BY <1>5, <3>2
    <3> HIDE DEF F, step
    <3> QED
      BY <1>4, <3>1, <3>3
  <2> HIDE DEF step, F
  <2> QED
    BY <2>1 DEF Steps
<1>7. <<>> \in F[0]
  <2>1. 0 \in 0..N
    BY <1>1
  <2> HIDE DEF F
  <2> QED
    BY <1>3, <1>5, <2>1
<1>8. \A g, n : n # 0 => D(g, n) = Then(g[n - 1], n)
  BY DEF Then
<1>9. \A g : D(g, 0) = <<>>
  OBVIOUS
<1> HIDE DEF D
<1>10. \E g : Is(g)
  <2>1. PICK g : g = [n \in 0..N |-> g[n]] /\ g[0] = <<>> /\ Reaches(N, F, step, g)
    <3> HIDE DEF N, F, step
    <3> QED
      BY <1>1, <1>6, <1>7, Recursion
  <2>2. ASSUME NEW n \in 0..N PROVE g[n] = D(g, n)
    <3>1. CASE n # 0
      <4>1. n - 1 \in 0..(N - 1) /\ (n - 1) + 1 = n /\ n - 1 \in 0..N
        BY <1>1, <3>1
      <4>2. g[n - 1] \in F[n - 1] /\ g[n] = step[n - 1][g[n - 1]]
        BY <2>1, <4>1 DEF Reaches
      <4> HIDE DEF F
      <4> QED
        BY <1>8, <3>1, <4>1, <4>2
    <3> QED
      BY <1>9, <2>1, <3>1
  <2>3. Is(g)
    BY <2>1, <2>2
  <2> HIDE DEF Is
  <2> QED
    BY <2>3
<1>11. Is(escaped)
  <2> HIDE DEF Is
  <2> QED
    BY <1>10
<1> HIDE DEF escaped
<1>12. \A n \in 0..N : escaped[n] = D(escaped, n)
  BY <1>11
<1>13. Reaches(N, F, step, escaped)
  <2>1. escaped[0] \in F[0]
    <3>1. escaped[0] = <<>>
      BY <1>1, <1>9, <1>12
    <3> HIDE DEF F
    <3> QED
      BY <1>7, <3>1
  <2>2. Takes(N, F, step, escaped)
    <3>1. ASSUME NEW n \in 0..(N - 1), escaped[n] \in F[n]
          PROVE  escaped[n + 1] = step[n][escaped[n]]
      <4>1. n + 1 \in 0..N /\ (n + 1) - 1 = n /\ n + 1 # 0
        BY <1>1
      <4>2. escaped[n + 1] = Then(escaped[n], n + 1)
        BY <1>8, <1>12, <4>1
      <4> HIDE DEF F
      <4> QED
        BY <3>1, <4>1, <4>2
    <3> HIDE DEF step, F
    <3> QED
      BY <3>1 DEF Takes
  <2> HIDE DEF N, F, step
  <2> QED
    BY <1>1, <1>6, <2>1, <2>2, Recursed
<1>14. escaped[N] \in Seq(Nat)
  <2>1. N \in 0..N
    BY <1>1
  <2>2. escaped[N] \in F[N]
    <3> HIDE DEF F, step
    <3> QED
      BY <1>13, <2>1 DEF Reaches
  <2>3. F[N] = Texts
    BY <1>5, <2>1
  <2> HIDE DEF F
  <2> QED
    BY <2>2, <2>3 DEF Texts
<1>15. <<Quote>> \in Seq(Nat)
  BY DEF Quote
<1> QED
  BY <1>2, <1>14, <1>15, ConcatProperties

(* What inner prints of an item at the depth d is the text R, wherever it is   *)
(* printed.                                                                 *)
PrintsAs(inner, item, d, f, R) ==
    \A m \in Printbuffers, t \in Seq(Nat) :
        m.format = f =>
            \A p \in Stage(m, d, t) : inner[[item |-> item, p |-> p]] \in Done(m, d, t \o R)

Prints(inner, item, d, f) == \E R \in Seq(Nat) : PrintsAs(inner, item, d, f, R)

LEMMA FormatIs ==
    ASSUME NEW m, NEW d, NEW t, NEW p \in Stage(m, d, t)
    PROVE  p.format = m.format
BY DEF Stage, Alike

(* A text and its terminator, for which a byte too much may be asked for.      *)
LEMMA TextPrints ==
    ASSUME NEW m, NEW d, NEW t \in Seq(Nat), NEW p \in Stage(m, d, t), NEW R \in Seq(Nat)
    PROVE  /\ Write(p, strlen(R), R, TRUE, TRUE) \in Done(m, d, t \o R)
           /\ Write(p, strlen(R) + 1, R, TRUE, FALSE) \in Done(m, d, t \o R)
           /\ Write(p, strlen(R) + 1, R, TRUE, TRUE) \in Stage(m, d, t \o R)
           /\ Write(p, strlen(R) + 1, R, FALSE, TRUE) \in Stage(m, d, t \o R)
           /\ Write(p, strlen(R), R, FALSE, TRUE) \in Stage(m, d, t \o R)
<1> DEFINE size == strlen(R)
<1>1. size \in Nat
  BY Widths
<1> HIDE DEF size
<1>2. /\ size + 1 \in Nat /\ size + 0 <= size + 1 /\ size + 1 <= size + 1 /\ size <= size + 1
      /\ size + 1 <= (size + 1) + 1 /\ size + 0 <= (size + 1) + 1 /\ size <= size
  BY <1>1
<1>3. size = strlen(R)
  BY DEF size
<1>4. Write(p, size, R, TRUE, TRUE) \in Done(m, d, t \o R)
  BY <1>1, <1>2, <1>3, WriteIs
<1>5. Write(p, size + 1, R, TRUE, FALSE) \in Done(m, d, t \o R)
  BY <1>1, <1>2, <1>3, WriteIs
<1>6. Write(p, size + 1, R, TRUE, TRUE) \in Stage(m, d, t \o R)
  BY <1>1, <1>2, <1>3, WriteIs
<1>7. Write(p, size + 1, R, FALSE, TRUE) \in Stage(m, d, t \o R)
  BY <1>1, <1>2, <1>3, WriteIs
<1>8. Write(p, size, R, FALSE, TRUE) \in Stage(m, d, t \o R)
  BY <1>1, <1>2, <1>3, WriteIs
<1> QED
  BY <1>3, <1>4, <1>5, <1>6, <1>7, <1>8

(* The same with what the layout is made of, of which the length is known.     *)
LEMMA LayoutPrints ==
    ASSUME NEW m, NEW d, NEW t \in Seq(Nat), NEW p \in Stage(m, d, t), NEW R \in Seq(Narrow)
    PROVE  /\ Write(p, Len(R) + 1, R, TRUE, FALSE) \in Done(m, d, t \o R)
           /\ Write(p, Len(R) + 1, R, TRUE, TRUE) \in Stage(m, d, t \o R)
           /\ Write(p, Len(R) + 1, R, FALSE, TRUE) \in Stage(m, d, t \o R)
           /\ Write(p, Len(R), R, FALSE, TRUE) \in Stage(m, d, t \o R)
           /\ R \in Seq(Nat)
BY TextPrints, NarrowTexts

LEMMA QuotedPrints ==
    ASSUME NEW m, NEW d, NEW t \in Seq(Nat), NEW p \in Stage(m, d, t),
           NEW bytes \in {NULL} \cup Seq(Nat)
    PROVE  LET R == EscapedString(IF bytes = NULL THEN <<>> ELSE bytes)
           IN  R \in Seq(Nat) /\ print_string_ptr(bytes, p) \in Done(m, d, t \o R)
<1> DEFINE s == IF bytes = NULL THEN <<>> ELSE bytes
           R == EscapedString(s)
<1>1. s \in Seq(Nat)
  BY EmptySeq
<1>2. print_string_ptr(bytes, p) = Write(p, strlen(R) + 1, R, TRUE, FALSE)
  BY DEF print_string_ptr
<1> HIDE DEF s
<1>3. R \in Seq(Nat)
  BY <1>1, QuotedIs
<1> HIDE DEF R
<1>4. Write(p, strlen(R) + 1, R, TRUE, FALSE) \in Done(m, d, t \o R)
  BY <1>3, TextPrints
<1> QED
  BY <1>2, <1>3, <1>4 DEF R, s

(* Two texts, one after the other.                                           *)
(* Texts put together in one order or the other.                             *)
Regrouped(t, a, b) ==
    /\ (t \o a) \o b = t \o (a \o b) /\ a \o b \in Seq(Nat) /\ t \o a \in Seq(Nat)
    /\ t \o (a \o b) \in Seq(Nat)

LEMMA Thereafter ==
    ASSUME NEW t \in Seq(Nat), NEW a \in Seq(Nat), NEW b \in Seq(Nat)
    PROVE  Regrouped(t, a, b)
<1>1. (t \o a) \o b = t \o (a \o b)
  BY SMTT(60), ConcatAssociative
<1>2. a \o b \in Seq(Nat) /\ t \o a \in Seq(Nat)
  BY ConcatProperties
<1>3. t \o (a \o b) \in Seq(Nat)
  BY <1>2, ConcatProperties
<1> QED
  BY <1>1, <1>2, <1>3 DEF Regrouped

(* What separates an element from the one before.                            *)
Separator(f, i) == IF i = 1 THEN <<>> ELSE <<Comma>> \o If(f, <<Space>>)

LEMMA SeparatedPrints ==
    ASSUME NEW m \in Printbuffers, NEW d, NEW t \in Seq(Nat), NEW p \in Stage(m, d, t),
           NEW i \in Nat
    PROVE  /\ Separator(m.format, i) \in Seq(Nat)
           /\ Separated(p, i) \in Stage(m, d, t \o Separator(m.format, i))
<1>1. CASE i = 1
  <2>1. Separator(m.format, i) = <<>> /\ Separated(p, i) = p
    BY <1>1 DEF Separator, Separated
  <2>2. t \o <<>> = t
    BY ConcatEmptySeq
  <2> QED
    BY <2>1, <2>2, EmptySeq
<1>2. CASE i # 1
  <2> DEFINE R == <<Comma>> \o If(p.format, <<Space>>)
  <2>1. Separated(p, i) = Write(p, Len(R) + 1, R, TRUE, TRUE)
    BY <1>2 DEF Separated
  <2>2. R = Separator(m.format, i)
    BY <1>2, FormatIs DEF Separator
  <2>3. R \in Seq(Narrow)
    <3>1. Comma \in Narrow /\ Space \in Narrow /\ p.format \in BOOLEAN
      BY FormatIs, PrintFields DEF Narrow
    <3>2. <<Comma>> \in Seq(Narrow) /\ <<Space>> \in Seq(Narrow)
      BY <3>1, OneNarrow
    <3>3. If(p.format, <<Space>>) \in Seq(Narrow)
      BY <3>1, <3>2, MayBeNarrow
    <3> QED
      BY <3>2, <3>3, Together
  <2> HIDE DEF R
  <2> QED
    BY <2>1, <2>2, <2>3, LayoutPrints
<1> QED
  BY <1>1, <1>2

LEMMA ElementPrints ==
    ASSUME NEW m \in Printbuffers, NEW d, NEW t \in Seq(Nat), NEW p \in Stage(m, d, t),
           NEW i \in Nat, NEW kid, NEW inner, NEW R \in Seq(Nat),
           PrintsAs(inner, kid, d, m.format, R)
    PROVE  PrintElement(p, kid, i, inner) \in Stage(m, d, t \o (Separator(m.format, i) \o R))
<1> DEFINE a == Separator(m.format, i)
           q == Separated(p, i)
           r == inner[[item |-> kid, p |-> q]]
<1>1. a \in Seq(Nat) /\ q \in Stage(m, d, t \o a)
  BY SeparatedPrints
<1>2. PrintElement(p, kid, i, inner) = update_offset(r)
  BY DEF PrintElement
<1> HIDE DEF a, q
<1>3. t \o a \in Seq(Nat) /\ (t \o a) \o R = t \o (a \o R) /\ a \o R \in Seq(Nat)
      /\ t \o (a \o R) \in Seq(Nat)
  <2>1. Regrouped(t, a, R)
    BY <1>1, Thereafter
  <2> QED
    BY <2>1 DEF Regrouped
<1>4. r \in Done(m, d, (t \o a) \o R)
  BY <1>1, <1>3 DEF PrintsAs
<1> HIDE DEF r
<1>5. r \in Done(m, d, t \o (a \o R))
  BY <1>3, <1>4
<1>6. update_offset(r) \in Stage(m, d, t \o (a \o R))
  BY <1>3, <1>5, UpdatedIs
<1> QED
  BY <1>2, <1>6 DEF a

(* The texts of the first elements, one after the other.                     *)
ListText(body, N, first, X) ==
    /\ body[0] = first
    /\ \A n \in 0..N : body[n] \in Seq(Nat)
    /\ \A n \in 0..(N - 1) : body[n + 1] = body[n] \o X[n + 1]

LEMMA ListTexts ==
    ASSUME NEW N \in Nat, NEW first \in Seq(Nat), NEW X, \A n \in 1..N : X[n] \in Seq(Nat)
    PROVE  \E body : ListText(body, N, first, X)
<1> DEFINE Texts == Seq(Nat)
           F == [n \in 0..N |-> Texts]
           step == [n \in 0..(N - 1) |-> [t \in F[n] |-> t \o X[n + 1]]]
<1>1. \A n \in 0..N : F[n] = Texts
  OBVIOUS
<1>2. ASSUME NEW n \in 0..(N - 1), NEW t \in Texts PROVE t \o X[n + 1] \in Texts
  <2>1. n + 1 \in 1..N
    OBVIOUS
  <2> QED
    BY <2>1, ConcatProperties
<1>3. first \in Texts
  OBVIOUS
<1> HIDE DEF Texts
<1>4. Steps(N, F, step)
  <2>1. ASSUME NEW n \in 0..(N - 1) PROVE step[n] \in [F[n] -> F[n + 1]]
    <3>1. step[n] = [t \in F[n] |-> t \o X[n + 1]]
      OBVIOUS
    <3>2. n \in 0..N /\ n + 1 \in 0..N
      OBVIOUS
    <3>3. F[n] = Texts /\ F[n + 1] = Texts
      BY <1>1, <3>2
    <3> HIDE DEF F, step
    <3> QED
      BY <1>2, <3>1, <3>3
  <2> HIDE DEF step, F
  <2> QED
    BY <2>1 DEF Steps
<1>5. first \in F[0]
  <2>1. 0 \in 0..N
    OBVIOUS
  <2> HIDE DEF F
  <2> QED
    BY <1>1, <1>3, <2>1
<1>6. PICK g : g = [n \in 0..N |-> g[n]] /\ g[0] = first /\ Reaches(N, F, step, g)
  <2> HIDE DEF F, step
  <2> QED
    BY <1>4, <1>5, Recursion
<1>7. \A n \in 0..N : g[n] \in Seq(Nat)
  <2>1. \A n \in 0..N : g[n] \in F[n]
    <3> HIDE DEF F, step
    <3> QED
      BY <1>6 DEF Reaches
  <2> HIDE DEF F
  <2> QED
    BY <1>1, <2>1 DEF Texts
<1>8. ASSUME NEW n \in 0..(N - 1) PROVE g[n + 1] = g[n] \o X[n + 1]
  <2>1. g[n + 1] = step[n][g[n]] /\ g[n] \in F[n]
    <3>1. n \in 0..N
      OBVIOUS
    <3> HIDE DEF F, step
    <3> QED
      BY <1>6, <3>1 DEF Reaches
  <2>2. step[n] = [t \in F[n] |-> t \o X[n + 1]]
    OBVIOUS
  <2> HIDE DEF F, step
  <2> QED
    BY <2>1, <2>2
<1> QED
  BY <1>6, <1>7, <1>8 DEF ListText

(* A list whose elements each write their text on what is there: Then[n] is    *)
(* what the n-th makes of a buffer.                                          *)
Elementwise(N, m, d, X, Then) ==
    \A n \in 1..N, u \in Seq(Nat) : \A p \in Stage(m, d, u) :
        Then[n][p] \in Stage(m, d, u \o X[n])

Runs(run, N, opened, Then) ==
    /\ run = [n \in 0..N |-> run[n]] /\ run[0] = opened
    /\ \A n \in 0..(N - 1) : /\ run[n] \in Printbuffers
                             /\ run[n + 1] = Then[n + 1][run[n]]

LEMMA ListRuns ==
    ASSUME NEW N \in Nat, NEW m, NEW d, NEW t \in Seq(Nat), NEW first \in Seq(Nat), NEW X,
           NEW body, ListText(body, N, first, X), NEW opened \in Stage(m, d, t \o first),
           NEW Then, Elementwise(N, m, d, X, Then), \A n \in 1..N : X[n] \in Seq(Nat)
    PROVE  \E run : Runs(run, N, opened, Then)
<1> DEFINE F == [n \in 0..N |-> Stage(m, d, t \o body[n])]
           step == [n \in 0..(N - 1) |-> [p \in F[n] |-> Then[n + 1][p]]]
<1>1. \A n \in 0..N : F[n] = Stage(m, d, t \o body[n])
  OBVIOUS
<1>2. ASSUME NEW n \in 0..(N - 1), NEW p \in Stage(m, d, t \o body[n])
      PROVE  Then[n + 1][p] \in Stage(m, d, t \o body[n + 1])
  <2>1. n + 1 \in 1..N /\ n \in 0..N
    OBVIOUS
  <2> DEFINE a == body[n]
             b == X[n + 1]
  <2>2. a \in Seq(Nat) /\ body[n + 1] = a \o b /\ b \in Seq(Nat)
    BY <2>1 DEF ListText
  <2>3. p \in Stage(m, d, t \o a)
    OBVIOUS
  <2> HIDE DEF a
  <2>4. (t \o a) \o b = t \o (a \o b) /\ t \o a \in Seq(Nat)
    <3>1. Regrouped(t, a, b)
      BY <2>2, Thereafter
    <3> QED
      BY <3>1 DEF Regrouped
  <2>5. Then[n + 1][p] \in Stage(m, d, (t \o a) \o b)
    BY <2>1, <2>3, <2>4 DEF Elementwise
  <2> QED
    BY <2>2, <2>4, <2>5
<1>3. Steps(N, F, step)
  <2>1. ASSUME NEW n \in 0..(N - 1) PROVE step[n] \in [F[n] -> F[n + 1]]
    <3>1. step[n] = [p \in F[n] |-> Then[n + 1][p]]
      OBVIOUS
    <3>2. n \in 0..N /\ n + 1 \in 0..N
      OBVIOUS
    <3>3. F[n] = Stage(m, d, t \o body[n]) /\ F[n + 1] = Stage(m, d, t \o body[n + 1])
      BY <1>1, <3>2
    <3> HIDE DEF F, step
    <3> QED
      BY <1>2, <3>1, <3>3
  <2> HIDE DEF step, F
  <2> QED
    BY <2>1 DEF Steps
<1>4. opened \in F[0]
  <2>1. 0 \in 0..N /\ body[0] = first
    BY DEF ListText
  <2> HIDE DEF F
  <2> QED
    BY <1>1, <2>1
<1>5. PICK run : run = [n \in 0..N |-> run[n]] /\ run[0] = opened /\ Reaches(N, F, step, run)
  <2> HIDE DEF F, step
  <2> QED
    BY <1>3, <1>4, Recursion
<1>6. ASSUME NEW n \in 0..(N - 1)
      PROVE  run[n] \in Printbuffers /\ run[n + 1] = Then[n + 1][run[n]]
  <2>1. n \in 0..N
    OBVIOUS
  <2>2. run[n] \in F[n] /\ run[n + 1] = step[n][run[n]]
    <3> HIDE DEF F, step
    <3> QED
      BY <1>5, <2>1 DEF Reaches
  <2>3. step[n] = [p \in F[n] |-> Then[n + 1][p]]
    OBVIOUS
  <2>4. run[n] \in Stage(m, d, t \o body[n])
    <3> HIDE DEF F
    <3> QED
      BY <1>1, <2>1, <2>2
  <2>5. run[n] \in Printbuffers
    BY <2>4 DEF Stage
  <2> HIDE DEF F, step
  <2> QED
    BY <2>2, <2>3, <2>5
<1>7. Runs(run, N, opened, Then)
  BY <1>5, <1>6 DEF Runs
<1> QED
  BY <1>7

(* However it is run, what was there is followed by the texts of all.          *)
LEMMA ListPrints ==
    ASSUME NEW N \in Nat, NEW m, NEW d, NEW t \in Seq(Nat), NEW first \in Seq(Nat), NEW X,
           NEW body, ListText(body, N, first, X), NEW opened \in Stage(m, d, t \o first),
           NEW Then, Elementwise(N, m, d, X, Then), \A n \in 1..N : X[n] \in Seq(Nat),
           NEW run, run[0] = opened,
           \A n \in 0..(N - 1) : run[n] \in Printbuffers => run[n + 1] = Then[n + 1][run[n]]
    PROVE  run[N] \in Stage(m, d, t \o body[N])
<1> DEFINE T == {n \in 0..N : run[n] \in Stage(m, d, t \o body[n])}
<1>1. 0 \in T
  BY DEF ListText
<1>2. ASSUME NEW n \in 0..(N - 1), n \in T PROVE n + 1 \in T
  <2>1. n + 1 \in 1..N /\ n \in 0..N /\ n + 1 \in 0..N
    OBVIOUS
  <2>2. body[n] \in Seq(Nat) /\ body[n + 1] = body[n] \o X[n + 1] /\ X[n + 1] \in Seq(Nat)
    BY <2>1 DEF ListText
  <2>3. t \o body[n] \in Seq(Nat) /\ (t \o body[n]) \o X[n + 1] = t \o body[n + 1]
    <3> DEFINE a == body[n]
               b == X[n + 1]
    <3>1. a \in Seq(Nat) /\ b \in Seq(Nat) /\ body[n + 1] = a \o b
      BY <2>2
    <3> HIDE DEF a, b
    <3>2. (t \o a) \o b = t \o (a \o b) /\ t \o a \in Seq(Nat)
      <4>1. Regrouped(t, a, b)
        BY <3>1, Thereafter
      <4> QED
        BY <4>1 DEF Regrouped
    <3>3. (t \o a) \o b = t \o body[n + 1]
      BY <3>1, <3>2
    <3> QED
      BY <3>2, <3>3 DEF a, b
  <2>4. run[n] \in Stage(m, d, t \o body[n])
    BY <1>2
  <2>5. Then[n + 1][run[n]] \in Stage(m, d, (t \o body[n]) \o X[n + 1])
    BY <2>1, <2>3, <2>4 DEF Elementwise
  <2>6. run[n + 1] = Then[n + 1][run[n]]
    BY <2>4 DEF Stage
  <2>7. run[n + 1] \in Stage(m, d, t \o body[n + 1])
    BY <2>3, <2>5, <2>6
  <2> QED
    BY <2>1, <2>7
<1>3. T \in SUBSET (0..N)
  OBVIOUS
<1> HIDE DEF T
<1>4. T = 0..N
  BY <1>1, <1>2, <1>3, UpTo
<1>5. N \in 0..N
  OBVIOUS
<1> QED
  BY <1>4, <1>5 DEF T

-----------------------------------------------------------------------------
LEMMA IndentedPrints ==
    ASSUME NEW m \in Printbuffers, NEW d \in Nat, NEW t \in Seq(Nat), NEW p \in Stage(m, d, t)
    PROVE  /\ If(m.format, Tabs(d)) \in Seq(Nat)
           /\ Indented(p) \in Stage(m, d, t \o If(m.format, Tabs(d)))
<1>1. p.format = m.format /\ Tabs(d) \in Seq(Narrow) /\ Len(Tabs(d)) = d
      /\ Tabs(d) \in Seq(Nat)
  BY FormatIs, TabsAre, NarrowTexts
<1>2. CASE ~p.format
  <2>1. If(m.format, Tabs(d)) = <<>> /\ Indented(p) = p
    BY <1>1, <1>2 DEF If, Indented
  <2>2. t \o <<>> = t
    BY ConcatEmptySeq
  <2> QED
    BY <2>1, <2>2, EmptySeq
<1>3. CASE p.format
  <2>1. If(m.format, Tabs(d)) = Tabs(d) /\ Indented(p) = Write(p, p.depth, Tabs(p.depth), FALSE, TRUE)
    BY <1>1, <1>3 DEF If, Indented
  <2>2. CASE p.ok
    <3>1. p.depth = d
      BY <2>2 DEF Stage
    <3>2. Write(p, Len(Tabs(d)), Tabs(d), FALSE, TRUE) \in Stage(m, d, t \o Tabs(d))
      BY <1>1, LayoutPrints
    <3> QED
      BY <1>1, <2>1, <3>1, <3>2
  <2>3. CASE ~p.ok
    <3>1. m.length \in Int
      BY PrintFields
    <3>2. Write(p, p.depth, Tabs(p.depth), FALSE, TRUE) \in Stage(m, d, t \o Tabs(d))
      BY <1>1, <2>3, <3>1, RefusedStays
    <3> QED
      BY <1>1, <2>1, <3>2
  <2> QED
    BY <2>2, <2>3
<1> QED
  BY <1>2, <1>3

Colons(f) == <<Colon>> \o If(f, <<Tab>>)

After(f, last) == If(~last, <<Comma>>) \o If(f, <<Newline>>)

LEMMA LayoutIs ==
    ASSUME NEW f \in BOOLEAN, NEW last \in BOOLEAN
    PROVE  /\ Colons(f) \in Seq(Narrow) /\ After(f, last) \in Seq(Narrow)
           /\ <<OpenArray>> \in Seq(Narrow) /\ Len(<<OpenArray>>) = 1
           /\ <<CloseArray>> \in Seq(Narrow) /\ Len(<<CloseArray>>) = 1
           /\ <<CloseObject>> \in Seq(Narrow) /\ Len(<<CloseObject>>) = 1
           /\ <<OpenObject>> \o If(f, <<Newline>>) \in Seq(Narrow)
<1>1. {Colon, Tab, Comma, Newline, OpenArray, CloseArray, OpenObject, CloseObject} \subseteq Narrow
  BY DEF Narrow
<1>2. \A symbol \in Narrow : <<symbol>> \in Seq(Narrow) /\ Len(<<symbol>>) = 1
  BY OneNarrow
<1>3. \A symbol \in Narrow : If(f, <<symbol>>) \in Seq(Narrow) /\ If(~last, <<symbol>>) \in Seq(Narrow)
  BY <1>2, MayBeNarrow
<1>4. Colons(f) \in Seq(Narrow)
  BY <1>1, <1>2, <1>3, Together DEF Colons
<1>5. After(f, last) \in Seq(Narrow)
  BY <1>1, <1>3, Together DEF After
<1>6. <<OpenObject>> \o If(f, <<Newline>>) \in Seq(Narrow)
  BY <1>1, <1>2, <1>3, Together
<1>7. OpenArray \in Narrow /\ CloseArray \in Narrow /\ CloseObject \in Narrow
  BY <1>1
<1> QED
  BY <1>2, <1>4, <1>5, <1>6, <1>7

NameText(kid) == EscapedString(IF kid.name = NULL THEN <<>> ELSE kid.name)

(* The text of a member whose value is printed as R.                         *)
MemberText(f, d, kid, last, R) ==
    (((If(f, Tabs(d)) \o NameText(kid)) \o Colons(f)) \o R) \o After(f, last)

LEMMA MemberTextIs ==
    ASSUME NEW f \in BOOLEAN, NEW d \in Nat, NEW kid, kid.name \in {NULL} \cup Seq(Nat),
           NEW last \in BOOLEAN, NEW R \in Seq(Nat)
    PROVE  MemberText(f, d, kid, last, R) \in Seq(Nat)
<1> DEFINE a == If(f, Tabs(d))
           b == NameText(kid)
           c == Colons(f)
           e == After(f, last)
<1>1. a \in Seq(Nat)
  BY TabsAre, NarrowTexts, EmptySeq DEF If
<1>2. b \in Seq(Nat)
  <2>1. (IF kid.name = NULL THEN <<>> ELSE kid.name) \in Seq(Nat)
    BY EmptySeq
  <2> QED
    BY <2>1, QuotedIs DEF NameText
<1>3. c \in Seq(Nat) /\ e \in Seq(Nat)
  BY LayoutIs, NarrowTexts
<1>4. MemberText(f, d, kid, last, R) = (((a \o b) \o c) \o R) \o e
  BY DEF MemberText
<1> HIDE DEF a, b, c, e
<1>5. a \o b \in Seq(Nat)
  BY <1>1, <1>2, ConcatProperties
<1> DEFINE ab == a \o b
<1>6. ab \o c \in Seq(Nat)
  <2> HIDE DEF ab
  <2> QED
    BY <1>3, <1>5, ConcatProperties DEF ab
<1> DEFINE abc == ab \o c
<1>7. abc \o R \in Seq(Nat)
  <2> HIDE DEF abc
  <2> QED
    BY <1>6, ConcatProperties DEF abc
<1> DEFINE abcR == abc \o R
<1>8. abcR \o e \in Seq(Nat)
  <2> HIDE DEF abcR
  <2> QED
    BY <1>3, <1>7, ConcatProperties DEF abcR
<1> QED
  BY <1>4, <1>8

LEMMA MemberPrints ==
    ASSUME NEW m \in Printbuffers, NEW d \in Nat, NEW t \in Seq(Nat), NEW p \in Stage(m, d, t),
           NEW kid, kid.name \in {NULL} \cup Seq(Nat), NEW last \in BOOLEAN, NEW inner,
           NEW R \in Seq(Nat), PrintsAs(inner, kid, d, m.format, R)
    PROVE  /\ MemberText(m.format, d, kid, last, R) \in Seq(Nat)
           /\ PrintMember(p, kid, last, inner)
                  \in Stage(m, d, t \o MemberText(m.format, d, kid, last, R))
<1> DEFINE f == m.format
           a == If(f, Tabs(d))
           b == NameText(kid)
           c == Colons(f)
           e == After(f, last)
           ab == a \o b
           abc == ab \o c
           abcR == abc \o R
           all == abcR \o e
           named == update_offset(print_string_ptr(kid.name, Indented(p)))
           written == Write(named, Len(c), c, FALSE, TRUE)
           value == update_offset(inner[[item |-> kid, p |-> written]])
<1>1. f \in BOOLEAN /\ p.format = f
  BY PrintFields, FormatIs
<1>2. c \in Seq(Narrow) /\ e \in Seq(Narrow) /\ c \in Seq(Nat) /\ e \in Seq(Nat)
  BY <1>1, LayoutIs, NarrowTexts
<1>3. a \in Seq(Nat) /\ Indented(p) \in Stage(m, d, t \o a)
  BY IndentedPrints
<1>4. PrintMember(p, kid, last, inner) = Write(value, Len(e) + 1, e, TRUE, TRUE)
  BY <1>1 DEF PrintMember, Colons, After
<1>5. MemberText(f, d, kid, last, R) = all
  BY DEF MemberText
<1>6. t \o a \in Seq(Nat)
  BY <1>3, ConcatProperties
<1> HIDE DEF a, c, e
<1>7. b \in Seq(Nat) /\ print_string_ptr(kid.name, Indented(p)) \in Done(m, d, (t \o a) \o b)
  BY <1>3, <1>6, QuotedPrints DEF NameText
<1> HIDE DEF b
<1>8. ab \in Seq(Nat) /\ (t \o a) \o b = t \o ab /\ t \o ab \in Seq(Nat)
  <2>1. Regrouped(t, a, b)
    BY <1>3, <1>7, Thereafter
  <2> QED
    BY <2>1 DEF Regrouped
<1>9. print_string_ptr(kid.name, Indented(p)) \in Done(m, d, t \o ab)
  BY <1>7, <1>8
<1> HIDE DEF ab
<1>10. named \in Stage(m, d, t \o ab)
  BY <1>8, <1>9, UpdatedIs
<1>11. abc \in Seq(Nat) /\ (t \o ab) \o c = t \o abc /\ t \o abc \in Seq(Nat)
  <2>1. Regrouped(t, ab, c)
    BY <1>2, <1>8, Thereafter
  <2> QED
    BY <2>1 DEF Regrouped
<1> HIDE DEF named
<1>12. written \in Stage(m, d, (t \o ab) \o c)
  BY <1>2, <1>8, <1>10, LayoutPrints
<1>13. written \in Stage(m, d, t \o abc)
  BY <1>11, <1>12
<1> HIDE DEF written, abc
<1>14. inner[[item |-> kid, p |-> written]] \in Done(m, d, (t \o abc) \o R)
  BY <1>11, <1>13 DEF PrintsAs
<1>15. abcR \in Seq(Nat) /\ (t \o abc) \o R = t \o abcR /\ t \o abcR \in Seq(Nat)
  <2>1. Regrouped(t, abc, R)
    BY <1>11, Thereafter
  <2> QED
    BY <2>1 DEF Regrouped
<1>16. value \in Stage(m, d, t \o abcR)
  BY <1>14, <1>15, UpdatedIs
<1> HIDE DEF value, abcR
<1>17. Write(value, Len(e) + 1, e, TRUE, TRUE) \in Stage(m, d, (t \o abcR) \o e)
  BY <1>2, <1>15, <1>16, LayoutPrints
<1>18. all \in Seq(Nat) /\ (t \o abcR) \o e = t \o all
  <2>1. Regrouped(t, abcR, e)
    BY <1>2, <1>15, Thereafter
  <2> QED
    BY <2>1 DEF Regrouped
<1> HIDE DEF all
<1> QED
  BY <1>4, <1>5, <1>17, <1>18

LEMMA ArrayPrints ==
    ASSUME NEW item, NEW K, item.kids \in Seq(K), NEW d \in Nat, NEW f \in BOOLEAN, NEW inner,
           \A i \in 1..Len(item.kids) : Prints(inner, item.kids[i], d + 1, f)
    PROVE  \E R \in Seq(Nat) :
               \A m \in Printbuffers, t \in Seq(Nat) :
                   m.format = f =>
                       \A p \in Stage(m, d, t) : print_array(item, p, inner) \in Done(m, d, t \o R)
<1> DEFINE N == Len(item.kids)
           Rs == [i \in 1..N |-> CHOOSE R \in Seq(Nat) : PrintsAs(inner, item.kids[i], d + 1, f, R)]
           X == [i \in 1..N |-> Separator(f, i) \o Rs[i]]
           first == <<OpenArray>>
           Then == [i \in 1..N |-> [q \in Printbuffers |-> PrintElement(q, item.kids[i], i, inner)]]
<1>1. N \in Nat
  BY LenProperties
<1>2. \A i \in 1..N : Rs[i] \in Seq(Nat) /\ PrintsAs(inner, item.kids[i], d + 1, f, Rs[i])
  BY DEF Prints
<1>3. \A i \in 1..N : X[i] = Separator(f, i) \o Rs[i]
  OBVIOUS
<1>4. \A i \in 1..N, q \in Printbuffers : Then[i][q] = PrintElement(q, item.kids[i], i, inner)
  OBVIOUS
<1> HIDE DEF Rs, X, Then
<1>5. \A i \in 1..N : Separator(f, i) \in Seq(Nat)
  <2>1. f \in BOOLEAN /\ Comma \in Nat /\ Space \in Nat
    BY DEF Comma, Space
  <2>2. <<Comma>> \in Seq(Nat) /\ <<Space>> \in Seq(Nat) /\ <<>> \in Seq(Nat)
    BY <2>1
  <2>3. If(f, <<Space>>) \in Seq(Nat)
    BY <2>2 DEF If
  <2> QED
    BY <2>2, <2>3, ConcatProperties DEF Separator
<1>6. \A i \in 1..N : X[i] \in Seq(Nat)
  BY <1>2, <1>3, <1>5, ConcatProperties
<1>7. first \in Seq(Nat) /\ first \in Seq(Narrow) /\ Len(first) = 1
  BY OneNarrow, NarrowTexts DEF Narrow
<1> HIDE DEF first
<1>8. PICK body : ListText(body, N, first, X)
  BY <1>1, <1>6, <1>7, ListTexts
<1> DEFINE last == body[N]
           R == last \o <<CloseArray>>
<1>9. last \in Seq(Nat) /\ <<CloseArray>> \in Seq(Narrow) /\ Len(<<CloseArray>>) = 1
      /\ <<CloseArray>> \in Seq(Nat)
  <2>1. N \in 0..N
    BY <1>1
  <2>2. last \in Seq(Nat)
    BY <1>8, <2>1 DEF ListText
  <2> HIDE DEF last
  <2> QED
    BY <2>2, OneNarrow, NarrowTexts DEF Narrow
<1>10. R \in Seq(Nat)
  <2> HIDE DEF last
  <2> QED
    BY <1>9, ConcatProperties
<1>11. ASSUME NEW m \in Printbuffers, NEW t \in Seq(Nat), m.format = f, NEW p \in Stage(m, d, t)
       PROVE  print_array(item, p, inner) \in Done(m, d, t \o R)
  <2> DEFINE opened == Deeper(Write(p, 1, <<OpenArray>>, FALSE, TRUE), 1)
             D(g, n) == IF n = 0 THEN opened ELSE PrintElement(g[n - 1], item.kids[n], n, inner)
             Is(g) == g = [n \in 0..N |-> D(g, n)]
             elements == CHOOSE g : Is(g)
             closed == Write(elements[N], 2, <<CloseArray>>, TRUE, FALSE)
  <2>1. print_array(item, p, inner) = Deeper(closed, -1)
    BY DEF print_array
  <2>2. opened \in Stage(m, d + 1, t \o first)
    <3> DEFINE w == Write(p, 1, first, FALSE, TRUE)
    <3>1. w \in Stage(m, d, t \o first)
      BY <1>7, LayoutPrints
    <3>2. opened = Deeper(w, 1)
      BY DEF first
    <3> HIDE DEF w, opened
    <3> QED
      BY <3>1, <3>2, DeeperStage
  <2> HIDE DEF opened
  <2>3. Elementwise(N, m, d + 1, X, Then)
    <3>1. ASSUME NEW n \in 1..N, NEW u \in Seq(Nat), NEW q \in Stage(m, d + 1, u)
          PROVE  Then[n][q] \in Stage(m, d + 1, u \o X[n])
      <4>1. n \in Nat /\ q \in Printbuffers
        BY DEF Stage
      <4>2. Then[n][q] = PrintElement(q, item.kids[n], n, inner)
        BY <1>4, <4>1
      <4>3. PrintElement(q, item.kids[n], n, inner) \in Stage(m, d + 1, u \o (Separator(f, n) \o Rs[n]))
        BY <1>2, <1>11, <4>1, ElementPrints
      <4> QED
        BY <1>3, <4>2, <4>3
    <3> HIDE DEF N
    <3> QED
      BY <3>1 DEF Elementwise
  <2>4. \A g : D(g, 0) = opened
    OBVIOUS
  <2>5. \A g, n : n # 0 => D(g, n) = PrintElement(g[n - 1], item.kids[n], n, inner)
    OBVIOUS
  <2> HIDE DEF D, N
  <2>6. \E g : Is(g)
    <3>1. PICK g : Runs(g, N, opened, Then)
      BY <1>1, <1>6, <1>7, <1>8, <2>2, <2>3, ListRuns
    <3>2. ASSUME NEW n \in 0..N PROVE g[n] = D(g, n)
      <4>1. CASE n = 0
        BY <2>4, <3>1, <4>1 DEF Runs
      <4>2. CASE n # 0
        <5>1. n - 1 \in 0..(N - 1) /\ (n - 1) + 1 = n /\ n \in 1..N
          BY <1>1, <4>2
        <5>2. g[n - 1] \in Printbuffers /\ g[(n - 1) + 1] = Then[(n - 1) + 1][g[n - 1]]
          BY <3>1, <5>1 DEF Runs
        <5> QED
          BY <1>4, <2>5, <4>2, <5>1, <5>2
      <4> QED
        BY <4>1, <4>2
    <3>3. Is(g)
      BY <3>1, <3>2 DEF Runs
    <3> HIDE DEF Is
    <3> QED
      BY <3>3
  <2>7. Is(elements)
    <3> HIDE DEF Is
    <3> QED
      BY <2>6
  <2> HIDE DEF elements
  <2>8. \A n \in 0..N : elements[n] = D(elements, n)
    BY <2>7
  <2>9. elements[N] \in Stage(m, d + 1, t \o last)
    <3>1. elements[0] = opened
      BY <1>1, <2>4, <2>8
    <3>2. ASSUME NEW n \in 0..(N - 1), elements[n] \in Printbuffers
          PROVE  elements[n + 1] = Then[n + 1][elements[n]]
      <4>1. n + 1 \in 0..N /\ (n + 1) - 1 = n /\ n + 1 # 0 /\ n + 1 \in 1..N
        BY <1>1
      <4>2. elements[n + 1] = PrintElement(elements[n], item.kids[n + 1], n + 1, inner)
        BY <2>5, <2>8, <4>1
      <4> QED
        BY <1>4, <3>2, <4>1, <4>2
    <3>3. elements[N] \in Stage(m, d + 1, t \o body[N])
      BY SMTT(60), <1>1, <1>6, <1>7, <1>8, <2>2, <2>3, <3>1, <3>2, ListPrints
    <3> QED
      BY <3>3
  <2> HIDE DEF last
  <2>10. t \o last \in Seq(Nat) /\ (t \o last) \o <<CloseArray>> = t \o R
    <3>1. Regrouped(t, last, <<CloseArray>>)
      BY <1>9, Thereafter
    <3> QED
      BY <3>1 DEF Regrouped
  <2>11. closed \in Done(m, d + 1, (t \o last) \o <<CloseArray>>)
    <3>1. Len(<<CloseArray>>) + 1 = 2
      BY <1>9
    <3> HIDE DEF closed
    <3>2. Write(elements[N], Len(<<CloseArray>>) + 1, <<CloseArray>>, TRUE, FALSE)
              \in Done(m, d + 1, (t \o last) \o <<CloseArray>>)
      BY <1>9, <2>9, <2>10, LayoutPrints
    <3> QED
      BY <3>1, <3>2 DEF closed
  <2>12. closed \in Done(m, d + 1, t \o R)
    BY <2>10, <2>11
  <2> HIDE DEF closed, R
  <2>13. Deeper(closed, -1) \in Done(m, d, t \o R)
    BY <2>12, ShallowerDone
  <2> QED
    BY <2>1, <2>13
<1> HIDE DEF R
<1> QED
  BY <1>10, <1>11

LEMMA CloserIs ==
    ASSUME NEW f \in BOOLEAN, NEW d \in Nat
    PROVE  LET closer == If(f, Tabs(d)) \o <<CloseObject>>
           IN  /\ closer \in Seq(Narrow) /\ closer \in Seq(Nat)
               /\ (IF f THEN d + 2 ELSE 2) = Len(closer) + 1
<1> DEFINE a == If(f, Tabs(d))
           b == <<CloseObject>>
<1>1. b \in Seq(Narrow) /\ Len(b) = 1
  BY OneNarrow DEF Narrow
<1>2. Tabs(d) \in Seq(Narrow) /\ Len(Tabs(d)) = d
  BY TabsAre
<1>3. a \in Seq(Narrow) /\ Len(a) = IF f THEN d ELSE 0
  BY <1>2, EmptySeq DEF If
<1> HIDE DEF a, b
<1>4. a \o b \in Seq(Narrow) /\ Len(a \o b) = Len(a) + Len(b)
  BY <1>1, <1>3, Together
<1>5. (IF f THEN d + 2 ELSE 2) = Len(a \o b) + 1
  BY <1>1, <1>3, <1>4
<1>6. a \o b \in Seq(Nat)
  BY <1>4, NarrowTexts
<1> QED
  BY <1>4, <1>5, <1>6 DEF a, b

LEMMA ObjectPrints ==
    ASSUME NEW item, NEW K, item.kids \in Seq(K), NEW d \in Nat, NEW f \in BOOLEAN, NEW inner,
           \A i \in 1..Len(item.kids) : item.kids[i].name \in {NULL} \cup Seq(Nat),
           \A i \in 1..Len(item.kids) : Prints(inner, item.kids[i], d + 1, f)
    PROVE  \E R \in Seq(Nat) :
               \A m \in Printbuffers, t \in Seq(Nat) :
                   m.format = f =>
                       \A p \in Stage(m, d, t) : print_object(item, p, inner) \in Done(m, d, t \o R)
<1> DEFINE N == Len(item.kids)
           Rs == [i \in 1..N |-> CHOOSE R \in Seq(Nat) : PrintsAs(inner, item.kids[i], d + 1, f, R)]
           X == [i \in 1..N |-> MemberText(f, d + 1, item.kids[i], i = N, Rs[i])]
           first == <<OpenObject>> \o If(f, <<Newline>>)
           Then == [i \in 1..N |-> [q \in Printbuffers |-> PrintMember(q, item.kids[i], i = N, inner)]]
<1>1. N \in Nat
  BY LenProperties
<1>2. \A i \in 1..N : Rs[i] \in Seq(Nat) /\ PrintsAs(inner, item.kids[i], d + 1, f, Rs[i])
  BY DEF Prints
<1>3. \A i \in 1..N : X[i] = MemberText(f, d + 1, item.kids[i], i = N, Rs[i])
  OBVIOUS
<1>4. \A i \in 1..N, q \in Printbuffers : Then[i][q] = PrintMember(q, item.kids[i], i = N, inner)
  OBVIOUS
<1> HIDE DEF Rs, X, Then
<1>6. \A i \in 1..N : X[i] \in Seq(Nat)
  <2>1. ASSUME NEW i \in 1..N PROVE MemberText(f, d + 1, item.kids[i], i = N, Rs[i]) \in Seq(Nat)
    <3>1. d + 1 \in Nat /\ (i = N) \in BOOLEAN /\ item.kids[i].name \in {NULL} \cup Seq(Nat)
          /\ Rs[i] \in Seq(Nat)
      BY <1>2
    <3> QED
      BY <3>1, MemberTextIs
  <2> QED
    BY <1>3, <2>1
<1>7. first \in Seq(Nat) /\ first \in Seq(Narrow)
  <2>1. <<OpenObject>> \o If(f, <<Newline>>) \in Seq(Narrow)
    BY LayoutIs
  <2> QED
    BY <2>1, NarrowTexts
<1> HIDE DEF first
<1>8. PICK body : ListText(body, N, first, X)
  BY <1>1, <1>6, <1>7, ListTexts
<1> DEFINE last == body[N]
           closer == If(f, Tabs(d)) \o <<CloseObject>>
           R == last \o closer
<1>9. /\ last \in Seq(Nat) /\ closer \in Seq(Narrow) /\ closer \in Seq(Nat)
      /\ (IF f THEN d + 2 ELSE 2) = Len(closer) + 1
  <2>1. N \in 0..N
    BY <1>1
  <2>2. last \in Seq(Nat)
    BY <1>8, <2>1 DEF ListText
  <2>3. /\ closer \in Seq(Narrow) /\ closer \in Seq(Nat)
        /\ (IF f THEN d + 2 ELSE 2) = Len(closer) + 1
    BY CloserIs
  <2> HIDE DEF last, closer
  <2> QED
    BY <2>2, <2>3
<1>10. R \in Seq(Nat)
  <2> HIDE DEF last, closer
  <2> QED
    BY <1>9, ConcatProperties
<1>11. ASSUME NEW m \in Printbuffers, NEW t \in Seq(Nat), m.format = f, NEW p \in Stage(m, d, t)
       PROVE  print_object(item, p, inner) \in Done(m, d, t \o R)
  <2> DEFINE opening == <<OpenObject>> \o If(p.format, <<Newline>>)
             opened == Deeper(Write(p, Len(opening) + 1, opening, FALSE, TRUE), 1)
             D(g, n) == IF n = 0 THEN opened
                        ELSE PrintMember(g[n - 1], item.kids[n], n = N, inner)
             Is(g) == g = [n \in 0..N |-> D(g, n)]
             elements == CHOOSE g : Is(g)
             needed == IF p.format THEN p.depth + 2 ELSE 2
             closing == If(p.format, Tabs(p.depth)) \o <<CloseObject>>
             closed == Write(elements[N], needed, closing, TRUE, FALSE)
  <2>0. /\ p \in Printbuffers /\ p.format = f
        /\ p \in Stage(p, d, t) /\ \A u : Done(p, d, u) \subseteq Done(m, d, u)
    BY <1>11, SameBuffer
  <2>1. print_object(item, p, inner) = Deeper(closed, -1)
    BY DEF print_object
  <2>2. opened \in Stage(p, d + 1, t \o first)
    <3> DEFINE w == Write(p, Len(first) + 1, first, FALSE, TRUE)
    <3>1. w \in Stage(p, d, t \o first)
      BY <1>7, <2>0, LayoutPrints
    <3>2. opened = Deeper(w, 1)
      BY <2>0 DEF first
    <3> HIDE DEF w, opened
    <3> QED
      BY <3>1, <3>2, DeeperStage
  <2> HIDE DEF opened
  <2>3. Elementwise(N, p, d + 1, X, Then)
    <3>1. ASSUME NEW n \in 1..N, NEW u \in Seq(Nat), NEW q \in Stage(p, d + 1, u)
          PROVE  Then[n][q] \in Stage(p, d + 1, u \o X[n])
      <4>1. n \in Nat /\ q \in Printbuffers
        BY DEF Stage
      <4>2. Then[n][q] = PrintMember(q, item.kids[n], n = N, inner)
        BY <1>4, <4>1
      <4>4. d + 1 \in Nat /\ (n = N) \in BOOLEAN /\ item.kids[n].name \in {NULL} \cup Seq(Nat)
            /\ Rs[n] \in Seq(Nat) /\ PrintsAs(inner, item.kids[n], d + 1, p.format, Rs[n])
        BY <1>2, <2>0
      <4>3. PrintMember(q, item.kids[n], n = N, inner)
                \in Stage(p, d + 1, u \o MemberText(p.format, d + 1, item.kids[n], n = N, Rs[n]))
        <5> DEFINE l == n = N
        <5> HIDE DEF l
        <5>1. PrintMember(q, item.kids[n], l, inner)
                \in Stage(p, d + 1, u \o MemberText(p.format, d + 1, item.kids[n], l, Rs[n]))
          <6>1. l \in BOOLEAN
            BY DEF l
          <6> QED
            BY <2>0, <4>4, <6>1, MemberPrints
        <5> QED
          BY <5>1 DEF l
      <4> QED
        BY <1>3, <2>0, <4>2, <4>3
    <3> HIDE DEF N
    <3> QED
      BY <3>1 DEF Elementwise
  <2>4. \A g : D(g, 0) = opened
    OBVIOUS
  <2>5. \A g, n : n # 0 => D(g, n) = PrintMember(g[n - 1], item.kids[n], n = N, inner)
    OBVIOUS
  <2> HIDE DEF D, N
  <2>6. \E g : Is(g)
    <3>1. PICK g : Runs(g, N, opened, Then)
      BY <1>1, <1>6, <1>7, <1>8, <2>2, <2>3, ListRuns
    <3>2. ASSUME NEW n \in 0..N PROVE g[n] = D(g, n)
      <4>1. CASE n = 0
        BY <2>4, <3>1, <4>1 DEF Runs
      <4>2. CASE n # 0
        <5>1. n - 1 \in 0..(N - 1) /\ (n - 1) + 1 = n /\ n \in 1..N
          BY <1>1, <4>2
        <5>2. g[n - 1] \in Printbuffers /\ g[(n - 1) + 1] = Then[(n - 1) + 1][g[n - 1]]
          BY <3>1, <5>1 DEF Runs
        <5> QED
          BY <1>4, <2>5, <4>2, <5>1, <5>2
      <4> QED
        BY <4>1, <4>2
    <3>3. Is(g)
      BY <3>1, <3>2 DEF Runs
    <3> HIDE DEF Is
    <3> QED
      BY <3>3
  <2>7. Is(elements)
    <3> HIDE DEF Is
    <3> QED
      BY <2>6
  <2> HIDE DEF elements
  <2>8. \A n \in 0..N : elements[n] = D(elements, n)
    BY <2>7
  <2>9. elements[N] \in Stage(p, d + 1, t \o last)
    <3>1. elements[0] = opened
      BY <1>1, <2>4, <2>8
    <3>2. ASSUME NEW n \in 0..(N - 1), elements[n] \in Printbuffers
          PROVE  elements[n + 1] = Then[n + 1][elements[n]]
      <4>1. n + 1 \in 0..N /\ (n + 1) - 1 = n /\ n + 1 # 0 /\ n + 1 \in 1..N
        BY <1>1
      <4>2. elements[n + 1] = PrintMember(elements[n], item.kids[n + 1], n + 1 = N, inner)
        BY <2>5, <2>8, <4>1
      <4> QED
        BY <1>4, <3>2, <4>1, <4>2
    <3>3. elements[N] \in Stage(p, d + 1, t \o body[N])
      BY SMTT(60), <1>1, <1>6, <1>7, <1>8, <2>2, <2>3, <3>1, <3>2, ListPrints
    <3> QED
      BY <3>3
  <2> HIDE DEF last, closer
  <2>10. t \o last \in Seq(Nat) /\ (t \o last) \o closer = t \o R
    <3>1. Regrouped(t, last, closer)
      BY <1>9, Thereafter
    <3> QED
      BY <3>1 DEF Regrouped
  <2>11. closed \in Done(p, d + 1, (t \o last) \o closer)
    <3>1. CASE p.ok
      <4>1. p.depth = d
        BY <2>0, <3>1 DEF Stage
      <4>2. needed = Len(closer) + 1 /\ closing = closer
        BY <1>9, <2>0, <4>1 DEF closer
      <4> HIDE DEF needed, closing
      <4>3. Write(elements[N], Len(closer) + 1, closer, TRUE, FALSE)
                \in Done(p, d + 1, (t \o last) \o closer)
        BY <1>9, <2>9, <2>10, LayoutPrints
      <4> QED
        BY <4>2, <4>3
    <3>2. CASE ~p.ok
      <4>1. ~elements[N].ok
        BY <2>9, <3>2 DEF Stage
      <4>2. p.length \in Int
        BY <2>0, PrintFields
      <4> HIDE DEF needed, closing
      <4>3. closed \in Done(p, d + 1, (t \o last) \o closer)
        BY <1>9, <2>9, <2>10, <4>1, <4>2, RefusedStays
      <4> QED
        BY <4>3
    <3> QED
      BY <3>1, <3>2
  <2>12. closed \in Done(p, d + 1, t \o R)
    BY <2>10, <2>11
  <2> HIDE DEF closed, R
  <2>13. Deeper(closed, -1) \in Done(p, d, t \o R)
    BY <2>12, ShallowerDone
  <2> QED
    BY <2>0, <2>1, <2>13
<1> HIDE DEF R
<1> QED
  BY <1>10, <1>11

LEMMA ValuePrints ==
    ASSUME NEW item, item.type \in Types \ {"Invalid"}, item.val \in {NULL} \cup Seq(Nat),
           item.type \in {"Number", "Raw"} => item.val # NULL,
           NEW K, item.kids \in Seq(K), NEW d \in Nat, NEW f \in BOOLEAN, NEW inner,
           \A i \in 1..Len(item.kids) : item.kids[i].name \in {NULL} \cup Seq(Nat),
           \A i \in 1..Len(item.kids) : Prints(inner, item.kids[i], d + 1, f)
    PROVE  \E R \in Seq(Nat) :
               \A m \in Printbuffers, t \in Seq(Nat) :
                   m.format = f =>
                       \A p \in Stage(m, d, t) : print_value(item, p, inner) \in Done(m, d, t \o R)
<1>1. DOMAIN Words = {"NULL", "True", "False"}
  BY TypesAre
<1>2. CASE item.type \in DOMAIN Words
  <2> DEFINE R == <<Words[item.type]>>
  <2>1. R \in Seq(Nat)
    <3>1. \A type \in {"NULL", "True", "False"} : Words[type] \in Nat
      BY DEF Words
    <3>2. Words[item.type] \in Nat
      BY <1>1, <1>2, <3>1
    <3> QED
      BY <3>2
  <2>2. ASSUME NEW p PROVE print_value(item, p, inner) = Write(p, strlen(R) + 1, R, TRUE, FALSE)
    BY <1>2 DEF print_value
  <2> HIDE DEF R
  <2>3. ASSUME NEW m \in Printbuffers, NEW t \in Seq(Nat), NEW p \in Stage(m, d, t)
        PROVE  Write(p, strlen(R) + 1, R, TRUE, FALSE) \in Done(m, d, t \o R)
    BY <2>1, TextPrints
  <2> QED
    BY <2>1, <2>2, <2>3
<1>3. CASE item.type = "Number"
  <2>1. item.type \notin DOMAIN Words /\ item.val \in Seq(Nat)
    BY <1>1, <1>3
  <2> DEFINE R == item.val
  <2>2. ASSUME NEW p PROVE print_value(item, p, inner) = Write(p, strlen(R), R, TRUE, TRUE)
    BY <1>3, <2>1 DEF print_value, print_number
  <2> HIDE DEF R
  <2>3. R \in Seq(Nat)
    BY <2>1 DEF R
  <2>4. ASSUME NEW m \in Printbuffers, NEW t \in Seq(Nat), NEW p \in Stage(m, d, t)
        PROVE  Write(p, strlen(R), R, TRUE, TRUE) \in Done(m, d, t \o R)
    BY <2>3, TextPrints
  <2> QED
    BY <2>2, <2>3, <2>4
<1>4. CASE item.type = "Raw"
  <2>1. item.type \notin DOMAIN Words /\ item.val \in Seq(Nat) /\ item.val # NULL
    BY <1>1, <1>4
  <2> DEFINE R == item.val
  <2>2. ASSUME NEW p PROVE print_value(item, p, inner) = Write(p, strlen(R) + 1, R, TRUE, FALSE)
    BY <1>4, <2>1 DEF print_value
  <2> HIDE DEF R
  <2>3. R \in Seq(Nat)
    BY <2>1 DEF R
  <2>4. ASSUME NEW m \in Printbuffers, NEW t \in Seq(Nat), NEW p \in Stage(m, d, t)
        PROVE  Write(p, strlen(R) + 1, R, TRUE, FALSE) \in Done(m, d, t \o R)
    BY <2>3, TextPrints
  <2> QED
    BY <2>2, <2>3, <2>4
<1>5. CASE item.type = "String"
  <2> DEFINE R == EscapedString(IF item.val = NULL THEN <<>> ELSE item.val)
  <2>1. item.type \notin DOMAIN Words
    BY <1>1, <1>5
  <2>2. ASSUME NEW p PROVE print_value(item, p, inner) = print_string_ptr(item.val, p)
    BY <1>5, <2>1 DEF print_value, print_string
  <2>3. R \in Seq(Nat)
    <3>1. (IF item.val = NULL THEN <<>> ELSE item.val) \in Seq(Nat)
      BY EmptySeq
    <3> QED
      BY <3>1, QuotedIs
  <2>4. ASSUME NEW m \in Printbuffers, NEW t \in Seq(Nat), NEW p \in Stage(m, d, t)
        PROVE  print_string_ptr(item.val, p) \in Done(m, d, t \o R)
    BY QuotedPrints
  <2> HIDE DEF R
  <2> QED
    BY <2>2, <2>3, <2>4
<1>6. CASE item.type = "Array"
  <2>1. item.type \notin DOMAIN Words
    BY <1>1, <1>6
  <2>2. ASSUME NEW p PROVE print_value(item, p, inner) = print_array(item, p, inner)
    BY <1>6, <2>1 DEF print_value
  <2>3. PICK R \in Seq(Nat) :
            \A m \in Printbuffers, t \in Seq(Nat) :
                m.format = f =>
                    \A p \in Stage(m, d, t) : print_array(item, p, inner) \in Done(m, d, t \o R)
    BY ArrayPrints
  <2> QED
    BY <2>2, <2>3
<1>7. CASE item.type = "Object"
  <2>1. item.type \notin DOMAIN Words
    BY <1>1, <1>7
  <2>2. ASSUME NEW p PROVE print_value(item, p, inner) = print_object(item, p, inner)
    BY <1>7, <2>1 DEF print_value
  <2>3. PICK R \in Seq(Nat) :
            \A m \in Printbuffers, t \in Seq(Nat) :
                m.format = f =>
                    \A p \in Stage(m, d, t) : print_object(item, p, inner) \in Done(m, d, t \o R)
    BY ObjectPrints
  <2> QED
    BY <2>2, <2>3
<1>8. \/ item.type \in DOMAIN Words \/ item.type = "Number" \/ item.type = "Raw"
      \/ item.type = "String" \/ item.type = "Array" \/ item.type = "Object"
  BY DEF Types
<1> QED
  BY <1>2, <1>3, <1>4, <1>5, <1>6, <1>7, <1>8

-----------------------------------------------------------------------------
(* The levels of nesting, one by one.                                       *)
PrintedFrom(n, inner) ==
    [s \in [item : Trees(Types)[n], p : Printbuffers] |-> print_value(s.item, s.p, inner)]

LEMMA ValuePrintedIs ==
    \A n \in 1..Levels : ValuePrinted[n] = PrintedFrom(n, ValuePrinted[n - 1])
<1> DEFINE L == Levels
           none == PrintedFrom(0, NULL)
           D(g, n) == IF n = 0 THEN none ELSE PrintedFrom(n, g[n - 1])
           Is(g, N) == g = [n \in 0..N |-> D(g, n)]
           T == {N \in 0..L : \E g : Is(g, N)}
<1>1. L \in Nat
  BY TextAssumption
<1>2. 0 \in T
  <2> DEFINE g == [n \in 0..0 |-> none]
  <2> HIDE DEF none
  <2>1. \A n \in 0..0 : D(g, n) = none
    OBVIOUS
  <2> HIDE DEF D
  <2>2. Is(g, 0)
    BY <2>1
  <2> HIDE DEF Is
  <2> QED
    BY <1>1, <2>2
<1> HIDE DEF none
<1>3. ASSUME NEW N \in 0..(L - 1), N \in T PROVE N + 1 \in T
  <2>1. PICK g : Is(g, N)
    BY <1>3
  <2> DEFINE new == PrintedFrom(N + 1, g[N])
             h == [n \in 0..(N + 1) |-> IF n <= N THEN g[n] ELSE new]
  <2> HIDE DEF new, L
  <2>2. N \in Nat /\ \A n \in 0..N : h[n] = g[n] /\ g[n] = D(g, n)
    <3> HIDE DEF D
    <3> QED
      BY <1>1, <2>1
  <2>3. h[N + 1] = new
    BY <2>2
  <2>4. ASSUME NEW n \in 0..(N + 1) PROVE h[n] = D(h, n)
    <3>1. CASE n = 0
      <4>1. n \in 0..N
        BY <2>2, <3>1
      <4> HIDE DEF h
      <4>2. h[n] = D(g, n)
        BY <2>2, <4>1
      <4> QED
        BY <3>1, <4>2
    <3>2. CASE n = N + 1
      <4>1. n # 0 /\ n - 1 = N /\ h[N] = g[N]
        BY <2>2, <3>2
      <4> HIDE DEF h
      <4>2. D(h, n) = PrintedFrom(n, g[N])
        BY <4>1
      <4> QED
        BY <2>3, <3>2, <4>2 DEF new
    <3>3. CASE n # 0 /\ n # N + 1
      <4>1. n \in 0..N /\ n - 1 \in 0..N
        BY <2>2, <3>3
      <4>2. h[n] = D(g, n) /\ h[n - 1] = g[n - 1]
        BY <2>2, <4>1
      <4> HIDE DEF h
      <4> QED
        BY <3>3, <4>2
    <3> QED
      BY <3>1, <3>2, <3>3
  <2>5. h = [n \in 0..(N + 1) |-> h[n]]
    OBVIOUS
  <2> HIDE DEF h, D
  <2>6. Is(h, N + 1)
    BY <2>4, <2>5
  <2> HIDE DEF Is
  <2>7. N + 1 \in 0..L
    BY <1>1
  <2> QED
    BY <2>6, <2>7
<1> HIDE DEF Is, D
<1>4. T \in SUBSET (0..L)
  OBVIOUS
<1> HIDE DEF T
<1>5. T = 0..L
  <2> HIDE DEF L
  <2> QED
    BY <1>1, <1>2, <1>3, <1>4, UpTo
<1> DEFINE E(g, n) == [s \in [item : Trees(Types)[n], p : Printbuffers] |->
                          print_value(s.item, s.p, g[n - 1])]
           Real(g) == g = [n \in 0..L |-> E(g, n)]
<1>6. \E g : Is(g, L)
  <2> HIDE DEF L
  <2> QED
    BY <1>1, <1>5 DEF T
<1>7. \A g, n : E(g, n) = D(g, n)
  <2>1. ASSUME NEW g, NEW n, n = 0 PROVE E(g, n) = D(g, n)
    <3>1. Trees(Types)[n] = {}
      BY <2>1, TreesAre
    <3>2. [item : Trees(Types)[n], p : Printbuffers] = {}
      BY <3>1
    <3>3. E(g, n) = [s \in {} |-> print_value(s.item, s.p, g[n - 1])]
      BY <3>2 DEF E
    <3>4. D(g, n) = [s \in {} |-> print_value(s.item, s.p, NULL)]
      BY <2>1, <3>2 DEF D, none, PrintedFrom
    <3>5. [s \in {} |-> print_value(s.item, s.p, g[n - 1])] = [s \in {} |-> print_value(s.item, s.p, NULL)]
      OBVIOUS
    <3> QED
      BY <3>3, <3>4, <3>5
  <2>2. ASSUME NEW g, NEW n, n # 0 PROVE E(g, n) = D(g, n)
    BY <2>2 DEF E, D, PrintedFrom
  <2> QED
    BY <2>1, <2>2
<1>8. ValuePrinted = CHOOSE g : Real(g)
  BY DEF ValuePrinted
<1> HIDE DEF E
<1>9. \E g : Real(g)
  <2> HIDE DEF L
  <2> QED
    BY <1>6, <1>7 DEF Is
<1>10. Real(ValuePrinted)
  <2> HIDE DEF Real
  <2> QED
    BY <1>8, <1>9
<1>11. \A n \in 0..L : ValuePrinted[n] = D(ValuePrinted, n)
  <2> HIDE DEF L
  <2> QED
    BY <1>7, <1>10
<1>12. ASSUME NEW n \in 1..L PROVE ValuePrinted[n] = PrintedFrom(n, ValuePrinted[n - 1])
  <2>1. n \in 0..L /\ n # 0
    BY <1>1
  <2> HIDE DEF L
  <2> QED
    BY <1>11, <2>1 DEF D
<1> QED
  BY <1>12

(* Items that print: their types are known to print_value, and raw ones have  *)
(* a text.                                                                  *)
Printable(S) ==
    /\ S \subseteq Trees(Types)[Levels]
    /\ \A item \in S :
          /\ item.kids \in Seq(S)
          /\ item.type # "Invalid"
          /\ item.type = "Raw" => item.val # NULL

LEMMA EveryLevelPrints ==
    ASSUME NEW S, Printable(S), NEW f \in BOOLEAN
    PROVE  \A n \in 0..Levels : \A item \in S \cap Trees(Types)[n], d \in Nat :
               Prints(ValuePrinted[n], item, d, f)
<1> DEFINE Level_(n) == S \cap Trees(Types)[n]
           T == {n \in 0..Levels : \A item \in Level_(n), d \in Nat :
                                      Prints(ValuePrinted[n], item, d, f)}
<1>1. Levels \in Nat
  BY TextAssumption
<1>2. 0 \in T
  <2>1. Level_(0) = {} /\ 0 \in 0..Levels
    BY <1>1, TreesAre
  <2> HIDE DEF Level_
  <2> QED
    BY <2>1
<1>3. ASSUME NEW n \in 0..(Levels - 1), n \in T PROVE n + 1 \in T
  <2>1. n + 1 \in 0..Levels /\ n + 1 \in 1..Levels /\ (n + 1) - 1 = n
    BY <1>1
  <2> DEFINE inner == ValuePrinted[n]
             k == n + 1
  <2>2. ValuePrinted[k] = PrintedFrom(k, inner)
    BY <2>1, ValuePrintedIs
  <2>3. Trees(Types)[k] = Level(Types, Trees(Types)[n])
    BY TreesAre
  <2>4. \A kid \in Trees(Types)[n] : kid.name \in {NULL} \cup Seq(Nat)
    <3>1. Trees(Types)[n] \subseteq Trees(Types)[k]
      BY TreesGrow
    <3> QED
      BY <2>3, <3>1 DEF Level
  <2>5. \A kid \in Level_(n), d \in Nat : Prints(inner, kid, d, f)
    BY <1>3
  <2> HIDE DEF inner, k
  <2>6. ASSUME NEW item \in Level_(k), NEW d \in Nat
        PROVE  Prints(ValuePrinted[k], item, d, f)
    <3>1. /\ item.type \in Types \ {"Invalid"} /\ item.val \in {NULL} \cup Seq(Nat)
          /\ item.type \in {"Number", "Raw"} => item.val # NULL
          /\ item.kids \in Seq(Trees(Types)[n]) /\ item.kids \in Seq(S)
          /\ item \in Trees(Types)[k]
      <4>1. item \in S /\ item \in Level(Types, Trees(Types)[n]) /\ item \in Trees(Types)[k]
        BY <2>3
      <4> QED
        BY <4>1 DEF Printable, Level
    <3>2. \A i \in 1..Len(item.kids) : item.kids[i] \in Level_(n)
      BY <3>1, ElementOfSeq
    <3> HIDE DEF Level_
    <3>3. \A i \in 1..Len(item.kids) : item.kids[i].name \in {NULL} \cup Seq(Nat)
      <4>1. \A i \in 1..Len(item.kids) : item.kids[i] \in Trees(Types)[n]
        BY <3>2 DEF Level_
      <4> QED
        BY <2>4, <4>1
    <3>4. \A i \in 1..Len(item.kids) : Prints(inner, item.kids[i], d + 1, f)
      <4>1. d + 1 \in Nat
        OBVIOUS
      <4> QED
        BY <2>5, <3>2, <4>1
    <3>5. PICK R \in Seq(Nat) :
              \A m \in Printbuffers, t \in Seq(Nat) :
                  m.format = f =>
                      \A p \in Stage(m, d, t) : print_value(item, p, inner) \in Done(m, d, t \o R)
      BY <3>1, <3>3, <3>4, ValuePrints
    <3>6. ASSUME NEW p \in Printbuffers
          PROVE  ValuePrinted[k][[item |-> item, p |-> p]] = print_value(item, p, inner)
      <4> DEFINE s == [item |-> item, p |-> p]
      <4>1. s \in [item : Trees(Types)[k], p : Printbuffers] /\ s.item = item /\ s.p = p
        BY <3>1
      <4> HIDE DEF s
      <4>2. PrintedFrom(k, inner)[s] = print_value(item, p, inner)
        BY <4>1 DEF PrintedFrom
      <4> QED
        BY <2>2, <4>2 DEF s
    <3>7. ASSUME NEW m \in Printbuffers, NEW t \in Seq(Nat), m.format = f, NEW p \in Stage(m, d, t)
          PROVE  ValuePrinted[k][[item |-> item, p |-> p]] \in Done(m, d, t \o R)
      <4>1. p \in Printbuffers
        BY DEF Stage
      <4>2. print_value(item, p, inner) \in Done(m, d, t \o R)
        BY <3>5, <3>7
      <4> QED
        BY <3>6, <4>1, <4>2
    <3>8. PrintsAs(ValuePrinted[k], item, d, f, R)
      BY <3>7 DEF PrintsAs
    <3> QED
      BY <3>8 DEF Prints
  <2>7. k \in T
    <3>1. k \in 0..Levels
      BY <2>1 DEF k
    <3> HIDE DEF Level_
    <3> QED
      BY <2>6, <3>1
  <2> HIDE DEF T
  <2> QED
    BY <2>7 DEF k
<1>4. T \in SUBSET (0..Levels)
  OBVIOUS
<1> HIDE DEF T
<1>5. T = 0..Levels
  BY <1>1, <1>2, <1>3, <1>4, UpTo
<1> QED
  BY <1>5 DEF T

LEMMA FirstBuffer ==
    ASSUME NEW length \in 0..INT_MAX, NEW taken \in {0, 1}, NEW allocs \in Nat,
           NEW noalloc \in BOOLEAN, NEW realloc \in BOOLEAN, NEW format \in BOOLEAN,
           noalloc <=> taken = 0
    PROVE  LET m == PrintBufferOf(length, taken, allocs, noalloc, realloc, format)
           IN  /\ m \in Printbuffers /\ m \in Stage(m, 0, <<>>)
               /\ m.format = format /\ m.length = length
               /\ m.noalloc = noalloc /\ m.realloc = realloc
<1> DEFINE m == PrintBufferOf(length, taken, allocs, noalloc, realloc, format)
<1>1. INT_MAX \in Nat
  BY IntAssumption
<1>2. /\ m.length = length /\ m.offset = 0 /\ m.allocs = allocs /\ m.live = taken
      /\ m.held = TRUE /\ m.noalloc = noalloc /\ m.realloc = realloc /\ m.ok = TRUE
      /\ m.fault = FALSE /\ m.format = format /\ m.depth = 0 /\ m.text = <<>> /\ m.ended = FALSE
  BY DEF PrintBufferOf
<1>3. m \in Printbuffers
  <2>1. <<>> \in Seq(Nat) /\ length \in Nat /\ taken \in Int
    BY <1>1, EmptySeq
  <2> QED
    BY <2>1 DEF PrintBufferOf, Printbuffers
<1> HIDE DEF m
<1>4. Sound(m)
  BY <1>1, <1>2, <1>3 DEF Sound
<1>5. m \in Stage(m, 0, <<>>)
  BY <1>2, <1>3, <1>4, StrlenEmpty DEF Stage, Alike
<1> QED
  BY <1>2, <1>3, <1>5 DEF m

(* What a print is of the text R, if it is not refused.                      *)
LEMMA PrintedValueIs ==
    ASSUME NEW S, Printable(S), NEW item \in S, NEW format \in BOOLEAN
    PROVE  \E R \in Seq(Nat) :
               \A length \in 0..INT_MAX, taken \in {0, 1}, allocs \in Nat,
                  noalloc \in BOOLEAN, realloc \in BOOLEAN :
                   (noalloc <=> taken = 0) =>
                       LET m == PrintBufferOf(length, taken, allocs, noalloc, realloc, format)
                       IN  PrintedValue(item, m) \in Done(m, 0, R)
<1>1. Levels \in 0..Levels
  BY TextAssumption
<1>2. item \in S \cap Trees(Types)[Levels]
  BY DEF Printable
<1>3. Prints(ValuePrinted[Levels], item, 0, format)
  BY <1>1, <1>2, EveryLevelPrints
<1>4. PICK R \in Seq(Nat) : PrintsAs(ValuePrinted[Levels], item, 0, format, R)
  BY <1>3 DEF Prints
<1>5. ASSUME NEW length \in 0..INT_MAX, NEW taken \in {0, 1}, NEW allocs \in Nat,
             NEW noalloc \in BOOLEAN, NEW realloc \in BOOLEAN, noalloc <=> taken = 0
      PROVE  LET m == PrintBufferOf(length, taken, allocs, noalloc, realloc, format)
             IN  PrintedValue(item, m) \in Done(m, 0, R)
  <2> DEFINE m == PrintBufferOf(length, taken, allocs, noalloc, realloc, format)
  <2>1. m \in Printbuffers /\ m \in Stage(m, 0, <<>>) /\ m.format = format
    BY <1>5, FirstBuffer
  <2> HIDE DEF m
  <2>2. ValuePrinted[Levels][[item |-> item, p |-> m]] \in Done(m, 0, <<>> \o R)
    BY <1>4, <2>1, EmptySeq DEF PrintsAs
  <2>3. <<>> \o R = R
    BY ConcatEmptySeq
  <2>4. PrintedValue(item, m) \in Done(m, 0, R)
    BY <2>2, <2>3 DEF PrintedValue
  <2> QED
    BY <2>4 DEF m
<1> QED
  BY <1>4, <1>5

LEMMA PrintedIs ==
    ASSUME NEW R \in Seq(Nat), NEW m, NEW p \in Done(m, 0, R)
    PROVE  /\ Printed(p).text \in {NULL, R} /\ Printed(p).live = p.live
           /\ Printed(p).text # NULL <=> p.ok
           /\ Printed(p).fault = p.fault
           /\ Spared(p) => ~p.fault
<1>1. NULL \notin Seq(Nat)
  BY TextAssumption
<1>2. p.fault \in BOOLEAN /\ p.ok \in BOOLEAN /\ p.ended \in BOOLEAN
  BY DEF Done, Printbuffers
<1>3. (p.ok => p.text = R /\ p.ended) /\ Sound(p)
  BY DEF Done
<1>4. Printed(p).text = (IF p.ok THEN p.text ELSE NULL) /\ Printed(p).live = p.live
      /\ Printed(p).fault = (p.fault \/ (p.ok /\ ~p.ended))
  BY DEF Printed
<1> QED
  BY <1>1, <1>2, <1>3, <1>4 DEF Sound

-----------------------------------------------------------------------------
(* The functions that print.                                                *)

(* The text R, or nothing; nothing is written outside, and memory is kept only *)
(* with the text.                                                           *)
PrintedAs(R, r, realloc) ==
    /\ r.text \in {NULL, R}
    /\ r.text # NULL => ~r.fault
    /\ ~realloc => ~r.fault /\ r.live = (IF r.text = NULL THEN 0 ELSE 1)

BufferedAs(R, r, realloc) ==
    /\ r.text \in {NULL, R}
    /\ ~realloc => ~r.fault /\ (r.text # NULL => r.live = 1)

PlacedAs(R, r, length) ==
    /\ r.text \in {NULL, R} /\ ~r.fault /\ r.live = 0
    /\ length <= strlen(R) => r.text = NULL
    /\ length >= strlen(R) + 2 => r.text = R

Unprinted == [text |-> NULL, live |-> 0, fault |-> FALSE]

LEMMA UnprintedIs ==
    ASSUME NEW R \in Seq(Nat), NEW realloc \in BOOLEAN
    PROVE  /\ PrintedAs(R, Unprinted, realloc) /\ BufferedAs(R, Unprinted, realloc)
           /\ \A length \in Int : length < 0 => PlacedAs(R, Unprinted, length)
<1>1. Unprinted.text = NULL /\ Unprinted.live = 0 /\ Unprinted.fault = FALSE
  BY DEF Unprinted
<1>2. strlen(R) \in Nat
  BY Widths
<1>3. ASSUME NEW length \in Int, length < 0 PROVE PlacedAs(R, Unprinted, length)
  BY <1>1, <1>2, <1>3 DEF PlacedAs
<1> QED
  BY <1>1, <1>3 DEF PrintedAs, BufferedAs

(* The buffer is given back when it could not be cut.                        *)
Unshrunk(p) ==
    [p EXCEPT !.ok = FALSE,
              !.live = IF p.held /\ ~(p.ok /\ p.realloc) THEN @ - 1 ELSE @]

LEMMA ShrunkIs ==
    ASSUME NEW R \in Seq(Nat), NEW m, NEW p \in Done(m, 0, R), NEW realloc \in BOOLEAN,
           m.realloc = realloc, m.noalloc = FALSE
    PROVE  PrintedAs(R, Shrunk(update_offset(p)), realloc)
<1> DEFINE q == update_offset(p)
<1>1. /\ q \in Stage(m, 0, R) /\ q.ok = p.ok /\ q.ended = p.ended
  BY UpdatedIs
<1>2. p.ok => p.ended
  BY DEF Done
<1> HIDE DEF q
<1>3. /\ Sound(q) /\ q \in Printbuffers /\ q.realloc = realloc /\ q.noalloc = FALSE
      /\ (q.ok => q.text = R /\ q.ended)
  BY <1>1, <1>2 DEF Stage, Alike
<1>4. /\ q.ok \in BOOLEAN /\ q.fault \in BOOLEAN /\ q.held \in BOOLEAN /\ q.live \in Int
      /\ q.allocs \in Nat /\ q.ended \in BOOLEAN
  BY <1>3 DEF Printbuffers
<1>5. /\ (~realloc \/ q.allocs > 0) => ~q.fault
      /\ ~realloc => q.live = (IF q.held THEN 1 ELSE 0) /\ (q.ok => q.held)
  BY <1>3, <1>4 DEF Sound, Spared
<1>6. NULL \notin Seq(Nat)
  BY TextAssumption
<1>7. CASE q.ok /\ q.allocs > 0
  <2>1. Shrunk(q) = Printed(q)
    BY <1>7 DEF Shrunk
  <2>2. Printed(q).text = R /\ Printed(q).live = q.live /\ Printed(q).fault = FALSE
    BY <1>3, <1>4, <1>5, <1>7 DEF Printed
  <2>3. ~realloc => q.live = 1
    BY <1>5, <1>7
  <2> QED
    BY <1>6, <2>1, <2>2, <2>3 DEF PrintedAs, q
<1>8. CASE ~(q.ok /\ q.allocs > 0)
  <2> DEFINE u == Unshrunk(q)
  <2>1. Shrunk(q) = Printed(u)
    BY <1>8 DEF Shrunk, Unshrunk
  <2>2. /\ u.ok = FALSE /\ u.fault = q.fault
        /\ u.live = IF q.held /\ ~(q.ok /\ realloc) THEN q.live - 1 ELSE q.live
    BY <1>3 DEF Printbuffers, Unshrunk
  <2> HIDE DEF u
  <2>3. Printed(u).text = NULL /\ Printed(u).live = u.live /\ Printed(u).fault = q.fault
    BY <1>4, <2>2 DEF Printed
  <2>4. ~realloc => u.live = 0 /\ q.fault = FALSE
    BY <1>4, <1>5, <2>2
  <2> QED
    BY <2>1, <2>3, <2>4 DEF PrintedAs, q
<1> QED
  BY <1>7, <1>8

LEMMA BufferedIs ==
    ASSUME NEW R \in Seq(Nat), NEW m, NEW p \in Done(m, 0, R), NEW realloc \in BOOLEAN,
           m.realloc = realloc, m.noalloc = FALSE
    PROVE  BufferedAs(R, Printed(p), realloc)
<1>1. /\ Printed(p).text \in {NULL, R} /\ Printed(p).live = p.live
      /\ (Printed(p).text # NULL <=> p.ok) /\ Printed(p).fault = p.fault
      /\ Spared(p) => ~p.fault
  BY PrintedIs
<1>2. Sound(p) /\ p.realloc = realloc /\ p.noalloc = FALSE
  BY DEF Done, Alike
<1>3. ~realloc => ~p.fault /\ (p.ok => p.live = 1)
  BY <1>1, <1>2 DEF Sound, Spared
<1> QED
  BY <1>1, <1>3 DEF BufferedAs

LEMMA PlacedIs ==
    ASSUME NEW R \in Seq(Nat), NEW m, NEW p \in Done(m, 0, R), NEW length \in Int,
           m.length = length, m.noalloc = TRUE
    PROVE  PlacedAs(R, Printed(p), length)
<1>1. /\ Printed(p).text \in {NULL, R} /\ Printed(p).live = p.live
      /\ (Printed(p).text # NULL <=> p.ok) /\ Printed(p).fault = p.fault
      /\ Spared(p) => ~p.fault
  BY PrintedIs
<1>2. Sound(p) /\ p.noalloc = TRUE /\ p.length = length
  BY DEF Done, Alike
<1>3. ~p.fault /\ p.live = 0
  BY <1>1, <1>2 DEF Sound, Spared
<1>4. strlen(R) \in Nat /\ NULL \notin Seq(Nat)
  BY Widths, TextAssumption
<1>5. p.ok => strlen(R) < length
  BY <1>2, <1>3 DEF Done
<1>6. length >= strlen(R) + 2 => p.ok
  <2>1. length >= strlen(R) + 2 => Fits(m, R)
    BY <1>4 DEF Fits
  <2> QED
    BY <2>1 DEF Done
<1>7. length <= strlen(R) => ~p.ok
  BY <1>4, <1>5
<1> QED
  BY <1>1, <1>3, <1>6, <1>7 DEF PlacedAs

(* Every way of printing the item in that format gives the text R or nothing.  *)
OneText(item, format, R) ==
    /\ \A realloc \in BOOLEAN, allocs \in Nat :
           PrintedAs(R, print(item, format, realloc, allocs), realloc)
    /\ \A realloc \in BOOLEAN, allocs \in Nat, prebuffer \in Int :
           prebuffer <= INT_MAX =>
               BufferedAs(R, cJSON_PrintBuffered(item, prebuffer, format, realloc, allocs),
                          realloc)
    /\ \A length \in Int :
           length <= INT_MAX =>
               PlacedAs(R, cJSON_PrintPreallocated(item, length, format), length)

(* Of items that print, cJSON_Print, cJSON_PrintBuffered from any guess on and  *)
(* cJSON_PrintPreallocated write the same text or nothing, and never outside    *)
(* their buffer; two bytes more than the text takes are enough for a buffer of   *)
(* the caller's, and one that the text fills has no place for the terminator.   *)
THEOREM PrintsAreOneText ==
    ASSUME NEW S, Printable(S), NEW item \in S, NEW format \in BOOLEAN
    PROVE  \E R \in Seq(Nat) : OneText(item, format, R)
<1>1. PICK R \in Seq(Nat) :
          \A length \in 0..INT_MAX, taken \in {0, 1}, allocs \in Nat,
             noalloc \in BOOLEAN, realloc \in BOOLEAN :
              (noalloc <=> taken = 0) =>
                  LET m == PrintBufferOf(length, taken, allocs, noalloc, realloc, format)
                  IN  PrintedValue(item, m) \in Done(m, 0, R)
  BY PrintedValueIs
<1> DEFINE Mine(length, allocs, realloc) == PrintBufferOf(length, 1, allocs - 1, FALSE, realloc, format)
           Theirs(length) == PrintBufferOf(length, 0, 0, TRUE, TRUE, format)
<1>2. INT_MAX \in Nat
  BY IntAssumption
<1>3. ASSUME NEW realloc \in BOOLEAN, NEW allocs \in Nat, NEW length \in 0..INT_MAX, allocs # 0
      PROVE  /\ PrintedValue(item, Mine(length, allocs, realloc)) \in Done(Mine(length, allocs, realloc), 0, R)
             /\ Mine(length, allocs, realloc).realloc = realloc
             /\ Mine(length, allocs, realloc).noalloc = FALSE
  <2>1. allocs - 1 \in Nat /\ 1 \in {0, 1} /\ FALSE \in BOOLEAN /\ (FALSE <=> 1 = 0)
    BY <1>3
  <2>2. PrintedValue(item, Mine(length, allocs, realloc)) \in Done(Mine(length, allocs, realloc), 0, R)
    BY <1>1, <2>1
  <2>3. Mine(length, allocs, realloc).realloc = realloc /\ Mine(length, allocs, realloc).noalloc = FALSE
    BY DEF PrintBufferOf
  <2> QED
    BY <2>2, <2>3
<1>4. ASSUME NEW realloc \in BOOLEAN, NEW allocs \in Nat
      PROVE  PrintedAs(R, print(item, format, realloc, allocs), realloc)
  <2>1. CASE allocs = 0
    BY <2>1, UnprintedIs DEF print, Unprinted
  <2>2. CASE allocs # 0
    <3> DEFINE m == Mine(0, allocs, realloc)
               p == PrintedValue(item, m)
    <3>1. p \in Done(m, 0, R) /\ m.realloc = realloc /\ m.noalloc = FALSE
      <4>1. 0 \in 0..INT_MAX
        BY <1>2
      <4> HIDE DEF Mine
      <4> QED
        BY <1>3, <2>2, <4>1
    <3>2. print(item, format, realloc, allocs) = Shrunk(update_offset(p))
      BY <2>2 DEF print
    <3> HIDE DEF m, p
    <3> QED
      BY <3>1, <3>2, ShrunkIs
  <2> QED
    BY <2>1, <2>2
<1>5. ASSUME NEW realloc \in BOOLEAN, NEW allocs \in Nat, NEW prebuffer \in Int,
             prebuffer <= INT_MAX
      PROVE  BufferedAs(R, cJSON_PrintBuffered(item, prebuffer, format, realloc, allocs), realloc)
  <2>1. CASE prebuffer < 0 \/ allocs = 0
    BY <2>1, UnprintedIs DEF cJSON_PrintBuffered, Unprinted
  <2>2. CASE ~(prebuffer < 0 \/ allocs = 0)
    <3> DEFINE m == Mine(prebuffer, allocs, realloc)
               p == PrintedValue(item, m)
    <3>1. prebuffer \in 0..INT_MAX
      BY <1>2, <1>5, <2>2
    <3>2. p \in Done(m, 0, R) /\ m.realloc = realloc /\ m.noalloc = FALSE
      <4> HIDE DEF Mine
      <4> QED
        BY <1>3, <2>2, <3>1
    <3>3. cJSON_PrintBuffered(item, prebuffer, format, realloc, allocs) = Printed(p)
      BY <2>2 DEF cJSON_PrintBuffered
    <3> HIDE DEF m, p
    <3> QED
      BY <3>2, <3>3, BufferedIs
  <2> QED
    BY <2>1, <2>2
<1>6. ASSUME NEW length \in Int, length <= INT_MAX
      PROVE  PlacedAs(R, cJSON_PrintPreallocated(item, length, format), length)
  <2>1. CASE length < 0
    BY <2>1, UnprintedIs DEF cJSON_PrintPreallocated, Unprinted
  <2>2. CASE ~(length < 0)
    <3> DEFINE m == Theirs(length)
               p == PrintedValue(item, m)
    <3>1. length \in 0..INT_MAX /\ 0 \in {0, 1} /\ 0 \in Nat /\ TRUE \in BOOLEAN /\ (TRUE <=> 0 = 0)
      BY <1>2, <1>6, <2>2
    <3>2. p \in Done(m, 0, R)
      BY <1>1, <3>1
    <3>4. m.length = length /\ m.noalloc = TRUE
      BY DEF PrintBufferOf
    <3>3. cJSON_PrintPreallocated(item, length, format) = Printed(p)
      BY <2>2 DEF cJSON_PrintPreallocated
    <3> HIDE DEF m, p
    <3> QED
      BY <3>2, <3>3, <3>4, PlacedIs
  <2> QED
    BY <2>1, <2>2
<1>7. OneText(item, format, R)
  BY <1>4, <1>5, <1>6 DEF OneText
<1> QED
  BY <1>7

-----------------------------------------------------------------------------
(* What the parser returns is printed.                                      *)

LEMMA LevelsAre ==
    /\ NestingLimit \in 0..(Levels - 1) /\ NestingLimit + 1 \in 0..(Levels - 1)
    /\ NestingLimit + 1 \in 0..Levels /\ NestingLimit + 2 \in 0..Levels
    /\ (NestingLimit + 1) + 1 = NestingLimit + 2 /\ Levels \in 0..Levels
BY ParseAssumption, TextAssumption

LEMMA ValidFields ==
    ASSUME NEW item \in Trees(Valid)[NestingLimit + 1]
    PROVE  /\ item.kids \in Seq(Trees(Valid)[NestingLimit + 1])
           /\ item.type # "Invalid" /\ item.type # "Raw"
<1>1. Trees(Valid)[NestingLimit + 1] = Level(Valid, Trees(Valid)[NestingLimit])
  BY LevelsAre, TreesAre
<1>2. Trees(Valid)[NestingLimit] \subseteq Trees(Valid)[NestingLimit + 1]
  BY LevelsAre, TreesGrow
<1>3. item.type \in Valid /\ item.kids \in Seq(Trees(Valid)[NestingLimit])
  BY <1>1 DEF Level
<1>4. "Raw" \notin Valid /\ "Invalid" \notin Valid
  BY DEF Valid, Safe
<1> QED
  BY <1>2, <1>3, <1>4, SeqMonotonic

(* What the parser returns can be printed, and the array of it and a raw text. *)
LEMMA ArrayIsPrintable ==
    ASSUME NEW s \in Seq(Nat), NEW value \in Trees(Valid)[NestingLimit + 1]
    PROVE  \E S : /\ Printable(S)
                  /\ Item("Array", NULL, <<Item("Raw", s, <<>>), value>>) \in S
<1> DEFINE V == Trees(Valid)[NestingLimit + 1]
           below == Trees(Types)[NestingLimit]
           middle == Trees(Types)[NestingLimit + 1]
           top == Trees(Types)[Levels]
           raw == Item("Raw", s, <<>>)
           array == Item("Array", NULL, <<raw, value>>)
           S == V \cup {raw, array}
<1>1. middle = Level(Types, below) /\ Trees(Types)[NestingLimit + 2] = Level(Types, middle)
      /\ Trees(Types)[NestingLimit + 2] \subseteq top /\ middle \subseteq top
  BY LevelsAre, TreesAre, TreesNest
<1>2. V \subseteq middle
  BY LevelsAre, TreesOfMore, TypesAre
<1>3. /\ raw.type = "Raw" /\ raw.val = s /\ raw.name = NULL /\ raw.kids = <<>>
      /\ array.type = "Array" /\ array.val = NULL /\ array.name = NULL
      /\ array.kids = <<raw, value>>
  BY DEF Item
<1>4. "Raw" \in Types /\ "Array" \in Types
  BY DEF Types
<1>5. raw \in middle
  <2>1. <<>> \in Seq(below)
    BY EmptySeq
  <2> HIDE DEF below, middle
  <2>2. raw \in Level(Types, below)
    BY <1>4, <2>1 DEF Item, Level
  <2> QED
    BY <1>1, <2>2
<1>6. value \in middle
  BY <1>2
<1> HIDE DEF V, below, middle, top, raw
<1>7. array \in top
  <2>1. <<raw, value>> \in Seq(middle)
    BY <1>5, <1>6
  <2>2. array \in Level(Types, middle)
    BY <1>4, <2>1 DEF Item, Level
  <2> QED
    BY <1>1, <2>2
<1> HIDE DEF array
<1>8. S \subseteq top
  BY <1>1, <1>2, <1>5, <1>7
<1>9. V \subseteq S /\ raw \in S /\ array \in S /\ value \in S
  BY DEF V
<1>10. ASSUME NEW item \in S
       PROVE  /\ item.kids \in Seq(S) /\ item.type # "Invalid"
              /\ item.type = "Raw" => item.val # NULL
  <2>1. CASE item \in V
    <3>1. item.kids \in Seq(V) /\ item.type # "Invalid" /\ item.type # "Raw"
      BY <2>1, ValidFields DEF V
    <3> HIDE DEF S
    <3> QED
      BY <1>9, <3>1, SeqMonotonic
  <2>2. CASE item = raw
    <3>1. s # NULL /\ <<>> \in Seq(S)
      BY TextAssumption, EmptySeq
    <3> QED
      BY <1>3, <2>2, <3>1
  <2>3. CASE item = array
    <3>1. <<raw, value>> \in Seq(S)
      <4> HIDE DEF S
      <4> QED
        BY <1>9
    <3> QED
      BY <1>3, <2>3, <3>1
  <2> QED
    BY <2>1, <2>2, <2>3
<1> HIDE DEF S
<1>11. Printable(S)
  BY <1>8, <1>10 DEF Printable, top
<1> QED
  BY <1>9, <1>11 DEF array, raw

(* What the parser returns are such items, whatever text it was given.         *)
THEOREM ParsedItemsPrint ==
    ASSUME NEW s \in Seq(Nat), NEW whole \in BOOLEAN, NEW allocs \in Nat,
           cJSON_ParseWithOpts(s, whole, allocs).item # NULL, NEW format \in BOOLEAN
    PROVE  \E R \in Seq(Nat) : OneText(cJSON_ParseWithOpts(s, whole, allocs).item, format, R)
<1> DEFINE V == Trees(Valid)[NestingLimit + 1]
           item == cJSON_ParseWithOpts(s, whole, allocs).item
<1>1. item \in V
  BY ParsingBalances DEF ParsedRightly
<1>2. V \subseteq Trees(Types)[Levels]
  BY LevelsAre, KidsAreTrees
<1>3. Printable(V)
  BY <1>2, ValidFields DEF Printable
<1> HIDE DEF V, item
<1>4. \E R \in Seq(Nat) : OneText(item, format, R)
  BY <1>1, <1>3, PrintsAreOneText
<1> QED
  BY <1>4 DEF item

(* With allocators of the user a print keeps memory only with its text, and     *)
(* one that is refused memory anywhere writes nowhere and keeps nothing.       *)
THEOREM PrintsBalance == Spec => []PrintBalances
<1>1. ASSUME Counted, NEW item \in Printables, NEW format \in BOOLEAN, NEW allocs \in 0..4
      PROVE  LET printed == print(item, format, FALSE, allocs)
             IN  /\ ~printed.fault
                 /\ printed.live = IF printed.text = NULL THEN 0 ELSE 1
  <2> DEFINE value == Whole(text).item
             printed == print(item, format, FALSE, allocs)
  <2>1. text \in Seq(Nat)
    BY <1>1 DEF Counted
  <2>2. value # NULL /\ item = Item("Array", NULL, <<Item("Raw", text, <<>>), value>>)
    BY <1>1 DEF Printables
  <2>3. value \in Trees(Valid)[NestingLimit + 1]
    <3>1. Plenty \in Nat
      BY PlentyAssumption
    <3>2. ParsedRightly(text, Whole(text))
      BY <2>1, <3>1, ParsingBalances DEF Whole
    <3> QED
      BY <2>2, <3>2 DEF ParsedRightly
  <2>4. \E S : Printable(S) /\ item \in S
    <3> HIDE DEF value
    <3> QED
      BY <2>1, <2>2, <2>3, ArrayIsPrintable
  <2>5. PICK S : Printable(S) /\ item \in S
    BY <2>4
  <2>6. PICK R \in Seq(Nat) : OneText(item, format, R)
    BY <2>5, PrintsAreOneText
  <2>7. PrintedAs(R, printed, FALSE)
    <3>1. allocs \in Nat /\ FALSE \in BOOLEAN
      OBVIOUS
    <3> QED
      BY <2>6, <3>1 DEF OneText
  <2> HIDE DEF printed
  <2>8. ~printed.fault /\ printed.live = (IF printed.text = NULL THEN 0 ELSE 1)
    BY <2>7 DEF PrintedAs
  <2> QED
    BY <2>8 DEF printed
<1>2. Counted => PrintBalances
  BY <1>1 DEF PrintBalances
<1> QED
  BY <1>2, AlwaysCounted, PTL
=============================================================================
