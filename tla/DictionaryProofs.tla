-------------------------- MODULE DictionaryProofs --------------------------
(***************************************************************************)
(* The dictionary of dictionary.c, for any keys and values and after any     *)
(* sequence of calls.                                                       *)
(***************************************************************************)
EXTENDS Dictionary, TLAPS

Entries == [key : Keys, value : Values]

Unique(s) == \A i, j \in DOMAIN s : s[i].key = s[j].key => i = j

(* What both ways of taking an entry out have in common: the other keys keep  *)
(* their order.                                                              *)
LosesKey(s, t, i) ==
    /\ Len(t) = Len(s) - 1
    /\ \A j \in 1..Len(t) : t[j].key = IF j < i THEN s[j].key ELSE s[j + 1].key

LEMMA Concatenated ==
    ASSUME NEW S, NEW a \in Seq(S), NEW b \in Seq(S)
    PROVE  /\ a \o b \in Seq(S)
           /\ Len(a \o b) = Len(a) + Len(b)
           /\ \A j \in 1..(Len(a) + Len(b)) :
                 (a \o b)[j] = IF j <= Len(a) THEN a[j] ELSE b[j - Len(a)]
<1>1. a \o b \in Seq(S)
  OBVIOUS
<1>2. Len(a \o b) = Len(a) + Len(b)
  OBVIOUS
<1> QED
  BY <1>1, <1>2

LEMMA Suffix ==
    ASSUME NEW S, NEW s \in Seq(S), NEW n \in 1..(Len(s) + 1)
    PROVE  /\ SubSeq(s, n, Len(s)) \in Seq(S)
           /\ Len(SubSeq(s, n, Len(s))) = Len(s) - n + 1
           /\ \A j \in 1..(Len(s) - n + 1) : SubSeq(s, n, Len(s))[j] = s[n + j - 1]
OBVIOUS

LEMMA Unlinked ==
    ASSUME NEW S, NEW s \in Seq(S), NEW i \in 1..Len(s)
    PROVE  /\ Unlink(s, i) \in Seq(S)
           /\ Len(Unlink(s, i)) = Len(s) - 1
           /\ \A j \in 1..(Len(s) - 1) :
                 Unlink(s, i)[j] = IF j < i THEN s[j] ELSE s[j + 1]
<1> DEFINE a == SubSeq(s, 1, i - 1)
           b == SubSeq(s, i + 1, Len(s))
<1>1. a \in Seq(S) /\ Len(a) = i - 1 /\ \A j \in 1..(i - 1) : a[j] = s[j]
  OBVIOUS
<1>2. b \in Seq(S) /\ Len(b) = Len(s) - i /\ \A j \in 1..(Len(s) - i) : b[j] = s[i + j]
  OBVIOUS
<1>3. Unlink(s, i) = a \o b
  BY DEF Unlink
<1> HIDE DEF a, b
<1>4. a \o b \in Seq(S) /\ Len(a \o b) = Len(a) + Len(b)
  BY <1>1, <1>2, Concatenated
<1>5. \A j \in 1..(Len(a) + Len(b)) :
         (a \o b)[j] = IF j <= Len(a) THEN a[j] ELSE b[j - Len(a)]
  BY <1>1, <1>2, Concatenated
<1>6. Len(s) \in Nat
  OBVIOUS
<1>7. \A j \in 1..(Len(s) - 1) : (a \o b)[j] = IF j < i THEN s[j] ELSE s[j + 1]
  <2> SUFFICES ASSUME NEW j \in 1..(Len(s) - 1)
               PROVE  (a \o b)[j] = IF j < i THEN s[j] ELSE s[j + 1]
    OBVIOUS
  <2>1. CASE j < i
    BY <1>1, <1>2, <1>5, <1>6, <2>1
  <2>2. CASE ~(j < i)
    <3>1. j - (i - 1) \in 1..(Len(s) - i) /\ i + (j - (i - 1)) = j + 1
      BY <1>6, <2>2
    <3>2. (a \o b)[j] = b[j - (i - 1)]
      BY <1>1, <1>2, <1>5, <1>6, <2>2
    <3> QED
      BY <1>2, <2>2, <3>1, <3>2
  <2> QED
    BY <2>1, <2>2
<1> QED
  BY <1>1, <1>2, <1>3, <1>4, <1>6, <1>7

LEMMA Appended ==
    ASSUME NEW S, NEW s \in Seq(S), NEW e \in S
    PROVE  /\ Append(s, e) \in Seq(S)
           /\ Len(Append(s, e)) = Len(s) + 1
           /\ \A j \in 1..Len(s) : Append(s, e)[j] = s[j]
           /\ Append(s, e)[Len(s) + 1] = e
OBVIOUS

LEMMA Domain == ASSUME NEW S, NEW s \in Seq(S)
                PROVE  DOMAIN s = 1..Len(s) /\ Len(s) \in Nat /\ \A i \in 1..Len(s) : s[i] \in S
OBVIOUS

LEMMA SecondTakenOver ==
    ASSUME NEW s \in Seq(Entries), Len(s) > 1
    PROVE  /\ TakeOverSecond(s) \in Seq(Entries)
           /\ LosesKey(s, TakeOverSecond(s), 1)
<1> DEFINE e == Entry(s[2].key, s[1].value)
           b == SubSeq(s, 3, Len(s))
<1>1. Len(s) \in Nat /\ s[1] \in Entries /\ s[2] \in Entries
  BY Domain
<1>2. e \in Entries
  BY <1>1 DEF Entries, Entry
<1>3. e.key = s[2].key
  BY DEF Entry
<1>4. b \in Seq(Entries) /\ Len(b) = Len(s) - 2
      /\ \A j \in 1..(Len(s) - 2) : b[j] = s[j + 2]
  <2>1. 3 \in 1..(Len(s) + 1) /\ Len(s) - 3 + 1 = Len(s) - 2
    BY <1>1
  <2>2. b \in Seq(Entries) /\ Len(b) = Len(s) - 3 + 1
        /\ \A j \in 1..(Len(s) - 3 + 1) : b[j] = s[3 + j - 1]
    BY <2>1, Suffix
  <2>3. \A j \in 1..(Len(s) - 2) : 3 + j - 1 = j + 2
    BY <1>1
  <2> QED
    BY <2>1, <2>2, <2>3
<1>5. TakeOverSecond(s) = <<e>> \o b
  BY <1>1 DEF TakeOverSecond
<1> HIDE DEF e, b
<1>6. <<e>> \in Seq(Entries) /\ Len(<<e>>) = 1 /\ <<e>>[1] = e
  BY <1>2
<1>7. <<e>> \o b \in Seq(Entries) /\ Len(<<e>> \o b) = 1 + Len(b)
  BY <1>4, <1>6, Concatenated
<1>8. \A j \in 1..(1 + Len(b)) : (<<e>> \o b)[j] = IF j <= 1 THEN <<e>>[j] ELSE b[j - 1]
  BY <1>4, <1>6, Concatenated
<1>9. \A j \in 1..(Len(s) - 1) : (<<e>> \o b)[j].key = s[j + 1].key
  <2> SUFFICES ASSUME NEW j \in 1..(Len(s) - 1)
               PROVE  (<<e>> \o b)[j].key = s[j + 1].key
    OBVIOUS
  <2>1. CASE j = 1
    <3>1. (<<e>> \o b)[1] = e
      BY <1>1, <1>4, <1>6, <1>8
    <3> QED
      BY <2>1, <3>1, <1>3
  <2>2. CASE j # 1
    <3>1. j - 1 \in 1..(Len(s) - 2) /\ (j - 1) + 2 = j + 1
      BY <1>1, <2>2
    <3>2. (<<e>> \o b)[j] = b[j - 1]
      BY <1>1, <1>4, <1>8, <2>2
    <3> QED
      BY <1>4, <3>1, <3>2
  <2> QED
    BY <2>1, <2>2
<1> QED
  BY <1>1, <1>4, <1>5, <1>7, <1>9 DEF LosesKey

LEMMA OneKeyLost ==
    ASSUME NEW s \in Seq(Entries), NEW t \in Seq(Entries), NEW i \in 1..Len(s),
           Unique(s), LosesKey(s, t, i)
    PROVE  Unique(t) /\ KeysOf(t) = KeysOf(s) \ {s[i].key}
<1>1. /\ DOMAIN s = 1..Len(s) /\ Len(s) \in Nat
      /\ DOMAIN t = 1..(Len(s) - 1) /\ Len(t) = Len(s) - 1
  BY Domain DEF LosesKey
<1>2. \A j \in DOMAIN t : t[j].key = IF j < i THEN s[j].key ELSE s[j + 1].key
  BY <1>1 DEF LosesKey
<1>3. Unique(t)
  <2> SUFFICES ASSUME NEW j \in DOMAIN t, NEW k \in DOMAIN t, t[j].key = t[k].key
               PROVE  j = k
    BY DEF Unique
  <2> DEFINE Former(n) == IF n < i THEN n ELSE n + 1
  <2>1. /\ Former(j) \in DOMAIN s /\ Former(k) \in DOMAIN s
        /\ Former(j) = Former(k) => j = k
    BY <1>1
  <2>2. t[j].key = s[Former(j)].key /\ t[k].key = s[Former(k)].key
    BY <1>2
  <2> QED
    BY <2>1, <2>2 DEF Unique
<1>4. ASSUME NEW k \in KeysOf(t) PROVE k \in KeysOf(s) \ {s[i].key}
  <2>1. PICK j \in DOMAIN t : t[j].key = k
    BY <1>4 DEF KeysOf
  <2> DEFINE f == IF j < i THEN j ELSE j + 1
  <2>2. f \in DOMAIN s /\ f # i /\ i \in DOMAIN s
    BY <1>1
  <2>3. s[f].key = k
    BY <1>2, <2>1
  <2> HIDE DEF f
  <2>4. s[f].key # s[i].key
    BY <2>2 DEF Unique
  <2> QED
    BY <2>2, <2>3, <2>4 DEF KeysOf
<1>5. ASSUME NEW k \in KeysOf(s) \ {s[i].key} PROVE k \in KeysOf(t)
  <2>1. PICK j \in DOMAIN s : s[j].key = k
    BY <1>5 DEF KeysOf
  <2>2. j # i
    BY <2>1
  <2> DEFINE f == IF j < i THEN j ELSE j - 1
  <2>3. f \in DOMAIN t /\ (IF f < i THEN f ELSE f + 1) = j
    BY <1>1, <2>2
  <2>4. t[f].key = s[IF f < i THEN f ELSE f + 1].key
    BY <1>2, <2>3
  <2> QED
    BY <2>1, <2>3, <2>4 DEF KeysOf
<1> QED
  BY <1>3, <1>4, <1>5

(* The only place of a key is the one where the search stops. *)
LEMMA Found ==
    ASSUME NEW s \in Seq(Entries), Unique(s), NEW i \in DOMAIN s
    PROVE  /\ dict_has(s, s[i].key)
           /\ Position(s, s[i].key) = i
           /\ dict_get(s, s[i].key) = s[i].value
<1>1. dict_has(s, s[i].key)
  BY DEF dict_has, KeysOf
<1>2. \A j \in 1..(i - 1) : s[j].key # s[i].key
  BY Domain DEF Unique
<1>3. \A n \in DOMAIN s : s[n].key = s[i].key => n = i
  BY DEF Unique
<1>4. Position(s, s[i].key) = i
  BY <1>2, <1>3 DEF Position
<1> QED
  BY <1>1, <1>4 DEF dict_get

LEMMA NotFound ==
    ASSUME NEW s, NEW k, k \notin KeysOf(s) PROVE dict_get(s, k) = NULL
BY DEF dict_get, dict_has

(* dict_remove, unless it frees the node its caller holds. *)
LEMMA Removed ==
    ASSUME NEW s \in Seq(Entries), Unique(s), NEW k, ~RemovesAll(s, k)
    PROVE  LET t == dict_remove(s, k)
           IN  t \in Seq(Entries) /\ Unique(t) /\ KeysOf(t) = KeysOf(s) \ {k}
<1> DEFINE t == dict_remove(s, k)
<1>1. CASE ~dict_has(s, k)
  BY <1>1 DEF dict_remove, dict_has
<1>2. CASE dict_has(s, k)
  <2>1. PICK i \in DOMAIN s : s[i].key = k
    BY <1>2 DEF dict_has, KeysOf
  <2>2. Position(s, k) = i
    BY <2>1, Found
  <2>3. DOMAIN s = 1..Len(s) /\ Len(s) \in Nat /\ Len(s) # 1 /\ Len(s) > 1
    <3>1. DOMAIN s = 1..Len(s) /\ Len(s) \in Nat
      BY Domain
    <3>2. Len(s) # 1
      BY <1>2 DEF RemovesAll
    <3> QED
      BY <2>1, <3>1, <3>2
  <2>4. t \in Seq(Entries) /\ LosesKey(s, t, i)
    <3>1. CASE i = 1
      BY <1>2, <2>2, <2>3, <3>1, SecondTakenOver DEF dict_remove
    <3>2. CASE i # 1
      <4>1. t = Unlink(s, i)
        BY <1>2, <2>2, <3>2 DEF dict_remove
      <4> HIDE DEF t
      <4>2. /\ t \in Seq(Entries) /\ Len(t) = Len(s) - 1
            /\ \A j \in 1..(Len(s) - 1) : t[j] = IF j < i THEN s[j] ELSE s[j + 1]
        <5>1. i \in 1..Len(s)
          BY <2>1, <2>3
        <5>2. /\ Unlink(s, i) \in Seq(Entries) /\ Len(Unlink(s, i)) = Len(s) - 1
              /\ \A j \in 1..(Len(s) - 1) :
                    Unlink(s, i)[j] = IF j < i THEN s[j] ELSE s[j + 1]
          BY <5>1, Unlinked
        <5> QED
          BY <4>1, <5>2
      <4> QED
        BY <4>2 DEF LosesKey
    <3> QED
      BY <3>1, <3>2
  <2> QED
    BY <2>1, <2>3, <2>4, OneKeyLost
<1> QED
  BY <1>1, <1>2

LEMMA Added ==
    ASSUME NEW s \in Seq(Entries), Unique(s), NEW k \in Keys, NEW v \in Values,
           ~RemovesAll(s, k)
    PROVE  LET t == dict_add(s, k, v)
           IN  /\ t \in Seq(Entries) /\ Unique(t)
               /\ KeysOf(t) = KeysOf(s) \cup {k} /\ dict_get(t, k) = v
<1> DEFINE r == dict_remove(s, k)
           e == Entry(k, v)
           t == Append(r, e)
<1>1. r \in Seq(Entries) /\ Unique(r) /\ KeysOf(r) = KeysOf(s) \ {k}
  BY Removed
<1>2. e \in Entries /\ e.key = k /\ e.value = v
  BY DEF Entries, Entry
<1>3. dict_add(s, k, v) = t
  BY DEF dict_add
<1> HIDE DEF r, e
<1>4. /\ t \in Seq(Entries) /\ Len(t) = Len(r) + 1
      /\ \A j \in 1..Len(r) : t[j] = r[j]
      /\ t[Len(r) + 1] = e
  BY <1>1, <1>2, Appended
<1> HIDE DEF t
<1>5. DOMAIN t = 1..(Len(r) + 1) /\ DOMAIN r = 1..Len(r) /\ Len(r) \in Nat
  BY <1>1, <1>4, Domain
<1>6. \A j \in DOMAIN r : r[j].key # k
  BY <1>1 DEF KeysOf
<1>7. Unique(t)
  BY <1>1, <1>2, <1>4, <1>5, <1>6 DEF Unique
<1>8. KeysOf(t) = KeysOf(r) \cup {k}
  BY <1>2, <1>4, <1>5 DEF KeysOf
<1>9. dict_get(t, k) = v
  <2>1. Len(r) + 1 \in DOMAIN t /\ t[Len(r) + 1].key = k /\ t[Len(r) + 1].value = v
    BY <1>2, <1>4, <1>5
  <2> QED
    BY <1>4, <1>7, <2>1, Found
<1> QED
  BY <1>1, <1>3, <1>4, <1>7, <1>8, <1>9

-----------------------------------------------------------------------------
Types == list \in Seq(Entries) /\ alive \in BOOLEAN

LEMMA InitTypes == Init => Types /\ Unique(list)
<1>1. \A S : <<>> \in Seq(S)
  OBVIOUS
<1>2. DOMAIN <<>> = {}
  OBVIOUS
<1> QED
  BY <1>1, <1>2 DEF Init, Types, Unique

LEMMA NextTypes == Types /\ Unique(list) /\ [Next]_vars => Types' /\ Unique(list)'
<1> SUFFICES ASSUME Types, Unique(list), [Next]_vars PROVE Types' /\ Unique(list)'
  OBVIOUS
<1>1. CASE Die
  <2>1. \A S : <<>> \in Seq(S)
    OBVIOUS
  <2>2. DOMAIN <<>> = {}
    OBVIOUS
  <2> QED
    BY <1>1, <2>1, <2>2 DEF Die, Types, Unique
<1>2. ASSUME NEW k \in Keys, NEW v \in Values, Add(k, v), ~RemovesAll(list, k)
      PROVE  Types' /\ Unique(list)'
  <2>1. list' = dict_add(list, k, v) /\ UNCHANGED alive
    BY <1>2 DEF Add
  <2>2. list' \in Seq(Entries) /\ Unique(list')
    BY <1>2, <2>1, Added DEF Types
  <2> QED
    BY <2>1, <2>2 DEF Types, Unique
<1>3. ASSUME NEW k \in Keys, Remove(k), ~RemovesAll(list, k)
      PROVE  Types' /\ Unique(list)'
  <2>1. list' = dict_remove(list, k) /\ UNCHANGED alive
    BY <1>3 DEF Remove
  <2>2. list' \in Seq(Entries) /\ Unique(list')
    BY <1>3, <2>1, Removed DEF Types
  <2> QED
    BY <2>1, <2>2 DEF Types, Unique
<1>4. CASE New \/ UNCHANGED vars
  BY <1>4 DEF New, vars, Types, Unique
<1>5. CASE Free
  BY <1>1, <1>5 DEF Free
<1> QED
  BY <1>1, <1>2, <1>3, <1>4, <1>5 DEF Next, Add, Remove

LEMMA ListTypes == Spec => [](Types /\ Unique(list))
BY InitTypes, NextTypes, PTL DEF Spec

(* After any calls, the ones that move the first entry included, no key is    *)
(* twice in the list.                                                        *)
THEOREM OneEntryPerKey == Spec => []KeysUnique
<1>1. Unique(list) => KeysUnique
  BY DEF Unique, KeysUnique
<1> QED
  BY <1>1, ListTypes, PTL

(* After any calls, dict_add and dict_remove change what dict_get returns for *)
(* their key as their names say, and no other key comes or goes.             *)
THEOREM CallsAsNamed == Spec => CallsDoWhatTheySay
<1> DEFINE Named ==
      alive' =>
        /\ \A k \in Keys, v \in Values :
              Add(k, v) => /\ dict_get(list', k) = v
                           /\ KeysOf(list') = KeysOf(list) \cup {k}
        /\ \A k \in Keys :
              Remove(k) => /\ dict_get(list', k) = NULL
                           /\ KeysOf(list') = KeysOf(list) \ {k}
<1>1. Types /\ Unique(list) => Named
  <2> SUFFICES ASSUME Types, Unique(list), alive' PROVE Named
    OBVIOUS
  <2>1. ASSUME NEW k \in Keys, NEW v \in Values, Add(k, v)
        PROVE  dict_get(list', k) = v /\ KeysOf(list') = KeysOf(list) \cup {k}
    <3>1. ~RemovesAll(list, k) /\ list' = dict_add(list, k, v)
      BY <2>1 DEF Add, Die
    <3> QED
      BY <3>1, Added DEF Types
  <2>2. ASSUME NEW k \in Keys, Remove(k)
        PROVE  dict_get(list', k) = NULL /\ KeysOf(list') = KeysOf(list) \ {k}
    <3>1. ~RemovesAll(list, k) /\ list' = dict_remove(list, k)
      BY <2>2 DEF Remove, Die
    <3>2. KeysOf(list') = KeysOf(list) \ {k}
      BY <3>1, Removed DEF Types
    <3> QED
      BY <3>2, NotFound
  <2> QED
    BY <2>1, <2>2
<1>2. [][Named]_vars <=> CallsDoWhatTheySay
  BY DEF CallsDoWhatTheySay
<1> QED
  BY <1>1, <1>2, ListTypes, PTL

(* A key keeps its value when its entry stays in the list. *)
LEMMA SameValue ==
    ASSUME NEW s \in Seq(Entries), NEW t \in Seq(Entries), Unique(s), Unique(t), NEW k,
           \A i \in DOMAIN s : s[i].key = k => \E j \in DOMAIN t : t[j] = s[i],
           k \in KeysOf(t) => k \in KeysOf(s)
    PROVE  dict_get(t, k) = dict_get(s, k)
<1>1. CASE k \in KeysOf(s)
  <2>1. PICK i \in DOMAIN s : s[i].key = k
    BY <1>1 DEF KeysOf
  <2>2. PICK j \in DOMAIN t : t[j] = s[i]
    BY <2>1
  <2>3. dict_get(s, k) = s[i].value
    BY <2>1, Found
  <2>4. dict_get(t, k) = t[j].value
    BY <2>1, <2>2, Found
  <2> QED
    BY <2>2, <2>3, <2>4
<1>2. CASE k \notin KeysOf(s)
  BY <1>2, NotFound
<1> QED
  BY <1>1, <1>2

(* Taking out another entry than the first leaves the other values.           *)
LEMMA RemovedLater ==
    ASSUME NEW s \in Seq(Entries), Unique(s), NEW k, NEW other, other # k,
           s # <<>> /\ s[1].key = k => FALSE
    PROVE  dict_get(dict_remove(s, k), other) = dict_get(s, other)
<1> DEFINE t == dict_remove(s, k)
<1>1. CASE ~dict_has(s, k)
  BY <1>1 DEF dict_remove
<1>2. CASE dict_has(s, k)
  <2>1. PICK i \in DOMAIN s : s[i].key = k
    BY <1>2 DEF dict_has, KeysOf
  <2>2. Position(s, k) = i
    BY <2>1, Found
  <2>3. DOMAIN s = 1..Len(s) /\ Len(s) \in Nat
    BY Domain
  <2>4. s # <<>> /\ i # 1 /\ i \in 1..Len(s)
    BY <2>1, <2>3
  <2>5. t = Unlink(s, i)
    BY <1>2, <2>2, <2>4 DEF dict_remove
  <2>6. ~RemovesAll(s, k)
    BY <2>3, <2>4 DEF RemovesAll
  <2>7. t \in Seq(Entries) /\ Unique(t) /\ KeysOf(t) = KeysOf(s) \ {k}
    BY <2>6, Removed
  <2>8. /\ Len(Unlink(s, i)) = Len(s) - 1
        /\ \A j \in 1..(Len(s) - 1) :
              Unlink(s, i)[j] = IF j < i THEN s[j] ELSE s[j + 1]
    BY <2>4, Unlinked
  <2> HIDE DEF t
  <2>9. DOMAIN t = 1..(Len(s) - 1)
    BY <2>5, <2>7, <2>8, Domain
  <2>10. ASSUME NEW n \in DOMAIN s, s[n].key = other
         PROVE  \E j \in DOMAIN t : t[j] = s[n]
    <3>1. n # i
      BY <2>1, <2>10
    <3> DEFINE f == IF n < i THEN n ELSE n - 1
    <3>2. f \in DOMAIN t /\ (IF f < i THEN f ELSE f + 1) = n
      BY <2>3, <2>4, <2>9, <3>1
    <3>3. t[f] = s[IF f < i THEN f ELSE f + 1]
      BY <2>5, <2>8, <2>9, <3>2
    <3> QED
      BY <3>2, <3>3
  <2>11. \A n \in DOMAIN s : s[n].key = other => \E j \in DOMAIN t : t[j] = s[n]
    BY <2>10
  <2>12. other \in KeysOf(t) => other \in KeysOf(s)
    BY <2>7
  <2>13. dict_get(t, other) = dict_get(s, other)
    BY <2>7, <2>11, <2>12, SameValue
  <2> QED
    BY <2>13 DEF t
<1> QED
  BY <1>1, <1>2

LEMMA AppendedValue ==
    ASSUME NEW s \in Seq(Entries), Unique(s), NEW e \in Entries, e.key \notin KeysOf(s),
           NEW other, other # e.key
    PROVE  dict_get(Append(s, e), other) = dict_get(s, other)
<1> DEFINE t == Append(s, e)
<1>1. /\ t \in Seq(Entries) /\ Len(t) = Len(s) + 1
      /\ \A j \in 1..Len(s) : t[j] = s[j]
      /\ t[Len(s) + 1] = e
  BY Appended
<1> HIDE DEF t
<1>2. DOMAIN t = 1..(Len(s) + 1) /\ DOMAIN s = 1..Len(s) /\ Len(s) \in Nat
  BY <1>1, Domain
<1>3. \A j \in DOMAIN s : s[j].key # e.key
  BY DEF KeysOf
<1>4. Unique(t)
  BY <1>1, <1>2, <1>3 DEF Unique
<1>5. other \in KeysOf(t) => other \in KeysOf(s)
  BY <1>1, <1>2 DEF KeysOf
<1>6. \A i \in DOMAIN s : s[i].key = other => \E j \in DOMAIN t : t[j] = s[i]
  BY <1>1, <1>2
<1> QED
  BY <1>1, <1>4, <1>5, <1>6, SameValue DEF t

(* Moving the first entry away is what FirstStays excludes. *)
LEMMA FirstKeyStays ==
    ASSUME NEW s \in Seq(Entries), Unique(s), s # <<>>, NEW k, s[1].key = k,
           ~RemovesAll(s, k)
    PROVE  dict_remove(s, k) # <<>> /\ dict_remove(s, k)[1].key # k
<1>1. DOMAIN s = 1..Len(s) /\ Len(s) \in Nat /\ 1 \in DOMAIN s
  BY Domain
<1>2. dict_has(s, k) /\ Position(s, k) = 1
  BY <1>1, Found
<1>3. Len(s) > 1
  BY <1>1, <1>2 DEF RemovesAll
<1>4. dict_remove(s, k) = TakeOverSecond(s)
  BY <1>2 DEF dict_remove
<1>5. TakeOverSecond(s) \in Seq(Entries) /\ LosesKey(s, TakeOverSecond(s), 1)
  BY <1>3, SecondTakenOver
<1>6. Len(TakeOverSecond(s)) = Len(s) - 1 /\ TakeOverSecond(s)[1].key = s[2].key
  BY <1>1, <1>3, <1>5 DEF LosesKey
<1>7. 2 \in DOMAIN s /\ s[2].key # s[1].key
  BY <1>1, <1>3 DEF Unique
<1>8. TakeOverSecond(s) # <<>>
  BY <1>1, <1>3, <1>6
<1> QED
  BY <1>4, <1>6, <1>7, <1>8

LEMMA FirstOfLonger ==
    ASSUME NEW s \in Seq(Entries), s # <<>>, NEW e \in Entries
    PROVE  Append(s, e) # <<>> /\ Append(s, e)[1] = s[1]
BY Appended, Domain

(* The values by key, as KeyMap has them. *)
Held(s) == [k \in Keys |-> dict_get(s, k)]

LEMMA EmptyHolds == Held(<<>>) = [k \in Keys |-> NULL]
<1>1. DOMAIN <<>> = {}
  OBVIOUS
<1>2. \A k : dict_get(<<>>, k) = NULL
  BY <1>1 DEF dict_get, dict_has, KeysOf
<1> QED
  BY <1>2 DEF Held

(* As long as the first entry stays, as it does in the program, each call     *)
(* changes the value of its own key alone, whatever calls came before.        *)
THEOREM MapImplemented == Spec => MapWhileFirstStays
<1>1. Init => Map!Init
  BY EmptyHolds DEF Init, Map!Init, Held
<1>2. Types /\ Unique(list) /\ [Next]_vars
        => (FirstStays => [Map!Next]_[k \in Keys |-> dict_get(list, k)])
  <2> SUFFICES ASSUME Types, Unique(list), [Next]_vars, FirstStays
               PROVE  \/ Held(list') = [k \in Keys |-> NULL]
                      \/ \E k \in Keys, v \in Values \cup {NULL} :
                            Held(list') = [Held(list) EXCEPT ![k] = v]
                      \/ Held(list') = Held(list)
    BY DEF Map!Next, Map!Clear, Map!Put, Held
  <2>1. CASE Die
    BY <2>1, EmptyHolds DEF Die
  <2>2. ASSUME NEW k \in Keys, NEW v \in Values, Add(k, v), ~RemovesAll(list, k)
        PROVE  Held(list') = [Held(list) EXCEPT ![k] = v]
    <3> DEFINE r == dict_remove(list, k)
               e == Entry(k, v)
    <3>1. list' = Append(r, e)
      BY <2>2 DEF Add, dict_add
    <3>2. e \in Entries /\ e.key = k
      BY DEF Entries, Entry
    <3>3. r \in Seq(Entries) /\ Unique(r) /\ KeysOf(r) = KeysOf(list) \ {k}
      BY <2>2, Removed DEF Types
    <3>4. ~(list # <<>> /\ list[1].key = k)
      <4> SUFFICES ASSUME list # <<>>, list[1].key = k PROVE FALSE
        OBVIOUS
      <4>1. r # <<>> /\ r[1].key # k
        BY <2>2, FirstKeyStays DEF Types
      <4>2. list' # <<>> /\ list'[1] = r[1]
        BY <3>1, <3>2, <3>3, <4>1, FirstOfLonger
      <4> QED
        BY <4>1, <4>2 DEF FirstStays
    <3>5. dict_get(list', k) = v
      BY <2>2, Added DEF Add, Types
    <3> HIDE DEF r, e
    <3>6. ASSUME NEW other \in Keys, other # k
          PROVE  dict_get(list', other) = dict_get(list, other)
      <4>1. dict_get(list', other) = dict_get(r, other)
        BY <3>1, <3>2, <3>3, <3>6, AppendedValue
      <4>2. dict_get(r, other) = dict_get(list, other)
        BY <3>4, <3>6, RemovedLater DEF r, Types
      <4> QED
        BY <4>1, <4>2
    <3> QED
      BY <3>5, <3>6 DEF Held
  <2>3. ASSUME NEW k \in Keys, Remove(k), ~RemovesAll(list, k)
        PROVE  Held(list') = [Held(list) EXCEPT ![k] = NULL]
    <3>1. list' = dict_remove(list, k)
      BY <2>3 DEF Remove
    <3>2. KeysOf(list') = KeysOf(list) \ {k}
      BY <2>3, <3>1, Removed DEF Types
    <3>3. ~(list # <<>> /\ list[1].key = k)
      <4> SUFFICES ASSUME list # <<>>, list[1].key = k PROVE FALSE
        OBVIOUS
      <4>1. list' # <<>> /\ list'[1].key # k
        BY <2>3, <3>1, FirstKeyStays DEF Types
      <4> QED
        BY <4>1 DEF FirstStays
    <3>4. dict_get(list', k) = NULL
      BY <3>2, NotFound
    <3>5. ASSUME NEW other \in Keys, other # k
          PROVE  dict_get(list', other) = dict_get(list, other)
      BY <3>1, <3>3, <3>5, RemovedLater DEF Types
    <3> QED
      BY <3>4, <3>5 DEF Held
  <2>4. CASE New \/ UNCHANGED vars
    BY <2>4 DEF New, vars
  <2>5. CASE Free
    BY <2>1, <2>5 DEF Free
  <2>6. \/ Die \/ New \/ Free \/ UNCHANGED vars
        \/ \E k \in Keys, v \in Values : Add(k, v) /\ ~RemovesAll(list, k)
        \/ \E k \in Keys : Remove(k) /\ ~RemovesAll(list, k)
    BY DEF Next, Add, Remove
  <2> QED
    BY <2>1, <2>2, <2>3, <2>4, <2>5, <2>6
<1> QED
  BY <1>1, <1>2, ListTypes, PTL DEF Spec, MapWhileFirstStays
=============================================================================
