--------------------------- MODULE SessionProofs ---------------------------
(***************************************************************************)
(* The session with the broker, for any set of published parameters and any  *)
(* values of theirs: what is in the dictionary, where the cursor of the       *)
(* subscription loop may be, and what is subscribed once the loop is over.    *)
(***************************************************************************)
EXTENDS Session, SequenceTheorems, WellFoundedInduction, TLAPS

-----------------------------------------------------------------------------
(* Induction on a set of numbers: one that has 0 and, with a number, the     *)
(* next one has them all.                                                   *)
LEMMA SetInduction ==
    ASSUME NEW T \in SUBSET Nat, 0 \in T, \A n \in T : n + 1 \in T
    PROVE  T = Nat
<1> DEFINE rest == Nat \ T
           R == OpToRel(<, Nat)
<1>1. IsWellFoundedOn(R, Nat)
  BY NatLessThanWellFounded
<1>2. \A x, y \in Nat : <<y, x>> \in R <=> y < x
  BY DEF OpToRel
<1> HIDE DEF R
<1>3. ASSUME rest # {} PROVE FALSE
  <2>1. PICK x \in rest : \A y \in rest : ~ (<<y, x>> \in R)
    <3>1. rest \subseteq Nat
      OBVIOUS
    <3> HIDE DEF rest
    <3> QED
      BY <1>1, <1>3, <3>1, WFMin
  <2>2. x # 0 /\ x \in Nat
    OBVIOUS
  <2>3. x - 1 \in Nat /\ x - 1 < x
    BY <2>2
  <2>4. x - 1 \in T
    BY <1>2, <2>1, <2>2, <2>3
  <2> QED
    BY <2>2, <2>3, <2>4
<1> QED
  BY <1>3

(* The parameters are added once each. *)
LEMMA OrderOfInit ==
    /\ Len(InitOrder) = 30 /\ DOMAIN InitOrder = 1..30
    /\ \A i, j \in 1..30 : InitOrder[i] = InitOrder[j] => i = j
<1>1. Len(InitOrder) = 30 /\ DOMAIN InitOrder = 1..30
  BY DEF InitOrder
<1>2. \A i, j \in 1..30 : InitOrder[i] = InitOrder[j] => i = j
  BY DEF InitOrder
<1> QED
  BY <1>1, <1>2

(* The one that the subscription loop leaves out is not requested. *)
LEMMA RequestedBeforeTheLast ==
    \A p \in Requested : \E i \in 1..29 : InitOrder[i] = p
BY DEF InitOrder, Requested

ElementsOfOrder == {InitOrder[i] : i \in 1..30}

LEMMA SetOfOrder == ToSet(InitOrder) = ElementsOfOrder
BY OrderOfInit DEF ToSet, ElementsOfOrder

-----------------------------------------------------------------------------
(* The first n entries. *)
First(n) == [i \in 1..n |-> Entry(InitOrder[i], InitOrder[i])]

Entries == [key : ElementsOfOrder, value : ElementsOfOrder]

LEMMA EntryFields ==
    ASSUME NEW S, NEW p \in S
    PROVE  /\ Entry(p, p).key = p /\ Entry(p, p).value = p
           /\ Entry(p, p) \in [key : S, value : S]
BY DEF Entry

LEMMA MakeSeq ==
    ASSUME NEW S, NEW n \in Nat, NEW f \in [1..n -> S]
    PROVE  f \in Seq(S) /\ Len(f) = n
<1>1. f \in Seq(S)
  BY SeqDef
<1>2. DOMAIN f = 1..n /\ DOMAIN f = 1..Len(f) /\ Len(f) \in Nat
  BY <1>1, LenProperties
<1> QED
  BY <1>1, <1>2

LEMMA AppendedIs ==
    ASSUME NEW S, NEW s \in Seq(S), NEW e \in S
    PROVE  Append(s, e) =
               [i \in 1..(Len(s) + 1) |-> IF i = Len(s) + 1 THEN e ELSE s[i]]
<1> DEFINE t == [i \in 1..(Len(s) + 1) |-> IF i = Len(s) + 1 THEN e ELSE s[i]]
<1>1. Len(s) \in Nat /\ \A i \in 1..Len(s) : s[i] \in S
  OBVIOUS
<1>2. t \in [1..(Len(s) + 1) -> S]
  BY <1>1
<1>3. \A i \in 1..(Len(s) + 1) : t[i] = IF i = Len(s) + 1 THEN e ELSE s[i]
  OBVIOUS
<1> HIDE DEF t
<1>4. t \in Seq(S) /\ Len(t) = Len(s) + 1
  BY <1>1, <1>2, MakeSeq
<1>5. Append(s, e) \in Seq(S) /\ Len(Append(s, e)) = Len(s) + 1
  OBVIOUS
<1>6. \A i \in 1..(Len(s) + 1) : Append(s, e)[i] = t[i]
  BY <1>1, <1>3
<1>7. Append(s, e) = t
  BY <1>4, <1>5, <1>6, SeqEqual
<1> QED
  BY <1>7 DEF t

LEMMA FirstSeq ==
    ASSUME NEW n \in 0..30
    PROVE  /\ First(n) \in Seq(Entries) /\ Len(First(n)) = n
           /\ \A i \in 1..n : First(n)[i].key = InitOrder[i]
                              /\ First(n)[i].value = InitOrder[i]
<1>1. \A i \in 1..n : First(n)[i] = Entry(InitOrder[i], InitOrder[i])
  BY DEF First
<1>2. \A i \in 1..n : InitOrder[i] \in ElementsOfOrder
  BY DEF ElementsOfOrder
<1>3. ASSUME NEW i \in 1..n
      PROVE  /\ First(n)[i].key = InitOrder[i] /\ First(n)[i].value = InitOrder[i]
             /\ Entry(InitOrder[i], InitOrder[i]) \in Entries
  <2> DEFINE p == InitOrder[i]
  <2>1. p \in ElementsOfOrder /\ First(n)[i] = Entry(p, p)
    BY <1>1, <1>2
  <2> HIDE DEF p
  <2>2. Entry(p, p).key = p /\ Entry(p, p).value = p /\ Entry(p, p) \in Entries
    BY <2>1, EntryFields DEF Entries
  <2> QED
    BY <2>1, <2>2 DEF p
<1>4. First(n) \in [1..n -> Entries]
  BY <1>3 DEF First
<1>5. n \in Nat
  OBVIOUS
<1> HIDE DEF First
<1>6. First(n) \in Seq(Entries) /\ Len(First(n)) = n
  BY <1>4, <1>5, MakeSeq
<1> QED
  BY <1>3, <1>6

LEMMA FirstAdded ==
    ASSUME NEW n \in 1..30
    PROVE  dict_add(First(n - 1), InitOrder[n], InitOrder[n]) = First(n)
<1> DEFINE s == First(n - 1)
           x == InitOrder[n]
<1>0. n - 1 \in 0..30 /\ n - 1 \in Nat /\ n \in 1..30
  OBVIOUS
<1>1. Len(s) = n - 1 /\ DOMAIN s = 1..(n - 1)
  BY <1>0, FirstSeq DEF First
<1>2. \A i \in 1..(n - 1) : s[i].key = InitOrder[i]
  BY <1>0, FirstSeq
<1>3. \A i \in 1..(n - 1) : InitOrder[i] # x
  <2> SUFFICES ASSUME NEW i \in 1..(n - 1), InitOrder[i] = InitOrder[n] PROVE FALSE
    OBVIOUS
  <2>1. i \in 1..30 /\ i # n
    OBVIOUS
  <2> QED
    BY <2>1, OrderOfInit
<1>4. ~ dict_has(s, x)
  BY <1>1, <1>2, <1>3 DEF dict_has, KeysOf
<1>5. dict_add(s, x, x) = Append(s, Entry(x, x))
  BY <1>4 DEF dict_add, dict_remove
<1>6. Append(s, Entry(x, x)) = First(n)
  <2>1. Append(s, Entry(x, x)) =
            [i \in 1..(Len(s) + 1) |-> IF i = Len(s) + 1 THEN Entry(x, x) ELSE s[i]]
    <3>1. s \in Seq(Entries)
      BY <1>0, FirstSeq
    <3>2. x \in ElementsOfOrder
      BY <1>0 DEF ElementsOfOrder
    <3>3. Entry(x, x) \in Entries
      BY <3>2, EntryFields DEF Entries
    <3> HIDE DEF s, x
    <3> QED
      BY <3>1, <3>3, AppendedIs
  <2>2. Len(s) + 1 = n
    BY <1>1
  <2>3. Append(s, Entry(x, x)) = [i \in 1..n |-> IF i = n THEN Entry(x, x) ELSE s[i]]
    <3> HIDE DEF s, x
    <3> QED
      BY <2>1, <2>2
  <2>4. \A i \in 1..n : (IF i = n THEN Entry(x, x) ELSE s[i])
                           = Entry(InitOrder[i], InitOrder[i])
    BY DEF First
  <2> QED
    BY <2>3, <2>4 DEF First
<1> QED
  BY <1>5, <1>6

(* init_dic makes the list of all of them, in the order of its calls. *)
LEMMA InitDic == init_dic = First(30)
<1> DEFINE D(g, n) == IF n = 0 THEN <<>> ELSE dict_add(g[n - 1], InitOrder[n], InitOrder[n])
           Fills(g) == g = [n \in 0..30 |-> D(g, n)]
           all == [n \in 0..30 |-> First(n)]
<1>1. Fills(all)
  <2>1. \A n \in 0..30 : First(n) = D(all, n)
    <3> SUFFICES ASSUME NEW n \in 0..30 PROVE First(n) = D(all, n)
      OBVIOUS
    <3>1. CASE n = 0
      <4>1. First(0) \in [1..0 -> {}] /\ 1..0 = {}
        BY DEF First
      <4>2. First(0) = <<>>
        BY <4>1
      <4> QED
        BY <3>1, <4>2
    <3>2. CASE n # 0
      <4>1. n \in 1..30 /\ n - 1 \in 0..30
        BY <3>2
      <4>2. all[n - 1] = First(n - 1)
        BY <4>1
      <4> QED
        BY <3>2, <4>1, <4>2, FirstAdded
    <3> QED
      BY <3>1, <3>2
  <2> QED
    BY <2>1
<1>2. Added = CHOOSE g : Fills(g)
  BY OrderOfInit DEF Added
<1>3. Fills(Added)
  <2> HIDE DEF Fills, all
  <2> QED
    BY <1>1, <1>2
<1>4. Added[0] = First(0) /\ \A n \in 0..29 : Added[n] = First(n) => Added[n + 1] = First(n + 1)
  <2>1. Added[0] = D(Added, 0) /\ First(0) = D(all, 0)
    BY <1>1, <1>3
  <2>2. ASSUME NEW n \in 0..29, Added[n] = First(n) PROVE Added[n + 1] = First(n + 1)
    <3>1. n + 1 \in 1..30 /\ (n + 1) - 1 = n /\ n + 1 # 0
      OBVIOUS
    <3>2. n + 1 \in 0..30
      OBVIOUS
    <3>3. \A m \in 0..30 : Added[m] = D(Added, m)
      BY <1>3
    <3>4. Added[n + 1] = D(Added, n + 1)
      <4> HIDE DEF D
      <4> QED
        BY <3>2, <3>3
    <3> QED
      BY <2>2, <3>1, <3>4, FirstAdded
  <2> QED
    BY <2>1, <2>2
<1> DEFINE T == {n \in Nat : n \in 0..30 => Added[n] = First(n)}
<1>5. T = Nat
  <2>1. T \in SUBSET Nat /\ 0 \in T
    BY <1>4
  <2>2. \A n \in T : n + 1 \in T
    BY <1>4
  <2> HIDE DEF T
  <2> QED
    BY <2>1, <2>2, SetInduction
<1>6. 30 \in T
  BY <1>5
<1> QED
  BY <1>6, OrderOfInit DEF init_dic

LEMMA DicFacts ==
    /\ init_dic \in Seq(Entries) /\ Len(init_dic) = 30 /\ DOMAIN init_dic = 1..30
    /\ \A i \in 1..30 : init_dic[i].key = InitOrder[i]
                       /\ init_dic[i].value = InitOrder[i]
<1>1. 30 \in 0..30
  OBVIOUS
<1>2. init_dic \in Seq(Entries) /\ Len(init_dic) = 30
  BY <1>1, InitDic, FirstSeq
<1> QED
  BY <1>1, <1>2, InitDic, FirstSeq, LenProperties

(* What is left of it from the n-th entry on. *)
Rest(n) == SubSeq(init_dic, n, Len(init_dic))

LEMMA Suffix ==
    ASSUME NEW S, NEW s \in Seq(S), NEW n \in 1..Len(s)
    PROVE  /\ SubSeq(s, n, Len(s)) \in Seq(S)
           /\ Len(SubSeq(s, n, Len(s))) = Len(s) - n + 1
           /\ \A j \in 1..(Len(s) - n + 1) : SubSeq(s, n, Len(s))[j] = s[n + j - 1]
           /\ SubSeq(s, n, Len(s)) # <<>>
           /\ Head(SubSeq(s, n, Len(s))) = s[n]
           /\ n < Len(s) => Tail(SubSeq(s, n, Len(s))) = SubSeq(s, n + 1, Len(s))
<1>1. /\ SubSeq(s, n, Len(s)) \in Seq(S)
      /\ Len(SubSeq(s, n, Len(s))) = Len(s) - n + 1
      /\ \A j \in 1..(Len(s) - n + 1) : SubSeq(s, n, Len(s))[j] = s[n + j - 1]
  OBVIOUS
<1>2. /\ SubSeq(s, n, Len(s)) # <<>>
      /\ Head(SubSeq(s, n, Len(s))) = s[n]
  OBVIOUS
<1>3. ASSUME n < Len(s) PROVE Tail(SubSeq(s, n, Len(s))) = SubSeq(s, n + 1, Len(s))
  <2> DEFINE t == SubSeq(s, n, Len(s))
             u == SubSeq(s, n + 1, Len(s))
  <2>0. Len(s) \in Nat /\ n + 1 \in 1..Len(s)
    BY <1>3
  <2>1. u \in Seq(S) /\ Len(u) = Len(s) - n
        /\ \A j \in 1..(Len(s) - n) : u[j] = s[n + j]
    BY <2>0
  <2>2. t \in Seq(S) /\ Len(t) = Len(s) - n + 1 /\ t # <<>>
        /\ \A j \in 1..(Len(s) - n + 1) : t[j] = s[n + j - 1]
    BY <1>1, <1>2
  <2> HIDE DEF t, u
  <2>3. Tail(t) \in Seq(S) /\ Len(Tail(t)) = Len(s) - n
        /\ \A j \in 1..(Len(s) - n) : Tail(t)[j] = t[j + 1]
    BY <2>0, <2>2
  <2>4. \A j \in 1..(Len(s) - n) : j + 1 \in 1..(Len(s) - n + 1) /\ n + (j + 1) - 1 = n + j
    BY <2>0
  <2>5. \A j \in 1..(Len(s) - n) : Tail(t)[j] = u[j]
    BY <2>1, <2>2, <2>3, <2>4
  <2>6. Tail(t) = u
    BY <2>1, <2>3, <2>5, SeqEqual
  <2> QED
    BY <2>6 DEF t, u
<1> QED
  BY <1>1, <1>2, <1>3

LEMMA RestFacts ==
    ASSUME NEW n \in 1..30
    PROVE  /\ Rest(n) \in Seq(Entries) /\ Len(Rest(n)) = 31 - n /\ Rest(n) # <<>>
           /\ Head(Rest(n)).value = InitOrder[n]
           /\ \A j \in 1..(31 - n) : Rest(n)[j] = init_dic[n + j - 1]
           /\ n < 30 => Tail(Rest(n)) = Rest(n + 1)
<1> DEFINE s == init_dic
<1>0. s \in Seq(Entries) /\ Len(s) = 30 /\ s[n].value = InitOrder[n]
  BY DicFacts
<1>1. Rest(n) = SubSeq(s, n, Len(s)) /\ Rest(n + 1) = SubSeq(s, n + 1, Len(s))
  BY DEF Rest
<1> HIDE DEF s
<1>2. n \in 1..Len(s) /\ Len(s) - n + 1 = 31 - n
  BY <1>0
<1>3. /\ SubSeq(s, n, Len(s)) \in Seq(Entries)
      /\ Len(SubSeq(s, n, Len(s))) = Len(s) - n + 1
      /\ \A j \in 1..(Len(s) - n + 1) : SubSeq(s, n, Len(s))[j] = s[n + j - 1]
      /\ SubSeq(s, n, Len(s)) # <<>>
      /\ Head(SubSeq(s, n, Len(s))) = s[n]
      /\ n < Len(s) => Tail(SubSeq(s, n, Len(s))) = SubSeq(s, n + 1, Len(s))
  BY <1>0, <1>2, Suffix
<1>4. \A j \in 1..(31 - n) : Rest(n)[j] = s[n + j - 1]
  BY <1>1, <1>2, <1>3
<1>5. n < 30 => Tail(Rest(n)) = Rest(n + 1)
  BY <1>0, <1>1, <1>3
<1>6. Rest(n) \in Seq(Entries) /\ Len(Rest(n)) = 31 - n /\ Rest(n) # <<>>
      /\ Head(Rest(n)).value = InitOrder[n]
  BY <1>0, <1>1, <1>2, <1>3
<1> QED
  BY <1>4, <1>5, <1>6 DEF s

LEMMA WholeSuffix == ASSUME NEW S, NEW s \in Seq(S) PROVE SubSeq(s, 1, Len(s)) = s
<1> DEFINE t == SubSeq(s, 1, Len(s))
<1>1. t \in Seq(S) /\ Len(t) = Len(s) /\ \A j \in 1..Len(s) : t[j] = s[j]
  OBVIOUS
<1> HIDE DEF t
<1>2. t = s
  BY <1>1, SeqEqual
<1> QED
  BY <1>2 DEF t

LEMMA RestOfAll == Rest(1) = init_dic
BY DicFacts, WholeSuffix DEF Rest

-----------------------------------------------------------------------------
(* The entries the loop has been at when the cursor is on the n-th one. *)
Passed(n) ==
    IF pc = "subscribe" THEN 1..(n - 1)
    ELSE IF pc = "advance" THEN 1..n
    ELSE IF pc \in {"meters", "run"} THEN 1..29 ELSE {}

(* The cursor is on the n-th entry, and the topics of those passed are       *)
(* subscribed unless the connection was lost.                               *)
CursorAt(n) ==
    /\ Parameter_dic = Rest(n)
    /\ pc \notin {"subscribe", "advance"} => n = 1
    /\ pc = "advance" => n < 30
    /\ connected => \A i \in Passed(n) : InitOrder[i] \in subscribed

(* TypeOK but for the cursor. *)
Types ==
    /\ Value \in [Published -> Data \cup {Not_Value}]
    /\ subscribed \subseteq ElementsOfOrder /\ metered \in 0..11
    /\ connected \in BOOLEAN
    /\ requests \subseteq Requested \cap Published
    /\ actual \in [Published -> Data]
    /\ flight \in Seq(Published \X Data)
    /\ pc \in {"connect", "subscribe", "advance", "meters", "run", "exited"}

SInv ==
    /\ Types
    /\ pc \in {"connect", "exited"} => ~connected
    /\ pc = "run" /\ connected => metered = MetersReached
    /\ \E n \in 1..30 : CursorAt(n)

LEMMA SessionInit == Init => SInv
<1> SUFFICES ASSUME Init PROVE SInv
  OBVIOUS
<1>1. Types
  <2>1. flight \in Seq(Published \X Data)
    BY DEF Init
  <2>2. Value \in [Published -> Data \cup {Not_Value}]
    BY DEF Init
  <2>3. connected \in BOOLEAN
    BY DEF Init
  <2>4. metered \in 0..11 /\ subscribed \subseteq ElementsOfOrder
        /\ requests \subseteq Requested \cap Published
    BY DEF Init
  <2>5. actual \in [Published -> Data]
        /\ pc \in {"connect", "subscribe", "advance", "meters", "run", "exited"}
    BY DEF Init
  <2> QED
    BY <2>1, <2>2, <2>3, <2>4, <2>5 DEF Types
<1>2. CursorAt(1)
  BY RestOfAll DEF Init, CursorAt
<1> QED
  BY <1>1, <1>2 DEF Init, SInv

-----------------------------------------------------------------------------
(* The steps that leave the cursor and what is subscribed alone. *)
LEMMA CursorStays ==
    ASSUME SInv, Types',
           UNCHANGED <<Parameter_dic, subscribed, pc, metered>>,
           connected' => connected
    PROVE  SInv'
<1>1. PICK n \in 1..30 : CursorAt(n)
  BY DEF SInv
<1>2. CursorAt(n)'
  BY <1>1 DEF CursorAt, Passed, Rest
<1>3. (pc \in {"connect", "exited"} => ~connected)'
  BY DEF SInv
<1>4. (pc = "run" /\ connected => metered = MetersReached)'
  BY DEF SInv
<1> QED
  BY <1>2, <1>3, <1>4 DEF SInv

LEMMA SentMessage ==
    ASSUME NEW S, NEW s \in Seq(S), NEW e \in S
    PROVE  Append(s, e) \in Seq(S)
OBVIOUS

LEMMA DeliveredMessage ==
    ASSUME NEW S, NEW s \in Seq(S), s # <<>>
    PROVE  Tail(s) \in Seq(S) /\ Head(s) \in S
OBVIOUS

LEMMA ChangeKeeps ==
    ASSUME SInv, NEW p \in Published, NEW data \in Data, Change(p, data)
    PROVE  SInv'
<1>1. actual' \in [Published -> Data]
  BY DEF Change, SInv, Types
<1>2. Types'
  BY <1>1 DEF Change, SInv, Types
<1> QED
  BY <1>2, CursorStays DEF Change

LEMMA TransmitKeeps ==
    ASSUME SInv, NEW p \in Published, Transmit(p),
           requests' \subseteq Requested \cap Published
    PROVE  SInv'
<1>1. <<p, actual[p]>> \in Published \X Data
  BY DEF SInv, Types
<1>2. flight' \in Seq(Published \X Data)
  <2>1. flight \in Seq(Published \X Data)
    BY DEF SInv, Types
  <2>2. flight' = Append(flight, <<p, actual[p]>>)
    BY DEF Transmit
  <2> QED
    BY <1>1, <2>1, <2>2, SentMessage
<1>3. Types'
  BY <1>2 DEF Transmit, SInv, Types
<1> QED
  BY <1>3, CursorStays DEF Transmit

LEMMA msgarrvdKeeps == ASSUME SInv, msgarrvd PROVE SInv'
<1>1. flight \in Seq(Published \X Data) /\ flight # <<>> /\ flight' = Tail(flight)
  BY DEF SInv, Types, msgarrvd
<1>2. flight' \in Seq(Published \X Data) /\ Head(flight) \in Published \X Data
  BY <1>1, DeliveredMessage
<1>3. Head(flight)[2] \in Data
  BY <1>2
<1>4. Value' \in [Published -> Data \cup {Not_Value}]
  <2> DEFINE t == Target(Head(flight)[1])
             d == Head(flight)[2]
  <2>1. Value' = Value \/ Value' = [Value EXCEPT ![t] = d]
    BY DEF msgarrvd
  <2>2. Value \in [Published -> Data \cup {Not_Value}] /\ d \in Data
    BY <1>3 DEF SInv, Types
  <2> HIDE DEF t, d
  <2> QED
    BY <2>1, <2>2
<1>5. Types'
  BY <1>2, <1>4 DEF msgarrvd, SInv, Types
<1> QED
  BY <1>5, CursorStays DEF msgarrvd

LEMMA connlostKeeps == ASSUME SInv, connlost PROVE SInv'
<1>1. Types'
  BY DEF connlost, SInv, Types, outside
<1>2. ~ connected'
  BY DEF connlost
<1> QED
  BY <1>1, <1>2, CursorStays DEF connlost

LEMMA Read_pKeeps == ASSUME SInv, Read_p PROVE SInv'
<1>1. requests' \subseteq Requested \cap Published
  BY DEF Read_p
<1>2. Types'
  BY <1>1 DEF Read_p, SInv, Types
<1> QED
  BY <1>2, CursorStays DEF Read_p

-----------------------------------------------------------------------------
(* The steps of the start-up. *)
LEMMA ConnectKeeps == ASSUME SInv, Connect PROVE SInv'
<1>1. Types'
  BY DEF Connect, Goto, SInv, Types, outside
<1>2. CursorAt(1)'
  <2>1. PICK n \in 1..30 : CursorAt(n)
    BY DEF SInv
  <2>2. n = 1 /\ Parameter_dic = Rest(1)
    BY <2>1 DEF CursorAt, Connect, Goto
  <2>3. pc' = "subscribe" /\ Parameter_dic' = Rest(1)
    BY <2>2 DEF Connect, Goto
  <2> QED
    BY <2>3 DEF CursorAt, Passed, Rest
<1>3. pc' = "subscribe"
  BY DEF Connect, Goto
<1> QED
  BY <1>1, <1>2, <1>3 DEF SInv

LEMMA ConnectFailsKeeps == ASSUME SInv, ConnectFails PROVE SInv'
<1>1. Types'
  BY DEF ConnectFails, Goto, SInv, Types, outside
<1>2. ~ connected' /\ pc' = "exited"
  BY DEF ConnectFails, Goto, SInv
<1>3. PICK n \in 1..30 : CursorAt(n)
  BY DEF SInv
<1>4. CursorAt(n)'
  BY <1>2, <1>3 DEF CursorAt, ConnectFails, Goto, Rest
<1> QED
  BY <1>1, <1>2, <1>4 DEF SInv

LEMMA SubscribeKeeps == ASSUME SInv, Subscribe PROVE SInv'
<1>1. PICK n \in 1..30 : CursorAt(n)
  BY DEF SInv
<1>2. pc = "subscribe" /\ pc' = "advance" /\ Parameter_dic = Rest(n)
      /\ Parameter_dic' = Rest(n) /\ UNCHANGED <<metered, connected>>
  BY <1>1 DEF Subscribe, Goto, CursorAt
<1>3. n < 30
  <2>1. Len(Parameter_dic) = 31 - n
    BY <1>2, RestFacts
  <2>2. Len(Parameter_dic) > 1
    BY DEF Subscribe, MoreEntries
  <2> QED
    BY <2>1, <2>2
<1>4. subscribed' = IF connected THEN subscribed \cup {InitOrder[n]} ELSE subscribed
  BY <1>2, RestFacts DEF Subscribe
<1>5. Types'
  <2>1. InitOrder[n] \in ElementsOfOrder
    BY DEF ElementsOfOrder
  <2>2. subscribed' \subseteq ElementsOfOrder
    BY <1>4, <2>1 DEF SInv, Types
  <2> QED
    BY <2>2 DEF Subscribe, Goto, SInv, Types, outside
<1>6. ASSUME connected, NEW i \in 1..n PROVE InitOrder[i] \in subscribed'
  <2>1. CASE i = n
    BY <1>4, <1>6, <2>1
  <2>2. CASE i # n
    <3>1. i \in 1..(n - 1)
      BY <2>2
    <3>2. InitOrder[i] \in subscribed
      BY <1>1, <1>2, <1>6, <3>1 DEF CursorAt, Passed
    <3> QED
      BY <1>4, <3>2
  <2> QED
    BY <2>1, <2>2
<1>7. CursorAt(n)'
  <2>1. (\A i \in Passed(n) : InitOrder[i] \in subscribed)' \/ ~ connected
    BY <1>2, <1>6 DEF Passed
  <2> QED
    BY <1>2, <1>3, <2>1 DEF CursorAt, Rest
<1> QED
  BY <1>2, <1>5, <1>7 DEF SInv

LEMMA AdvanceKeeps == ASSUME SInv, Advance PROVE SInv'
<1>1. PICK n \in 1..30 : CursorAt(n)
  BY DEF SInv
<1>2. pc = "advance" /\ pc' = "subscribe" /\ n < 30 /\ Parameter_dic = Rest(n)
      /\ UNCHANGED <<subscribed, metered, connected>>
  BY <1>1 DEF Advance, Goto, CursorAt
<1>3. Parameter_dic' = Rest(n + 1)
  BY <1>2, RestFacts DEF Advance
<1>4. Types'
  BY DEF Advance, Goto, SInv, Types, outside
<1>5. n + 1 \in 1..30 /\ (n + 1) - 1 = n
  BY <1>2
<1>6. CursorAt(n + 1)'
  <2>1. Passed(n + 1)' = Passed(n)
    BY <1>2, <1>5 DEF Passed
  <2>2. connected => \A i \in Passed(n) : InitOrder[i] \in subscribed
    BY <1>1 DEF CursorAt
  <2> QED
    BY <1>2, <1>3, <2>1, <2>2 DEF CursorAt, Rest
<1> QED
  BY <1>2, <1>4, <1>5, <1>6 DEF SInv

LEMMA RestoreKeeps == ASSUME SInv, Restore PROVE SInv'
<1>1. PICK n \in 1..30 : CursorAt(n)
  BY DEF SInv
<1>2. pc = "subscribe" /\ pc' = "meters" /\ Parameter_dic = Rest(n)
      /\ Parameter_dic' = init_dic /\ UNCHANGED <<subscribed, metered, connected>>
  BY <1>1 DEF Restore, Goto, CursorAt
<1>3. n = 30
  <2>1. Len(Parameter_dic) = 31 - n
    BY <1>2, RestFacts
  <2>2. ~ (Len(Parameter_dic) > 1)
    BY DEF Restore, MoreEntries
  <2> QED
    BY <2>1, <2>2
<1>4. Types'
  BY DEF Restore, Goto, SInv, Types, outside
<1>5. Passed(1)' = Passed(n)
  BY <1>2, <1>3 DEF Passed
<1>6. CursorAt(1)'
  <2>1. connected => \A i \in Passed(n) : InitOrder[i] \in subscribed
    BY <1>1 DEF CursorAt
  <2>2. Parameter_dic' = Rest(1)'
    BY <1>2, RestOfAll DEF Rest
  <2> QED
    BY <1>2, <1>5, <2>1, <2>2 DEF CursorAt
<1> QED
  BY <1>2, <1>4, <1>6 DEF SInv

LEMMA MetersKeep == ASSUME SInv, sub_energ_counter PROVE SInv'
<1>1. PICK n \in 1..30 : CursorAt(n)
  BY DEF SInv
<1>2. pc = "meters" /\ pc' = "run" /\ UNCHANGED <<Parameter_dic, subscribed, connected>>
      /\ n = 1
  BY <1>1 DEF sub_energ_counter, Goto, CursorAt
<1>3. metered' \in 0..10 /\ (connected => metered' = 10)
  <2>1. CASE connected
    BY <2>1 DEF sub_energ_counter, MetersReached
  <2>2. CASE ~ connected
    BY <2>2 DEF sub_energ_counter, MetersReached
  <2> QED
    BY <2>1, <2>2
<1>4. Types'
  BY <1>3 DEF sub_energ_counter, Goto, SInv, Types, outside
<1>5. CursorAt(1)'
  BY <1>1, <1>2 DEF CursorAt, Passed, Rest
<1> QED
  BY <1>2, <1>3, <1>4, <1>5 DEF SInv, MetersReached

LEMMA SessionStep == SInv /\ [Next]_vars => SInv'
<1> SUFFICES ASSUME SInv, [Next]_vars PROVE SInv'
  OBVIOUS
<1>1. CASE Main
  BY <1>1, ConnectKeeps, ConnectFailsKeeps, SubscribeKeeps, AdvanceKeeps,
     RestoreKeeps, MetersKeep, Read_pKeeps DEF Main
<1>2. ASSUME NEW p \in Published, NEW data \in Data, Change(p, data) PROVE SInv'
  BY <1>2, ChangeKeeps
<1>3. ASSUME NEW p \in Published, Answer(p) PROVE SInv'
  <2>1. requests' \subseteq Requested \cap Published
    BY <1>3 DEF Answer, SInv, Types
  <2> QED
    BY <1>3, <2>1, TransmitKeeps DEF Answer
<1>4. ASSUME NEW p \in Published, Announce(p) PROVE SInv'
  <2>1. requests' \subseteq Requested \cap Published
    BY <1>4 DEF Announce, SInv, Types
  <2> QED
    BY <1>4, <2>1, TransmitKeeps DEF Announce
<1>5. CASE msgarrvd
  BY <1>5, msgarrvdKeeps
<1>6. CASE connlost
  BY <1>6, connlostKeeps
<1>7. CASE UNCHANGED vars
  <2>1. Types'
    BY <1>7 DEF vars, outside, SInv, Types
  <2> QED
    BY <1>7, <2>1, CursorStays DEF vars
<1> QED
  BY <1>1, <1>2, <1>3, <1>4, <1>5, <1>6, <1>7 DEF Next

LEMMA SessionInv == Spec => []SInv
BY SessionInit, SessionStep, PTL DEF Spec

-----------------------------------------------------------------------------
LEMMA SInvTypes == SInv => TypeOK
<1> SUFFICES ASSUME SInv PROVE TypeOK
  OBVIOUS
<1>1. PICK n \in 1..30 : CursorAt(n)
  BY DEF SInv
<1>2. Parameter_dic = SubSeq(init_dic, n, Len(init_dic)) /\ Parameter_dic # <<>>
  BY <1>1, RestFacts DEF CursorAt, Rest
<1>3. n \in DOMAIN init_dic
  BY DicFacts
<1>4. \A i \in DOMAIN flight : flight[i] \in Published \X Data
  <2>1. flight \in Seq(Published \X Data)
    BY DEF SInv, Types
  <2> QED
    BY <2>1
<1>5. metered \in 0..Len(MeterOrder)
  <2>1. Len(MeterOrder) = 11
    BY DEF MeterOrder
  <2> QED
    BY <2>1 DEF SInv, Types
<1>6. subscribed \subseteq ToSet(InitOrder)
  BY SetOfOrder DEF SInv, Types
<1> QED
  BY <1>2, <1>3, <1>4, <1>5, <1>6 DEF SInv, Types, TypeOK

(* The lookup of msgarrvd never starts from a NULL pointer: the cursor of the *)
(* subscription loop is on an entry of the dictionary at every moment, and    *)
(* every variable has its type.                                             *)
THEOREM TypeCorrect == Spec => []TypeOK
BY SessionInv, SInvTypes, PTL

LEMMA MetersOfLoop == {MeterOrder[i] : i \in 1..10} = (0..8) \cup {10}
BY DEF MeterOrder

LEMMA SInvHeard == SInv => HeardWhenRunning
<1> SUFFICES ASSUME SInv, pc = "run", connected
             PROVE  /\ Requested \subseteq subscribed
                    /\ {MeterOrder[i] : i \in 1..metered} = (0..8) \cup {10}
  BY DEF HeardWhenRunning
<1>1. PICK n \in 1..30 : CursorAt(n)
  BY DEF SInv
<1>2. \A i \in 1..29 : InitOrder[i] \in subscribed
  BY <1>1 DEF CursorAt, Passed
<1>3. Requested \subseteq subscribed
  BY <1>2, RequestedBeforeTheLast
<1>4. metered = 10
  BY DEF SInv, MetersReached
<1> QED
  BY <1>3, <1>4, MetersOfLoop

(* A program that runs with its connection up has subscribed to every         *)
(* reading it requests, whenever connections are lost and messages arrive,    *)
(* though the loop never reaches the last entry.                            *)
THEOREM Heard == Spec => []HeardWhenRunning
BY SessionInv, SInvHeard, PTL

-----------------------------------------------------------------------------
(* What the lookup from the cursor finds. *)
LEMMA Lookup ==
    ASSUME NEW n \in 1..30, NEW i \in 1..30
    PROVE  dict_get(Rest(n), InitOrder[i]) = IF i < n THEN NULL ELSE InitOrder[i]
<1> DEFINE d == Rest(n)
           p == InitOrder[i]
<1>1. DOMAIN d = 1..(31 - n)
  BY RestFacts, LenProperties
<1>2. \A j \in 1..(31 - n) : d[j].key = InitOrder[n + j - 1]
                             /\ d[j].value = InitOrder[n + j - 1]
  <2> SUFFICES ASSUME NEW j \in 1..(31 - n)
               PROVE  d[j].key = InitOrder[n + j - 1] /\ d[j].value = InitOrder[n + j - 1]
    OBVIOUS
  <2>1. n + j - 1 \in 1..30
    OBVIOUS
  <2>2. d[j] = init_dic[n + j - 1]
    BY RestFacts
  <2> QED
    BY <2>1, <2>2, DicFacts
<1>3. \A j \in 1..(31 - n) : d[j].key = p => n + j - 1 = i /\ d[j].value = p
  <2> SUFFICES ASSUME NEW j \in 1..(31 - n), d[j].key = p
               PROVE  n + j - 1 = i /\ d[j].value = p
    OBVIOUS
  <2>1. n + j - 1 \in 1..30
    OBVIOUS
  <2> QED
    BY <1>2, <2>1, OrderOfInit
<1>4. CASE i < n
  <2>1. ~ dict_has(d, p)
    BY <1>1, <1>3, <1>4 DEF dict_has, KeysOf
  <2> QED
    BY <1>4, <2>1 DEF dict_get
<1>5. CASE ~ (i < n)
  <2> DEFINE k == i - n + 1
             Stops(j) == d[j].key = p /\ \A m \in 1..(j - 1) : d[m].key # p
  <2>1. k \in 1..(31 - n) /\ n + k - 1 = i
    BY <1>5
  <2>2. d[k].key = p
    BY <1>2, <2>1
  <2>3. \A m \in 1..(k - 1) : d[m].key # p
    <3> SUFFICES ASSUME NEW m \in 1..(k - 1), d[m].key = p PROVE FALSE
      OBVIOUS
    <3>1. m \in 1..(31 - n) /\ n + m - 1 # i
      BY <2>1
    <3> QED
      BY <1>3, <3>1
  <2>4. dict_has(d, p)
    BY <1>1, <2>1, <2>2 DEF dict_has, KeysOf
  <2>5. k \in DOMAIN d /\ Stops(k)
    BY <1>1, <2>1, <2>2, <2>3
  <2>6. Position(d, p) = CHOOSE j \in DOMAIN d : Stops(j)
    BY DEF Position
  <2>7. Position(d, p) \in DOMAIN d /\ Stops(Position(d, p))
    <3> HIDE DEF Stops
    <3> QED
      BY <2>5, <2>6
  <2>8. d[Position(d, p)].value = p
    BY <1>1, <1>3, <2>7
  <2> QED
    BY <1>5, <2>4, <2>8 DEF dict_get
<1> QED
  BY <1>4, <1>5

LEMMA PublishedInOrder == \A p \in Published : \E i \in 1..30 : p = InitOrder[i]
BY SessionAssumption, SetOfOrder DEF ElementsOfOrder

LEMMA OrderNotNull == \A i \in 1..30 : InitOrder[i] # NULL
BY SessionAssumption, SetOfOrder DEF ElementsOfOrder

(* Of a message the value is stored under its own parameter or dropped, and   *)
(* it is dropped only while the subscription loop has moved the cursor past   *)
(* the parameter's entry: neither before nor after the loop.                *)
StoredOrMissed ==
    [][msgarrvd =>
          LET p == Head(flight)[1]
          IN  \/ Value' = [Value EXCEPT ![p] = Head(flight)[2]]
              \/ Value' = Value /\ pc \in {"subscribe", "advance"}]_vars

LEMMA StoredStep ==
    ASSUME SInv, msgarrvd, NEW p, p = Head(flight)[1]
    PROVE  \/ Value' = [Value EXCEPT ![p] = Head(flight)[2]]
           \/ Value' = Value /\ pc \in {"subscribe", "advance"}
<1>1. PICK n \in 1..30 : CursorAt(n)
  BY DEF SInv
<1>2. flight \in Seq(Published \X Data) /\ flight # <<>>
  BY DEF SInv, Types, msgarrvd
<1>3. p \in Published
  BY <1>2, DeliveredMessage
<1>4. PICK i \in 1..30 : p = InitOrder[i]
  BY <1>3, PublishedInOrder
<1>5. Target(p) = IF i < n THEN NULL ELSE p
  BY <1>1, <1>4, Lookup DEF Target, CursorAt
<1>6. p # NULL
  BY <1>4, OrderNotNull
<1>7. i < n => pc \in {"subscribe", "advance"}
  BY <1>1 DEF CursorAt
<1>8. Value' = IF Target(p) = NULL THEN Value
               ELSE [Value EXCEPT ![Target(p)] = Head(flight)[2]]
  BY DEF msgarrvd
<1> QED
  BY <1>5, <1>6, <1>7, <1>8

(* Outside the subscription loop no message of a parameter is dropped, and    *)
(* none is ever stored under another parameter.                             *)
THEOREM StoredOutsideTheLoop == Spec => StoredOrMissed
<1>1. SInv /\ [Next]_vars =>
        [msgarrvd =>
            LET p == Head(flight)[1]
            IN  \/ Value' = [Value EXCEPT ![p] = Head(flight)[2]]
                \/ Value' = Value /\ pc \in {"subscribe", "advance"}]_vars
  BY StoredStep
<1> QED
  BY <1>1, SessionInv, PTL DEF Spec, StoredOrMissed
=============================================================================
